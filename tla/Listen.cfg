CONSTANTS
    sub = sub
    srv = srv
    SizeModulus = 16
    Owners <- MCOwners
    Servers <- MCServers
    Key <- MCKey
    LQSize <- MCLQSize
    Incoming <- MCIncoming
SPECIFICATION Spec
INVARIANTS
    TypeOK
    NoUnderflow
    CalledInOrder
    NothingSkipped
    OneLateCallback
    OutboxInOrder
PROPERTIES
    QuietAfterDestructor
    DestructorReturns
CHECK_DEADLOCK FALSE
