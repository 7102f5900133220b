CONSTANTS
    sub = sub
    srv = srv
    SizeModulus = 256
    Owners <- MCServers
    Servers <- MCServers
    Key <- MCSrvKey
    LQSize <- MCSrvLQSize
    Incoming <- MCAnswers
SPECIFICATION Spec
INVARIANTS
    OnlyRequestsAnswered
CHECK_DEADLOCK FALSE
