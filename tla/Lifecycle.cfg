CONSTANTS
    MaxOwners = 4
SPECIFICATION Spec
INVARIANTS
    TypeOK
    SafeUntilDestroyed
    TalkerSeesLiveConnection
PROPERTIES
    RunnerLeavesQueuesAlone
    DestructorReturns
CHECK_DEADLOCK FALSE
