CONSTANTS
    MaxStarts = 3
SPECIFICATION Spec
INVARIANTS
    TypeOK
    RunningIsAccurate
    TerminatedOnlyBySelfStop
PROPERTIES
    StopReturns
    ImplementsPeriodicCalls
CHECK_DEADLOCK FALSE
