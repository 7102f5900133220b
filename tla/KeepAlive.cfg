\* One unit of time is half a second.
CONSTANTS
    Period = 2
    Drift = 1
    MaxInterval = 4
    OpenTimeout = 7
    CloseTimeout = 1
    Pause = 2
    RoundTrip = 1
    CallbackTime = 1
SPECIFICATION Spec
INVARIANTS
    TypeOK
    DanglingOnlyAfterThrow
    MissedOnlyByThrow
    SilenceBounded
PROPERTIES
    ImplementsConnection
    AnsweringPeerKept
    SilentPeerReplaced
    Redials
    RunnerEndsAfterShutdown
CHECK_DEADLOCK FALSE
