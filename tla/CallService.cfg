CONSTANTS
    client = client
    caller = caller
    SizeModulus = 16
    Clients <- MCClients
    QSize <- MCQSize
    Callers <- MCCallers
    ClientOf <- MCClientOf
    Timeout = 2
    MaxCalls = 2
    MaxCopies = 2
    MaxForeign = 1
SPECIFICATION Spec
INVARIANTS
    TypeOK
    CrashOnlyIfOvertaken
PROPERTIES
    NothingOnlyWithoutAnswer
    CallReturns
CHECK_DEADLOCK FALSE
