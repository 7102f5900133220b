CONSTANTS
    pub = pub
    cli = cli
    SizeModulus = 16
    Talkers <- MCCli
    Farewells <- MCNobody
    QSize <- MCQSizeCli
    MaxPush = 3
SPECIFICATION Spec
INVARIANTS
    NothingLostWithoutOutage
    PopTakesAnotherOnlyByOverflow
PROPERTIES
    InOrder
    ImplementsConnection
