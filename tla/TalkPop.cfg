CONSTANTS
    pub = pub
    cli = cli
    SizeModulus = 16
    Talkers <- MCPub
    Farewells <- MCNobody
    QSize <- MCQSizePub
    MaxPush = 2
SPECIFICATION Spec
INVARIANTS
    PopTakesWhatWasSent
