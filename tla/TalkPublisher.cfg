CONSTANTS
    pub = pub
    cli = cli
    SizeModulus = 16
    Talkers <- MCPub
    Farewells <- MCPub
    QSize <- MCQSizePub
    MaxPush = 2
SPECIFICATION Spec
INVARIANTS
    TypeOK
    NoUnderflow
    RepeatedOnlyByReset
    HeadLostOnlyByRace
PROPERTIES
    Drains
