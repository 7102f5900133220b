CONSTANTS
    pub = pub
    cli = cli
    SizeModulus = 16
    Talkers <- MCPub
    Farewells <- MCPub
    QSize <- MCQSizePub
    MaxPush = 1
SPECIFICATION Spec
INVARIANTS
    DeclaredBeforeData
