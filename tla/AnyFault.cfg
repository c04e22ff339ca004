CONSTANTS
    root = root
    i1 = i1
    i2 = i2
    i3 = i3
    noIno = noIno
    m = m
    n = n
    Ino <- MCIno3
    Root = root
    NoIno = noIno
    Block <- Blocks2
    FirstBlock = 1
    Name <- MCName
    SlotsPerBlock = 2
    LinkMod = 4
    Faults <- OneOfAny
    MknodKinds <- RegOnly
    LinkIntoFull = FALSE
    Requests <- NameRequests
    MaxFileBlocks = 2
SPECIFICATION Spec
SYMMETRY Symm3
CONSTRAINT Sound
PROPERTIES
    RenameNeverLoses
    DamageIsConfined
    DamageIsReported
