CONSTANTS
    root = root
    i1 = i1
    i2 = i2
    i3 = i3
    noIno = noIno
    m = m
    n = n
    Ino <- MCIno3
    Root = root
    NoIno = noIno
    Block <- Blocks3
    FirstBlock = 1
    Name <- MCName
    SlotsPerBlock = 1
    LinkMod = 8
    Faults <- OneUnlink
    MknodKinds <- RegAndDev
    LinkIntoFull = FALSE
    Requests <- AllRequests
    MaxFileBlocks = 2
SPECIFICATION Spec
SYMMETRY Symm3
PROPERTY RenameMoves
