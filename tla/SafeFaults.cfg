\* Every request, with one failing call of the safe ones at most.
CONSTANTS
    root = root
    i1 = i1
    i2 = i2
    i3 = i3
    noIno = noIno
    m = m
    n = n
    Ino <- MCIno3
    Root = root
    NoIno = noIno
    Block <- Blocks3
    FirstBlock = 1
    Name <- MCName
    SlotsPerBlock = 2
    LinkMod = 4
    Faults <- OneSafe
    MknodKinds <- RegOnly
    LinkIntoFull = FALSE
    Requests <- AllRequests
    MaxFileBlocks = 2
SPECIFICATION Spec
SYMMETRY Symm3
VIEW InUse
INVARIANTS
    NoSharedBlocks
    NamesResolve
    NoUndercount
    UniqueNames
PROPERTIES
    SuccessMeansDone
