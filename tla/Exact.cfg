\* Every request; up to three directories or files beside the root.
CONSTANTS
    root = root
    i1 = i1
    i2 = i2
    i3 = i3
    noIno = noIno
    m = m
    n = n
    Ino <- MCIno
    Root = root
    NoIno = noIno
    Block <- Blocks4
    FirstBlock = 1
    Name <- MCName
    SlotsPerBlock = 1
    LinkMod = 8
    Faults <- NoFault
    MknodKinds <- RegOnly
    LinkIntoFull = FALSE
    Requests <- AllRequests
    MaxFileBlocks = 2
SPECIFICATION Spec
SYMMETRY Symm
VIEW InUse
INVARIANTS
    TypeOK
    NoSharedBlocks
    NamesResolve
    NoUndercount
    UniqueNames
    LinkCountsExact
    AccountingExact
    OneTree
PROPERTIES
    SuccessMeansDone
    ErrorsAreAtomic
    RenameMoves
    ImplementsPosixTree
