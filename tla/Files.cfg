\* Files, handles and links; one failing call in a request at most.
SPECIFICATION Spec
CONSTANTS
    f = f
    g = g
    a = a
    v1 = v1
    v2 = v2
    File <- TwoFiles
    Handle <- OneHandle
    NoHandle = noHandle
    Block <- Blocks2
    NoBlock = noBlock
    Value <- TwoValues
    Zero = zero
    MaxPages = 2
    Extents = FALSE
    HeaderBlock = 0
    Faults <- OneSite
SYMMETRY Symm
VIEW State
CHECK_DEADLOCK FALSE
INVARIANTS TypeOK BlocksExact
PROPERTIES LossIsReported CleanServes ImplementsPosixFile
