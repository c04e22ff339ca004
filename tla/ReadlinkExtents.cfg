\* A file system with extents, and no call that fails: what readlink makes of i_block[0].
SPECIFICATION Spec
CONSTANTS
    f = f
    g = g
    a = a
    v1 = v1
    v2 = v2
    File <- TwoFiles
    Handle <- OneHandle
    NoHandle = noHandle
    Block <- Blocks2
    NoBlock = noBlock
    Value <- TwoValues
    Zero = zero
    MaxPages = 2
    Extents = TRUE
    HeaderBlock = 2
    Faults <- Works
SYMMETRY Symm
VIEW State
CHECK_DEADLOCK FALSE
PROPERTY ReadlinkReturnsTarget
