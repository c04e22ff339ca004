\* A change, and then no request any more.
SPECIFICATION Spec
CONSTANTS
    f1 = f1
    f2 = f2
    File <- TwoFiles
    Block <- TwoBlocks
    OptionLists <- Forced
    FLUSH_BITMAPS_TIMEOUT = 2
    MaxTime = 8
    Devices = {TRUE}
    Faults <- Works
SYMMETRY Symm
INVARIANTS FlushTimeout
