\* Any options, and when the bitmap is written: requests, idle times, unmounts, crashes.
SPECIFICATION Spec
CONSTANTS
    f1 = f1
    f2 = f2
    File <- TwoFiles
    Block <- TwoBlocks
    OptionLists <- AnyList
    FLUSH_BITMAPS_TIMEOUT = 2
    MaxTime = 8
    Devices = {TRUE, FALSE}
    Faults <- OneOther
SYMMETRY Symm
INVARIANTS TypeOK ModeAsDocumented FlushedInTime SharingNeedsLoss
PROPERTIES DeviceUntouched
