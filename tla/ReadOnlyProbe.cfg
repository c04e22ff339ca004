\* fuse-ext2.probe --readonly on a device that cannot be written.
SPECIFICATION Spec
CONSTANTS
    f1 = f1
    f2 = f2
    File <- OneFile
    Block <- OneBlock
    OptionLists <- JustRead
    FLUSH_BITMAPS_TIMEOUT = 0
    MaxTime = 1
    Devices = {TRUE, FALSE}
    Faults <- Works
INVARIANTS ReadOnlyProbe
