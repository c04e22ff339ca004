\* One file with any attributes, one failing call in a request at most; statfs on small disks.
SPECIFICATION Spec
CONSTANTS
    f = f
    File <- OneFile
    Mode <- Modes
    Device <- Devices
    Owner <- Owners
    Time <- Times
    Keep = keep
    Super <- Supers
    Faults <- OneFault
VIEW State
INVARIANT TypeOK
PROPERTIES ImplementsPosixAttr StatfsCountsLayout StatfsAddsUp
