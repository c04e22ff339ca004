\* The mount helper, up to three mounts of others.  It stops when it is done.
SPECIFICATION Spec
CONSTANTS
    Timeout = 3
    MaxOthers = 3
INVARIANTS
    TypeOK
    HonestEnd
PROPERTIES
    EndsAfterCommand
CHECK_DEADLOCK FALSE
