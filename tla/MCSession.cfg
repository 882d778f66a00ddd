SPECIFICATION Spec
CONSTANTS
    MaxRpcs = 3
    Modes = {"run", "transfer"}
INVARIANTS
    TypeOK
    TransitionsAccepted
    ConfirmedWorkReported
    SuccessDrainsAcs
    UnansweredSetIsLast
PROPERTY ImplementsContract
CHECK_DEADLOCK FALSE
