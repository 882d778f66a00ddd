SPECIFICATION Spec
CONSTANTS
    MaxRpcs = 2
    Modes = {"transfer"}
INVARIANT AcknowledgedRebootReported
CHECK_DEADLOCK FALSE
