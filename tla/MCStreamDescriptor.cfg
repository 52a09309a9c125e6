\* A thread writes to a descriptor that does not block: a serial port.
CONSTANTS
    Messages <- TwoMessages
    Capacity = 3
    InMain = FALSE
    Raw = TRUE
SPECIFICATION Spec
CHECK_DEADLOCK FALSE
INVARIANT NoFramingError
