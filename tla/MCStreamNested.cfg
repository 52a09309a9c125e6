\* Event handlers write to a socket: raw-usb's read_cb to ExtProc._in_loop.
CONSTANTS
    Messages <- TwoMessages
    Capacity = 3
    InMain = TRUE
    Raw = FALSE
SPECIFICATION Spec
CHECK_DEADLOCK FALSE
INVARIANT NoFramingError
