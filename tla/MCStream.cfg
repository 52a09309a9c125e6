\* A thread writes to a socket: ExtProc._out_loop to raw-usb's write_usb.
CONSTANTS
    Messages <- FourMessages
    Capacity = 3
    InMain = FALSE
    Raw = FALSE
SPECIFICATION Spec
CHECK_DEADLOCK FALSE
INVARIANTS
    Intact
PROPERTY Arrives
