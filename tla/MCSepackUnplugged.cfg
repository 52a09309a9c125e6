\* The device may be lost at any time.
CONSTANTS
    Users = {u1, u2}
    Nil = Nil
    Unpluggable = TRUE
    MaxConnections = 2
    MaxRequests = 5
    MaxData = 1
    MaxLost = 0
    MaxTorn = 0
SPECIFICATION Spec
CHECK_DEADLOCK FALSE
INVARIANT NoExit
