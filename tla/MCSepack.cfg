\* The device is not lost while its channels are enumerated.
CONSTANTS
    Users = {u1, u2}
    Nil = Nil
    Unpluggable = FALSE
    MaxConnections = 2
    MaxRequests = 5
    MaxData = 1
    MaxLost = 1
    MaxTorn = 1
SPECIFICATION Spec
CHECK_DEADLOCK FALSE
INVARIANT InOrder
PROPERTIES
    RequestsAreExchanges
    Answered
