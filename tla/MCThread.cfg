\* Threads that send, receive, sleep, start and kill each other.
CONSTANTS
    r = r
    p = p
    w = w
    a = a
    b = b
    Threads = {r, p, w}
    Main = Main
    Tramp = Tramp
    Calls = {}
    Mailboxes = {a}
    Idle = Idle
    Kill = Kill
    Tick = Tick
    Nil = Nil
    Readers <- OneReader
    KillAt = {"recv", "recvone", "sleep", "dead"}
    MaxMsgs = 2
SPECIFICATION Spec
CHECK_DEADLOCK FALSE
SYMMETRY Senders
INVARIANTS
    TypeOK
    Registration
    BusyIsRunnable
    Delivery
    NoStrandedMessage
    SleepersHaveTimers
    Drained
    NoExit
PROPERTIES
    WakesOnlyWhenReady
    KilledForGood
    QueuesAreChannels
