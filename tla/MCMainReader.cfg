\* The main thread waits for a mailbox that a thread fills.
CONSTANTS
    r = r
    p = p
    w = w
    a = a
    b = b
    Threads = {r, p, w}
    Main = Main
    Tramp = Tramp
    Calls = {}
    Mailboxes = {a}
    Idle = Idle
    Kill = Kill
    Tick = Tick
    Nil = Nil
    Readers <- MainReader
    KillAt = {}
    MaxMsgs = 2
SPECIFICATION Spec
CHECK_DEADLOCK FALSE
INVARIANTS
    Delivery
