\* Two plain observables, one computed, a pipeline from a to b, two threads.
CONSTANTS
    a = a
    b = b
    both = both
    pipe = pipe
    u = u
    p = p
    r = r
    Plain = {a, b}
    Computed = {both}
    Watchers = {pipe, u}
    Threads = {p, r}
    Main = Main
    Tramp = Tramp
    Nil = Nil
    Values = {0, 1}
    Start <- AllZero
    Watched <- WatchA
    Sets <- SetB
    Coalescing = {a, both}
    Result <- Conjunction
    Reads <- ConjunctionReads
    Listens <- ListenToBoth
    MaxWrites = 3
SPECIFICATION Spec
CHECK_DEADLOCK FALSE
INVARIANTS
    EveryChangeHeard
    ComputedFresh
    WatchesWhatItReads
    NoStaleWaiter
    QuietLoop
