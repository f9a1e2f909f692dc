\* One process with one thread; writes fail and the process crashes and restarts.
CONSTANTS
    Processes = {api}
    Threads = {th1}
    Events = {e1, e2, e3, e4}
    Genesis = Genesis
    Garbage = Garbage
SPECIFICATION LogSpec
INVARIANT FileVerifies
PROPERTY RestartKeepsReturned
PROPERTY ImplementsOneLog
CHECK_DEADLOCK FALSE
