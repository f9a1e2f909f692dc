\* Two request threads of the API record events at the same time.
CONSTANTS
    Processes = {api}
    Threads = {th1, th2}
    Events = {e1, e2}
    Genesis = Genesis
    Garbage = Garbage
SPECIFICATION LogSpec
INVARIANT FileVerifies
CHECK_DEADLOCK FALSE
