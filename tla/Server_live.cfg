\* Two connections that use the descriptor in turn, one thread that sends besides
\* the main thread: what is queued is written.
CONSTANTS
    Conn = {c1, c2}
    Fd = {f1}
    Msg = {m1, m2}
    Sender = {disp}
    Main = main
    Slow = {c2}
    MaxBatch = 2
    None = none
SPECIFICATION FairSpec
PROPERTIES QueuedIsWritten
CHECK_DEADLOCK FALSE
