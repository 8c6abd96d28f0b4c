\* Two connections on two descriptors, two threads replying and broadcasting.
CONSTANTS
    Conn = {c1, c2}
    Fd = {f1, f2}
    Msg = {m1, m2}
    Sender = {disp, exec}
    Main = main
    Slow = {}
    MaxBatch = 1
    None = none
SPECIFICATION Spec
INVARIANTS TypeOK Delivered NoneStranded
SYMMETRY Symmetry
CHECK_DEADLOCK FALSE
