\* Two tasks, two processes, one of them without callback.
CONSTANTS
    Task = {t1, t2}
    Proc = {p1, p2}
    Silent = {p2}
    Disp = disp
    Runner = exec
    NoTask = none
SPECIFICATION FairExecuterSpec
INVARIANTS ExecuterTypeOK CancelIsFinal CalledOnce
PROPERTIES ExitNoticed TaskRuns
CHECK_DEADLOCK FALSE
