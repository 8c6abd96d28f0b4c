\* A Backup that is suspended for longer than the timeout of its step is stopped.
CONSTANTS
    Plan = {home}
    PreCmd = {}
    PostCmd = {}
    Keyless = {}
    Remote = {}
    NoTarget = {}
    MaxJob = 1
    MaxBus = 2
    Event = {"suspend", "timeout"}
    Disp = disp
    Exec = exec
SPECIFICATION Spec
PROPERTY SuspendSurvives
CHECK_DEADLOCK FALSE
