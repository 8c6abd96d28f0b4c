\* One Backup with every step and both commands, and every request.
CONSTANTS
    Plan = {home}
    PreCmd = {home}
    PostCmd = {home}
    Keyless = {}
    Remote = {home}
    NoTarget = {}
    MaxJob = 1
    MaxBus = 3
    Event = {"stop", "clear", "suspend", "timeout", "down"}
    Disp = disp
    Exec = exec
SPECIFICATION FairSpec
INVARIANTS TypeOK Controlled DoneIsPacked
PROPERTIES JobEnds
CHECK_DEADLOCK FALSE
