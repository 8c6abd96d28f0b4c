\* Two Plans that are queued, started one after the other and removed; the last
\* step of one of them raises.
CONSTANTS
    Plan = {home, etc}
    PreCmd = {}
    PostCmd = {}
    Keyless = {}
    Remote = {}
    NoTarget = {etc}
    MaxJob = 2
    MaxBus = 2
    Event = {"dequeue"}
    Disp = disp
    Exec = exec
SPECIFICATION Spec
INVARIANTS OneAtATime
CHECK_DEADLOCK FALSE
