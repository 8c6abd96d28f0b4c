\* Two VMs of one id, and a device; three requests in every order while the executer visits
\* the VMs and their processes exit.  The requests are bounded, so the system may stop once
\* the executer has ended.
CONSTANTS
    Vmid = {v1}
    Object = {1, 2}
    Process = {1, 2}
    Device = {d1}
    Request = {"stop", "soft", "sleep", "hibernate", "usb", "shutdown"}
    WaitTime = 2
    MaxHooks = 3
    Race = {"again", "overlap", "undone", "failed", "late", "unready", "kept"}
    Disp = disp
    Exec = exec
    None = none
SPECIFICATION FairSpec
INVARIANTS TypeOK Accounted Released
PROPERTIES DownIsEmpty ExitCleaned
CHECK_DEADLOCK FALSE
