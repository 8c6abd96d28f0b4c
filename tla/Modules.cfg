\* Two outputs, one picture; two windows; one processor, one radio; up to three drives; two
\* names; a request with two hooks; up to five runs of a plan; a list of three commands.
CONSTANTS
    Picture = {p}
    Viewer = {1, 2}
    Handle = {1, 2}
    Race = {"forked", "met", "early"}
    Output = {1, 2}
    Builtin = 1
    Automatic = TRUE
    MaxInbox = 1
    Disp = disp
    Exec = exec
    None = none
    Window = {v, w}
    MaxLocks = 2
    Cpus = 1
    Value = {1, 2}
    Maximum = 2
    Radio = {r}
    MaxPosts = 2
    Drives = 3
    Adapters = 11
    Name = {a, b}
    Sub = {x, y}
    Entry = {s}
    Hooks = 2
    Result = {"none", "true", "raise", "dict", "list", "str"}
    Stray = {"own"}
    Cycles = {0, 2}
    Keeps = {0, 1}
    MaxRuns = 5
    Absent = absent
    Commands = 3
SPECIFICATION MCSpec
INVARIANTS ModulesTypeOK BackgroundHolds WindowsThaw SettingsKept DrivesPlaced
    ConfigKept AnswersArrive BackupsRestore CommandsInTurn
CHECK_DEADLOCK FALSE
