\* Both sources of power, a sleep whose messages may be swapped, and no failed lock command.
CONSTANTS
    Screen = {1, 2}
    ClientHandle = {1, 2}
    PowerCan = {"lock", "suspend"}
    BatteryCan = {"lock", "key", "hibernate"}
    Reports = {{}, {"suspend"}, {"hibernate"}}
    ClientInbox = 1
    ClientRace = {"late", "twin", "twice", "stray", "undimmed", "emptied"}
    Disp = disp
    Exec = exec
    None = none
SPECIFICATION ClientSpec
INVARIANTS ClientTypeOK LockUndone
PROPERTIES LockStays
CHECK_DEADLOCK FALSE
