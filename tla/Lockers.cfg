CONSTANTS
    Name = {"suspend", "hibernate", "backup"}
    Locker = {1, 2}
    Handle = {1, 2}
    Abilities = {{}, {"suspend", "hibernate", "lid"}}
    MaxInbox = 2
    Race = {"silent", "torn", "hit", "swapped"}
    ExpiryName = {"suspend", "backup"}
    SleepName = {"hibernate"}
    SleepLocker = {1}
    SleepRace = {"silent", "swapped"}
    Disp = disp
    Exec = exec
    None = none
SPECIFICATION MCSpec
INVARIANTS TypeOK ExpiryFits ToldIsHeld SleepEnds
PROPERTIES HibernateByAlarm
CHECK_DEADLOCK FALSE
