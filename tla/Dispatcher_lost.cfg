\* The lost wake-up: a message added while the dispatcher thread is between
\* finding the list empty and clearing the event is never taken.
CONSTANTS
    Msg = {m1}
    HookedMsg = {m1}
    LogMsg = {}
    Exec = exec
    Producer = {main, exec}
    Self = self
    NoMsg = none
SPECIFICATION FairSpec
PROPERTY EveryMessageCalled
CHECK_DEADLOCK FALSE
