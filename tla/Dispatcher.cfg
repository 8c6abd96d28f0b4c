\* Three messages, one of each kind; two producers, and the dispatcher's own hooks
\* as a third.
CONSTANTS
    Msg = {m1, m2, m3}
    HookedMsg = {m1}
    LogMsg = {m2}
    Exec = exec
    Producer = {main, exec}
    Self = self
    NoMsg = none
SPECIFICATION FairSpec
INVARIANTS TypeOK Conservation
PROPERTIES BusSpec Wakes
CHECK_DEADLOCK FALSE
