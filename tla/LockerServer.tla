----------------------------- MODULE LockerServer -----------------------------
(***************************************************************************)
(* lib/modules/locker.py, LockerServer: the inhibitors ("Lockers") of the  *)
(* daemon, and its part in suspend and hibernate.                          *)
(*                                                                         *)
(* The dispatcher thread handles requests, one message at a time; the      *)
(* executer thread removes Lockers that expire, tells the clients when     *)
(* _update is set, and reads the lid switch, every second.  They share     *)
(* _lockers, _update, _backoff and the two flags without a lock.  A task   *)
(* the scheduler has taken from its queue can no longer be cancelled       *)
(* (Executer).                                                             *)
(***************************************************************************)
EXTENDS Threads, Naturals, Sequences, SequencesExt

CONSTANTS
    Name,        \* Lockers that may be set, of "suspend", "hibernate", "lid", "backup"
    Locker,      \* Locker objects (bounds those alive at a time)
    Handle,      \* tasks that end a backoff (bounds those alive at a time)
    Abilities,   \* what the client may report: sets of "suspend", "hibernate", "lid"
    MaxInbox,    \* bounds the messages of systemd that wait
    Race         \* races that a behaviour records, of "silent", "torn", "hit", "swapped"

ASSUME LockerAssumption ==
    /\ Name # {} /\ Name \subseteq {"suspend", "hibernate", "lid", "backup"}
    /\ Abilities \subseteq SUBSET {"suspend", "hibernate", "lid"}
    /\ MaxInbox \in Nat
    /\ Race \subseteq {"silent", "torn", "hit", "swapped"}
    /\ Disp # Exec
    /\ None \notin Locker \cup Handle /\ None \notin {"suspend", "hibernate"}

VARIABLES
    table,       \* _lockers
    name,        \* the name of each Locker object
    task,        \* its expiry: "none" (no timeout), "queued", "taken" by the scheduler,
                 \* or "closed", when the object is given up
    update,      \* _update
    told,        \* the names the clients were last told
    ability,     \* _ability
    backoff,     \* _backoff
    timers,      \* the queued tasks that end a backoff
    suspending,  \* _suspending
    hibernating, \* _hibernating
    alarm,       \* _wake_alarm
    rtc,         \* the wake alarm of the hardware: "off", "armed" or "fired"
    woken,       \* history: what the alarm has done since the daemon last handled the begin
                 \* or the end of a sleep: nothing ("no"), woken the system ("woke"), fired
                 \* while it did not sleep ("early"), or either before another sleep ("past")
    power,       \* the system: "awake", "leaving" or "asleep"
    goal,        \* what systemd was asked for: None, "suspend" or "hibernate"
    inbox,       \* messages of systemd that wait in the dispatcher
    pc,          \* where each thread is
    work,        \* the Locker object each thread closes
    entry,       \* the Locker the dispatcher sets: its name, has it a timeout?, and
                 \* where the dispatcher goes when it has removed the one before
    sweep,       \* reload: the Lockers found at its begin, and those still to be closed
    history      \* the races that have happened: see Raced

lockerVars == <<table, name, task>>
clientVars == <<update, told, ability>>
sleepVars == <<suspending, hibernating, alarm>>
timerVars == <<backoff, timers>>
systemVars == <<rtc, woken, power, goal, inbox>>
argVars == <<work, entry, sweep>>
vars == <<lockerVars, clientVars, sleepVars, timerVars, systemVars, argVars, pc, history>>

\* "silent": the table was changed and nobody will be told; "torn": a reload failed
\* half-way; "hit": an expiring Locker has removed another one of its name;
\* "swapped": the end of a sleep was handled while the begin of one was still to come.
Raced(r, happened) == IF happened THEN history \cup ({r} \cap Race) ELSE history

Held == {n \in Name : table[n] # None}
Listed == {table[n] : n \in Held}

NoEntry == [name |-> None, limit |-> FALSE, next |-> "idle"]

Init ==
    /\ table = [n \in Name |-> None]
    /\ name = [l \in Locker |-> CHOOSE n \in Name : TRUE]
    /\ task = [l \in Locker |-> "closed"]
    /\ update = FALSE /\ told = {}
    /\ ability \in Abilities
    /\ backoff = None /\ timers = {}
    /\ suspending = FALSE /\ hibernating = FALSE /\ alarm = FALSE
    /\ rtc = "off" /\ woken = "no" /\ power = "awake" /\ goal = None /\ inbox = <<>>
    /\ pc = [t \in Thread |-> "idle"]
    /\ work = [t \in Thread |-> None]
    /\ entry = NoEntry /\ sweep = <<{}, {}>>
    /\ history = {}

At(t, place) == pc[t] = place /\ power # "asleep"     \* nothing runs while it sleeps

Goto(t, place) == pc' = [pc EXCEPT ![t] = place]

-----------------------------------------------------------------------------
(* The dispatcher: _locker_add() and _locker_remove().                     *)

Endless(l) == task[l] \in {"none", "closed"}     \* its field expire is None

\* Not when the name is held, unless forced; nor when both have no timeout.  (Two with
\* one are never equal: the new time is a duration, that of the Locker a date.)
Add(n, limit, force) ==
    /\ At(Disp, "idle")
    /\ n \in Held => force /\ (limit \/ ~Endless(table[n]))
    /\ entry' = [name |-> n, limit |-> limit, next |-> "store"]
    /\ Goto(Disp, IF n \in Held THEN "pop" ELSE "store")
    /\ UNCHANGED <<lockerVars, clientVars, sleepVars, timerVars, systemVars, work, sweep,
                   history>>

Drop(n) ==     \* forced, with a time of 0 or False
    /\ At(Disp, "idle")
    /\ entry' = [name |-> n, limit |-> FALSE, next |-> "mark"]
    /\ Goto(Disp, "pop")
    /\ UNCHANGED <<lockerVars, clientVars, sleepVars, timerVars, systemVars, work, sweep,
                   history>>

\* Mutated: the Locker is looked up and left in the table.
Looked(n) == table

Popped(n) == [table EXCEPT ![n] = None]

PopName ==
    /\ At(Disp, "pop")
    /\ LET n == entry.name
           place == IF n \in Held THEN "close"
                    ELSE IF entry.next = "mark" THEN "idle" ELSE entry.next
       IN  /\ work' = [work EXCEPT ![Disp] = table[n]]
           /\ table' = Popped(n)
           /\ entry' = IF place = "idle" THEN NoEntry ELSE entry
           /\ Goto(Disp, place)
    /\ UNCHANGED <<name, task, clientVars, sleepVars, timerVars, systemVars, sweep, history>>

Closed(l) == [task EXCEPT ![l] = "closed"]

\* Mutated: the thread still works on the Locker.
CloseHolds ==
    /\ At(Disp, "close")
    /\ task' = Closed(work[Disp])
    /\ Goto(Disp, entry.next)
    /\ UNCHANGED <<table, name, clientVars, sleepVars, timerVars, systemVars, argVars, history>>

\* Cancelling has no effect on a task the scheduler has taken.
Close ==
    /\ At(Disp, "close")
    /\ task' = Closed(work[Disp])
    /\ work' = [work EXCEPT ![Disp] = None]
    /\ history' = Raced("silent", entry.next = "arm")
    /\ Goto(Disp, entry.next)
    /\ UNCHANGED <<table, name, clientVars, sleepVars, timerVars, systemVars, entry,
                   sweep>>

Free(l) == l \notin Listed /\ task[l] = "closed" /\ \A t \in Thread : work[t] # l

\* The Locker is made and stored: its task is not due within the same second.
Store ==
    /\ At(Disp, "store")
    /\ \E l \in Locker : Free(l)
    /\ LET l == CHOOSE k \in Locker : Free(k)
       IN  /\ table' = [table EXCEPT ![entry.name] = l]
           /\ name' = [name EXCEPT ![l] = entry.name]
           /\ task' = [task EXCEPT ![l] = IF entry.limit THEN "queued" ELSE "none"]
    /\ Goto(Disp, "mark")
    /\ UNCHANGED <<clientVars, sleepVars, timerVars, systemVars, argVars, history>>

\* Mutated: _update is set only for a Locker that is added.
MarkAdded == update \/ (entry.name # "backup" /\ entry.next = "store")

Marked == update \/ entry.name # "backup"

Mark ==     \* lost when the executer is about to clear _update
    /\ At(Disp, "mark")
    /\ update' = Marked
    /\ history' = Raced("silent", pc[Exec] = "clear")
    /\ entry' = NoEntry
    /\ Goto(Disp, "idle")
    /\ UNCHANGED <<lockerVars, told, ability, sleepVars, timerVars, systemVars, work, sweep>>

Config(a) ==     \* update(): a client reports its abilities
    /\ At(Disp, "idle")
    /\ ability' = a
    /\ UNCHANGED <<lockerVars, update, told, sleepVars, timerVars, systemVars, argVars, pc,
                   history>>

-----------------------------------------------------------------------------
(* The dispatcher: reload() of everything.                                 *)

ReloadBegin ==
    /\ At(Disp, "idle")
    /\ sweep' = <<Listed, Listed>>
    /\ Goto(Disp, "reload")
    /\ UNCHANGED <<lockerVars, clientVars, sleepVars, timerVars, systemVars, work, entry,
                   history>>

\* Iterating a dict that changed its size raises RuntimeError.
ReloadNext ==
    /\ At(Disp, "reload")
    /\ \/ /\ Listed # sweep[1]
          /\ Goto(Disp, "idle")
          /\ history' = Raced("torn", sweep[1] # sweep[2])
          /\ sweep' = <<{}, {}>>
          /\ UNCHANGED task
       \/ /\ Listed = sweep[1]
          /\ \E l \in sweep[2] : task' = Closed(l) /\ sweep' = <<sweep[1], sweep[2] \ {l}>>
          /\ UNCHANGED <<pc, history>>
       \/ /\ Listed = sweep[1] /\ sweep[2] = {}
          /\ Goto(Disp, "empty")
          /\ UNCHANGED <<task, sweep, history>>
    /\ UNCHANGED <<table, name, clientVars, sleepVars, timerVars, systemVars, work, entry>>

ReloadClear ==     \* _update = False, then the lid switch is opened anew
    /\ At(Disp, "empty")
    /\ table' = [n \in Name |-> None]
    /\ update' = FALSE
    /\ history' = Raced("silent", TRUE)
    /\ sweep' = <<{}, {}>>
    /\ Goto(Disp, "screen")
    /\ UNCHANGED <<name, task, told, ability, sleepVars, timerVars, systemVars, work, entry>>

-----------------------------------------------------------------------------
(* The dispatcher: messages of systemd before and after a sleep.           *)

Take(m) ==     \* last first (Dispatcher)
    /\ At(Disp, "idle")
    /\ inbox # <<>>
    /\ Last(inbox) = m
    /\ inbox' = Front(inbox)

\* suspend(MSG_PRE) and _wake_set(): a Hibernate Locker is removed when it expires
\* before the alarm would wake the system.
PreSuspend ==
    /\ Take(<<"suspend", "pre">>)
    /\ alarm' = FALSE
    /\ hibernating' = FALSE
    /\ suspending' = TRUE
    /\ woken' = "no"
    /\ \/ /\ suspending \/ "hibernate" \in Held \/ "hibernate" \notin ability
          /\ UNCHANGED <<entry, pc>>
       \/ /\ ~suspending /\ "hibernate" \in ability
          /\ "hibernate" \in Held => ~Endless(table["hibernate"])
          /\ entry' = [name |-> "hibernate", limit |-> FALSE, next |-> "arm"]
          /\ Goto(Disp, IF "hibernate" \in Held THEN "pop" ELSE "arm")
    /\ UNCHANGED <<lockerVars, clientVars, timerVars, rtc, power, goal, work, sweep, history>>

\* Mutated: the flag is set before the alarm is written.
ArmFirst ==
    /\ At(Disp, "arm")
    /\ alarm' = TRUE
    /\ rtc' \in {"armed", "off", rtc}
    /\ entry' = NoEntry
    /\ Goto(Disp, "idle")
    /\ UNCHANGED <<lockerVars, clientVars, suspending, hibernating, timerVars, woken, power,
                   goal, inbox, work, sweep, history>>

\* The write may fail, or fail after an old alarm (EBUSY) was reset.
Arm ==
    /\ At(Disp, "arm")
    /\ \/ rtc' = "armed" /\ alarm' = TRUE
       \/ rtc' \in {"off", rtc} /\ UNCHANGED alarm
    /\ entry' = NoEntry
    /\ Goto(Disp, "idle")
    /\ UNCHANGED <<lockerVars, clientVars, suspending, hibernating, timerVars, woken, power,
                   goal, inbox, work, sweep, history>>

Kind == {"suspend", "hibernate"}

\* What was swapped is over when the flags are reset and no begin is to come.
Swaps ==
    history' = IF \E kind \in Kind : <<kind, "pre">> \in Range(inbox') THEN Raced("swapped", TRUE)
               ELSE IF suspending' \/ hibernating' THEN history
               ELSE history \ {"swapped"}

\* Mutated: not when the system is about to hibernate.
AwokenByUser == suspending' = alarm /\ hibernating' = FALSE

Awoken == suspending' = FALSE /\ hibernating' = FALSE

Asked(kind) == goal' = IF goal = None THEN kind ELSE goal     \* systemctl, one job at a time

\* _wake_check(): was the system woken by the alarm?  Unless it fires it is reset.  The
\* file may be unreadable, which counts as no.
WakeCheck(fired) ==
    LET checked == alarm /\ "hibernate" \in ability \ Held
    IN  \/ fired /\ checked /\ rtc # "armed" /\ UNCHANGED rtc
        \/ ~fired /\ rtc' \in IF checked /\ rtc = "armed" THEN {"off", rtc} ELSE {rtc}

PostSuspend ==     \* suspend(MSG_POST): hibernate when the alarm has woken the system
    /\ Take(<<"suspend", "post">>)
    /\ \/ /\ ~suspending
          /\ Goto(Disp, "idle") /\ UNCHANGED <<sleepVars, rtc, woken, goal>>
       \/ /\ suspending
          /\ Awoken
          /\ alarm' = FALSE /\ woken' = "no"
          /\ \/ WakeCheck(TRUE) /\ Asked("hibernate") /\ Goto(Disp, "idle")
             \/ WakeCheck(FALSE) /\ Goto(Disp, "cancel") /\ UNCHANGED goal
    /\ Swaps
    /\ UNCHANGED <<lockerVars, clientVars, timerVars, power, argVars>>

PreHibernate ==
    /\ Take(<<"hibernate", "pre">>)
    /\ alarm' = FALSE
    /\ suspending' = FALSE
    /\ hibernating' = TRUE
    /\ woken' = "no"
    /\ UNCHANGED <<lockerVars, clientVars, timerVars, rtc, power, goal, argVars, pc, history>>

PostHibernate ==
    /\ Take(<<"hibernate", "post">>)
    /\ alarm' = FALSE /\ woken' = "no"
    /\ IF hibernating
       THEN Awoken /\ Goto(Disp, "cancel")
       ELSE UNCHANGED <<suspending, hibernating, pc>>
    /\ Swaps
    /\ UNCHANGED <<lockerVars, clientVars, timerVars, rtc, power, goal, argVars>>

\* Both then begin a new backoff and call screen(), which does nothing during one.
Cancel ==
    /\ At(Disp, "cancel")
    /\ timers' = timers \ {backoff}
    /\ Goto(Disp, "restart")
    /\ UNCHANGED <<lockerVars, clientVars, sleepVars, backoff, systemVars, argVars, history>>

Unused == Handle \ (timers \cup {backoff})

StartBackoff(t, place) ==
    /\ Unused # {}
    /\ backoff' = CHOOSE h \in Unused : TRUE
    /\ timers' = timers \cup {backoff'}
    /\ Goto(t, place)
    /\ UNCHANGED <<lockerVars, clientVars, sleepVars, systemVars, argVars, history>>

Restart == At(Disp, "restart") /\ StartBackoff(Disp, "screen")

-----------------------------------------------------------------------------
(* Both threads: screen() and _suspend().                                  *)

Step(t, place) ==
    /\ Goto(t, place)
    /\ UNCHANGED <<lockerVars, clientVars, sleepVars, timerVars, systemVars, argVars, history>>

ScreenMessage == At(Disp, "idle") /\ Step(Disp, "screen")     \* HOOK_MONITOR, HOOK_POWER

ScreenTest(t) == At(t, "screen") /\ Step(t, IF backoff = None THEN "screened" ELSE "idle")

ScreenSet(t) == At(t, "screened") /\ StartBackoff(t, "idle")

\* What _suspend() runs, if anything.
Command(lid) ==
    IF backoff # None THEN None
    ELSE IF "suspend" \in ability
         THEN IF lid \/ Held \cap {"suspend", "backup"} = {} THEN "suspend" ELSE None
         ELSE IF "hibernate" \in ability /\ Held \cap {"hibernate", "backup"} = {}
              THEN "hibernate" ELSE None

Suspend(lid) ==
    /\ Command(lid) # None
    /\ Asked(Command(lid))

Trigger ==     \* TRIGGER_TIMEOUT of a client whose lockscreen was on for long
    /\ At(Disp, "idle")
    /\ Suspend(FALSE)
    /\ UNCHANGED <<lockerVars, clientVars, sleepVars, timerVars, rtc, woken, power, inbox,
                   argVars, pc, history>>

-----------------------------------------------------------------------------
(* The executer: expiry, _notify, _lid_check.                              *)

Expire(l) ==
    /\ At(Exec, "idle")
    /\ task[l] = "queued"
    /\ task' = [task EXCEPT ![l] = "taken"]
    /\ work' = [work EXCEPT ![Exec] = l]
    /\ Goto(Exec, "expire")
    /\ UNCHANGED <<table, name, clientVars, sleepVars, timerVars, systemVars, entry,
                   sweep, history>>

ExpirePop ==     \* whatever is held under that name
    /\ At(Exec, "expire")
    /\ LET l == work[Exec] IN
         /\ table' = [table EXCEPT ![name[l]] = None]
         /\ task' = Closed(l)
         /\ history' = Raced("hit", table[name[l]] \notin {l, None})
    /\ Goto(Exec, "expired")
    /\ UNCHANGED <<name, clientVars, sleepVars, timerVars, systemVars, argVars>>

ExpireMark ==
    /\ At(Exec, "expired")
    /\ update' = (update \/ name[work[Exec]] # "backup")
    /\ work' = [work EXCEPT ![Exec] = None]
    /\ Goto(Exec, "idle")
    /\ UNCHANGED <<lockerVars, told, ability, sleepVars, timerVars, systemVars, entry,
                   sweep, history>>

NotifyTest == At(Exec, "idle") /\ update /\ Step(Exec, "tell")

\* An exception of a write to a client (Server) leaves _update set.
Tell ==
    /\ At(Exec, "tell")
    /\ told' \in {Held, told}
    /\ \/ Goto(Exec, "clear") /\ told' = Held
       \/ Goto(Exec, "idle")
    /\ history' = IF told' = Held THEN history \ {"silent"} ELSE history
    /\ UNCHANGED <<lockerVars, update, ability, sleepVars, timerVars, systemVars, argVars>>

ClearUpdate ==
    /\ At(Exec, "clear")
    /\ update' = FALSE
    /\ Goto(Exec, "idle")
    /\ UNCHANGED <<lockerVars, told, ability, sleepVars, timerVars, systemVars, argVars,
                   history>>

LidRead ==     \* a lid that opens may end a backoff, one that closes may suspend
    /\ At(Exec, "idle")
    /\ backoff = None /\ ~suspending /\ ~hibernating
    /\ "lid" \in ability \ Held
    /\ \E place \in {"screen", "lid"} : Step(Exec, place)

LidSuspend ==     \* unless displays are connected
    /\ At(Exec, "lid")
    /\ \/ ~suspending /\ ~hibernating /\ Suspend(TRUE)
       \/ UNCHANGED goal
    /\ Goto(Exec, "idle")
    /\ UNCHANGED <<lockerVars, clientVars, sleepVars, timerVars, rtc, woken, power, inbox,
                   argVars, history>>

BackoffDue(h) ==
    /\ At(Exec, "idle")
    /\ h \in timers
    /\ timers' = timers \ {h}
    /\ Goto(Exec, "backoff")
    /\ UNCHANGED <<lockerVars, clientVars, sleepVars, backoff, systemVars, argVars, history>>

BackoffClear ==
    /\ At(Exec, "backoff")
    /\ backoff' = None
    /\ Goto(Exec, "idle")
    /\ UNCHANGED <<lockerVars, clientVars, sleepVars, timers, systemVars, argVars, history>>

-----------------------------------------------------------------------------
(* The system: systemd sends a message before it sleeps, and waits for an  *)
(* answer for a few seconds only; it sends another one afterwards.         *)

systemStep == UNCHANGED <<lockerVars, clientVars, sleepVars, timerVars, argVars, pc, history>>

Leave(kind) ==     \* asked for by a user, or by the program
    /\ power = "awake"
    /\ goal \in {None, kind}
    /\ Len(inbox) + 2 <= MaxInbox
    /\ power' = "leaving"
    /\ goal' = kind
    /\ inbox' = Append(inbox, <<kind, "pre">>)
    /\ UNCHANGED <<rtc, woken>> /\ systemStep

Sleep ==
    /\ power = "leaving"
    /\ power' = "asleep"
    /\ UNCHANGED <<rtc, woken, goal, inbox>> /\ systemStep

RtcFires == rtc = "armed" /\ rtc' = "fired"

WakeUp ==
    /\ power = "asleep"
    /\ \/ RtcFires /\ woken' = "woke"
       \/ UNCHANGED rtc /\ woken' = IF woken = "no" THEN "no" ELSE "past"
    /\ power' = "awake"
    /\ goal' = None
    /\ inbox' = Append(inbox, <<goal, "post">>)
    /\ systemStep

RtcAwake ==
    /\ power # "asleep"
    /\ RtcFires /\ woken' = "early"
    /\ UNCHANGED <<power, goal, inbox>> /\ systemStep

-----------------------------------------------------------------------------
Dispatch == \/ PopName \/ Close \/ Store \/ Mark \/ ReloadBegin \/ ReloadNext \/ ReloadClear
            \/ PreSuspend \/ Arm \/ PostSuspend \/ PreHibernate \/ PostHibernate
            \/ Cancel \/ Restart \/ ScreenMessage \/ Trigger
            \/ \E n \in Name, limit, force \in BOOLEAN : Add(n, limit, force)
            \/ \E n \in Name : Drop(n)
            \/ \E a \in Abilities : Config(a)

Execute == \/ ExpirePop \/ ExpireMark \/ NotifyTest \/ Tell \/ ClearUpdate
           \/ LidRead \/ LidSuspend \/ BackoffClear
           \/ \E l \in Locker : Expire(l)
           \/ \E h \in Handle : BackoffDue(h)

System == \/ Sleep \/ WakeUp \/ RtcAwake
          \/ \E kind \in Kind : Leave(kind)

Next == \/ Dispatch \/ Execute \/ System
        \/ \E t \in Thread : ScreenTest(t) \/ ScreenSet(t)

Spec == Init /\ [][Next]_vars

-----------------------------------------------------------------------------
(* Properties.                                                             *)

TypeOK ==
    /\ table \in [Name -> Locker \cup {None}]
    /\ name \in [Locker -> Name]
    /\ task \in [Locker -> {"none", "queued", "taken", "closed"}]
    /\ \A n \in Held : name[table[n]] = n
    /\ update \in BOOLEAN /\ told \subseteq Name /\ ability \in Abilities
    /\ backoff \in Handle \cup {None} /\ timers \subseteq Handle
    /\ suspending \in BOOLEAN /\ hibernating \in BOOLEAN /\ alarm \in BOOLEAN
    /\ rtc \in {"off", "armed", "fired"} /\ woken \in {"no", "woke", "early", "past"}
    /\ power \in {"awake", "leaving", "asleep"}
    /\ goal \in {None, "suspend", "hibernate"}
    /\ pc[Disp] \in {"idle", "pop", "close", "store", "mark", "reload", "empty", "arm",
                     "cancel", "restart", "screen", "screened"}
    /\ pc[Exec] \in {"idle", "expire", "expired", "tell", "clear", "lid", "backoff",
                     "screen", "screened"}
    /\ work \in [Thread -> Locker \cup {None}]
    /\ work[Disp] # None <=> pc[Disp] = "close"
    /\ work[Exec] # None <=> pc[Exec] \in {"expire", "expired"}
    /\ history \subseteq Race

\* A Locker that was set with a timeout does not stay for ever: while it is held its
\* task is in the scheduler or being run.  (A reload that fails half-way leaves Lockers
\* without a task.)
NoneClosed ==
    \A n \in Held :
        task[table[n]] = "closed" => pc[Disp] \in {"reload", "empty"} \/ "torn" \in history

\* An expiry that is still to come is that of a Locker that is held: a Locker that was
\* removed or replaced takes its task with it.  (Not one that an expiry has removed.)
NoStrayExpiry ==
    \A l \in Locker :
        task[l] \in {"queued", "taken"} =>
            \/ l \in Listed
            \/ \E t \in Thread : work[t] = l
            \/ "hit" \in history

\* The expiries in the scheduler and the Lockers that are held fit together.
ExpiryFits == NoneClosed /\ NoStrayExpiry

\* When nobody is at work on it and _update is not set, the clients know which Lockers
\* are held (that of a running Backup is not announced), unless the table was changed
\* while the executer was about to clear _update, by a reload, or for the wake alarm.
ToldIsHeld ==
    (/\ ~update
     /\ pc[Disp] \notin {"close", "store", "mark"}
     /\ pc[Exec] # "expired"
     /\ "silent" \notin history)
        => told \ {"backup"} = Held \ {"backup"}

\* A backoff ends: while _backoff is set, a task that clears it is queued or running.
\* Without one the lid switch and the screens would be ignored for good.
BackoffEnds ==
    backoff # None => \/ timers # {}
                      \/ pc[Exec] = "backoff"
                      \/ pc[Disp] = "restart"

\* A resume leads to hibernation only when the wake alarm has woken the system, and not an alarm
\* of an earlier sleep; unless, since the begin of this one was handled, it fired while the system
\* did not sleep ("early"), or the system has slept again and was woken otherwise before the
\* daemon looked ("past"): _wake_check() cannot tell these apart.
HibernateByAlarm ==
    [][(inbox # <<>> /\ inbox' = Front(inbox) /\ goal' # goal)
           => woken \in {"woke", "early", "past"}]_vars

\* The system is awake and every message was handled: it is not thought to be
\* suspending (which disables the lid switch), unless the messages came in reverse.
AwakeIsKnown ==
    power = "awake" /\ inbox = <<>> => (~suspending /\ ~hibernating) \/ "swapped" \in history

\* What a sleep has changed in LockerServer comes to an end: its backoff and its flags.
SleepEnds == BackoffEnds /\ AwakeIsKnown
=============================================================================
