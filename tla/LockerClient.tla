----------------------------- MODULE LockerClient -----------------------------
(***************************************************************************)
(* lib/modules/locker.py, LockerClient: the lock screen of a session, the  *)
(* idle processes (swayidle), and the timeout that asks the daemon to      *)
(* suspend while the screen is locked.                                     *)
(*                                                                         *)
(* The dispatcher handles messages of the daemon; the executer looks at    *)
(* the processes every second (thread) and runs the timers.  They share    *)
(* every field without a lock, and both may lock the screen.               *)
(***************************************************************************)
EXTENDS Threads, Naturals, Sequences, SequencesExt

CONSTANTS
    Screen,        \* lock screen processes (bounds those that run or are known at a time)
    ClientHandle,  \* timers that ask to suspend (bounds those alive at a time)
    PowerCan,      \* what the client may do on AC power: of "lock", "key", "suspend",
                   \* "hibernate"
    BatteryCan,    \* and on battery
    Reports,       \* the Lockers the daemon may report: sets of "lock", "suspend", "hibernate"
    ClientInbox,   \* bounds the messages of a sleep that wait
    ClientRace     \* races that a behaviour records: see ClientRaced

ASSUME ClientAssumption ==
    /\ PowerCan \cup BatteryCan \subseteq {"lock", "key", "suspend", "hibernate"}
    /\ Reports \subseteq SUBSET {"lock", "suspend", "hibernate"}
    /\ ClientInbox \in Nat
    /\ Disp # Exec
    /\ None \notin Screen \cup ClientHandle

VARIABLES
    screen,        \* _lockscreen
    up,            \* lock screens that run
    cmd,           \* _cmd: "own", "default" (the list of the module itself), or "empty"
    clientAbility, \* _ability: "power" or "battery"
    idle,          \* the process _idle: "none", "run", "paused" (SIGSTOP) or "exited"
    fits,          \* the ability whose timeouts that process was given, if there is one
    dpms,          \* is there a process _dpms?
    sleeper,       \* _sleeper
    wakes,         \* queued timers that run _wake_attempt
    clientBackoff, \* _backoff, with its timer
    quiet,         \* _backoff_blank, with its timer
    sleeping,      \* _sleeping
    lockers,       \* _lockers
    clientTold,    \* what the others heard last: "locked" or "unlocked"
    clientInbox,   \* messages of a sleep that wait in the dispatcher
    away,          \* does the system sleep, or is it about to?
    th,            \* the threads
    clientHistory  \* the races that have happened

screenVars == <<screen, up, cmd>>
idleVars == <<clientAbility, idle, fits, dpms>>
wakeVars == <<sleeper, wakes, clientBackoff, quiet>>
worldVars == <<clientInbox, away>>
stateVars == <<screenVars, idleVars, wakeVars, sleeping, lockers, clientTold>>
sessionVars == <<stateVars, worldVars, th, clientHistory>>

\* "late": one thread cleans up after a process that has exited while the other replaces it;
\* "twin": both threads start a lock screen; "twice": both make a timer; "stray": a timer is
\* made for a screen that is no longer locked; "undimmed": the process that turns the display
\* off could not be started; "emptied": a reload has cleared the default lock command.
ClientRaced(r, happened) ==
    IF happened THEN clientHistory \cup ({r} \cap ClientRace) ELSE clientHistory

Can(a) == IF a = "power" THEN PowerCan ELSE BatteryCan

\* What a thread does: its place, does it unlock (or leave the lock screen to itself)?, is
\* _wake_check() called by _lock()?, and the place after the call.
Resting == [at |-> "idle", unlock |-> TRUE, tell |-> FALSE, next |-> "idle"]

\* The state after setup() at the start of the client.
ClientInit ==
    /\ screen = None /\ up = {}
    /\ cmd \in {"own", "default"}     \* as configured, or that of the module
    /\ clientAbility \in {"power", "battery"}
    /\ fits = clientAbility
    /\ idle = IF "lock" \in Can(clientAbility) THEN "run" ELSE "none"
    /\ dpms = FALSE
    /\ sleeper = None /\ wakes = {} /\ clientBackoff = FALSE /\ quiet = FALSE
    /\ sleeping = FALSE /\ lockers = {}
    /\ clientTold = "unlocked"
    /\ clientInbox = <<>> /\ away = FALSE
    /\ th = [t \in Thread |-> Resting]
    /\ clientHistory = {}

Locked == screen \in up     \* _locked()

\* After these the fields of the two threads do not fit; nothing is considered then.
Torn == clientHistory \cap {"late", "twin", "twice", "stray", "emptied"} # {}

ClientAt(t, place) == th[t].at = place /\ ~Torn

ClientGoto(t, place) == th' = [th EXCEPT ![t].at = place]

Call(t, place, next) == th' = [th EXCEPT ![t] = [Resting EXCEPT !.at = place, !.next = next]]

\* Mutated: the arguments of the call stay.
ReturnKeeps(t) == ClientGoto(t, th[t].next)

Return(t) == th' = [th EXCEPT ![t] = [Resting EXCEPT !.at = th[t].next]]

\* An exception ends the hook; that of a timer ends the executer (Executer).
Raise(t) ==
    th' = [th EXCEPT ![t] =
              [Resting EXCEPT !.at = IF th[t].next = "timeout" THEN "dead" ELSE "idle"]]

-----------------------------------------------------------------------------
(* Both threads: _lock().                                                  *)

Allowed(force) ==
    /\ ~Locked
    /\ force \/ ("lock" \in Can(clientAbility) /\ "lock" \notin lockers)

BeginLock(t, force, next) ==
    IF Allowed(force) THEN Call(t, "exec", next) ELSE Call(t, next, "idle")

Locking == {"exec", "dpms", "check", "make", "tell"}
Unlocking == {"kill", "undpms", "reset"}

\* Is the other thread amidst a lock or an unlock when this one runs a lock screen?
Meets(t) == \E o \in Thread \ {t} : th[o].at \in Unlocking \cup {"dpms"} \/ th[o].tell

\* The lock screen is run.  An empty command raises IndexError, which is not caught; any
\* other failure unlocks.
LockExec(t) ==
    /\ ClientAt(t, "exec")
    /\ LET free == Screen \ (up \cup {screen}) IN
       \/ /\ cmd # "empty"
          /\ free # {}
          /\ screen' = CHOOSE s \in free : TRUE
          /\ up' = up \cup {screen'}
          /\ clientHistory' = ClientRaced("twin", Locked) \cup ClientRaced("late", Meets(t))
          /\ ClientGoto(t, "dpms")
       \/ /\ cmd # "empty"
          /\ clientHistory' = ClientRaced("twin", Locked) \cup ClientRaced("late", Meets(t))
          /\ ClientGoto(t, "kill")
          /\ UNCHANGED <<screen, up>>
       \/ /\ cmd = "empty"
          /\ Raise(t)
          /\ UNCHANGED <<screen, up, clientHistory>>
    /\ UNCHANGED <<cmd, idleVars, wakeVars, sleeping, lockers, clientTold, worldVars>>

\* _lock_dpms(True): the idle process is paused, and the process
\* that turns the display off replaces the one before, or cannot be started.  Without a
\* lock screen there is an AttributeError.
LockDpms(t) ==
    /\ ClientAt(t, "dpms")
    /\ \/ screen = None /\ Raise(t) /\ UNCHANGED <<idle, dpms, clientHistory>>
       \/ /\ screen # None
          /\ idle' = IF idle = "run" THEN "paused" ELSE idle
          /\ \/ dpms' = TRUE /\ UNCHANGED clientHistory
             \/ UNCHANGED dpms /\ clientHistory' = ClientRaced("undimmed", ~dpms)
          /\ th' = [th EXCEPT ![t].at = "check", ![t].tell = TRUE]
    /\ UNCHANGED <<screenVars, clientAbility, fits, wakeVars, sleeping, lockers, clientTold,
                   worldVars>>

CancelSleeper == sleeper' = None /\ wakes' = wakes \ {sleeper}

Checked(t) == IF th[t].tell THEN ClientGoto(t, "tell") ELSE Return(t)

\* A Suspend Locker counts for a client that may suspend, a Hibernate Locker for one that may
\* hibernate only.
Blocked ==
    LET way == IF "suspend" \in Can(clientAbility) THEN "suspend" ELSE "hibernate"
    IN  way \in Can(clientAbility) \cap lockers

Idles == clientBackoff \/ "lock" \notin Can(clientAbility)

\* _wake_check().  Without the ability to suspend the time is that of Hibernate.
Check(t) ==
    /\ ClientAt(t, "check")
    /\ \/ /\ sleeping \/ (~Idles /\ Blocked)
          /\ CancelSleeper
          /\ Checked(t)
       \/ /\ ~sleeping /\ (Idles \/ (~Blocked /\ sleeper # None))
          /\ Checked(t)
          /\ UNCHANGED <<sleeper, wakes>>
       \/ /\ ~sleeping /\ ~Idles /\ ~Blocked /\ sleeper = None
          /\ ClientGoto(t, "make")
          /\ UNCHANGED <<sleeper, wakes>>
    /\ UNCHANGED <<screenVars, idleVars, clientBackoff, quiet, sleeping, lockers, clientTold,
                   worldVars, clientHistory>>

Make(t) ==
    /\ ClientAt(t, "make")
    /\ LET free == ClientHandle \ (wakes \cup {sleeper}) IN
         /\ free # {}
         /\ sleeper' = CHOOSE h \in free : TRUE
         /\ wakes' = wakes \cup {sleeper'}
    /\ clientHistory' = ClientRaced("twice", sleeper # None)
                            \cup ClientRaced("stray", screen = None \/ sleeping)
    /\ Checked(t)
    /\ UNCHANGED <<screenVars, idleVars, clientBackoff, quiet, sleeping, lockers, clientTold,
                   worldVars>>

\* The blank backoff is cancelled, and the others are told: HOOK_LOCK, MSG_PRE.
LockTell(t) ==
    /\ ClientAt(t, "tell")
    /\ quiet' = FALSE
    /\ clientTold' = "locked"
    /\ Return(t)
    /\ UNCHANGED <<screenVars, idleVars, sleeper, wakes, clientBackoff, sleeping, lockers,
                   worldVars, clientHistory>>

Lock(t) == LockExec(t) \/ LockDpms(t) \/ Check(t) \/ Make(t) \/ LockTell(t)

-----------------------------------------------------------------------------
(* Both threads: _lock_unlock().                                           *)

\* Mutated: the end of the client ends the lock screen too.
KilledAlways(t) == up \ {screen}

Killed(t) == IF th[t].unlock THEN up \ {screen} ELSE up

UnlockKill(t) ==     \* the lock screen of this moment is told and killed
    /\ ClientAt(t, "kill")
    /\ up' = Killed(t)
    /\ ClientGoto(t, IF screen = None THEN "reset" ELSE "undpms")
    /\ UNCHANGED <<screen, cmd, idleVars, wakeVars, sleeping, lockers, clientTold, worldVars,
                   clientHistory>>

\* Mutated: the idle process stays paused.
Resumed == idle

Continued == IF dpms /\ idle = "paused" THEN "run" ELSE idle

UnlockDpms(t) ==     \* the others are told: HOOK_LOCK, MSG_POST; then _lock_dpms(False)
    /\ ClientAt(t, "undpms")
    /\ clientTold' = IF th[t].unlock THEN "unlocked" ELSE clientTold
    /\ idle' = Continued
    /\ dpms' = FALSE
    /\ ClientGoto(t, "reset")
    /\ UNCHANGED <<screenVars, clientAbility, fits, wakeVars, sleeping, lockers, worldVars,
                   clientHistory>>

UnlockReset(t) ==
    /\ ClientAt(t, "reset")
    /\ screen' = None
    /\ CancelSleeper
    /\ clientBackoff' = FALSE
    /\ quiet' = TRUE
    /\ Return(t)
    /\ UNCHANGED <<up, cmd, idleVars, sleeping, lockers, clientTold, worldVars, clientHistory>>

Unlock(t) == UnlockKill(t) \/ UnlockDpms(t) \/ UnlockReset(t)

-----------------------------------------------------------------------------
(* The dispatcher: messages of the daemon.                                 *)

\* trigger(), TRIGGER_LOCK: ignored soon after an unlock, unless it is forced.
LockMessage(force) ==
    /\ ClientAt(Disp, "idle")
    /\ quiet => force
    /\ BeginLock(Disp, force, "idle")
    /\ UNCHANGED <<stateVars, worldVars, clientHistory>>

KeyMessage ==     \* trigger(), TRIGGER_KEY: the key was removed
    /\ ClientAt(Disp, "idle")
    /\ "key" \in Can(clientAbility)
    /\ BeginLock(Disp, TRUE, "idle")
    /\ UNCHANGED <<stateVars, worldVars, clientHistory>>

Status(names) ==     \* update(), MSG_STATUS: the Lockers of the daemon
    /\ ClientAt(Disp, "idle")
    /\ lockers' = names
    /\ UNCHANGED <<screenVars, idleVars, wakeVars, sleeping, clientTold, worldVars, th,
                   clientHistory>>

ClientTake(m) ==     \* last first (Dispatcher)
    /\ ClientAt(Disp, "idle")
    /\ clientInbox # <<>>
    /\ Last(clientInbox) = m
    /\ clientInbox' = Front(clientInbox)

PreSleep ==     \* sleep(MSG_PRE)
    /\ ClientTake("pre")
    /\ sleeping' = TRUE
    /\ clientBackoff' = FALSE
    /\ CancelSleeper
    /\ BeginLock(Disp, TRUE, "idle")
    /\ UNCHANGED <<screenVars, idleVars, quiet, lockers, clientTold, away, clientHistory>>

\* sleep(MSG_POST): the end of a sleep may be handled before its begin.
PostSleep ==
    /\ ClientTake("post")
    /\ sleeping' = FALSE
    /\ clientBackoff' = FALSE
    /\ IF Locked THEN Call(Disp, "check", "source") ELSE BeginLock(Disp, TRUE, "source")
    /\ UNCHANGED <<screenVars, idleVars, sleeper, wakes, quiet, lockers, clientTold, away,
                   clientHistory>>

\* The abilities follow the source of power, after a sleep or when update() is told of it.
Source(place) ==
    /\ ClientAt(Disp, place)
    /\ \/ /\ clientAbility' = IF clientAbility = "power" THEN "battery" ELSE "power"
          /\ ClientGoto(Disp, "idling")
       \/ place = "source" /\ Return(Disp) /\ UNCHANGED clientAbility
    /\ UNCHANGED <<screenVars, idle, fits, dpms, wakeVars, sleeping, lockers, clientTold,
                   worldVars, clientHistory>>

\* _idle_init(): the idle process is replaced, or only stopped.
IdleInit ==
    /\ ClientAt(Disp, "idling")
    /\ idle' \in IF "lock" \in Can(clientAbility) THEN {"run", "none"} ELSE {"none"}
    /\ fits' = clientAbility
    /\ Return(Disp)
    /\ UNCHANGED <<screenVars, clientAbility, dpms, wakeVars, sleeping, lockers, clientTold,
                   worldVars, clientHistory>>

\* startup(HOOK_RELOAD) and setup(): _cmd.clear() empties the default itself.
Reload ==
    /\ ClientAt(Disp, "idle")
    /\ ~Locked
    /\ idle' = "none"
    /\ lockers' = {}
    /\ cmd' = IF cmd = "own" THEN "own" ELSE "empty"
    /\ clientHistory' = ClientRaced("emptied", cmd = "default")
    /\ quiet' = FALSE
    /\ clientAbility' \in {"power", "battery"}
    /\ fits' = clientAbility'
    /\ ClientGoto(Disp, "idling")
    /\ UNCHANGED <<screen, up, dpms, sleeper, wakes, clientBackoff, sleeping, clientTold,
                   worldVars>>

Shutdown ==     \* the lock screen is left to itself
    /\ ClientAt(Disp, "idle")
    /\ th' = [th EXCEPT ![Disp] = [Resting EXCEPT !.at = "kill", !.unlock = FALSE, !.next = "end"]]
    /\ UNCHANGED <<stateVars, worldVars, clientHistory>>

ShutdownEnd ==
    /\ ClientAt(Disp, "end")
    /\ idle' = "none"
    /\ cmd' = "empty"
    /\ lockers' = {}
    /\ ClientGoto(Disp, "down")
    /\ UNCHANGED <<screen, up, clientAbility, fits, dpms, wakeVars, sleeping, clientTold,
                   worldVars, clientHistory>>

Handler ==
    \/ \E force \in BOOLEAN : LockMessage(force)
    \/ KeyMessage
    \/ \E names \in Reports : Status(names)
    \/ PreSleep \/ PostSleep
    \/ Source("idle") \/ Source("source") \/ IdleInit
    \/ Reload \/ Shutdown \/ ShutdownEnd

-----------------------------------------------------------------------------
(* The executer: thread() and the timers.                                  *)

Running == ClientAt(Exec, "idle") /\ th[Disp].at # "down"     \* the end of the client stops it

Round ==     \* thread()
    /\ Running
    /\ CASE Locked -> Call(Exec, "check", "idle")
         [] ~Locked /\ screen # None -> Call(Exec, "kill", "idle")
         [] OTHER -> UNCHANGED th
    /\ clientHistory' = ClientRaced("late", th[Disp].at \in Locking /\ ~Locked /\ screen # None)
    /\ UNCHANGED <<stateVars, worldVars>>

Look ==     \* the rest of thread(): has the idle process exited?
    /\ Running
    /\ idle = "exited"
    /\ ClientGoto(Exec, "drop")
    /\ UNCHANGED <<stateVars, worldVars, clientHistory>>

DropIdle ==     \* it is not started again; whatever it is by now is stopped
    /\ ClientAt(Exec, "drop")
    /\ idle' = "none"
    /\ fits' = clientAbility
    /\ clientHistory' = ClientRaced("late", idle \in {"run", "paused"})
    /\ ClientGoto(Exec, "idle")
    /\ UNCHANGED <<screenVars, clientAbility, dpms, wakeVars, sleeping, lockers, clientTold,
                   worldVars>>

Fire(h) ==     \* the scheduler takes a timer: from now on it cannot be cancelled
    /\ Running
    /\ h \in wakes
    /\ wakes' = wakes \ {h}
    /\ Call(Exec, "attempt", "timeout")
    /\ UNCHANGED <<screenVars, idleVars, sleeper, clientBackoff, quiet, sleeping, lockers,
                   clientTold, worldVars, clientHistory>>

Attempt ==     \* _wake_attempt()
    /\ ClientAt(Exec, "attempt")
    /\ CancelSleeper
    /\ BeginLock(Exec, TRUE, "timeout")
    /\ UNCHANGED <<screenVars, idleVars, clientBackoff, quiet, sleeping, lockers, clientTold,
                   worldVars, clientHistory>>

\* The daemon is asked to suspend (TRIGGER_TIMEOUT), and a new backoff begins.
Timeout ==
    /\ ClientAt(Exec, "timeout")
    /\ clientBackoff' = TRUE
    /\ ClientGoto(Exec, "idle")
    /\ UNCHANGED <<screenVars, idleVars, sleeper, wakes, quiet, sleeping, lockers, clientTold,
                   worldVars, clientHistory>>

WakeBackoff ==     \* _wake_backoff()
    /\ Running
    /\ clientBackoff /\ clientBackoff' = FALSE
    /\ UNCHANGED <<screenVars, idleVars, sleeper, wakes, quiet, sleeping, lockers, clientTold,
                   worldVars, th, clientHistory>>

BlankBackoff ==     \* _blank_backoff()
    /\ Running
    /\ quiet /\ quiet' = FALSE
    /\ UNCHANGED <<screenVars, idleVars, sleeper, wakes, clientBackoff, sleeping, lockers,
                   clientTold, worldVars, th, clientHistory>>

Timer ==
    \/ \E h \in ClientHandle : Fire(h)
    \/ Attempt \/ Timeout \/ WakeBackoff \/ BlankBackoff

-----------------------------------------------------------------------------
(* The processes and the system.                                           *)

ScreenExits(s) ==     \* the user unlocks, or it fails
    /\ s \in up /\ ~Torn
    /\ up' = up \ {s}
    /\ UNCHANGED <<screen, cmd, idleVars, wakeVars, sleeping, lockers, clientTold, worldVars, th,
                   clientHistory>>

IdleExits ==
    /\ idle = "run" /\ ~Torn
    /\ idle' = "exited"
    /\ UNCHANGED <<screenVars, clientAbility, fits, dpms, wakeVars, sleeping, lockers,
                   clientTold, worldVars, th, clientHistory>>

\* The daemon forwards what systemd tells it before and after a sleep.
SleepBegins ==
    /\ ~away /\ ~Torn /\ Len(clientInbox) < ClientInbox
    /\ away' = TRUE
    /\ clientInbox' = Append(clientInbox, "pre")
    /\ UNCHANGED <<stateVars, th, clientHistory>>

Wake ==
    /\ away /\ ~Torn
    /\ away' = FALSE
    /\ clientInbox' = Append(clientInbox, "post")
    /\ UNCHANGED <<stateVars, th, clientHistory>>

World == (\E s \in Screen : ScreenExits(s)) \/ IdleExits \/ SleepBegins \/ Wake

ClientNext ==
    \/ \E t \in Thread : Lock(t) \/ Unlock(t)
    \/ Handler \/ Round \/ Look \/ DropIdle \/ Timer \/ World

ClientSpec == ClientInit /\ [][ClientNext]_sessionVars

-----------------------------------------------------------------------------
(* Properties.                                                             *)

Place == {"idle", "exec", "dpms", "check", "make", "tell", "source", "idling", "end", "down",
          "drop", "attempt", "timeout", "dead"} \cup Unlocking

\* Every field has a value that the code gives it, and a thread that rests has no call left.
ClientTypeOK ==
    /\ screen \in Screen \cup {None} /\ up \subseteq Screen
    /\ cmd \in {"own", "default", "empty"}
    /\ {clientAbility, fits} \subseteq {"power", "battery"}
    /\ idle \in {"none", "run", "paused", "exited"}
    /\ {dpms, clientBackoff, quiet, sleeping, away} \subseteq BOOLEAN
    /\ sleeper \in ClientHandle \cup {None} /\ wakes \subseteq ClientHandle
    /\ lockers \in Reports \cup {{}}
    /\ clientTold \in {"locked", "unlocked"}
    /\ clientInbox \in Seq({"pre", "post"})
    /\ th \in [Thread -> [at : Place, unlock : BOOLEAN, tell : BOOLEAN, next : Place]]
    /\ \A t \in Thread : th[t].at = "idle" => th[t] = Resting
    /\ clientHistory \subseteq ClientRace

AtRest == \A t \in Thread : th[t].at = "idle"

\* What a lock did is undone with it: once no lock screen is known and both threads rest,
\* the idle process is not paused and has the timeouts of the present ability, and the others
\* have heard of the unlock; while the lock screen is known they have heard of the
\* lock.  Unless the two threads met, or a process failed.
UnlockedIsUndone ==
    AtRest /\ clientHistory \cap {"late", "twin", "undimmed"} = {} =>
        /\ screen = None => idle # "paused"
        /\ idle \in {"run", "paused"} => fits = clientAbility
        /\ clientTold = "locked" <=> screen # None

\* A timer that asks to suspend is the one known, so that it can be cancelled, and it
\* runs only while a lock screen is known; unless both threads made one or it was made for a
\* screen that was unlocked meanwhile.
SleeperIsKnown ==
    AtRest /\ wakes # {} /\ clientHistory \cap {"late", "twin", "twice", "stray"} = {} =>
        wakes = {sleeper} /\ screen # None

\* A lock leaves nothing behind: neither what it has changed nor its timer.
LockUndone == UnlockedIsUndone /\ SleeperIsKnown

\* No step of the client ends a lock screen that runs: it stays until the user unlocks, also
\* over a reload and a shutdown; unless it was started while the executer cleaned up after
\* the one before.
LockStays ==
    [][clientHistory \cap {"late", "twin"} = {} =>
          \A s \in up \ up' : ScreenExits(s)]_sessionVars
===============================================================================
