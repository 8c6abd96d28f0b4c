------------------------------- MODULE Session -------------------------------
(***************************************************************************)
(* lib/modules/session.py: the windows of a session are stopped while its  *)
(* screen is locked (SIGSTOP) and go on after it (SIGCONT), and commands   *)
(* are run on events.  All of it is done by the dispatcher.  What is left  *)
(* stopped is nowhere kept: windows() is asked again, and the present      *)
(* configuration says which of them count.                                 *)
(***************************************************************************)
EXTENDS Naturals, Sequences, SequencesExt

CONSTANTS
    Window,      \* windows (bounds those open at a time)
    MaxLocks     \* bounds the messages of LockerClient that wait

VARIABLES
    window,      \* each window: "none", "run" or "frozen"
    freeze,      \* _can_freeze
    spared,      \* the windows of applications in _ignore
    lastAc,      \* _last_ac: "none", "power" or "battery"
    locked,      \* is the screen locked?
    locks,       \* messages that wait: "lock" or "unlock" (HOOK_LOCK)
    lapse        \* why a window may be left frozen: see Lapsed

configVars == <<freeze, spared, lastAc>>
screenVars == <<locked, locks>>
sessionVars == <<window, configVars, screenVars, lapse>>

\* "reloaded": the configuration no longer covers a window that is frozen; "unlisted": the
\* windows could not be listed, or signalled, at an unlock; "swapped": the unlock was handled
\* before the lock.
Lapsed(l, happened) == lapse' = IF happened THEN lapse \cup {l} ELSE lapse

SessionInit ==
    /\ window \in [Window -> {"none", "run"}]
    /\ freeze \in BOOLEAN /\ spared = {}
    /\ lastAc = "none"
    /\ locked = FALSE /\ locks = <<>>
    /\ lapse = {}

Frozen == {w \in Window : window[w] = "frozen"}

Covered == IF freeze THEN Window \ spared ELSE {}     \* _can_freeze()

\* Each window that is covered gets the signal, unless that fails.
Signal(from, to, reached) ==
    window' = [w \in Window |->
                 IF w \in Covered \cap reached /\ window[w] = from THEN to ELSE window[w]]

Take(m) ==     \* last first (Dispatcher)
    /\ locks # <<>> /\ Last(locks) = m
    /\ locks' = Front(locks)
    /\ UNCHANGED locked

\* lock(MSG_PRE): not while there is a Freeze Locker.
Freeze(inhibited, reached) ==
    /\ Take("lock")
    /\ Signal("run", "frozen", IF inhibited THEN {} ELSE reached)
    /\ UNCHANGED <<configVars, lapse>>

\* Mutated: a Freeze Locker also keeps the windows that are frozen.
ThawUninhibited(inhibited, reached) ==
    /\ Take("unlock")
    /\ Signal("frozen", "run", IF inhibited THEN {} ELSE reached)
    /\ Lapsed("unlisted", ~inhibited /\ ~(Frozen \subseteq reached))
    /\ UNCHANGED configVars

\* lock(MSG_POST)
Thaw(inhibited, reached) ==
    /\ Take("unlock")
    /\ Signal("frozen", "run", reached)
    /\ Lapsed("unlisted", ~(Frozen \subseteq reached))
    /\ UNCHANGED configVars

\* reload() and setup(): the commands of the start of a session are ended and run again.
Reload(on, names) ==
    /\ freeze' = on
    /\ spared' = IF on THEN names ELSE {}
    /\ lastAc' = "none"
    /\ Lapsed("reloaded", Frozen # {} /\ (~on \/ names # {}))
    /\ UNCHANGED <<window, screenVars>>

\* trigger(HOOK_POWER): the commands for a source of power are run once.
Power(source) ==
    /\ lastAc # source
    /\ lastAc' = source
    /\ UNCHANGED <<window, freeze, spared, screenVars, lapse>>

Open(w) ==
    /\ window[w] = "none"
    /\ window' = [window EXCEPT ![w] = "run"]
    /\ UNCHANGED <<configVars, screenVars, lapse>>

Close(w) ==
    /\ window[w] = "run"
    /\ window' = [window EXCEPT ![w] = "none"]
    /\ UNCHANGED <<configVars, screenVars, lapse>>

Lock ==
    /\ ~locked /\ Len(locks) < MaxLocks
    /\ locked' = TRUE
    /\ locks' = Append(locks, "lock")
    /\ UNCHANGED <<window, configVars, lapse>>

Unlock ==
    /\ locked
    /\ locked' = FALSE
    /\ locks' = Append(locks, "unlock")
    /\ Lapsed("swapped", locks # <<>>)
    /\ UNCHANGED <<window, configVars>>

SessionNext ==
    \/ \E inhibited \in BOOLEAN, reached \in SUBSET Window :
          Freeze(inhibited, reached) \/ Thaw(inhibited, reached)
    \/ \E on \in BOOLEAN, names \in SUBSET Window : Reload(on, names)
    \/ \E source \in {"power", "battery"} : Power(source)
    \/ \E w \in Window : Open(w) \/ Close(w)
    \/ Lock \/ Unlock

SessionSpec == SessionInit /\ [][SessionNext]_sessionVars

SessionTypeOK ==
    /\ window \in [Window -> {"none", "run", "frozen"}] /\ spared \subseteq Window
    /\ {freeze, locked} \subseteq BOOLEAN
    /\ lastAc \in {"none", "power", "battery"}
    /\ locks \in Seq({"lock", "unlock"})
    /\ lapse \subseteq {"reloaded", "unlisted", "swapped"}

\* Once the screen is unlocked and the dispatcher has handled that, every window runs;
\* unless a reload has changed which windows count, they could not be listed, or the unlock
\* was handled before the lock.
WindowsThaw == ~locked /\ locks = <<>> /\ lapse = {} => Frozen = {}
===============================================================================
