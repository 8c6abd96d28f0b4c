--------------------------------- MODULE Multi ---------------------------------
(***************************************************************************)
(* lib/modules/backup.py: Multi, a list of commands that Backup treats as  *)
(* one process.  Whoever polls it starts the next command when the current *)
(* one has exited: the executer, which visits what it watches each second, *)
(* and the dispatcher, which polls before it suspends, resumes or stops.   *)
(* The constructor has started the first command when this begins.         *)
(***************************************************************************)
EXTENDS Naturals, Sequences, SequencesExt

CONSTANTS
    Commands,    \* how many commands there are
    Disp, Exec   \* the dispatcher and the executer thread

VARIABLES
    breaks,      \* _break: that of command_pre, not of command_post
    cmds,        \* _cmds
    current,     \* _proc
    life,        \* each command: "new", "run", "frozen", "ok" or "failed"
    task,        \* what each thread does
    stops,       \* threads that have begun to stop it
    asleep,      \* _paused of the Backup
    reported,    \* has the executer seen the end, and called the Backup back?
    begun,       \* history: the commands that were started, in that order
    bailed,      \* history: a command could not be started; poll() leaves the others in
                 \* the list, and only the executer's visit clears it
    overlapped,  \* history: see Overlap
    missed       \* history: a SIGSTOP came when the process had just exited

processVars == <<current, life, begun, bailed>>
backupVars == <<breaks, stops, asleep, reported>>
historyVars == <<overlapped, missed>>
multiVars == <<cmds, processVars, task, backupVars, historyVars>>

Thread == {Disp, Exec}
Command == 1..Commands

\* A thread: what for it polls, its place, the exit it has seen, the command it has taken.
Idle == [op |-> "none", at |-> "idle", exit |-> "none", taken |-> 0]

MultiInit ==
    /\ breaks \in BOOLEAN
    /\ cmds = [c \in 1..(Commands - 1) |-> c + 1]
    /\ current = 1
    /\ life = [c \in Command |-> IF c = 1 THEN "run" ELSE "new"]
    /\ task = [t \in Thread |-> Idle]
    /\ stops = {} /\ asleep = FALSE /\ reported = FALSE
    /\ begun = <<1>> /\ bailed = FALSE
    /\ overlapped = FALSE /\ missed = FALSE

Live(c) == life[c] \in {"run", "frozen"}

At(t, place) == task[t].at = place

Goto(t, place) == task' = [task EXCEPT ![t].at = place]

Leave(t) == task' = [task EXCEPT ![t] = Idle]

\* One thread worked on the Multi while the other was about to start a command, or a command
\* was started while the other still believed that the one before had just exited.
Overlap(t, places) ==
    /\ overlapped' = (overlapped \/ \E u \in Thread \ {t} : task[u].at \in places)
    /\ missed' = missed

Advancing == {"advance", "start"}

-----------------------------------------------------------------------------
(* Multi.poll()                                                            *)

\* poll() has returned None, or the exit code of a process.
ReturnsNone(t) ==
    CASE task[t].op = "visit" -> Leave(t)
      [] task[t].op = "stop"  -> Goto(t, "clear")
      [] OTHER                -> Goto(t, "signal")

\* The executer calls stop() of what has ended; stop() in util/exec.py only waits for it.
ReturnsExit(t) ==
    CASE task[t].op = "visit" -> Goto(t, "clear")
      [] task[t].op = "stop"  -> Leave(t)
      [] OTHER                -> Goto(t, "pause")

Poll(t) ==
    /\ At(t, "poll")
    /\ IF Live(current)
       THEN ReturnsNone(t)
       ELSE task' = [task EXCEPT ![t].at = "exited", ![t].exit = life[current]]
    /\ Overlap(t, Advancing)
    /\ UNCHANGED <<cmds, processVars, backupVars>>

Over(t) == cmds = <<>> \/ (breaks /\ task[t].exit = "failed")

Test(t) ==
    /\ At(t, "exited")
    /\ IF Over(t) THEN ReturnsExit(t) ELSE Goto(t, "advance")
    /\ Overlap(t, Advancing)
    /\ UNCHANGED <<cmds, processVars, backupVars>>

\* _next(): pop(0) of a list emptied since the test is an IndexError, which poll() does not
\* catch.  The dispatcher logs it; in the executer's visit or task it ends the thread.
Pop(t) ==
    /\ At(t, "advance")
    /\ IF cmds = <<>>
       THEN /\ IF t = Exec THEN Goto(t, "dead") ELSE Leave(t)
            /\ UNCHANGED cmds
       ELSE /\ task' = [task EXCEPT ![t].at = "start", ![t].taken = Head(cmds)]
            /\ cmds' = Tail(cmds)
    /\ UNCHANGED <<processVars, backupVars, historyVars>>

\* The new process is _proc only when it has been started and its priority set.
Start(t) == LET c == task[t].taken IN
    /\ At(t, "start")
    /\ current' = c
    /\ life' = [life EXCEPT ![c] = "run"]
    /\ begun' = Append(begun, c)
    /\ ReturnsNone(t)
    /\ Overlap(t, {"exited"})
    /\ UNCHANGED <<cmds, bailed, backupVars>>

\* An OSError: poll() returns the exit code of the command before.
StartFails(t) ==
    /\ At(t, "start")
    /\ bailed' = TRUE
    /\ ReturnsExit(t)
    /\ UNCHANGED <<cmds, current, life, begun, backupVars, historyVars>>

-----------------------------------------------------------------------------
(* What is done with it.                                                   *)

Begins(t, op) ==
    /\ At(t, "idle") /\ ~reported
    /\ task' = [task EXCEPT ![t].op = op, ![t].at = "poll"]
    /\ UNCHANGED <<cmds, processVars, breaks, asleep, reported, historyVars>>

Visit == Begins(Exec, "visit") /\ UNCHANGED stops

\* suspend() and resume() of the Backup: only while it is not stopped, which it is by the
\* time of command_post.
Asks(op) ==
    /\ breaks /\ stops = {} /\ asleep = (op = "resume")
    /\ Begins(Disp, op)
    /\ UNCHANGED stops

\* Backup._stop(): by a request, or by the executer when the time is up.
Stop(t) ==
    /\ t \notin stops /\ (t = Disp => breaks)
    /\ Begins(t, "stop")
    /\ stops' = stops \cup {t}

\* send_signal(SIGSTOP) or SIGCONT, to the process that is current now.
Signal == LET op == task[Disp].op IN
    /\ At(Disp, "signal")
    /\ life' = [life EXCEPT ![current] = IF ~Live(current) THEN @
                                         ELSE IF op = "suspend" THEN "frozen" ELSE "run"]
    /\ Goto(Disp, "pause")
    /\ overlapped' = (overlapped \/ task[Exec].at \in Advancing)
    /\ missed' = (missed \/ (op = "suspend" /\ ~Live(current)))
    /\ UNCHANGED <<cmds, current, begun, bailed, backupVars>>

Pause ==
    /\ At(Disp, "pause")
    /\ asleep' = (task[Disp].op = "suspend")
    /\ Leave(Disp)
    /\ UNCHANGED <<cmds, processVars, breaks, stops, reported, historyVars>>

\* Mutated: the process is killed and the list left.
ClearKeeps(t) ==
    /\ At(t, "clear")
    /\ Goto(t, "kill")
    /\ Overlap(t, Advancing)
    /\ UNCHANGED <<cmds, processVars, backupVars>>

\* terminate(), kill() and stop() clear the list before they reach for the process.
Clear(t) ==
    /\ At(t, "clear")
    /\ cmds' = <<>>
    /\ Goto(t, "kill")
    /\ Overlap(t, Advancing)
    /\ UNCHANGED <<processVars, backupVars>>

\* SIGKILL; the executer has then seen the end.
Kill(t) ==
    /\ At(t, "kill")
    /\ life' = [life EXCEPT ![current] = IF Live(current) THEN "failed" ELSE @]
    /\ reported' = (reported \/ task[t].op = "visit")
    /\ Leave(t)
    /\ Overlap(t, Advancing)
    /\ UNCHANGED <<cmds, current, begun, bailed, breaks, stops, asleep>>

Exit(c, how) ==
    /\ life[c] = "run"
    /\ life' = [life EXCEPT ![c] = how]
    /\ UNCHANGED <<cmds, current, begun, bailed, task, backupVars, historyVars>>

MultiNext ==
    \/ \E t \in Thread : \/ Poll(t) \/ Test(t) \/ Pop(t) \/ Start(t) \/ StartFails(t)
                         \/ Stop(t) \/ Clear(t) \/ Kill(t)
    \/ Visit \/ Asks("suspend") \/ Asks("resume") \/ Signal \/ Pause
    \/ \E c \in Command, how \in {"ok", "failed"} : Exit(c, how)

-----------------------------------------------------------------------------
(* Properties.                                                             *)

Quiet == \A t \in Thread : task[t].at \in {"idle", "dead"}

Runs == {c \in Command : Live(c)}

\* What ends a list: its last command, one that failed when that matters, or a stop.
EndIsDue ==
    Len(begun) = Commands \/ (breaks /\ life[Last(begun)] = "failed") \/ stops # {}

\* No command of a list is started twice, in spite of two threads that start them.  As long
\* as they have not overlapped, the commands run in turn and none after the end was reported.
\* When each could be started besides, none runs after one that failed when that matters, the
\* end is reported when it has come, and a stopped Backup leaves no command running, nor does
\* a suspended one unless its command exited while it was being suspended.
CommandsInTurn ==
    /\ IsInjective(begun)
    /\ ~overlapped =>
        /\ \A m, n \in 1..Len(begun) : m < n => begun[m] < begun[n]
        /\ Runs \subseteq {current}
        /\ reported => Runs = {}
    /\ ~overlapped /\ ~bailed =>
        /\ breaks => \A n \in 1..(Len(begun) - 1) : life[begun[n]] = "ok"
        /\ reported => EndIsDue
        /\ Quiet /\ stops # {} => Runs = {}
        /\ Quiet /\ asleep /\ ~missed => \A c \in Runs : life[c] = "frozen"
================================================================================
