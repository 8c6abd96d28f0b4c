------------------------------- MODULE Backup -------------------------------
(***************************************************************************)
(* lib/modules/backup.py: the backup jobs of the SMD daemon.               *)
(*                                                                         *)
(* A Backup goes through its steps, one external process after the other.  *)
(* Two threads work on it.  The dispatcher thread handles the requests of  *)
(* clients and the messages the jobs forward; it creates a Backup and      *)
(* starts, suspends, resumes and stops it.  The executer thread calls      *)
(* _next() whenever a watched process has exited, and _step_timeout() when *)
(* a step has taken too long.  _next, _update and _stop call one another   *)
(* in tail position, so that a thread is at one place (pc) of one job.     *)
(*                                                                         *)
(* What a job forwards goes through the message list of the dispatcher,    *)
(* which hands out the LAST message first (Dispatcher), and once the       *)
(* service is stopping nothing is forwarded, scheduled or watched any more.*)
(* Requests of clients are actions that may happen between any two of the  *)
(* forwarded messages.                                                     *)
(***************************************************************************)
EXTENDS Naturals, Sequences, FiniteSets, SequencesExt

CONSTANTS
    Plan,        \* the entries of backup.json
    PreCmd,      \* those with a command_pre that is not empty
    PostCmd,     \* those with a command_post that is not empty
    Keyless,     \* those without a public key that exists
    Remote,      \* those with an upload target
    NoTarget,    \* those for which no upload section was given at all; the
                 \* rest has "upload": false
    MaxJob,      \* Backup objects created in a behaviour
    MaxBus,      \* forwarded messages by which the dispatcher may fall behind:
                 \* with more, no request is made and the executer waits
    Event,       \* what is considered besides requests to start a Backup:
                 \* "stop", "dequeue", "clear", "suspend", "timeout", "down"
    Disp, Exec   \* the dispatcher and the executer thread

ASSUME BackupAssumption ==
    /\ IsFiniteSet(Plan)
    /\ PreCmd \cup PostCmd \cup Keyless \cup Remote \cup NoTarget \subseteq Plan
    /\ Remote \cap NoTarget = {}
    /\ MaxJob \in Nat \ {0} /\ MaxBus \in Nat \ {0}
    /\ Event \subseteq {"stop", "dequeue", "clear", "suspend", "timeout", "down"}
    /\ Disp # Exec

Job == 1..MaxJob
Thread == {Disp, Exec}
None == "none"

\* The steps that run a process; a job has the states below besides.
Step == {"pre_cmd", "keygen", "encrypt", "hash1", "packing", "uploading", "post"}
State == {"waiting", "pre_cmd", "keygen", "encrypt", "hash1", "hash2", "packing",
          "uploading", "error", "done"}
Proc == Job \X Step

\* A Backup with a key never uses NO_KEYGEN and COMPRESS; one without never gets
\* there (see EnterStep).
After == [waiting |-> "keygen", pre_cmd |-> "keygen", keygen |-> "encrypt",
          encrypt |-> "hash1", hash1 |-> "hash2", hash2 |-> "packing",
          packing |-> "uploading"]

VARIABLES
    current,     \* BackupServer._current, 0 for None
    queue,       \* BackupServer._queue
    made,        \* Backup objects created so far
    plan,        \* _plan of each Backup
    st,          \* _state
    cancel,      \* the _cancel event
    paused,      \* the _paused event
    proc,        \* the step whose process _proc holds
    timer,       \* the scheduled _step_timeout tasks: "step" and "post"
    ref,         \* the one _timeout refers to
    alive,       \* processes that have not exited
    frozen,      \* those stopped by SIGSTOP
    watch,       \* those given to server.watch()
    bus,         \* forwarded messages, in append order
    locked,      \* the "backup" Locker, which blocks suspend
    saved,       \* the outcome in backup-state.json for each Plan
    down,        \* the dispatcher's _running event: the service stops
    pc,          \* where each thread is
    job,         \* the Backup it works on
    to,          \* the state it is about to set
    force,       \* the argument of _stop()
    cont,        \* what it does when the Backup's method has returned
    passed       \* history: the packing and uploading processes that succeeded

srvVars == <<current, queue, made, plan, saved>>
procVars == <<alive, frozen, watch>>
timeVars == <<timer, ref>>
jobVars == <<st, cancel, paused, proc, passed>>
frame == <<job, to, force, cont>>
vars == <<srvVars, procVars, timeVars, jobVars, bus, locked, down, pc, frame>>

\* Mutated: a Backup runs while its process does.
HasProcess(j) == j # 0 /\ <<j, proc[j]>> \in alive

Running(j) == j # 0 /\ ~cancel[j]

Init ==
    /\ current = 0
    /\ queue = <<>>
    /\ made = 0
    /\ plan = [j \in Job |-> None]
    /\ st = [j \in Job |-> "waiting"]
    /\ cancel = [j \in Job |-> FALSE]
    /\ paused = [j \in Job |-> FALSE]
    /\ proc = [j \in Job |-> None]
    /\ timer = [j \in Job |-> {}]
    /\ ref = [j \in Job |-> None]
    /\ alive = {} /\ frozen = {} /\ watch = {}
    /\ bus = <<>>
    /\ locked = FALSE
    /\ saved = [p \in Plan |-> None]
    /\ down = FALSE
    /\ pc = [t \in Thread |-> "idle"]
    /\ job = [t \in Thread |-> 0]
    /\ to = [t \in Thread |-> None]
    /\ force = [t \in Thread |-> FALSE]
    /\ cont = [t \in Thread |-> None]
    /\ passed = {}

-----------------------------------------------------------------------------
(* Helpers of the service: they do nothing once it is stopping.            *)

Forward(t, m) ==
    /\ t = Exec => Len(bus) < MaxBus
    /\ bus' = IF down THEN bus ELSE Append(bus, m)

Watch(p) == watch' = IF down THEN watch ELSE watch \cup {p}

\* Mutated: not scheduled again while _timeout refers to a task, even a cancelled one.
ScheduleOnce(j, kind) ==
    /\ timer' = [timer EXCEPT ![j] = IF down \/ ref[j] # None THEN @ ELSE @ \cup {kind}]
    /\ ref' = [ref EXCEPT ![j] = IF down THEN None ELSE kind]

\* Mutated: no timeout in the first step.
ScheduleLater(j, kind) ==
    /\ timer' = [timer EXCEPT ![j] = IF down \/ st[j] = "waiting" THEN @ ELSE @ \cup {kind}]
    /\ ref' = [ref EXCEPT ![j] = IF down THEN None ELSE kind]

Schedule(j, kind) ==
    /\ timer' = [timer EXCEPT ![j] = IF down THEN @ ELSE @ \cup {kind}]
    /\ ref' = [ref EXCEPT ![j] = IF down THEN None ELSE kind]

CancelTimer(j) == timer' = [timer EXCEPT ![j] = @ \ {ref[j]}]

Goto(t, place) == pc' = [pc EXCEPT ![t] = place]

GoUpdate(t, s) == Goto(t, "update") /\ to' = [to EXCEPT ![t] = s]

GoStop(t, f) == Goto(t, "stop") /\ force' = [force EXCEPT ![t] = f]

\* stop(proc, valid=False): SIGINT, SIGTERM, SIGKILL.  When the process is gone
\* at the poll() that follows, proc.returncode is read, which a Single, Dual or
\* Multi does not have: AttributeError.
Kill(j) == LET p == <<j, proc[j]>> IN
    /\ alive' = alive \ {p}
    /\ frozen' = frozen \ {p}
    /\ UNCHANGED watch

KillRaises(j) == <<j, proc[j]>> \in alive

-----------------------------------------------------------------------------
(* Backup._next()                                                          *)

NextEnter(t) == LET j == job[t] IN
    /\ pc[t] = "next"
    /\ CancelTimer(j)
    /\ Goto(t, IF cancel[j] THEN "unlock" ELSE "arm")
    /\ UNCHANGED <<srvVars, procVars, ref, jobVars, bus, locked, down, frame>>

\* A new timeout; in the first step, the Locker that blocks suspend, then the
\* command_pre if there is one.  Creating the directory may fail.
Arm(t) == LET j == job[t] IN
    /\ pc[t] = "arm"
    /\ Schedule(j, "step")
    /\ IF st[j] = "waiting"
       THEN Forward(t, [type |-> "lock", job |-> j, state |-> None])
       ELSE UNCHANGED bus
    /\ IF st[j] = "waiting" /\ plan[j] \in PreCmd
       THEN GoUpdate(t, "pre_cmd") /\ UNCHANGED force
       ELSE \/ Goto(t, "check") /\ UNCHANGED <<to, force>>
            \/ /\ st[j] \in {"waiting", "pre_cmd"}
               /\ GoStop(t, TRUE)
               /\ UNCHANGED to
    /\ UNCHANGED <<srvVars, procVars, jobVars, locked, down, job, cont>>

\* _check_proc(): the process of the last step succeeded (or there was none) ...
CheckPasses(t) == LET j == job[t] IN
    /\ pc[t] = "check"
    /\ proc' = [proc EXCEPT ![j] = None]
    /\ passed' = passed \cup ({<<j, proc[j]>>} \cap (Job \X {"packing", "uploading"}))
    /\ IF st[j] \in DOMAIN After
       THEN GoUpdate(t, After[st[j]]) /\ UNCHANGED force
       ELSE GoStop(t, FALSE) /\ UNCHANGED to
    /\ UNCHANGED <<srvVars, procVars, timeVars, st, cancel, paused, bus, locked,
                   down, job, cont>>

\* ... or it failed.  _proc is set to None only when the _stop() inside has
\* returned, by which time it may hold the command_post.
CheckFails(t) == LET j == job[t] IN
    /\ pc[t] = "check"
    /\ proc[j] # None
    /\ GoUpdate(t, "error")
    /\ cont' = [cont EXCEPT ![t] = "forget"]
    /\ UNCHANGED <<srvVars, procVars, timeVars, jobVars, bus, locked, down, job, force>>

\* The cancelled branch of _next(): the end of the job is announced.  When it is
\* _stop() that has called _next ("announce"), it catches what kill raises.
Unlock(t) == LET j == job[t] IN
    /\ pc[t] \in {"unlock", "announce"}
    /\ IF pc[t] = "announce" THEN CancelTimer(j) ELSE UNCHANGED timer
    /\ Kill(j)
    /\ \/ /\ Forward(t, [type |-> "unlock", job |-> j, state |-> None])
          /\ Goto(t, "final")
       \/ /\ KillRaises(j)
          /\ Goto(t, IF pc[t] = "announce" THEN "return" ELSE "raise")
          /\ UNCHANGED bus
    /\ UNCHANGED <<srvVars, ref, jobVars, locked, down, frame>>

Final(t) == LET j == job[t] IN
    /\ pc[t] = "final"
    /\ Forward(t, [type |-> "final", job |-> j, state |-> st[j]])
    /\ Goto(t, "return")
    /\ UNCHANGED <<srvVars, procVars, timeVars, jobVars, locked, down, frame>>

-----------------------------------------------------------------------------
(* Backup._update() and the _step methods                                  *)

UpdateTest(t) ==
    /\ pc[t] = "update"
    /\ Goto(t, IF cancel[job[t]] THEN "return" ELSE "write")
    /\ UNCHANGED <<srvVars, procVars, timeVars, jobVars, bus, locked, down, frame>>

\* When _paused is set, _paused.wait() returns at once, and then it is cleared.
\* Only the message of an error has an effect on the server.
UpdateWrite(t) == LET j == job[t] IN
    /\ pc[t] = "write"
    /\ st' = [st EXCEPT ![j] = to[t]]
    /\ paused' = [paused EXCEPT ![j] = FALSE]
    /\ IF to[t] = "error"
       THEN /\ Forward(t, [type |-> "update", job |-> j, state |-> "error"])
            /\ GoStop(t, TRUE)
       ELSE Goto(t, "step") /\ UNCHANGED <<bus, force>>
    /\ UNCHANGED <<srvVars, procVars, timeVars, cancel, proc, locked, down, job,
                   to, cont, passed>>

\* Without a key, _step_keygen calls self.server.warning(), and a Backup has no
\* attribute server; without an upload section, _step_upload calls
\* self._upload.valid() on None.  Both are AttributeErrors.
StepRaises(t) ==
    \/ to[t] = "keygen" /\ plan[job[t]] \in Keyless
    \/ to[t] = "uploading" /\ plan[job[t]] \in NoTarget

\* The steps that run no process: they go on to the next one at once.
NoProcess(t) ==
    \/ to[t] = "hash2"
    \/ to[t] = "uploading" /\ plan[job[t]] \notin Remote

StepRun(t) == LET p == <<job[t], to[t]>> IN
    /\ pc[t] = "step"
    /\ ~StepRaises(t)
    /\ IF NoProcess(t)
       THEN Goto(t, "next") /\ UNCHANGED <<proc, alive, watch>>
       ELSE /\ proc' = [proc EXCEPT ![job[t]] = to[t]]
            /\ alive' = alive \cup {p}
            /\ Watch(p)
            /\ Goto(t, "return")
    /\ UNCHANGED <<srvVars, frozen, timeVars, st, cancel, paused, bus, locked,
                   down, frame, passed>>

\* The process cannot be started, a file cannot be written, too little space.
StepFails(t) ==
    /\ pc[t] = "step"
    /\ ~StepRaises(t)
    /\ \/ to[t] # "uploading"
       \/ plan[job[t]] \in Remote
    /\ GoUpdate(t, "error")
    /\ UNCHANGED <<srvVars, procVars, timeVars, jobVars, bus, locked, down, job,
                   force, cont>>

StepRaise(t) ==
    /\ pc[t] = "step"
    /\ StepRaises(t)
    /\ Goto(t, "raise")
    /\ UNCHANGED <<srvVars, procVars, timeVars, jobVars, bus, locked, down, frame>>

-----------------------------------------------------------------------------
(* Backup._stop()                                                          *)

StopTest(t) ==
    /\ pc[t] = "stop"
    /\ Goto(t, IF cancel[job[t]] THEN "return" ELSE "kill")
    /\ UNCHANGED <<srvVars, procVars, timeVars, jobVars, bus, locked, down, frame>>

StopKill(t) == LET j == job[t] IN
    /\ pc[t] = "kill"
    /\ cancel' = [cancel EXCEPT ![j] = TRUE]
    /\ paused' = [paused EXCEPT ![j] = FALSE]
    /\ CancelTimer(j)
    /\ ref' = [ref EXCEPT ![j] = None]
    /\ Kill(j)
    /\ \/ Goto(t, "settle")
       \/ KillRaises(j) /\ Goto(t, "raise")
    /\ UNCHANGED <<srvVars, st, proc, bus, locked, down, frame, passed>>

\* Mutated: everything that is not forced is a success.
StopSettleDone(t) == LET j == job[t] IN
    /\ pc[t] = "settle"
    /\ st' = [st EXCEPT ![j] = IF force[t] THEN "error" ELSE "done"]
    /\ Goto(t, IF plan[j] \in PostCmd THEN "post" ELSE "announce")
    /\ UNCHANGED <<srvVars, procVars, timeVars, cancel, paused, proc, bus, locked,
                   down, frame, passed>>

StopSettle(t) == LET j == job[t] IN
    /\ pc[t] = "settle"
    /\ st' = [st EXCEPT ![j] = IF force[t] \/ @ # "uploading" THEN "error" ELSE "done"]
    /\ Goto(t, IF plan[j] \in PostCmd THEN "post" ELSE "announce")
    /\ UNCHANGED <<srvVars, procVars, timeVars, cancel, paused, proc, bus, locked,
                   down, frame, passed>>

\* _start_post_cmd(): its timeout is scheduled before the command is started.
StartPost(t) == LET j == job[t] IN
    /\ pc[t] = "post"
    /\ Schedule(j, "post")
    /\ \/ /\ proc' = [proc EXCEPT ![j] = "post"]
          /\ alive' = alive \cup {<<j, "post">>}
          /\ Watch(<<j, "post">>)
          /\ Goto(t, "return")
       \/ Goto(t, "announce") /\ UNCHANGED <<proc, alive, watch>>
    /\ UNCHANGED <<srvVars, frozen, st, cancel, paused, bus, locked, down, frame, passed>>

JobStep(t) ==
    \/ NextEnter(t) \/ Arm(t) \/ CheckPasses(t) \/ CheckFails(t) \/ Unlock(t) \/ Final(t)
    \/ UpdateTest(t) \/ UpdateWrite(t) \/ StepRun(t) \/ StepFails(t) \/ StepRaise(t)
    \/ StopTest(t) \/ StopKill(t) \/ StopSettle(t) \/ StartPost(t)

-----------------------------------------------------------------------------
(* A method of the Backup returns to, or raises in, whoever called it.     *)

\* Mutated: the thread does not leave the job.
CalmStays(t) ==
    /\ to' = [to EXCEPT ![t] = None]
    /\ force' = [force EXCEPT ![t] = FALSE]
    /\ cont' = [cont EXCEPT ![t] = None]
    /\ UNCHANGED job

Calm(t) ==     \* the thread is done with the job
    /\ job' = [job EXCEPT ![t] = 0]
    /\ to' = [to EXCEPT ![t] = None]
    /\ force' = [force EXCEPT ![t] = FALSE]
    /\ cont' = [cont EXCEPT ![t] = None]

ExecReturn ==
    /\ pc[Exec] = "return"
    /\ proc' = IF cont[Exec] = "forget" THEN [proc EXCEPT ![job[Exec]] = None] ELSE proc
    /\ Goto(Exec, "idle")
    /\ Calm(Exec)
    /\ UNCHANGED <<srvVars, procVars, timeVars, st, cancel, paused, bus, locked,
                   down, passed>>

\* An exception of a watch callback is logged; one of a scheduled task ends the
\* executer thread (Executer).  The dispatcher logs those of its hooks.
Raise(t) ==
    /\ pc[t] = "raise"
    /\ Goto(t, IF cont[t] = "task" THEN "dead"
               ELSE IF cont[t] = "shutdown" THEN "off" ELSE "idle")
    /\ Calm(t)
    /\ UNCHANGED <<srvVars, procVars, timeVars, jobVars, bus, locked, down>>

DispReturn ==
    /\ pc[Disp] = "return"
    /\ cont[Disp] = None
    /\ Goto(Disp, "idle")
    /\ Calm(Disp)
    /\ UNCHANGED <<srvVars, procVars, timeVars, jobVars, bus, locked, down>>

StartFailed ==     \* the Backup that could not be started is stopped and forgotten
    /\ pc[Disp] = "return"
    /\ cont[Disp] = "startfail"
    /\ current' = 0
    /\ Goto(Disp, "idle")
    /\ Calm(Disp)
    /\ UNCHANGED <<queue, made, plan, saved, procVars, timeVars, jobVars, bus, locked, down>>

\* save(): the "error" of the state file, unless the file cannot be written.
Save(j) ==
    \/ saved' = [saved EXCEPT ![plan[j]] = IF st[j] = "error" THEN "error" ELSE "ok"]
    \/ UNCHANGED saved

ShutdownSave ==
    /\ pc[Disp] = "return"
    /\ cont[Disp] = "shutdown"
    /\ Save(current)
    /\ current' = 0
    /\ Goto(Disp, "off")
    /\ Calm(Disp)
    /\ UNCHANGED <<queue, made, plan, procVars, timeVars, jobVars, bus, locked, down>>

-----------------------------------------------------------------------------
(* BackupServer: _select() and the Queue                                   *)

\* add_plans() adds neither a queued Plan nor the running one; those that are due in the
\* order of backup.json.
Fresh == {p \in Plan : p \notin Range(queue) /\ ~(Running(current) /\ p = plan[current])}

Due == SetToAllKPermutations(Fresh)

Enqueue(ps, first) == IF first THEN ps \o queue ELSE queue \o ps

\* Queue.next() drops the Plans whose check fails or that ran recently, and the
\* state file may not be writable: none is started ...
SelectNone(q) ==
    /\ \E k \in 1..Len(q) : queue' = SubSeq(q, k + 1, Len(q))
    /\ Goto(Disp, "idle")
    /\ Calm(Disp)
    /\ UNCHANGED <<made, plan>>

\* ... or a Backup is made of the first that is left, and start()ed; that fails
\* when the upload server cannot be reached, or for an OSError.
SelectStart(q) ==
    /\ made < MaxJob
    /\ made' = made + 1
    /\ \E k \in 1..Len(q) :
         /\ queue' = SubSeq(q, k + 1, Len(q))
         /\ plan' = [plan EXCEPT ![made + 1] = q[k]]
    /\ job' = [job EXCEPT ![Disp] = made + 1]
    /\ UNCHANGED to
    /\ \/ /\ Goto(Disp, "next")
          /\ cont' = [cont EXCEPT ![Disp] = None]
          /\ UNCHANGED force
       \/ /\ GoStop(Disp, TRUE)
          /\ cont' = [cont EXCEPT ![Disp] = "startfail"]

Idle == pc[Disp] = "idle"

Ready == Idle /\ Len(bus) < MaxBus     \* for a request of a client

\* A request to start Plan p (before all others), or those that are due.
Select(ps, first) ==
    /\ Ready
    /\ LET q == Enqueue(ps, first) IN
         IF Running(current)
         THEN /\ first
              /\ queue' = q
              /\ UNCHANGED <<current, made, plan, pc, frame>>
         ELSE /\ q # <<>>
              /\ \/ SelectNone(q) /\ UNCHANGED current
                 \/ SelectStart(q) /\ current' = made + 1
    /\ UNCHANGED <<saved, procVars, timeVars, jobVars, bus, locked, down>>

StartPlan(p) == Select(IF p \in Fresh THEN <<p>> ELSE <<>>, TRUE)

StartDue(ps) == Select(ps, FALSE)

\* _select() is left early: on battery, or backup.json cannot be used.
SelectRefused ==
    /\ Goto(Disp, "idle")
    /\ Calm(Disp)
    /\ UNCHANGED <<queue, made, plan>>

\* The end of a final message: save, and when a Plan is queued, queue those that
\* are due besides and start the next one.
FinalReturn(ps) ==
    /\ pc[Disp] = "return"
    /\ cont[Disp] = "final"
    /\ Save(current)
    /\ LET q == Enqueue(ps, FALSE) IN
         \/ SelectRefused /\ current' = 0
         \/ queue # <<>> /\ SelectNone(q) /\ current' = 0
         \/ queue # <<>> /\ SelectStart(q) /\ current' = made + 1
    /\ UNCHANGED <<procVars, timeVars, jobVars, bus, locked, down>>

-----------------------------------------------------------------------------
(* BackupServer.control() and hook()                                       *)

HandleLock ==     \* LockerServer.update() adds or removes the "backup" Locker
    /\ Idle
    /\ bus # <<>>
    /\ Last(bus).type \in {"lock", "unlock"}
    /\ locked' = (Last(bus).type = "lock")
    /\ bus' = Front(bus)
    /\ UNCHANGED <<srvVars, procVars, timeVars, jobVars, down, pc, frame>>

\* A message about the end of some Backup is applied to the current one.
HandleEnd ==
    /\ Idle
    /\ bus # <<>>
    /\ Last(bus).type \in {"update", "final"}
    /\ bus' = Front(bus)
    /\ IF current # 0 /\ Last(bus).state \in {"error", "done"}
       THEN /\ GoStop(Disp, FALSE)
            /\ job' = [job EXCEPT ![Disp] = current]
            /\ cont' = [cont EXCEPT ![Disp] = IF Last(bus).type = "final"
                                              THEN "final" ELSE None]
       ELSE UNCHANGED <<pc, job, force, cont>>
    /\ UNCHANGED <<srvVars, procVars, timeVars, jobVars, locked, down, to>>

UserStop ==
    /\ "stop" \in Event
    /\ Ready
    /\ Running(current)
    /\ GoStop(Disp, TRUE)
    /\ job' = [job EXCEPT ![Disp] = current]
    /\ UNCHANGED <<srvVars, procVars, timeVars, jobVars, bus, locked, down, to, cont>>

Dequeue(p) ==     \* a stop that names a queued Plan
    /\ "dequeue" \in Event
    /\ Ready
    /\ Running(current)
    /\ p \in Range(queue)
    /\ plan[current] # p
    /\ queue' = RemoveFirst(queue, p)
    /\ UNCHANGED <<current, made, plan, saved, procVars, timeVars, jobVars, bus,
                   locked, down, pc, frame>>

ClearState ==     \* MSG_USER removes the state file when no Backup runs
    /\ "clear" \in Event
    /\ Ready
    /\ ~Running(current)
    /\ saved' = [p \in Plan |-> None]
    /\ UNCHANGED <<current, queue, made, plan, procVars, timeVars, jobVars, bus,
                   locked, down, pc, frame>>

\* By the user, or by the hook when the system goes to sleep: first the process is
\* sent SIGSTOP if there is one, then _paused is set; the executer may be anywhere
\* in between.  resume() is the same with SIGCONT.
Suspend ==
    /\ "suspend" \in Event
    /\ Ready
    /\ Running(current)
    /\ ~paused[current]
    /\ frozen' = frozen \cup ({<<current, proc[current]>>} \cap alive)
    /\ Goto(Disp, "suspend")
    /\ job' = [job EXCEPT ![Disp] = current]
    /\ UNCHANGED <<srvVars, alive, watch, timeVars, jobVars, bus, locked, down,
                   to, force, cont>>

Resume ==
    /\ Ready
    /\ Running(current)
    /\ paused[current]
    /\ frozen' = frozen \ {<<current, proc[current]>>}
    /\ Goto(Disp, "resume")
    /\ job' = [job EXCEPT ![Disp] = current]
    /\ UNCHANGED <<srvVars, alive, watch, timeVars, jobVars, bus, locked, down,
                   to, force, cont>>

SetPaused ==
    /\ pc[Disp] \in {"suspend", "resume"}
    /\ paused' = [paused EXCEPT ![current] = (pc[Disp] = "suspend")]
    /\ Goto(Disp, "idle")
    /\ Calm(Disp)
    /\ UNCHANGED <<srvVars, procVars, timeVars, st, cancel, proc, passed, bus,
                   locked, down>>

ShutdownHook ==     \* after the last message of the list
    /\ Idle
    /\ down
    /\ bus = <<>>
    /\ IF Running(current)
       THEN /\ GoStop(Disp, FALSE)
            /\ job' = [job EXCEPT ![Disp] = current]
            /\ cont' = [cont EXCEPT ![Disp] = "shutdown"]
       ELSE Goto(Disp, "off") /\ UNCHANGED <<job, force, cont>>
    /\ UNCHANGED <<srvVars, procVars, timeVars, jobVars, bus, locked, down, to>>

ExecReturns == ExecReturn \/ Raise(Exec)

DispReturns == \/ DispReturn \/ StartFailed \/ ShutdownSave \/ SetPaused
               \/ \E ps \in Due : FinalReturn(ps)
               \/ Raise(Disp)

Handle == HandleLock \/ HandleEnd \/ ShutdownHook

-----------------------------------------------------------------------------
(* The executer thread calls back; the environment.                        *)

Callback(j, where, f, c) ==
    /\ pc[Exec] = "idle"
    /\ pc[Disp] # "off"
    /\ Goto(Exec, where)
    /\ job' = [job EXCEPT ![Exec] = j]
    /\ force' = [force EXCEPT ![Exec] = f]
    /\ cont' = [cont EXCEPT ![Exec] = c]
    /\ UNCHANGED <<srvVars, alive, frozen, ref, jobVars, bus, locked, down, to>>

Reap(p) ==
    /\ p \in watch \ alive
    /\ watch' = watch \ {p}
    /\ Callback(p[1], "next", FALSE, None)
    /\ UNCHANGED timer

\* The hours of BACKUP_TIMEOUT do not pass inside the call that starts the Backup.
Starting(j) == job[Disp] = j /\ pc[Disp] \in {"check", "update", "write", "step"}

StepTimeout(j) ==
    /\ "timeout" \in Event
    /\ "step" \in timer[j]
    /\ ~Starting(j)
    /\ timer' = [timer EXCEPT ![j] = @ \ {"step"}]
    /\ Callback(j, "stop", TRUE, "task")
    /\ UNCHANGED watch

PostTimeout(j) ==
    /\ "timeout" \in Event
    /\ "post" \in timer[j]
    /\ timer' = [timer EXCEPT ![j] = @ \ {"post"}]
    /\ Callback(j, "next", FALSE, "task")
    /\ UNCHANGED watch

Exit(p) ==
    /\ p \in alive \ frozen
    /\ alive' = alive \ {p}
    /\ UNCHANGED <<srvVars, frozen, watch, timeVars, jobVars, bus, locked, down, pc, frame>>

Down ==     \* Dispatcher.stop()
    /\ "down" \in Event
    /\ ~down
    /\ down' = TRUE
    /\ UNCHANGED <<srvVars, procVars, timeVars, jobVars, bus, locked, pc, frame>>

Next ==
    \/ \E t \in Thread : JobStep(t)
    \/ ExecReturns \/ DispReturns \/ Handle
    \/ \E p \in Plan : StartPlan(p) \/ Dequeue(p)
    \/ \E ps \in Due : StartDue(ps)
    \/ UserStop \/ ClearState \/ Suspend \/ Resume \/ Down
    \/ \E p \in Proc : Reap(p) \/ Exit(p)
    \/ \E j \in Job : StepTimeout(j) \/ PostTimeout(j)

Spec == Init /\ [][Next]_vars

\* Both threads are scheduled, the dispatcher gets to the messages that wait for
\* it, and time passes.  No client has to ask for anything, no process to end.
Fairness ==
    /\ \A t \in Thread : WF_vars(JobStep(t))
    /\ WF_vars(ExecReturns) /\ WF_vars(DispReturns)
    /\ WF_vars(Handle)
    /\ \A p \in Proc : WF_vars(Reap(p))
    /\ \A j \in Job : WF_vars(StepTimeout(j)) /\ WF_vars(PostTimeout(j))

FairSpec == Spec /\ Fairness

-----------------------------------------------------------------------------
(* Properties.                                                             *)

TypeOK ==
    /\ current \in 0..MaxJob
    /\ queue \in Seq(Plan)
    /\ made \in 0..MaxJob
    /\ plan \in [Job -> Plan \cup {None}]
    /\ st \in [Job -> State]
    /\ cancel \in [Job -> BOOLEAN]
    /\ paused \in [Job -> BOOLEAN]
    /\ proc \in [Job -> Step \cup {None}]
    /\ timer \in [Job -> SUBSET {"step", "post"}]
    /\ ref \in [Job -> {"step", "post", None}]
    /\ frozen \subseteq alive /\ alive \subseteq Proc /\ watch \subseteq Proc
    /\ bus \in Seq([type : {"lock", "unlock", "update", "final"}, job : Job,
                    state : State \cup {None}])
    /\ locked \in BOOLEAN
    /\ saved \in [Plan -> {None, "ok", "error"}]
    /\ down \in BOOLEAN
    /\ pc \in [Thread -> {"idle", "next", "arm", "check", "unlock", "final", "update",
                          "write", "step", "stop", "kill", "settle", "post",
                          "announce", "return", "suspend", "resume", "raise",
                          "dead", "off"}]
    /\ job \in [Thread -> 0..MaxJob]
    /\ \A t \in Thread : job[t] = 0 <=> pc[t] \in {"idle", "dead", "off"}
    /\ to \in [Thread -> State \cup {None}]
    /\ force \in [Thread -> BOOLEAN]
    /\ cont \in [Thread -> {None, "forget", "task", "final", "startfail", "shutdown"}]
    /\ passed \subseteq Proc

\* At most one Backup is not stopped, and it is the one the server can suspend
\* and stop: _current is replaced or forgotten only when its Backup is over.
OneLiveJob == \A j \in 1..made : ~cancel[j] => j = current

\* A Backup that is not stopped never has two processes, whatever the executer
\* and the dispatcher thread are doing with it.
OneProcess ==
    \A j \in 1..made :
        ~cancel[j] => /\ Cardinality({s \in Step : <<j, s>> \in alive}) <= 1
                      /\ \A s \in Step : <<j, s>> \in alive => proc[j] = s

\* A Plan is in the queue once, and not while its own Backup runs.
PlanOnce ==
    /\ IsInjective(queue)
    /\ Running(current) => plan[current] \notin Range(queue)

\* One Backup at a time, and no Plan that would be run twice.
OneAtATime == OneLiveJob /\ PlanOnce

\* A Backup ends in the state DONE only after its packing succeeded: until then
\* there is no archive, whoever stops it and whenever.
DoneIsPacked == \A j \in Job : st[j] = "done" => <<j, "packing">> \in passed

\* A Backup that is not stopped has a timeout, or a thread is working on it: it
\* can always be ended from the inside.
Guarded ==
    \A j \in 1..made :
        ~cancel[j] => \/ "step" \in timer[j]
                      \/ \E t \in Thread : job[t] = j
                      \/ down

\* A Backup that is not stopped is under control: of its process, and of its timeout.
Controlled == OneProcess /\ Guarded

\* Every Backup is stopped in the end, even when its process hangs or its step
\* has raised an exception, unless the service stops or a task has killed the
\* executer thread (which interrupts the service).
JobEnds == \A j \in Job : (j <= made) ~> (cancel[j] \/ down \/ pc[Exec] = "dead")

-----------------------------------------------------------------------------
(* What comments and messages of the code say, and the code does not do.   *)

\* suspend() has a comment: "so a suspended Backup task does not fail when it
\* wakes up".  A suspended Backup is not stopped by its timeout.
SuspendSurvives ==
    [][\A j \in Job : (paused[j] /\ pc[Exec] = "idle" /\ pc'[Exec] = "stop")
          => job'[Exec] # j]_vars
=============================================================================
