---------------------------- MODULE BackupProofs ----------------------------
(***************************************************************************)
(* Proofs about Backup, for any Plans, any number of Backups and any       *)
(* requests, which the dispatcher and the executer work on without a lock: *)
(* its types, that one Backup at a time has not been stopped, that a       *)
(* Backup is done only when its packing was, and that what runs for a      *)
(* Backup is under its control.                                            *)
(*                                                                         *)
(* What a thread may do in the middle of a method depends on how it came   *)
(* there, and the other thread may stop the Backup meanwhile.  BInv says   *)
(* for both what they may be at while the Backup is not stopped.           *)
(*                                                                         *)
(* JobStep(t), the steps inside the methods of one Backup, are treated one *)
(* by one (the lemmas ..Job).  All other steps are of five kinds, by what  *)
(* they do to threads and Backups, and each part of the invariant is shown *)
(* for the kinds (StepKinds and the lemmas ..Kinds).                       *)
(***************************************************************************)
EXTENDS Backup, ListLemmas, FiniteSetTheorems

\* The places of _next(), _update() and the _step methods.
Path == {"next", "arm", "check", "update", "write", "step"}

\* A Backup that was not made yet.
Blank(j) ==
    /\ ~cancel[j] /\ st[j] = "waiting" /\ proc[j] = None /\ timer[j] = {}
    /\ \A s \in Step : <<j, s>> \notin alive \cup watch

\* A Backup is blank until it is made, has its Plan from then on, and the dispatcher works on
\* the current one only.
Made ==
    /\ current <= made
    /\ \A t \in Thread : job[t] <= made
    /\ \A j \in Job : j > made => Blank(j)
    /\ \A j \in 1..made : plan[j] \in Plan
    /\ job[Disp] \in {0, current}

\* What a thread does when the Backup's method has returned.
Ends == {"final", "startfail", "shutdown"}

\* What comes after the method fits the place a thread is at; it forgets, ends or replaces the
\* current Backup only after a stop, and the Backup is cancelled then.
Afterward(t) ==
    /\ cont[t] \in Ends =>
          pc[t] \in {"stop", "kill", "settle", "post", "announce", "final", "return", "raise"}
    /\ cont[t] = "forget" =>
          \/ pc[t] \in {"update", "write"} /\ to[t] = "error"
          \/ pc[t] \in {"stop", "kill", "settle", "post", "announce", "final", "return", "raise"}
    /\ cont[t] \in Ends \cup {"forget"} /\ pc[t] = "return" => cancel[job[t]]
    /\ pc[t] \in {"unlock", "final", "settle", "post", "announce"} => cancel[job[t]]
    /\ pc[t] \in {"suspend", "resume"} => t = Disp

\* Both threads do so; the dispatcher never returns to the executer's callbacks.
Afterwards ==
    /\ cont[Disp] \in {None} \cup Ends
    /\ cont[Exec] \in {None, "forget", "task"}
    /\ \A t \in Thread : Afterward(t)

\* The call that starts a Backup has it to itself until its first process runs.
Alone ==
    LET j == job[Disp] IN
    pc[Disp] \in Path =>
        /\ j = made /\ job[Exec] # j
        /\ ~cancel[j] /\ cont[Disp] = None
        /\ st[j] \in {"waiting", "pre_cmd", "keygen"}
        /\ pc[Disp] \in {"next", "arm", "check"} => st[j] = "waiting" /\ proc[j] = None
        /\ pc[Disp] \in {"next", "arm"} => timer[j] = {}
        /\ pc[Disp] \in {"update", "write"} => to[Disp] \in {"pre_cmd", "keygen", "error"}
        /\ pc[Disp] = "step" => to[Disp] \in {"pre_cmd", "keygen"}
        /\ "post" \notin timer[j]

\* A Backup that is not stopped has the process of its state and no other, and none while a
\* thread is on the way from one process to the next.
Single(j) ==
    /\ \A s \in Step : <<j, s>> \in alive \cup watch =>
          /\ s = proc[j] /\ s = st[j]
          /\ \A t \in Thread : job[t] = j => pc[t] \notin Path
    /\ "post" \notin timer[j]
    /\ \A t \in Thread : job[t] = j /\ pc[t] = "step" => st[j] = to[t]

\* Every Backup that is not stopped.
Singles == \A j \in Job : ~cancel[j] => Single(j)

\* The states a thread is about to set.
Target ==
    \A t \in Thread :
        /\ pc[t] \in {"update", "write", "step"} =>
              to[t] \in {"pre_cmd", "keygen", "encrypt", "hash1", "hash2", "packing",
                         "uploading", "error"}
        /\ pc[t] = "step" => to[t] # "error"

\* The process that packs has exited with code 0 and passed _check_proc().
Packed(j) == <<j, "packing">> \in passed

\* A Backup gets beyond its packing only with the process that packed.
Packing(j) ==
    /\ st[j] \in {"uploading", "done"} => Packed(j)
    /\ \A t \in Thread : job[t] = j =>
        /\ pc[t] \in {"update", "write"} /\ to[t] = "uploading" => Packed(j)
        /\ st[j] = "packing" =>
              /\ pc[t] \in {"arm", "check"} => proc[j] = "packing"
              /\ pc[t] = "next" /\ ~cancel[j] => proc[j] = "packing"
              /\ pc[t] \in {"arm", "check"} => \A u \in Thread : job[u] = j => pc[u] # "post"

\* Every Backup.
Packings == \A j \in Job : Packing(j)

\* A Backup that is not stopped has its timeout, or a thread is about to set one or to stop it.
Watched ==
    \A j \in 1..made : ~cancel[j] =>
        \/ "step" \in timer[j] \/ down
        \/ \E t \in Thread : job[t] = j /\ pc[t] \in {"next", "arm", "stop", "kill"}

\* The inductive invariant.
BInv ==
    /\ TypeOK /\ Made /\ Afterwards /\ Alone /\ Singles
    /\ Target /\ Packings /\ Watched /\ OneAtATime

-----------------------------------------------------------------------------
(* The parts of the type invariant.                                        *)

\* The messages on the bus.
Message == [type : {"lock", "unlock", "update", "final"}, job : Job, state : State \cup {None}]

\* A thread that has no Backup,
Resting == {"idle", "dead", "off"}

\* and one that has.
Working == Path \cup {"unlock", "final", "stop", "kill", "settle", "post", "announce", "return",
                      "suspend", "resume", "raise"}

\* The variables of BackupServer,
Servers ==
    /\ current \in 0..MaxJob /\ made \in 0..MaxJob /\ plan \in [Job -> Plan \cup {None}]
    /\ queue \in Seq(Plan) /\ saved \in [Plan -> {None, "ok", "error"}]

\* of the Backups,
Jobs ==
    /\ st \in [Job -> State] /\ cancel \in [Job -> BOOLEAN] /\ paused \in [Job -> BOOLEAN]
    /\ proc \in [Job -> Step \cup {None}] /\ passed \subseteq Proc

\* of their timeouts,
Timers ==
    timer \in [Job -> SUBSET {"step", "post"}] /\ ref \in [Job -> {"step", "post", None}]

\* of their processes,
Processes == frozen \subseteq alive /\ alive \subseteq Proc /\ watch \subseteq Proc

\* of the bus and the hosts,
Signals == bus \in Seq(Message) /\ locked \in BOOLEAN /\ down \in BOOLEAN

\* and of the threads.
Threads ==
    /\ pc \in [Thread -> Resting \cup Working]
    /\ job \in [Thread -> 0..MaxJob]
    /\ \A t \in Thread : job[t] = 0 <=> pc[t] \in Resting
    /\ to \in [Thread -> State \cup {None}]
    /\ force \in [Thread -> BOOLEAN]
    /\ cont \in [Thread -> {None, "forget", "task", "final", "startfail", "shutdown"}]

\* TypeOK is the conjunction of these parts.
LEMMA TypeParts ==
    /\ TypeOK <=> Servers /\ Jobs /\ Timers /\ Processes /\ Signals /\ Threads
    /\ TypeOK' <=> Servers' /\ Jobs' /\ Timers' /\ Processes' /\ Signals' /\ Threads'
<1>1. Resting \cup Working =
        {"idle", "next", "arm", "check", "unlock", "final", "update", "write", "step", "stop",
         "kill", "settle", "post", "announce", "return", "suspend", "resume", "raise", "dead",
         "off"}
  BY DEF Resting, Working, Path
<1> QED
  BY <1>1 DEF TypeOK, Servers, Jobs, Timers, Processes, Signals, Threads, Message, Resting

\* A part is kept by a step that leaves its variables alone.
LEMMA PartsRest ==
    /\ Servers /\ UNCHANGED srvVars => Servers'
    /\ Jobs /\ UNCHANGED jobVars => Jobs'
    /\ Timers /\ UNCHANGED timeVars => Timers'
    /\ Processes /\ UNCHANGED procVars => Processes'
    /\ Signals /\ UNCHANGED <<bus, locked, down>> => Signals'
BY DEF Servers, Jobs, Timers, Processes, Signals, srvVars, jobVars, timeVars, procVars

\* A message is appended.
LEMMA BusGrows ==
    ASSUME Signals, NEW t \in Thread, NEW m \in Message, Forward(t, m)
    PROVE  bus' \in Seq(Message)
<1>1. bus \in Seq(Message)
  BY DEF Signals
<1>2. Append(bus, m) \in Seq(Message)
  BY <1>1
<1> QED
  BY <1>1, <1>2 DEF Forward

\* A thread goes from one place to another in the same method,
LEMMA Goes ==
    ASSUME Threads, NEW t \in Thread, pc[t] \notin Resting, NEW place \in Working,
           Goto(t, place), UNCHANGED <<job, to, force, cont>>
    PROVE  Threads'
BY DEF Threads, Goto, Resting, Working, Path

\* to _update() with the state to set,
LEMMA GoesTo ==
    ASSUME Threads, NEW t \in Thread, pc[t] \notin Resting, NEW s \in State,
           GoUpdate(t, s), UNCHANGED <<job, force, cont>>
    PROVE  Threads'
BY DEF Threads, GoUpdate, Goto, Resting, Working, Path

\* and to stop().
LEMMA GoesToStop ==
    ASSUME Threads, NEW t \in Thread, pc[t] \notin Resting, NEW f \in BOOLEAN,
           GoStop(t, f), UNCHANGED <<job, to, cont>>
    PROVE  Threads'
BY DEF Threads, GoStop, Goto, Resting, Working, Path

\* The steps inside a Backup's methods keep the types.
LEMMA TypeJob ==
    ASSUME TypeOK, Target, NEW t \in Thread, JobStep(t)
    PROVE  TypeOK'
<1> USE DEF frame
<1>0. /\ Servers /\ Jobs /\ Timers /\ Processes /\ Signals /\ Threads
      /\ pc[t] \notin Resting => job[t] \in Job
  BY TypeParts, BackupAssumption DEF Threads, Job
<1> DEFINE j == job[t]
<1>1. CASE NextEnter(t)
  <2>1. pc[t] \notin Resting /\ Threads'
    BY <1>0, <1>1, Goes DEF NextEnter, Resting, Working, Path
  <2>2. Timers'
    BY <1>0, <1>1, <2>1 DEF NextEnter, CancelTimer, Timers
  <2> QED
    BY <1>0, <1>1, <2>1, <2>2, PartsRest, TypeParts DEF NextEnter
<1>2. CASE Arm(t)
  <2>1. pc[t] \notin Resting
    BY <1>2 DEF Arm, Resting
  <2>2. Threads'
    <3>1. CASE GoUpdate(t, "pre_cmd") /\ UNCHANGED force
      BY <1>0, <1>2, <2>1, <3>1, GoesTo DEF Arm, State
    <3>2. CASE Goto(t, "check") /\ UNCHANGED <<to, force>>
      BY <1>0, <1>2, <2>1, <3>2, Goes DEF Arm, Working, Path
    <3>3. CASE GoStop(t, TRUE) /\ UNCHANGED to
      BY <1>0, <1>2, <2>1, <3>3, GoesToStop DEF Arm
    <3> QED
      BY <1>2, <3>1, <3>2, <3>3 DEF Arm
  <2>3. Timers'
    BY <1>0, <1>2, <2>1 DEF Arm, Schedule, Timers
  <2>4. [type |-> "lock", job |-> j, state |-> None] \in Message
    BY <1>0, <2>1 DEF Message
  <2>5. Signals'
    BY <1>0, <1>2, <2>4, BusGrows DEF Arm, Signals
  <2> QED
    BY <1>2, <2>2, <2>3, <2>5, PartsRest, TypeParts DEF Arm
<1>3. CASE CheckPasses(t)
  <2>1. pc[t] \notin Resting
    BY <1>3 DEF CheckPasses, Resting
  <2>2. Threads'
    <3>1. CASE st[j] \in DOMAIN After
      <4>1. After[st[j]] \in State
        BY <3>1 DEF After, State
      <4> QED
        BY <1>0, <1>3, <2>1, <3>1, <4>1, GoesTo DEF CheckPasses
    <3>2. CASE st[j] \notin DOMAIN After
      BY <1>0, <1>3, <2>1, <3>2, GoesToStop DEF CheckPasses
    <3> QED
      BY <3>1, <3>2
  <2>3. Jobs'
    BY <1>0, <1>3, <2>1 DEF CheckPasses, Jobs, Proc, Step
  <2> QED
    BY <1>0, <1>3, <2>2, <2>3, PartsRest, TypeParts DEF CheckPasses
<1>4. CASE CheckFails(t)
  <2>1. pc[t] \notin Resting /\ Threads'
    BY <1>0, <1>4 DEF CheckFails, GoUpdate, Goto, Threads, Resting, Working, Path, State
  <2> QED
    BY <1>0, <1>4, <2>1, PartsRest, TypeParts DEF CheckFails
<1>5. CASE Unlock(t)
  <2>1. pc[t] \notin Resting /\ Threads'
    BY <1>0, <1>5, Goes DEF Unlock, Resting, Working, Path
  <2>2. Timers' /\ Processes'
    BY <1>0, <1>5 DEF Unlock, CancelTimer, Kill, Timers, Processes
  <2>3. [type |-> "unlock", job |-> j, state |-> None] \in Message
    BY <1>0, <2>1 DEF Message
  <2>4. Signals'
    BY <1>0, <1>5, <2>3, BusGrows DEF Unlock, Signals
  <2> QED
    BY <1>5, <2>1, <2>2, <2>4, PartsRest, TypeParts DEF Unlock
<1>6. CASE Final(t)
  <2>1. pc[t] \notin Resting /\ Threads'
    BY <1>0, <1>6, Goes DEF Final, Resting, Working, Path
  <2>2. [type |-> "final", job |-> j, state |-> st[j]] \in Message
    BY <1>0, <2>1 DEF Message, Jobs
  <2>3. Signals'
    BY <1>0, <1>6, <2>2, BusGrows DEF Final, Signals
  <2> QED
    BY <1>0, <1>6, <2>1, <2>3, PartsRest, TypeParts DEF Final
<1>7. CASE UpdateTest(t)
  <2>1. Threads'
    BY <1>0, <1>7, Goes DEF UpdateTest, Resting, Working, Path
  <2> QED
    BY <1>0, <1>7, <2>1, PartsRest, TypeParts DEF UpdateTest
<1>8. CASE UpdateWrite(t)
  <2>1. pc[t] \notin Resting /\ j \in Job /\ to[t] \in State
    BY <1>0, <1>8 DEF UpdateWrite, Resting, Target, State
  <2>2. Threads'
    BY <1>0, <1>8, <2>1, Goes, GoesToStop DEF UpdateWrite, Working, Path
  <2>3. [type |-> "update", job |-> j, state |-> "error"] \in Message
    BY <2>1 DEF Message, State
  <2>4. Signals'
    BY <1>0, <1>8, <2>3, BusGrows DEF UpdateWrite, Signals
  <2>5. Jobs'
    BY <1>0, <1>8, <2>1 DEF UpdateWrite, Jobs
  <2> QED
    BY <1>8, <2>2, <2>4, <2>5, PartsRest, TypeParts DEF UpdateWrite
<1>9. CASE StepRun(t)
  <2>1. pc[t] \notin Resting /\ j \in Job
    BY <1>0, <1>9 DEF StepRun, Resting
  <2>2. ~NoProcess(t) => to[t] \in Step
    BY <1>9 DEF StepRun, Target, NoProcess, Step
  <2>3. Threads'
    BY <1>0, <1>9, <2>1, Goes DEF StepRun, Working, Path
  <2>4. Jobs'
    BY <1>0, <1>9, <2>1, <2>2 DEF StepRun, Jobs
  <2>5. Processes'
    BY <1>0, <1>9, <2>1, <2>2 DEF StepRun, Processes, Watch, Proc
  <2> QED
    BY <1>9, <2>3, <2>4, <2>5, PartsRest, TypeParts DEF StepRun
<1>10. CASE StepFails(t)
  <2>1. Threads'
    BY <1>0, <1>10, GoesTo DEF StepFails, Resting, State
  <2> QED
    BY <1>0, <1>10, <2>1, PartsRest, TypeParts DEF StepFails
<1>11. CASE StepRaise(t)
  <2>1. Threads'
    BY <1>0, <1>11, Goes DEF StepRaise, Resting, Working, Path
  <2> QED
    BY <1>0, <1>11, <2>1, PartsRest, TypeParts DEF StepRaise
<1>12. CASE StopTest(t)
  <2>1. Threads'
    BY <1>0, <1>12, Goes DEF StopTest, Resting, Working, Path
  <2> QED
    BY <1>0, <1>12, <2>1, PartsRest, TypeParts DEF StopTest
<1>13. CASE StopKill(t)
  <2>1. pc[t] \notin Resting /\ Threads'
    BY <1>0, <1>13, Goes DEF StopKill, Resting, Working, Path
  <2>2. Timers' /\ Processes' /\ Jobs'
    BY <1>0, <1>13 DEF StopKill, CancelTimer, Kill, Timers, Processes, Jobs
  <2> QED
    BY <1>0, <1>13, <2>1, <2>2, PartsRest, TypeParts DEF StopKill
<1>14. CASE StopSettle(t)
  <2>1. pc[t] \notin Resting /\ Threads'
    BY <1>0, <1>14, Goes DEF StopSettle, Resting, Working, Path
  <2>2. Jobs'
    BY <1>0, <1>14, <2>1 DEF StopSettle, Jobs, State
  <2> QED
    BY <1>0, <1>14, <2>1, <2>2, PartsRest, TypeParts DEF StopSettle
<1>15. CASE StartPost(t)
  <2>1. pc[t] \notin Resting /\ j \in Job
    BY <1>0, <1>15 DEF StartPost, Resting
  <2>2. Threads'
    BY <1>0, <1>15, <2>1, Goes DEF StartPost, Working, Path
  <2>3. Timers'
    BY <1>0, <1>15, <2>1 DEF StartPost, Schedule, Timers
  <2>4. Jobs' /\ Processes'
    BY <1>0, <1>15, <2>1 DEF StartPost, Jobs, Processes, Watch, Proc, Step
  <2> QED
    BY <1>15, <2>2, <2>3, <2>4, PartsRest, TypeParts DEF StartPost
<1> QED
  BY <1>1, <1>2, <1>3, <1>4, <1>5, <1>6, <1>7, <1>8, <1>9, <1>10, <1>11, <1>12, <1>13, <1>14,
     <1>15 DEF JobStep

\* Nothing is done to another Backup than that of the thread.
-----------------------------------------------------------------------------
(* The steps inside the methods of one Backup.                             *)

Others(j) ==
    /\ \A k \in Job \ {j} :
          /\ st'[k] = st[k] /\ cancel'[k] = cancel[k] /\ proc'[k] = proc[k]
          /\ timer'[k] = timer[k]
          /\ \A s \in Step : /\ <<k, s>> \in alive' <=> <<k, s>> \in alive
                             /\ <<k, s>> \in watch' <=> <<k, s>> \in watch
                             /\ <<k, s>> \in passed' <=> <<k, s>> \in passed
    /\ \A k \in Job : Packed(k) => Packed(k)'
    /\ \A k \in Job : cancel[k] => cancel'[k]

\* Each step inside a method of a Backup does so, and moves its own thread only.
LEMMA JobLocal ==
    ASSUME TypeOK, NEW t \in Thread, JobStep(t)
    PROVE  /\ Others(job[t]) /\ job[t] \in Job /\ pc[t] \notin Resting \cup {"suspend", "resume"}
           /\ UNCHANGED <<current, made, plan, queue, down, job>>
           /\ \A u \in Thread \ {t} : pc'[u] = pc[u] /\ to'[u] = to[u] /\ cont'[u] = cont[u]
<1> USE DEF srvVars, procVars, timeVars, jobVars, frame, Goto
<1>0. /\ Jobs /\ Timers /\ Threads /\ Servers
      /\ (pc[t] \notin Resting => job[t] \in Job)
  BY TypeParts, BackupAssumption DEF Threads, Job
<1>1. CASE NextEnter(t)
  BY <1>0, <1>1 DEF NextEnter, CancelTimer, Others, Packed, Resting
<1>2. CASE Arm(t)
  BY <1>0, <1>2 DEF Arm, Schedule, GoUpdate, GoStop, Others, Packed, Threads, Resting
<1>3. CASE CheckPasses(t)
  BY <1>0, <1>3 DEF CheckPasses, GoUpdate, GoStop, Others, Packed, Threads, Resting
<1>4. CASE CheckFails(t)
  BY <1>0, <1>4 DEF CheckFails, GoUpdate, Others, Packed, Resting
<1>5. CASE Unlock(t)
  BY <1>0, <1>5 DEF Unlock, CancelTimer, Kill, Others, Packed, Timers, Threads, Resting
<1>6. CASE Final(t)
  BY <1>0, <1>6 DEF Final, Others, Packed, Resting
<1>7. CASE UpdateTest(t)
  BY <1>0, <1>7 DEF UpdateTest, Others, Packed, Resting
<1>8. CASE UpdateWrite(t)
  BY <1>0, <1>8 DEF UpdateWrite, GoStop, Others, Packed, Threads, Resting
<1>9. CASE StepRun(t)
  <2>1. pc[t] = "step" /\ job[t] \in Job
    BY <1>0, <1>9 DEF StepRun, Resting
  <2>2. /\ alive' = alive \/ alive' = alive \cup {<<job[t], to[t]>>}
        /\ watch' = watch \/ watch' = watch \cup {<<job[t], to[t]>>}
        /\ proc' = proc \/ proc' = [proc EXCEPT ![job[t]] = to[t]]
        /\ UNCHANGED <<st, cancel, timer, passed, to, cont, job, down, current, made, plan, queue>>
        /\ \A u \in Thread \ {t} : pc'[u] = pc[u]
    BY <1>0, <1>9 DEF StepRun, Watch, Threads
  <2>3. Others(job[t])
    BY <1>0, <2>1, <2>2 DEF Others, Packed, Jobs
  <2> QED
    BY <2>1, <2>2, <2>3 DEF Resting
<1>10. CASE StepFails(t)
  BY <1>0, <1>10 DEF StepFails, GoUpdate, Others, Packed, Resting
<1>11. CASE StepRaise(t)
  BY <1>0, <1>11 DEF StepRaise, Others, Packed, Resting
<1>12. CASE StopTest(t)
  BY <1>0, <1>12 DEF StopTest, Others, Packed, Resting
<1>13. CASE StopKill(t)
  BY <1>0, <1>13 DEF StopKill, CancelTimer, Kill, Others, Packed, Threads, Resting
<1>14. CASE StopSettle(t)
  BY <1>0, <1>14 DEF StopSettle, Others, Packed, Resting
<1>15. CASE StartPost(t)
  BY <1>0, <1>15 DEF StartPost, Schedule, Watch, Others, Packed, Jobs, Threads, Resting
<1> QED
  BY <1>1, <1>2, <1>3, <1>4, <1>5, <1>6, <1>7, <1>8, <1>9, <1>10, <1>11, <1>12, <1>13, <1>14,
     <1>15 DEF JobStep

\* No such step makes or replaces a Backup.
LEMMA MadeJob ==
    ASSUME TypeOK, Made, NEW t \in Thread, JobStep(t)
    PROVE  Made'
<1>1. Servers /\ Threads /\ made \in Nat /\ job[t] <= made
  BY TypeParts, BackupAssumption DEF Made, Servers
<1>2. \A k \in Job : k > made => k # job[t]
  BY <1>1, JobLocal, BackupAssumption DEF Job
<1>3. \A k \in Job : k > made => Blank(k)'
  BY <1>2, JobLocal DEF Made, Blank, Others
<1> QED
  BY <1>3, JobLocal DEF Made

\* The call that starts a Backup still has it to itself: the other thread works on another one.
LEMMA AloneJob ==
    ASSUME TypeOK, Alone, NEW t \in Thread, JobStep(t)
    PROVE  Alone'
<1> USE DEF srvVars, procVars, timeVars, jobVars, frame, Goto
<1>0. /\ Jobs /\ Timers /\ Threads /\ Servers
      /\ (pc[t] \notin Resting => job[t] \in Job)
  BY TypeParts, BackupAssumption DEF Threads, Job
<1>a. CASE t = Exec
  <2>1. SUFFICES ASSUME pc[Disp] \in Path PROVE Alone'
    BY <1>a, JobLocal, BackupAssumption DEF Alone, Thread
  <2>2. job[Disp] \in Job /\ job[Disp] # job[t] /\ job[Disp] = made
    BY <1>a, <1>0, <2>1 DEF Alone, Path, Threads, Resting, Thread, Job
  <2> QED
    BY <2>2, JobLocal DEF Alone, Others, Thread
<1>b. CASE t = Disp
  <2>1. CASE NextEnter(t)
    BY <2>1 DEF NextEnter, CancelTimer, Alone, Path
  <2>2. CASE Arm(t)
    BY <1>0, <1>b, <2>2 DEF Arm, Schedule, GoUpdate, GoStop, Alone, Path, Threads
  <2>3. CASE CheckPasses(t)
    BY <1>0, <1>b, <2>3 DEF CheckPasses, GoUpdate, GoStop, After, Alone, Path, Threads
  <2>4. CASE CheckFails(t)
    BY <1>b, <2>4 DEF CheckFails, Alone, Path
  <2>5. CASE Unlock(t)
    BY <1>0, <1>b, <2>5 DEF Unlock, Alone, Path, Threads
  <2>6. CASE Final(t)
    BY <2>6 DEF Final, Alone, Path
  <2>7. CASE UpdateTest(t)
    BY <2>7 DEF UpdateTest, Alone, Path
  <2>8. CASE UpdateWrite(t)
    BY <1>0, <1>b, <2>8 DEF UpdateWrite, GoStop, Alone, Path, Threads
  <2>9. CASE StepRun(t)
    BY <1>0, <1>b, <2>9 DEF StepRun, NoProcess, Alone, Path, Threads
  <2>10. CASE StepFails(t)
    BY <1>0, <2>10 DEF StepFails, GoUpdate, Alone, Path, Threads
  <2>11. CASE StepRaise(t)
    BY <2>11 DEF StepRaise, Alone, Path
  <2>12. CASE StopTest(t)
    BY <2>12 DEF StopTest, Alone, Path
  <2>13. CASE StopKill(t)
    BY <1>0, <1>b, <2>13 DEF StopKill, Alone, Path, Threads
  <2>14. CASE StopSettle(t)
    BY <1>b, <2>14 DEF StopSettle, Alone, Path
  <2>15. CASE StartPost(t)
    BY <1>0, <1>b, <2>15 DEF StartPost, Alone, Path, Threads
  <2> QED
    BY <2>1, <2>2, <2>3, <2>4, <2>5, <2>6, <2>7, <2>8, <2>9, <2>10, <2>11, <2>12, <2>13, <2>14,
       <2>15 DEF JobStep
<1> QED
  BY <1>a, <1>b DEF Thread

\* Two threads are never both on the way to the next process of one Backup.
LEMMA OnePath ==
    ASSUME TypeOK, Alone, NEW t \in Thread, NEW u \in Thread \ {t}, job[u] = job[t], pc[t] \in Path
    PROVE  pc[u] \notin Path
BY BackupAssumption DEF Alone, Thread

\* What a thread does to a Backup that the other one is not about to move on.
LEMMA PackingPath ==
    ASSUME NEW k \in Job, Packing(k), NEW t \in Thread, job[t] = k, UNCHANGED job,
           \A u \in Thread \ {t} :
              pc'[u] = pc[u] /\ to'[u] = to[u] /\ (job[u] = k => pc[u] \notin Path),
           Packed(k) => Packed(k)',
           UNCHANGED st \/ (st'[k] \in {"uploading", "done"} => Packed(k)'),
           pc'[t] \in {"update", "write"} /\ to'[t] = "uploading" => Packed(k)',
           pc'[t] \in {"arm", "check"} \/ (pc'[t] = "next" /\ ~cancel'[k]) =>
              st'[k] # "packing" \/
              (proc'[k] = "packing" /\ \A u \in Thread : job[u] = k => pc'[u] # "post")
    PROVE  Packing(k)'
BY DEF Packing, Path

\* and when it stops the Backup.
LEMMA PackingFrame ==
    ASSUME NEW k \in Job, Packing(k), NEW t \in Thread, job[t] = k, UNCHANGED job,
           \A u \in Thread \ {t} : pc'[u] = pc[u] /\ to'[u] = to[u],
           Packed(k) => Packed(k)', cancel[k] => cancel'[k],
           \/ UNCHANGED st
           \/ /\ st'[k] \notin {"packing", "uploading"}
              /\ st'[k] = "done" => st[k] = "uploading",
           proc'[k] = proc[k],
           pc'[t] \in {"update", "write"} /\ to'[t] = "uploading" => Packed(k)',
           pc'[t] = "post" => st'[k] # "packing",
           pc'[t] \in {"arm", "check"} \/ (pc'[t] = "next" /\ ~cancel'[k]) =>
              st'[k] # "packing" \/
              (proc'[k] = "packing" /\ \A u \in Thread : job[u] = k => pc'[u] # "post")
    PROVE  Packing(k)'
BY DEF Packing

\* A process is run when the one before has exited, and the timeout sees no other.
LEMMA SingleJob ==
    ASSUME TypeOK, Afterwards, Alone, Singles, NEW t \in Thread, JobStep(t)
    PROVE  Singles'
<1> USE DEF srvVars, procVars, timeVars, jobVars, frame, Goto
<1>0. /\ Jobs /\ Timers /\ Threads /\ Servers
      /\ (pc[t] \notin Resting => job[t] \in Job)
  BY TypeParts, BackupAssumption DEF Threads, Job
<1>a. SUFFICES ASSUME NEW k \in Job, ~cancel'[k], k = job[t] PROVE Single(k)'
  <2>1. ASSUME NEW k \in Job, k # job[t], ~cancel'[k] PROVE Single(k)'
    <3>1. Single(k) /\ cancel[k] = cancel'[k]
      BY <2>1, JobLocal DEF Singles, Others
    <3>2. \A u \in Thread : job[u] = k => /\ job'[u] = k /\ pc'[u] = pc[u] /\ to'[u] = to[u]
      BY <2>1, JobLocal
    <3>3. \A u \in Thread : job'[u] = job[u]
      BY JobLocal
    <3>4. /\ st'[k] = st[k] /\ proc'[k] = proc[k] /\ timer'[k] = timer[k]
          /\ \A s \in Step : <<k, s>> \in alive' \cup watch' => <<k, s>> \in alive \cup watch
          /\ Packed(k) => Packed(k)'
      BY <2>1, JobLocal DEF Others
    <3> QED
      BY <3>1, <3>2, <3>3, <3>4 DEF Single
  <2> QED
    BY <2>1 DEF Singles
<1>b. Single(k)
  BY <1>a, JobLocal DEF Singles, Others
<1>c. \A u \in Thread \ {t} : job[u] = k /\ pc[t] \in Path => pc[u] \notin Path
  BY <1>a, OnePath
<1>d. /\ ~cancel[k] => Single(k)
      /\ \A u \in Thread : pc[u] = "post" => cancel[job[u]]
  BY <1>a DEF Singles, Afterwards, Afterward
<1>1. CASE NextEnter(t)
  BY <1>b, <1>1 DEF NextEnter, CancelTimer, Single, Path
<1>2. CASE Arm(t)
  BY <1>0, <1>b, <1>2 DEF Arm, Schedule, GoUpdate, GoStop, Single, Path, Threads
<1>3. CASE CheckPasses(t)
  BY <1>0, <1>b, <1>3 DEF CheckPasses, GoUpdate, GoStop, Single, Path, Threads
<1>4. CASE CheckFails(t)
  BY <1>b, <1>4 DEF CheckFails, GoUpdate, Single, Path
<1>5. CASE Unlock(t)
  BY <1>a, <1>5 DEF Unlock, Afterwards, Afterward
<1>6. CASE Final(t)
  BY <1>b, <1>6 DEF Final, Single, Path
<1>7. CASE UpdateTest(t)
  BY <1>b, <1>7 DEF UpdateTest, Single, Path
<1>8. CASE UpdateWrite(t)
  <2>1. \A s \in Step : <<k, s>> \notin alive \cup watch
    BY <1>a, <1>b, <1>8 DEF UpdateWrite, Single, Path
  <2>2. \A u \in Thread : job[u] = k /\ pc'[u] = "step" => u = t /\ st'[k] = to[u]
    BY <1>0, <1>c, <1>8, JobLocal DEF UpdateWrite, Jobs, Path
  <2> QED
    BY <1>a, <1>b, <1>8, <2>1, <2>2 DEF UpdateWrite, Single
<1>9. CASE StepRun(t)
  <2>1. \A s \in Step : <<k, s>> \notin alive \cup watch
    BY <1>a, <1>b, <1>9 DEF StepRun, Single, Path
  <2>2. st[k] = to[t] /\ pc[t] = "step"
    BY <1>a, <1>b, <1>9 DEF StepRun, Single
  <2>3. CASE NoProcess(t)
    BY <1>b, <1>9, <2>1, <2>3, JobLocal DEF StepRun, Single
  <2>4. CASE ~NoProcess(t)
    <3>1. /\ proc'[k] = to[t] /\ pc'[t] = "return" /\ UNCHANGED <<st, timer, to, job>>
          /\ \A s \in Step : <<k, s>> \in alive' \cup watch' => s = to[t]
      BY <1>0, <1>a, <1>9, <2>1, <2>4 DEF StepRun, Watch, Jobs, Threads
    <3>2. \A u \in Thread : job[u] = k => pc'[u] \notin Path
      BY <1>a, <1>c, <2>2, <3>1, JobLocal DEF Path
    <3> QED
      BY <1>b, <2>2, <3>1, <3>2 DEF Single, Path
  <2> QED
    BY <2>3, <2>4
<1>10. CASE StepFails(t)
  BY <1>0, <1>b, <1>10 DEF StepFails, GoUpdate, Single, Path, Threads
<1>11. CASE StepRaise(t)
  BY <1>b, <1>11 DEF StepRaise, Single, Path
<1>12. CASE StopTest(t)
  BY <1>b, <1>12 DEF StopTest, Single, Path
<1>13. CASE StopKill(t)
  BY <1>0, <1>a, <1>13 DEF StopKill, Jobs
<1>14. CASE StopSettle(t)
  BY <1>a, <1>14 DEF StopSettle, Afterwards, Afterward
<1>15. CASE StartPost(t)
  BY <1>a, <1>15 DEF StartPost, Afterwards, Afterward
<1> QED
  BY <1>1, <1>2, <1>3, <1>4, <1>5, <1>6, <1>7, <1>8, <1>9, <1>10, <1>11, <1>12, <1>13, <1>14,
     <1>15 DEF JobStep

\* UPLOADING is set only by a thread that has seen the packing pass.
LEMMA PackingJob ==
    ASSUME TypeOK, Afterwards, Alone, Singles, Target, Packings, NEW t \in Thread, JobStep(t)
    PROVE  Packings'
<1> USE DEF srvVars, procVars, timeVars, jobVars, frame, Goto
<1>0. /\ Jobs /\ Timers /\ Threads /\ Servers
      /\ (pc[t] \notin Resting => job[t] \in Job)
  BY TypeParts, BackupAssumption DEF Threads, Job
<1>a. SUFFICES ASSUME NEW k \in Job, k = job[t] PROVE Packing(k)'
  <2>1. ASSUME NEW k \in Job, k # job[t] PROVE Packing(k)'
    <3>1. Packing(k) /\ cancel[k] = cancel'[k]
      BY <2>1, JobLocal DEF Packings, Others
    <3>2. \A u \in Thread : job[u] = k => /\ job'[u] = k /\ pc'[u] = pc[u] /\ to'[u] = to[u]
      BY <2>1, JobLocal
    <3>3. \A u \in Thread : job'[u] = job[u]
      BY JobLocal
    <3>4. /\ st'[k] = st[k] /\ proc'[k] = proc[k] /\ (Packed(k) => Packed(k)')
      BY <2>1, JobLocal DEF Others
    <3> QED
      BY <3>1, <3>2, <3>3, <3>4 DEF Packing
  <2> QED
    BY <2>1 DEF Packings
<1>b. Packing(k)
  BY <1>a, JobLocal DEF Packings, Others
<1>c. \A u \in Thread \ {t} : job[u] = k /\ pc[t] \in Path => pc[u] \notin Path
  BY <1>a, OnePath
<1>d. /\ ~cancel[k] => Single(k)
      /\ \A u \in Thread : pc[u] = "post" => cancel[job[u]]
  BY <1>a DEF Singles, Afterwards, Afterward
<1>1. CASE NextEnter(t)
  <2>1. /\ st' = st /\ proc' = proc /\ pc'[t] \in {"unlock", "arm"}
        /\ pc'[t] = "arm" => ~cancel[k] /\ (st[k] = "packing" => proc[k] = "packing")
    BY <1>0, <1>a, <1>b, <1>1 DEF NextEnter, Packing, Threads
  <2> QED
    BY <1>a, <1>b, <1>d, <2>1, JobLocal, PackingFrame DEF NextEnter, Others
<1>2. CASE Arm(t)
  <2>1. /\ st' = st /\ proc' = proc /\ pc'[t] \in {"update", "check", "stop"}
        /\ pc'[t] = "update" => to'[t] = "pre_cmd"
        /\ st[k] = "packing" =>
              proc[k] = "packing" /\ \A u \in Thread : job[u] = k => pc[u] # "post"
    BY <1>0, <1>a, <1>b, <1>2 DEF Arm, GoUpdate, GoStop, Packing, Threads
  <2> QED
    BY <1>a, <1>b, <2>1, JobLocal, PackingFrame DEF Arm, Others
<1>3. CASE CheckPasses(t)
  <2>1. /\ st' = st /\ pc[t] \in Path /\ pc'[t] \in {"update", "stop"}
        /\ pc'[t] = "update" /\ to'[t] = "uploading" => st[k] = "packing"
        /\ st[k] = "packing" => Packed(k)'
    BY <1>0, <1>a, <1>b, <1>3 DEF CheckPasses, GoUpdate, GoStop, After, Packing, Packed, Path,
       Threads
  <2> QED
    BY <1>a, <1>b, <1>c, <2>1, JobLocal, PackingPath DEF CheckPasses, Others
<1>4. CASE CheckFails(t)
  <2>1. /\ st' = st /\ proc' = proc /\ pc'[t] = "update" /\ to'[t] = "error"
    BY <1>0, <1>4 DEF CheckFails, GoUpdate, Threads
  <2> QED
    BY <1>a, <1>b, <2>1, JobLocal, PackingFrame DEF CheckFails, Others
<1>5. CASE Unlock(t)
  <2>1. /\ st' = st /\ proc' = proc /\ pc'[t] \in {"final", "return", "raise"}
    BY <1>0, <1>5 DEF Unlock, Threads
  <2> QED
    BY <1>a, <1>b, <2>1, JobLocal, PackingFrame DEF Unlock, Others
<1>6. CASE Final(t)
  <2>1. /\ st' = st /\ proc' = proc /\ pc'[t] = "return"
    BY <1>0, <1>6 DEF Final, Threads
  <2> QED
    BY <1>a, <1>b, <1>6, JobLocal, PackingFrame DEF Final, Others
<1>7. CASE UpdateTest(t)
  <2>1. /\ st' = st /\ proc' = proc /\ pc'[t] \in {"return", "write"} /\ to' = to
        /\ pc'[t] = "write" /\ to[t] = "uploading" => Packed(k)
    BY <1>0, <1>a, <1>b, <1>7 DEF UpdateTest, Packing, Threads
  <2> QED
    BY <1>a, <1>b, <2>1, JobLocal, PackingFrame DEF UpdateTest, Others
<1>8. CASE UpdateWrite(t)
  <2>1. /\ st'[k] = to[t] /\ proc' = proc /\ pc[t] \in Path /\ pc'[t] \in {"stop", "step"}
        /\ to[t] # "done" /\ (to[t] = "uploading" => Packed(k))
    BY <1>0, <1>a, <1>b, <1>8 DEF UpdateWrite, GoStop, Packing, Target, Path, Threads, Jobs
  <2> QED
    BY <1>a, <1>b, <1>c, <2>1, JobLocal, PackingPath DEF UpdateWrite, Others
<1>9. CASE StepRun(t)
  <2>1. /\ st' = st /\ pc[t] \in Path /\ pc'[t] \in {"next", "return"}
        /\ pc'[t] = "next" /\ ~cancel[k] => st[k] # "packing"
    BY <1>0, <1>a, <1>d, <1>9 DEF StepRun, NoProcess, Single, Path, Threads
  <2> QED
    BY <1>a, <1>b, <1>c, <2>1, JobLocal, PackingPath DEF StepRun, Others
<1>10. CASE StepFails(t)
  <2>1. /\ st' = st /\ proc' = proc /\ pc'[t] = "update" /\ to'[t] = "error"
    BY <1>0, <1>10 DEF StepFails, GoUpdate, Threads
  <2> QED
    BY <1>a, <1>b, <2>1, JobLocal, PackingFrame DEF StepFails, Others
<1>11. CASE StepRaise(t)
  <2>1. /\ st' = st /\ proc' = proc /\ pc'[t] = "raise"
    BY <1>0, <1>11 DEF StepRaise, Threads
  <2> QED
    BY <1>a, <1>b, <1>11, JobLocal, PackingFrame DEF StepRaise, Others
<1>12. CASE StopTest(t)
  <2>1. /\ st' = st /\ proc' = proc /\ pc'[t] \in {"return", "kill"}
    BY <1>0, <1>12 DEF StopTest, Threads
  <2> QED
    BY <1>a, <1>b, <1>12, JobLocal, PackingFrame DEF StopTest, Others
<1>13. CASE StopKill(t)
  <2>1. /\ st' = st /\ proc' = proc /\ pc'[t] \in {"settle", "raise"}
    BY <1>0, <1>13 DEF StopKill, Threads
  <2> QED
    BY <1>a, <1>b, <2>1, JobLocal, PackingFrame DEF StopKill, Others
<1>14. CASE StopSettle(t)
  <2>1. /\ proc' = proc /\ pc'[t] \in {"post", "announce"}
        /\ st'[k] \in {"error", "done"} /\ (st'[k] = "done" => st[k] = "uploading")
    BY <1>0, <1>a, <1>14 DEF StopSettle, Threads, Jobs
  <2> QED
    BY <1>a, <1>b, <2>1, JobLocal, PackingFrame DEF StopSettle, Others
<1>15. CASE StartPost(t)
  <2>1. /\ st' = st /\ to' = to /\ job' = job /\ pc[t] = "post" /\ pc'[t] \in {"return", "announce"}
        /\ cancel[k] /\ cancel' = cancel /\ passed' = passed
        /\ \A u \in Thread \ {t} : pc'[u] = pc[u]
    BY <1>0, <1>a, <1>15 DEF StartPost, Threads, Afterwards, Afterward
  <2>2. \A u \in Thread : job[u] = k /\ pc'[u] \in {"arm", "check"} => st[k] # "packing"
    BY <1>a, <1>b, <2>1 DEF Packing
  <2> QED
    BY <1>a, <1>b, <2>1, <2>2 DEF Packing, Packed
<1> QED
  BY <1>1, <1>2, <1>3, <1>4, <1>5, <1>6, <1>7, <1>8, <1>9, <1>10, <1>11, <1>12, <1>13, <1>14,
     <1>15 DEF JobStep

\* A stop cancels the Backup before anything that comes after it.
LEMMA AfterwardsJob ==
    ASSUME TypeOK, Afterwards, Alone, NEW t \in Thread, JobStep(t)
    PROVE  Afterwards'
<1> USE DEF srvVars, procVars, timeVars, jobVars, frame, Goto
<1>0. /\ Jobs /\ Timers /\ Threads /\ Servers
      /\ (pc[t] \notin Resting => job[t] \in Job)
  BY TypeParts, BackupAssumption DEF Threads, Job
<1>1. CASE NextEnter(t)
  BY <1>1 DEF NextEnter, Afterwards, Afterward
<1>2. CASE Arm(t)
  BY <1>0, <1>2 DEF Arm, GoUpdate, GoStop, Afterwards, Afterward, Threads
<1>3. CASE CheckPasses(t)
  BY <1>0, <1>3 DEF CheckPasses, GoUpdate, GoStop, Afterwards, Afterward, Threads
<1>4. CASE CheckFails(t)
  BY <1>0, <1>4, JobLocal DEF CheckFails, GoUpdate, Afterwards, Afterward, Ends, Working, Alone,
     Threads
<1>5. CASE Unlock(t)
  BY <1>0, <1>5 DEF Unlock, Afterwards, Afterward, Threads
<1>6. CASE Final(t)
  BY <1>6 DEF Final, Afterwards, Afterward
<1>7. CASE UpdateTest(t)
  BY <1>7 DEF UpdateTest, Afterwards, Afterward
<1>8. CASE UpdateWrite(t)
  BY <1>0, <1>8 DEF UpdateWrite, GoStop, Afterwards, Afterward, Threads
<1>9. CASE StepRun(t)
  BY <1>0, <1>9 DEF StepRun, Afterwards, Afterward, Threads
<1>10. CASE StepFails(t)
  BY <1>10 DEF StepFails, GoUpdate, Afterwards, Afterward
<1>11. CASE StepRaise(t)
  BY <1>11 DEF StepRaise, Afterwards, Afterward
<1>12. CASE StopTest(t)
  BY <1>12 DEF StopTest, Afterwards, Afterward
<1>13. CASE StopKill(t)
  BY <1>0, <1>13, JobLocal DEF StopKill, Afterwards, Afterward, Jobs, Threads
<1>14. CASE StopSettle(t)
  BY <1>14 DEF StopSettle, Afterwards, Afterward
<1>15. CASE StartPost(t)
  BY <1>0, <1>15 DEF StartPost, Afterwards, Afterward, Threads
<1> QED
  BY <1>1, <1>2, <1>3, <1>4, <1>5, <1>6, <1>7, <1>8, <1>9, <1>10, <1>11, <1>12, <1>13, <1>14,
     <1>15 DEF JobStep

\* next() names the state to set.
LEMMA TargetJob ==
    ASSUME TypeOK, Target, NEW t \in Thread, JobStep(t)
    PROVE  Target'
<1> USE DEF srvVars, procVars, timeVars, jobVars, frame, Goto
<1>0. /\ Jobs /\ Timers /\ Threads /\ Servers
      /\ (pc[t] \notin Resting => job[t] \in Job)
  BY TypeParts, BackupAssumption DEF Threads, Job
<1>1. CASE NextEnter(t)
  BY <1>1 DEF NextEnter, Target
<1>2. CASE Arm(t)
  BY <1>0, <1>2 DEF Arm, GoUpdate, GoStop, Target, Threads
<1>3. CASE CheckPasses(t)
  BY <1>0, <1>3 DEF CheckPasses, GoUpdate, GoStop, After, Target, Threads
<1>4. CASE CheckFails(t)
  BY <1>0, <1>4 DEF CheckFails, GoUpdate, Target, Threads
<1>5. CASE Unlock(t)
  BY <1>0, <1>5 DEF Unlock, Target, Threads
<1>6. CASE Final(t)
  BY <1>6 DEF Final, Target
<1>7. CASE UpdateTest(t)
  BY <1>7 DEF UpdateTest, Target
<1>8. CASE UpdateWrite(t)
  BY <1>0, <1>8 DEF UpdateWrite, GoStop, Target, Threads
<1>9. CASE StepRun(t)
  BY <1>9, JobLocal DEF StepRun, Target
<1>10. CASE StepFails(t)
  BY <1>0, <1>10 DEF StepFails, GoUpdate, Target, Threads
<1>11. CASE StepRaise(t)
  BY <1>11 DEF StepRaise, Target
<1>12. CASE StopTest(t)
  BY <1>12 DEF StopTest, Target
<1>13. CASE StopKill(t)
  BY <1>0, <1>13 DEF StopKill, Target, Threads
<1>14. CASE StopSettle(t)
  BY <1>14 DEF StopSettle, Target
<1>15. CASE StartPost(t)
  BY <1>0, <1>15 DEF StartPost, Target, Threads
<1> QED
  BY <1>1, <1>2, <1>3, <1>4, <1>5, <1>6, <1>7, <1>8, <1>9, <1>10, <1>11, <1>12, <1>13, <1>14,
     <1>15 DEF JobStep

\* A timeout is set before the process is run, and removed only to set another or by a stop.
LEMMA WatchedJob ==
    ASSUME TypeOK, Afterwards, Watched, NEW t \in Thread, JobStep(t)
    PROVE  Watched'
<1> USE DEF srvVars, procVars, timeVars, jobVars, frame, Goto
<1>0. /\ Jobs /\ Timers /\ Threads /\ Servers
      /\ (pc[t] \notin Resting => job[t] \in Job)
  BY TypeParts, BackupAssumption DEF Threads, Job
<1>1. CASE NextEnter(t)
  BY <1>1 DEF NextEnter, CancelTimer, Watched
<1>2. CASE Arm(t)
  BY <1>0, <1>2, JobLocal DEF Arm, Schedule, Watched, Timers
<1>3. CASE CheckPasses(t)
  BY <1>3, JobLocal DEF CheckPasses, Watched
<1>4. CASE CheckFails(t)
  BY <1>4, JobLocal DEF CheckFails, Watched
<1>5. CASE Unlock(t)
  <2>1. cancel[job[t]] /\ UNCHANGED <<cancel, made, down, job>>
    BY <1>5 DEF Unlock, Afterwards, Afterward
  <2>2. \A k \in 1..made : ~cancel[k] => k \in Job \ {job[t]} /\ timer'[k] = timer[k]
    BY <1>0, <2>1, JobLocal, BackupAssumption DEF Others, Servers, Job
  <2> QED
    BY <2>1, <2>2, JobLocal DEF Watched
<1>6. CASE Final(t)
  BY <1>6 DEF Final, Watched
<1>7. CASE UpdateTest(t)
  BY <1>7 DEF UpdateTest, Watched
<1>8. CASE UpdateWrite(t)
  BY <1>8, JobLocal DEF UpdateWrite, Watched
<1>9. CASE StepRun(t)
  BY <1>9, JobLocal DEF StepRun, Watched
<1>10. CASE StepFails(t)
  BY <1>10, JobLocal DEF StepFails, Watched
<1>11. CASE StepRaise(t)
  BY <1>11 DEF StepRaise, Watched
<1>12. CASE StopTest(t)
  BY <1>12 DEF StopTest, Watched
<1>13. CASE StopKill(t)
  BY <1>0, <1>13, JobLocal DEF StopKill, CancelTimer, Watched, Jobs
<1>14. CASE StopSettle(t)
  BY <1>14 DEF StopSettle, Watched
<1>15. CASE StartPost(t)
  BY <1>15, JobLocal DEF StartPost, Schedule, Watched
<1> QED
  BY <1>1, <1>2, <1>3, <1>4, <1>5, <1>6, <1>7, <1>8, <1>9, <1>10, <1>11, <1>12, <1>13, <1>14,
     <1>15 DEF JobStep

\* No such step makes a Backup current.
LEMMA OneLiveJobJob ==
    ASSUME TypeOK, OneLiveJob, NEW t \in Thread, JobStep(t)
    PROVE  OneLiveJob'
<1>1. \A j \in 1..made : j \in Job
  BY TypeParts, BackupAssumption DEF Servers, Job
<1> QED
  BY <1>1, JobLocal DEF OneLiveJob, Others

\* What the other steps are to the jobs.  A thread is done with its job.
-----------------------------------------------------------------------------
(* The kinds of the other steps.                                           *)

Leaves(t) ==
    /\ pc[t] \in {"return", "raise", "suspend", "resume"}
    /\ pc'[t] \in Resting /\ job'[t] = 0 /\ to'[t] = None /\ cont'[t] = None
    /\ \/ proc' = proc
       \/ /\ pc[t] = "return" /\ cont[t] = "forget"
          /\ proc' = [proc EXCEPT ![job[t]] = None]
    /\ \/ current' = current
       \/ current' = 0 /\ t = Disp /\ pc[t] = "return" /\ cont[t] \in Ends
    /\ UNCHANGED <<made, plan, st, cancel, alive, watch, timer, passed, down>>

\* The dispatcher makes a Backup.
Makes(p) ==
    /\ pc[Disp] = "idle" \/ (pc[Disp] = "return" /\ cont[Disp] = "final")
    /\ ~Running(current)
    /\ made < MaxJob /\ made' = made + 1 /\ current' = made + 1
    /\ plan' = [plan EXCEPT ![made + 1] = p]
    /\ job'[Disp] = made + 1 /\ to'[Disp] = to[Disp]
    /\ \/ pc'[Disp] = "next" /\ cont'[Disp] = None
       \/ pc'[Disp] = "stop" /\ cont'[Disp] = "startfail"
    /\ UNCHANGED <<st, cancel, proc, alive, watch, timer, passed, down>>

\* The dispatcher turns to the current Backup.
Takes ==
    /\ pc[Disp] = "idle" /\ current # 0
    /\ job'[Disp] = current /\ to'[Disp] = to[Disp]
    /\ pc'[Disp] \in {"stop", "suspend", "resume"}
    /\ cont'[Disp] \in {None} \cup Ends /\ (cont'[Disp] \in Ends => pc'[Disp] = "stop")
    /\ UNCHANGED <<current, made, plan, st, cancel, proc, alive, watch, timer, passed, down>>

\* The executer calls a Backup back.
Calls(j) ==
    /\ pc[Exec] = "idle"
    /\ job'[Exec] = j /\ to'[Exec] = to[Exec] /\ cont'[Exec] \in {None, "task"}
    /\ \/ /\ pc'[Exec] = "next" /\ timer' = timer
          /\ \E s \in Step : <<j, s>> \in watch \ alive /\ watch' = watch \ {<<j, s>>}
       \/ /\ pc'[Exec] = "stop" /\ watch' = watch
          /\ "step" \in timer[j] /\ ~Starting(j)
          /\ timer' = [timer EXCEPT ![j] = @ \ {"step"}]
       \/ /\ pc'[Exec] = "next" /\ watch' = watch
          /\ "post" \in timer[j]
          /\ timer' = [timer EXCEPT ![j] = @ \ {"post"}]
    /\ UNCHANGED <<current, made, plan, st, cancel, proc, alive, passed, down>>

\* No thread gets to a job.
Rests ==
    /\ \A t \in Thread :
          \/ pc'[t] = pc[t] /\ job'[t] = job[t] /\ to'[t] = to[t] /\ cont'[t] = cont[t]
          \/ pc[t] \in Resting /\ pc'[t] \in Resting /\ job'[t] = 0 /\ cont'[t] = None
    /\ alive' \subseteq alive /\ (down => down')
    /\ UNCHANGED <<current, made, plan, st, cancel, proc, watch, timer, passed>>

\* The other thread goes on where it was.
OtherSame(t) ==
    \A u \in Thread \ {t} :
        pc'[u] = pc[u] /\ job'[u] = job[u] /\ to'[u] = to[u] /\ cont'[u] = cont[u]

\* _select() that starts a Plan makes its Backup.
LEMMA StartIsMake ==
    ASSUME TypeOK, ~Running(current),
           pc[Disp] = "idle" \/ (pc[Disp] = "return" /\ cont[Disp] = "final"),
           NEW q \in Seq(Plan), SelectStart(q), current' = made + 1,
           UNCHANGED <<procVars, timeVars, jobVars, down>>
    PROVE  \E p \in Plan : Makes(p) /\ OtherSame(Disp)
<1>1. PICK n \in 1..Len(q) : plan' = [plan EXCEPT ![made + 1] = q[n]]
  BY DEF SelectStart
<1>2. q[n] \in Plan
  BY <1>1, ElementOfSeq
<1>3. Threads /\ Disp \in Thread
  BY TypeParts DEF Thread
<1>4. OtherSame(Disp)
  BY <1>3 DEF SelectStart, Goto, GoStop, OtherSame, Threads
<1>5. Makes(q[n])
  BY <1>1, <1>3 DEF SelectStart, Goto, GoStop, Makes, Threads, procVars, timeVars, jobVars
<1> QED
  BY <1>2, <1>4, <1>5

\* _select() that starts nothing leaves the dispatcher idle.
LEMMA NoneIsRest ==
    ASSUME TypeOK, NEW q, SelectNone(q) \/ SelectRefused
    PROVE  /\ pc'[Disp] = "idle" /\ job'[Disp] = 0 /\ to'[Disp] = None /\ cont'[Disp] = None
           /\ UNCHANGED <<made, plan>> /\ OtherSame(Disp)
BY TypeParts DEF SelectNone, SelectRefused, Goto, Calm, OtherSame, Threads, Thread

\* _add() keeps a queue of Plans.
LEMMA Enqueued ==
    ASSUME TypeOK, NEW ps \in Seq(Plan), NEW f \in BOOLEAN
    PROVE  Enqueue(ps, f) \in Seq(Plan)
BY DEF TypeOK, Enqueue

\* The Plans that are due are some of those that are not known yet, each once.
LEMMA DueElems ==
    ASSUME NEW ps \in Due
    PROVE  ps \in Seq(Plan) /\ IsInjective(ps) /\ Range(ps) \subseteq Fresh
<1>1. PICK s \in SUBSET Fresh : ps \in SetToSeqs(s)
  BY DEF Due, SetToAllKPermutations
<1>2. PICK n \in Nat : n = Cardinality(s)
  BY <1>1, BackupAssumption, FS_Subset, FS_CardinalityType DEF Fresh
<1>3. ps \in [1..n -> s] /\ \A i, j \in 1..n : i # j => ps[i] # ps[j]
  BY <1>1, <1>2 DEF SetToSeqs
<1>4. ps \in Seq(Plan)
  BY <1>3, <1>1 DEF Fresh
<1> QED
  BY <1>1, <1>3, <1>4 DEF IsInjective, Range

\* What _select() may do, called by an idle dispatcher,
LEMMA SelectKind ==
    ASSUME TypeOK, Afterwards, NEW ps \in Seq(Plan), NEW f \in BOOLEAN, Select(ps, f)
    PROVE  Rests \/ \E p \in Plan : Makes(p) /\ OtherSame(Disp)
<1> USE DEF srvVars, procVars, timeVars, jobVars, frame
<1>1. pc[Disp] = "idle" /\ Enqueue(ps, f) \in Seq(Plan)
  BY Enqueued DEF Select, Ready, Idle
<1>2. CASE Running(current)
  BY <1>2 DEF Select, Rests
<1>3. CASE ~Running(current)
  <2>1. CASE SelectStart(Enqueue(ps, f)) /\ current' = made + 1
    BY <1>1, <1>3, <2>1, StartIsMake DEF Select
  <2>2. CASE SelectNone(Enqueue(ps, f)) /\ UNCHANGED current
    BY <1>1, <2>2, NoneIsRest DEF Select, Rests, Resting, OtherSame
  <2> QED
    BY <1>3, <2>1, <2>2 DEF Select
<1> QED
  BY <1>2, <1>3

\* and called when a Backup has ended.
LEMMA FinalKind ==
    ASSUME TypeOK, Made, Afterwards, NEW ps \in Due, FinalReturn(ps)
    PROVE  OtherSame(Disp) /\ (Leaves(Disp) \/ \E p \in Plan : Makes(p))
<1> USE DEF srvVars, procVars, timeVars, jobVars, frame
<1>1. pc[Disp] = "return" /\ cont[Disp] = "final" /\ Enqueue(ps, FALSE) \in Seq(Plan)
  BY DueElems, Enqueued DEF FinalReturn
<1>2. ~Running(current)
  BY <1>1, TypeParts DEF Afterwards, Afterward, Ends, Made, Thread, Threads, Resting, Running
<1>3. CASE SelectStart(Enqueue(ps, FALSE)) /\ current' = made + 1
  BY <1>1, <1>2, <1>3, StartIsMake DEF FinalReturn
<1>4. CASE (SelectRefused \/ SelectNone(Enqueue(ps, FALSE))) /\ current' = 0
  BY <1>1, <1>4, NoneIsRest DEF FinalReturn, Leaves, Resting, Ends
<1> QED
  BY <1>3, <1>4 DEF FinalReturn

\* What a return may do.
LEMMA ReturnKind ==
    ASSUME TypeOK, Made, Afterwards, ExecReturns \/ DispReturns
    PROVE  \/ \E t \in Thread : Leaves(t) /\ OtherSame(t)
           \/ \E p \in Plan : Makes(p) /\ OtherSame(Disp)
<1> USE DEF srvVars, procVars, timeVars, jobVars, Goto, Calm, Resting, Ends
<1>0. Threads /\ Disp \in Thread /\ Exec \in Thread
  BY TypeParts DEF Thread
<1>1. CASE ExecReturn
  BY <1>0, <1>1 DEF ExecReturn, Leaves, OtherSame, Threads
<1>2. ASSUME NEW t \in Thread, Raise(t) PROVE Leaves(t) /\ OtherSame(t)
  BY <1>0, <1>2 DEF Raise, Leaves, OtherSame, Threads
<1>3. CASE DispReturn
  BY <1>0, <1>3 DEF DispReturn, Leaves, OtherSame, Threads
<1>4. CASE StartFailed
  BY <1>0, <1>4 DEF StartFailed, Leaves, OtherSame, Threads
<1>5. CASE ShutdownSave
  BY <1>0, <1>5 DEF ShutdownSave, Leaves, OtherSame, Threads
<1>6. CASE SetPaused
  BY <1>0, <1>6 DEF SetPaused, Leaves, OtherSame, Threads
<1>7. CASE \E ps \in Due : FinalReturn(ps)
  BY <1>0, <1>7, FinalKind
<1> QED
  BY <1>0, <1>1, <1>2, <1>3, <1>4, <1>5, <1>6, <1>7 DEF ExecReturns, DispReturns

\* What a callback may do.
LEMMA CallKind ==
    ASSUME TypeOK
    PROVE  /\ \A p \in Proc : Reap(p) => \E j \in Job : Calls(j) /\ OtherSame(Exec)
           /\ \A j \in Job : StepTimeout(j) \/ PostTimeout(j) => Calls(j) /\ OtherSame(Exec)
<1> USE DEF srvVars, procVars, timeVars, jobVars, Goto
<1>0. Threads /\ Exec \in Thread
  BY TypeParts DEF Thread
<1>1. ASSUME NEW p \in Proc, Reap(p) PROVE \E j \in Job : Calls(j) /\ OtherSame(Exec)
  <2>1. PICK j \in Job, s \in Step : p = <<j, s>>
    BY <1>1 DEF Proc
  <2>2. p[1] = j
    BY <2>1
  <2>3. OtherSame(Exec)
    BY <1>0, <1>1 DEF Reap, Callback, OtherSame, Threads
  <2>4. Calls(j)
    BY <1>0, <1>1, <2>1 DEF Reap, Callback, Calls, Threads
  <2> QED
    BY <2>3, <2>4
<1>2. ASSUME NEW j \in Job, StepTimeout(j) \/ PostTimeout(j)
      PROVE  Calls(j) /\ OtherSame(Exec)
  <2>1. CASE StepTimeout(j)
    BY <1>0, <2>1 DEF StepTimeout, Callback, Calls, OtherSame, Threads
  <2>2. CASE PostTimeout(j)
    BY <1>0, <2>2 DEF PostTimeout, Callback, Calls, OtherSame, Threads
  <2> QED
    BY <1>2, <2>1, <2>2
<1> QED
  BY <1>1, <1>2

\* What a message or a request to a Backup may do.
LEMMA TakeKind ==
    ASSUME TypeOK, Afterwards, HandleEnd \/ ShutdownHook \/ UserStop \/ Suspend \/ Resume
    PROVE  Rests \/ (Takes /\ OtherSame(Disp))
<1> USE DEF srvVars, procVars, timeVars, jobVars, frame, Goto, GoStop
<1>0. Threads /\ Disp \in Thread /\ (pc[Disp] = "idle" => cont[Disp] = None /\ job[Disp] = 0)
  BY TypeParts DEF Thread, Afterwards, Afterward, Ends, Threads, Resting
<1>1. CASE HandleEnd
  BY <1>0, <1>1 DEF HandleEnd, Idle, Takes, Rests, OtherSame, Threads, Ends
<1>2. CASE ShutdownHook
  BY <1>0, <1>2 DEF ShutdownHook, Idle, Running, Takes, Rests, OtherSame, Threads, Ends, Resting
<1>3. CASE UserStop
  BY <1>0, <1>3 DEF UserStop, Ready, Idle, Running, Takes, OtherSame, Threads
<1>4. CASE Suspend \/ Resume
  <2>1. PICK x \in {"suspend", "resume"} : pc' = [pc EXCEPT ![Disp] = x]
    BY <1>4 DEF Suspend, Resume
  <2>2. /\ pc[Disp] = "idle" /\ current # 0
        /\ job' = [job EXCEPT ![Disp] = current]
        /\ UNCHANGED <<current, made, plan, alive, watch, timer, st, cancel, proc, passed, down>>
        /\ UNCHANGED <<to, cont>>
    BY <1>4 DEF Suspend, Resume, Ready, Idle, Running
  <2>3. pc'[Disp] = x /\ job'[Disp] = current /\ cont'[Disp] = None
    BY <1>0, <2>1, <2>2 DEF Threads
  <2>4. Takes
    BY <2>2, <2>3 DEF Takes, Ends, None
  <2>5. OtherSame(Disp)
    BY <1>0, <2>1, <2>2 DEF OtherSame, Threads
  <2> QED
    BY <2>4, <2>5
<1> QED
  BY <1>1, <1>2, <1>3, <1>4

\* Every step is one inside a Backup's methods or of one of the five kinds.
LEMMA StepKinds ==
    ASSUME TypeOK, Made, Afterwards, Next
    PROVE  \/ \E t \in Thread : JobStep(t)
           \/ \E t \in Thread : Leaves(t) /\ OtherSame(t)
           \/ \E p \in Plan : Makes(p) /\ OtherSame(Disp)
           \/ Takes /\ OtherSame(Disp)
           \/ \E j \in Job : Calls(j) /\ OtherSame(Exec)
           \/ Rests
<1> USE DEF srvVars, procVars, timeVars, jobVars, frame
<1>1. CASE \/ HandleLock \/ ClearState \/ Down
           \/ (\E p \in Plan : Dequeue(p)) \/ (\E p \in Proc : Exit(p))
  BY <1>1 DEF HandleLock, ClearState, Down, Dequeue, Exit, Rests
<1>2. ASSUME NEW p \in Plan, StartPlan(p)
      PROVE  Rests \/ \E x \in Plan : Makes(x) /\ OtherSame(Disp)
  <2>1. (IF p \in Fresh THEN <<p>> ELSE <<>>) \in Seq(Plan)
    BY EmptySeq, OneElem
  <2> QED
    BY <1>2, <2>1, SelectKind DEF StartPlan
<1>3. ASSUME NEW ps \in Due, StartDue(ps)
      PROVE  Rests \/ \E x \in Plan : Makes(x) /\ OtherSame(Disp)
  BY <1>3, DueElems, SelectKind DEF StartDue
<1> QED
  BY <1>1, <1>2, <1>3, ReturnKind, CallKind, TakeKind DEF Next, Handle

\* A Backup that nothing is done to but that a thread comes or leaves.
-----------------------------------------------------------------------------
(* Each part of the invariant is kept by the five kinds.                   *)

LEMMA AfterFrame ==
    ASSUME NEW u \in Thread, Afterward(u), UNCHANGED cancel,
           pc'[u] = pc[u] /\ job'[u] = job[u] /\ to'[u] = to[u] /\ cont'[u] = cont[u]
    PROVE  Afterward(u)'
BY DEF Afterward

\* A Backup that gets no process keeps its one, when no thread sets out for the next.
LEMMA SingleFrame ==
    ASSUME NEW k \in Job, Single(k), st'[k] = st[k], proc'[k] = proc[k],
           "post" \in timer'[k] => "post" \in timer[k],
           \A s \in Step : <<k, s>> \in alive' \cup watch' => <<k, s>> \in alive \cup watch,
           \A u \in Thread : job'[u] = k =>
              (job[u] = k /\ pc'[u] = pc[u] /\ to'[u] = to[u]) \/ pc'[u] \notin Path
    PROVE  Single(k)'
BY DEF Single, Path

\* A Backup keeps its state; a thread that comes to it has not set out for UPLOADING.
LEMMA PackingKept ==
    ASSUME NEW k \in Job, Packing(k), st'[k] = st[k], UNCHANGED <<cancel, passed>>,
           \A u \in Thread : job'[u] = k =>
              \/ job[u] = k /\ pc'[u] = pc[u] /\ to'[u] = to[u]
              \/ pc'[u] \notin Path \cup {"post"}
              \/ pc'[u] = "next" /\ (st[k] = "packing" /\ ~cancel[k] => proc'[k] = "packing"),
           \/ proc'[k] = proc[k]
           \/ /\ cancel[k]
              /\ \A u \in Thread : job'[u] = k => pc'[u] \notin {"arm", "check"}
    PROVE  Packing(k)'
BY DEF Packing, Packed, Path

\* A Backup is made with the next number, and the dispatcher takes the current one.
LEMMA MadeKinds ==
    ASSUME TypeOK, Made
    PROVE  /\ \A t \in Thread : Leaves(t) /\ OtherSame(t) => Made'
           /\ \A p \in Plan : Makes(p) /\ OtherSame(Disp) => Made'
           /\ Takes /\ OtherSame(Disp) => Made'
           /\ \A j \in Job : Calls(j) /\ OtherSame(Exec) => Made'
           /\ Rests => Made'
<1>0. /\ Threads /\ Servers /\ Jobs /\ Timers /\ made \in Nat /\ MaxJob \in Nat
      /\ Disp \in Thread /\ Exec \in Thread /\ Disp # Exec
  BY TypeParts, BackupAssumption DEF Servers, Thread
<1>1. ASSUME NEW t \in Thread, Leaves(t), OtherSame(t) PROVE Made'
  <2>1. ASSUME NEW k \in Job, k > made PROVE Blank(k)'
    <3>1. k # job[t] /\ Blank(k)
      BY <1>0, <2>1 DEF Made, Job
    <3> QED
      BY <1>0, <1>1, <3>1 DEF Leaves, Blank, Jobs
  <2>2. /\ current' <= made /\ \A u \in Thread : job'[u] <= made
        /\ job'[Disp] \in {0, current'}
    BY <1>0, <1>1 DEF Leaves, OtherSame, Made, Thread
  <2> QED
    BY <1>1, <2>1, <2>2 DEF Leaves, Made
<1>2. ASSUME NEW p \in Plan, Makes(p), OtherSame(Disp) PROVE Made'
  <2>1. made \in Nat /\ made' = made + 1 /\ made' \in Job
    BY <1>0, <1>2 DEF Makes, Servers, Job
  <2>2. current' <= made' /\ job'[Disp] \in {0, current'} /\ \A u \in Thread : job'[u] <= made'
    <3>1. \A u \in Thread : job[u] <= made /\ job[u] \in Nat
      BY <1>0 DEF Made, Threads
    <3> QED
      BY <1>2, <2>1, <3>1 DEF Makes, OtherSame
  <2>3. ASSUME NEW k \in Job, k > made' PROVE Blank(k)'
    <3>1. Blank(k)
      BY <2>1, <2>3 DEF Made, Job
    <3> QED
      BY <1>2, <3>1 DEF Makes, Blank
  <2>4. ASSUME NEW k \in 1..made' PROVE plan'[k] \in Plan
    BY <1>0, <1>2, <2>1, <2>4 DEF Makes, Servers, Made, Job
  <2> QED
    BY <2>2, <2>3, <2>4 DEF Made
<1>3. ASSUME Takes, OtherSame(Disp) PROVE Made'
  BY <1>3 DEF Takes, OtherSame, Made, Blank
<1>4. ASSUME NEW j \in Job, Calls(j), OtherSame(Exec) PROVE Made'
  <2>1. j <= made
    <3>1. j > made => Blank(j)
      BY <1>4 DEF Made
    <3>2. ~Blank(j)
      BY <1>4 DEF Calls, Blank
    <3> QED
      BY <1>0, <1>4, <3>1, <3>2 DEF Job
  <2>2. ASSUME NEW k \in Job, k > made PROVE Blank(k)'
    BY <1>0, <1>4, <2>2 DEF Calls, Made, Blank, Timers
  <2> QED
    BY <1>0, <1>4, <2>1, <2>2 DEF Calls, Made, OtherSame
<1>5. ASSUME Rests PROVE Made'
  BY <1>0, <1>5 DEF Rests, Made, Blank
<1> QED
  BY <1>1, <1>2, <1>3, <1>4, <1>5

\* Every method begins with nothing after it, or with a stop.
LEMMA AfterwardsKinds ==
    ASSUME TypeOK, Afterwards
    PROVE  /\ \A t \in Thread : Leaves(t) /\ OtherSame(t) => Afterwards'
           /\ \A p \in Plan : Makes(p) /\ OtherSame(Disp) => Afterwards'
           /\ Takes /\ OtherSame(Disp) => Afterwards'
           /\ \A j \in Job : Calls(j) /\ OtherSame(Exec) => Afterwards'
           /\ Rests => Afterwards'
<1>0. /\ Threads /\ Servers /\ Jobs /\ Timers /\ made \in Nat /\ MaxJob \in Nat
      /\ Disp \in Thread /\ Exec \in Thread /\ Disp # Exec
  BY TypeParts, BackupAssumption DEF Servers, Thread
<1>1. ASSUME NEW t \in Thread, Leaves(t), OtherSame(t) PROVE Afterwards'
  <2>1. \A u \in Thread : Afterward(u)
    BY DEF Afterwards
  <2>2. UNCHANGED cancel
    BY <1>1 DEF Leaves
  <2>3. ASSUME NEW u \in Thread PROVE Afterward(u)'
    <3>1. CASE pc'[u] = pc[u] /\ job'[u] = job[u] /\ to'[u] = to[u] /\ cont'[u] = cont[u]
      BY <2>1, <2>2, <3>1, AfterFrame
    <3>2. CASE ~(pc'[u] = pc[u] /\ job'[u] = job[u] /\ to'[u] = to[u] /\ cont'[u] = cont[u])
      BY <1>1, <3>2 DEF Leaves, OtherSame, Afterward, Ends, Resting, None
    <3> QED
      BY <3>1, <3>2
  <2> QED
    BY <1>0, <1>1, <2>3 DEF Leaves, OtherSame, Afterwards
<1>2. ASSUME NEW p \in Plan, Makes(p), OtherSame(Disp) PROVE Afterwards'
  <2>1. \A u \in Thread : Afterward(u)
    BY DEF Afterwards
  <2>2. UNCHANGED cancel
    BY <1>2 DEF Makes
  <2>3. ASSUME NEW u \in Thread PROVE Afterward(u)'
    <3>1. CASE pc'[u] = pc[u] /\ job'[u] = job[u] /\ to'[u] = to[u] /\ cont'[u] = cont[u]
      BY <2>1, <2>2, <3>1, AfterFrame
    <3>2. CASE ~(pc'[u] = pc[u] /\ job'[u] = job[u] /\ to'[u] = to[u] /\ cont'[u] = cont[u])
      BY <1>2, <3>2 DEF Makes, OtherSame, Afterward, Ends, None
    <3> QED
      BY <3>1, <3>2
  <2> QED
    BY <1>0, <1>2, <2>3 DEF Makes, OtherSame, Afterwards, Ends
<1>3. ASSUME Takes, OtherSame(Disp) PROVE Afterwards'
  <2>1. \A u \in Thread : Afterward(u)
    BY DEF Afterwards
  <2>2. UNCHANGED cancel
    BY <1>3 DEF Takes
  <2>3. ASSUME NEW u \in Thread PROVE Afterward(u)'
    <3>1. CASE pc'[u] = pc[u] /\ job'[u] = job[u] /\ to'[u] = to[u] /\ cont'[u] = cont[u]
      BY <2>1, <2>2, <3>1, AfterFrame
    <3>2. CASE ~(pc'[u] = pc[u] /\ job'[u] = job[u] /\ to'[u] = to[u] /\ cont'[u] = cont[u])
      BY <1>3, <3>2 DEF Takes, OtherSame, Afterward, None
    <3> QED
      BY <3>1, <3>2
  <2> QED
    BY <1>0, <1>3, <2>3 DEF Takes, OtherSame, Afterwards
<1>4. ASSUME NEW j \in Job, Calls(j), OtherSame(Exec) PROVE Afterwards'
  <2>1. \A u \in Thread : Afterward(u)
    BY DEF Afterwards
  <2>2. UNCHANGED cancel
    BY <1>4 DEF Calls
  <2>3. ASSUME NEW u \in Thread PROVE Afterward(u)'
    <3>1. CASE pc'[u] = pc[u] /\ job'[u] = job[u] /\ to'[u] = to[u] /\ cont'[u] = cont[u]
      BY <2>1, <2>2, <3>1, AfterFrame
    <3>2. CASE ~(pc'[u] = pc[u] /\ job'[u] = job[u] /\ to'[u] = to[u] /\ cont'[u] = cont[u])
      BY <1>4, <3>2 DEF Calls, OtherSame, Afterward, Ends, None
    <3> QED
      BY <3>1, <3>2
  <2> QED
    BY <1>0, <1>4, <2>3 DEF Calls, OtherSame, Afterwards
<1>5. ASSUME Rests PROVE Afterwards'
  <2>1. \A u \in Thread : Afterward(u)
    BY DEF Afterwards
  <2>2. UNCHANGED cancel
    BY <1>5 DEF Rests
  <2>3. ASSUME NEW u \in Thread PROVE Afterward(u)'
    <3>1. CASE pc'[u] = pc[u] /\ job'[u] = job[u] /\ to'[u] = to[u] /\ cont'[u] = cont[u]
      BY <2>1, <2>2, <3>1, AfterFrame
    <3>2. CASE ~(pc'[u] = pc[u] /\ job'[u] = job[u] /\ to'[u] = to[u] /\ cont'[u] = cont[u])
      BY <1>5, <3>2 DEF Rests, Afterward, Ends, Resting, None
    <3> QED
      BY <3>1, <3>2
  <2> QED
    BY <1>0, <1>5, <2>3 DEF Rests, Afterwards
<1> QED
  BY <1>1, <1>2, <1>3, <1>4, <1>5

\* A Backup that is made is new to the executer, which calls back those that have a process or
\* a timeout.
LEMMA AloneKinds ==
    ASSUME TypeOK, Made, Alone, Singles
    PROVE  /\ \A t \in Thread : Leaves(t) /\ OtherSame(t) => Alone'
           /\ \A p \in Plan : Makes(p) /\ OtherSame(Disp) => Alone'
           /\ Takes /\ OtherSame(Disp) => Alone'
           /\ \A j \in Job : Calls(j) /\ OtherSame(Exec) => Alone'
           /\ Rests => Alone'
<1>0. /\ Threads /\ Servers /\ Jobs /\ Timers /\ made \in Nat /\ MaxJob \in Nat
      /\ Disp \in Thread /\ Exec \in Thread /\ Disp # Exec
  BY TypeParts, BackupAssumption DEF Servers, Thread
<1>1. ASSUME NEW t \in Thread, Leaves(t), OtherSame(t) PROVE Alone'
  BY <1>0, <1>1 DEF Leaves, OtherSame, Thread, Threads, Jobs, Alone, Path, Resting, Job
<1>2. ASSUME NEW p \in Plan, Makes(p), OtherSame(Disp) PROVE Alone'
  BY <1>0, <1>2 DEF Makes, OtherSame, Alone, Path, Blank, Made, Job
<1>3. ASSUME Takes, OtherSame(Disp) PROVE Alone'
  BY <1>3 DEF Takes, Alone, Path
<1>4. ASSUME NEW j \in Job, Calls(j), OtherSame(Exec) PROVE Alone'
  <2>1. SUFFICES ASSUME pc[Disp] \in Path PROVE Alone'
    BY <1>0, <1>4 DEF Calls, OtherSame, Alone
  <2>2. job[Disp] \in Job /\ ~cancel[job[Disp]]
    BY <1>0, <2>1 DEF Alone, Threads, Resting, Path, Job
  <2>3. ASSUME j = job[Disp] PROVE FALSE
    <3>1. Single(j)
      BY <2>2, <2>3 DEF Singles
    <3>2. \A s \in Step : <<j, s>> \notin watch
      BY <1>0, <2>1, <2>3, <3>1 DEF Single
    <3>3. "post" \notin timer[j]
      BY <3>1 DEF Single
    <3>4. "step" \in timer[j] => Starting(j)
      BY <2>1, <2>3 DEF Alone, Starting, Path
    <3> QED
      BY <1>4, <3>2, <3>3, <3>4 DEF Calls
  <2>4. timer'[job[Disp]] = timer[job[Disp]]
    BY <1>0, <1>4, <2>2, <2>3 DEF Calls, Timers
  <2> QED
    BY <1>0, <1>4, <2>3, <2>4 DEF Calls, OtherSame, Alone
<1>5. ASSUME Rests PROVE Alone'
  BY <1>0, <1>5 DEF Rests, Threads, Alone, Path, Resting
<1> QED
  BY <1>1, <1>2, <1>3, <1>4, <1>5

\* The executer sets out for the next process when the one before has exited.
LEMMA SinglesKinds ==
    ASSUME TypeOK, Made, Afterwards, Singles
    PROVE  /\ \A t \in Thread : Leaves(t) /\ OtherSame(t) => Singles'
           /\ \A p \in Plan : Makes(p) /\ OtherSame(Disp) => Singles'
           /\ Takes /\ OtherSame(Disp) => Singles'
           /\ \A j \in Job : Calls(j) /\ OtherSame(Exec) => Singles'
           /\ Rests => Singles'
<1>0. /\ Threads /\ Servers /\ Jobs /\ Timers /\ made \in Nat /\ MaxJob \in Nat
      /\ Disp \in Thread /\ Exec \in Thread /\ Disp # Exec
  BY TypeParts, BackupAssumption DEF Servers, Thread
<1>1. ASSUME NEW t \in Thread, Leaves(t), OtherSame(t) PROVE Singles'
  <2>1. SUFFICES ASSUME NEW k \in Job, ~cancel[k], Single(k) PROVE Single(k)'
    BY <1>1 DEF Leaves, Singles
  <2>2. proc'[k] = proc[k]
    BY <1>0, <1>1, <2>1 DEF Leaves, Afterwards, Afterward, Jobs
  <2>3. \A u \in Thread : job'[u] = k => job[u] = k /\ pc'[u] = pc[u] /\ to'[u] = to[u]
    BY <1>1, <2>1, BackupAssumption DEF Leaves, OtherSame, Job
  <2> QED
    BY <1>1, <2>1, <2>2, <2>3, SingleFrame DEF Leaves
<1>2. ASSUME NEW p \in Plan, Makes(p), OtherSame(Disp) PROVE Singles'
  <2>1. SUFFICES ASSUME NEW k \in Job, ~cancel[k], Single(k) PROVE Single(k)'
    BY <1>2 DEF Makes, Singles
  <2>2. CASE k = made + 1
    <3>1. Blank(k)
      BY <1>0, <2>2 DEF Made
    <3>2. \A u \in Thread : job'[u] = k => pc'[u] # "step"
      BY <1>0, <1>2, <2>2 DEF Makes, OtherSame, Made, Thread
    <3> QED
      BY <1>2, <3>1, <3>2 DEF Makes, Blank, Single
  <2>3. CASE k # made + 1
    <3>1. \A u \in Thread : job'[u] = k => job[u] = k /\ pc'[u] = pc[u] /\ to'[u] = to[u]
      BY <1>2, <2>3 DEF Makes, OtherSame
    <3> QED
      BY <1>2, <2>1, <3>1, SingleFrame DEF Makes
  <2> QED
    BY <2>2, <2>3
<1>3. ASSUME Takes, OtherSame(Disp) PROVE Singles'
  <2>1. SUFFICES ASSUME NEW k \in Job, ~cancel[k], Single(k) PROVE Single(k)'
    BY <1>3 DEF Takes, Singles
  <2>2. \A u \in Thread : job'[u] = k =>
           (job[u] = k /\ pc'[u] = pc[u] /\ to'[u] = to[u]) \/ pc'[u] \notin Path
    BY <1>3 DEF Takes, OtherSame, Path
  <2> QED
    BY <1>3, <2>1, <2>2, SingleFrame DEF Takes
<1>4. ASSUME NEW j \in Job, Calls(j), OtherSame(Exec) PROVE Singles'
  <2>1. SUFFICES ASSUME NEW k \in Job, ~cancel[k], Single(k) PROVE Single(k)'
    BY <1>4 DEF Calls, Singles
  <2>2. "post" \notin timer[k]
    BY <2>1 DEF Single
  <2>3. CASE k # j \/ pc'[Exec] = "stop"
    <3>1. /\ st' = st /\ proc' = proc /\ alive' = alive /\ watch' \subseteq watch
          /\ "post" \in timer'[k] => "post" \in timer[k]
      BY <1>0, <1>4 DEF Calls, Timers
    <3>2. \A u \in Thread : job'[u] = k =>
             (job[u] = k /\ pc'[u] = pc[u] /\ to'[u] = to[u]) \/ pc'[u] \notin Path
      BY <1>4, <2>3 DEF Calls, OtherSame, Path
    <3> QED
      BY <2>1, <3>1, <3>2, SingleFrame
  <2>4. CASE k = j /\ pc'[Exec] # "stop"
    <3>1. PICK r \in Step : <<j, r>> \in watch \ alive /\ watch' = watch \ {<<j, r>>}
      BY <1>4, <2>2, <2>4 DEF Calls
    <3>2. UNCHANGED <<st, proc, alive, timer>>
      BY <1>4, <2>2, <2>4 DEF Calls
    <3>3. \A s \in Step : <<k, s>> \notin alive' \cup watch'
      BY <2>1, <2>4, <3>1, <3>2 DEF Single
    <3>4. \A u \in Thread : job'[u] = k => pc'[u] # "step"
      <4>1. \A u \in Thread : job[u] = k => pc[u] \notin Path
        BY <2>1, <2>4, <3>1 DEF Single
      <4> QED
        BY <1>4, <2>4, <4>1 DEF Calls, OtherSame, Path
    <3> QED
      BY <2>2, <3>2, <3>3, <3>4 DEF Single
  <2> QED
    BY <2>3, <2>4
<1>5. ASSUME Rests PROVE Singles'
  <2>1. SUFFICES ASSUME NEW k \in Job, ~cancel[k], Single(k) PROVE Single(k)'
    BY <1>5 DEF Rests, Singles
  <2>2. \A u \in Thread : job'[u] = k =>
           (job[u] = k /\ pc'[u] = pc[u] /\ to'[u] = to[u]) \/ pc'[u] \notin Path
    BY <1>5 DEF Rests, Path, Resting
  <2> QED
    BY <1>5, <2>1, <2>2, SingleFrame DEF Rests
<1> QED
  BY <1>1, <1>2, <1>3, <1>4, <1>5

\* No thread begins with the state to set.
LEMMA TargetKinds ==
    ASSUME TypeOK, Target
    PROVE  /\ \A t \in Thread : Leaves(t) /\ OtherSame(t) => Target'
           /\ \A p \in Plan : Makes(p) /\ OtherSame(Disp) => Target'
           /\ Takes /\ OtherSame(Disp) => Target'
           /\ \A j \in Job : Calls(j) /\ OtherSame(Exec) => Target'
           /\ Rests => Target'
<1>0. /\ Threads /\ Servers /\ Jobs /\ Timers /\ made \in Nat /\ MaxJob \in Nat
      /\ Disp \in Thread /\ Exec \in Thread /\ Disp # Exec
  BY TypeParts, BackupAssumption DEF Servers, Thread
<1>1. ASSUME NEW t \in Thread, Leaves(t), OtherSame(t) PROVE Target'
  BY <1>1 DEF Leaves, OtherSame, Target, Resting
<1>2. ASSUME NEW p \in Plan, Makes(p), OtherSame(Disp) PROVE Target'
  BY <1>2 DEF Makes, OtherSame, Target
<1>3. ASSUME Takes, OtherSame(Disp) PROVE Target'
  BY <1>3 DEF Takes, OtherSame, Target
<1>4. ASSUME NEW j \in Job, Calls(j), OtherSame(Exec) PROVE Target'
  BY <1>4 DEF Calls, OtherSame, Target
<1>5. ASSUME Rests PROVE Target'
  BY <1>5 DEF Rests, Target, Resting
<1> QED
  BY <1>1, <1>2, <1>3, <1>4, <1>5

\* The executer calls back, in PACKING, for the process that packs.
LEMMA PackingsKinds ==
    ASSUME TypeOK, Made, Afterwards, Alone, Singles, Packings
    PROVE  /\ \A t \in Thread : Leaves(t) /\ OtherSame(t) => Packings'
           /\ \A p \in Plan : Makes(p) /\ OtherSame(Disp) => Packings'
           /\ Takes /\ OtherSame(Disp) => Packings'
           /\ \A j \in Job : Calls(j) /\ OtherSame(Exec) => Packings'
           /\ Rests => Packings'
<1>0. /\ Threads /\ Servers /\ Jobs /\ Timers /\ made \in Nat /\ MaxJob \in Nat
      /\ Disp \in Thread /\ Exec \in Thread /\ Disp # Exec
  BY TypeParts, BackupAssumption DEF Servers, Thread
<1>1. ASSUME NEW t \in Thread, Leaves(t), OtherSame(t) PROVE Packings'
  <2>1. SUFFICES ASSUME NEW k \in Job, Packing(k) PROVE Packing(k)'
    BY DEF Packings
  <2>2. \A u \in Thread : job'[u] = k =>
           u # t /\ job[u] = k /\ pc'[u] = pc[u] /\ to'[u] = to[u]
    BY <1>1, <2>1, BackupAssumption DEF Leaves, OtherSame, Job
  <2>3. CASE proc'[k] = proc[k]
    BY <1>1, <2>1, <2>2, <2>3, PackingKept DEF Leaves
  <2>4. CASE proc'[k] # proc[k]
    <3>1. /\ pc[t] = "return" /\ cont[t] = "forget" /\ k = job[t]
          /\ UNCHANGED <<st, cancel, passed>>
      BY <1>0, <1>1, <2>4 DEF Leaves, Jobs
    <3>2. t = Exec /\ cancel[k]
      BY <1>0, <3>1 DEF Afterwards, Afterward, Ends, Thread, None
    <3>3. \A u \in Thread : job'[u] = k => pc'[u] \notin {"arm", "check"}
      BY <1>0, <2>2, <3>1, <3>2 DEF Alone, Path, Thread
    <3> QED
      BY <2>1, <2>2, <3>1, <3>2, <3>3, PackingKept
  <2> QED
    BY <2>3, <2>4
<1>2. ASSUME NEW p \in Plan, Makes(p), OtherSame(Disp) PROVE Packings'
  <2>1. SUFFICES ASSUME NEW k \in Job, Packing(k) PROVE Packing(k)'
    BY DEF Packings
  <2>2. k = made + 1 => st[k] = "waiting"
    BY <1>0 DEF Made, Blank
  <2>3. \A u \in Thread : job'[u] = k =>
           \/ job[u] = k /\ pc'[u] = pc[u] /\ to'[u] = to[u]
           \/ k = made + 1 /\ pc'[u] \in {"next", "stop"}
    BY <1>2 DEF Makes, OtherSame
  <2> QED
    BY <1>2, <2>1, <2>2, <2>3, PackingKept DEF Makes, Path
<1>3. ASSUME Takes, OtherSame(Disp) PROVE Packings'
  <2>1. SUFFICES ASSUME NEW k \in Job, Packing(k) PROVE Packing(k)'
    BY DEF Packings
  <2>2. \A u \in Thread : job'[u] = k =>
           (job[u] = k /\ pc'[u] = pc[u] /\ to'[u] = to[u]) \/ pc'[u] \notin Path \cup {"post"}
    BY <1>3 DEF Takes, OtherSame, Path
  <2> QED
    BY <1>3, <2>1, <2>2, PackingKept DEF Takes
<1>4. ASSUME NEW j \in Job, Calls(j), OtherSame(Exec) PROVE Packings'
  <2>1. SUFFICES ASSUME NEW k \in Job, Packing(k) PROVE Packing(k)'
    BY DEF Packings
  <2>2. \A u \in Thread : job'[u] = k =>
           \/ job[u] = k /\ pc'[u] = pc[u] /\ to'[u] = to[u]
           \/ k = j /\ pc'[u] \in {"next", "stop"} /\ u = Exec
    BY <1>4 DEF Calls, OtherSame
  <2>3. k = j /\ pc'[Exec] = "next" /\ ~cancel[k] => proc[k] = st[k]
    BY <1>4 DEF Calls, Singles, Single
  <2> QED
    BY <1>4, <2>1, <2>2, <2>3, PackingKept DEF Calls, Path
<1>5. ASSUME Rests PROVE Packings'
  <2>1. SUFFICES ASSUME NEW k \in Job, Packing(k) PROVE Packing(k)'
    BY DEF Packings
  <2>2. \A u \in Thread : job'[u] = k =>
           (job[u] = k /\ pc'[u] = pc[u] /\ to'[u] = to[u]) \/ pc'[u] \notin Path \cup {"post"}
    BY <1>5 DEF Rests, Path, Resting
  <2> QED
    BY <1>5, <2>1, <2>2, PackingKept DEF Rests
<1> QED
  BY <1>1, <1>2, <1>3, <1>4, <1>5

\* A timeout that is due becomes a stop.
LEMMA WatchedKinds ==
    ASSUME TypeOK, Watched
    PROVE  /\ \A t \in Thread : Leaves(t) /\ OtherSame(t) => Watched'
           /\ \A p \in Plan : Makes(p) /\ OtherSame(Disp) => Watched'
           /\ Takes /\ OtherSame(Disp) => Watched'
           /\ \A j \in Job : Calls(j) /\ OtherSame(Exec) => Watched'
           /\ Rests => Watched'
<1>0. /\ Threads /\ Servers /\ Jobs /\ Timers /\ made \in Nat /\ MaxJob \in Nat
      /\ Disp \in Thread /\ Exec \in Thread /\ Disp # Exec
  BY TypeParts, BackupAssumption DEF Servers, Thread
<1>1. ASSUME NEW t \in Thread, Leaves(t), OtherSame(t) PROVE Watched'
  <2>1. \A k \in 1..made, u \in Thread : job[u] = k /\ pc[u] \in {"next", "arm", "stop", "kill"} =>
           job'[u] = k /\ pc'[u] = pc[u]
    BY <1>1 DEF Leaves, OtherSame
  <2>2. UNCHANGED <<made, cancel, timer, down>>
    BY <1>1 DEF Leaves
  <2> QED
    BY <2>1, <2>2 DEF Watched
<1>2. ASSUME NEW p \in Plan, Makes(p), OtherSame(Disp) PROVE Watched'
  <2>1. ASSUME NEW k \in 1..(made + 1), ~cancel[k]
        PROVE  \/ "step" \in timer[k] \/ down
               \/ \E u \in Thread : job'[u] = k /\ pc'[u] \in {"next", "arm", "stop", "kill"}
    <3>1. CASE k = made + 1
      BY <1>0, <1>2, <3>1 DEF Makes
    <3>2. CASE k # made + 1
      <4>1. k \in 1..made
        BY <1>0, <3>2
      <4>2. \A u \in Thread : job[u] = k /\ pc[u] \in {"next", "arm", "stop", "kill"} =>
               job'[u] = k /\ pc'[u] = pc[u]
        BY <1>2 DEF Makes, OtherSame
      <4> QED
        BY <2>1, <4>1, <4>2 DEF Watched
    <3> QED
      BY <3>1, <3>2
  <2> QED
    BY <1>2, <2>1 DEF Makes, Watched
<1>3. ASSUME Takes, OtherSame(Disp) PROVE Watched'
  BY <1>3 DEF Takes, OtherSame, Watched
<1>4. ASSUME NEW j \in Job, Calls(j), OtherSame(Exec) PROVE Watched'
  BY <1>0, <1>4 DEF Calls, OtherSame, Thread, Threads, Servers, Timers, Watched, Job
<1>5. ASSUME Rests PROVE Watched'
  BY <1>0, <1>5 DEF Rests, Threads, Watched
<1> QED
  BY <1>1, <1>2, <1>3, <1>4, <1>5

\* A Backup is made only when the current one was stopped.
LEMMA OneLiveJobKinds ==
    ASSUME TypeOK, Made, Afterwards, OneLiveJob
    PROVE  /\ \A t \in Thread : Leaves(t) /\ OtherSame(t) => OneLiveJob'
           /\ \A p \in Plan : Makes(p) /\ OtherSame(Disp) => OneLiveJob'
           /\ Takes /\ OtherSame(Disp) => OneLiveJob'
           /\ \A j \in Job : Calls(j) /\ OtherSame(Exec) => OneLiveJob'
           /\ Rests => OneLiveJob'
<1>0. /\ Threads /\ Servers /\ Jobs /\ Timers /\ made \in Nat /\ MaxJob \in Nat
      /\ Disp \in Thread /\ Exec \in Thread /\ Disp # Exec
  BY TypeParts, BackupAssumption DEF Servers, Thread
<1>1. ASSUME NEW t \in Thread, Leaves(t), OtherSame(t) PROVE OneLiveJob'
  BY <1>0, <1>1 DEF Leaves, Threads, OneLiveJob, Made, Afterwards, Afterward, Job, Resting
<1>2. ASSUME NEW p \in Plan, Makes(p), OtherSame(Disp) PROVE OneLiveJob'
  BY <1>0, <1>2 DEF Makes, OneLiveJob, Running
<1>3. ASSUME Takes, OtherSame(Disp) PROVE OneLiveJob'
  BY <1>3 DEF Takes, OneLiveJob
<1>4. ASSUME NEW j \in Job, Calls(j), OtherSame(Exec) PROVE OneLiveJob'
  BY <1>4 DEF Calls, OneLiveJob
<1>5. ASSUME Rests PROVE OneLiveJob'
  BY <1>5 DEF Rests, OneLiveJob
<1> QED
  BY <1>1, <1>2, <1>3, <1>4, <1>5

\* What is left of a list when Queue.next() has taken the Plan at place k.
-----------------------------------------------------------------------------
(* A Plan is in the queue once, and not while its Backup runs.             *)

LEMMA Dropped ==
    ASSUME NEW q \in Seq(Plan), IsInjective(q), NEW k \in 1..Len(q)
    PROVE  /\ q[k] \in Plan
           /\ SubSeq(q, k + 1, Len(q)) \in Seq(Plan)
           /\ IsInjective(SubSeq(q, k + 1, Len(q)))
           /\ q[k] \notin Range(SubSeq(q, k + 1, Len(q)))
<1>1. PICK n \in Nat : n = Len(q)
  BY LenProperties
<1>2. /\ q[k] \in Plan
      /\ \A i, l \in 1..n : q[i] = q[l] => i = l
  BY <1>1, ListElems
<1>3. k + 1 \in Nat /\ k + 1 >= 1 /\ k \in Nat
  BY <1>1
<1> DEFINE r == SubSeq(q, k + 1, n)
<1>4. /\ r \in Seq(Plan) /\ IsInjective(r)
      /\ \A x : x \in Range(r) <=> \E i \in (k + 1)..n : q[i] = x
  BY <1>1, <1>3, PartElems
<1>5. q[k] \notin Range(r)
  BY <1>1, <1>2, <1>3, <1>4
<1> QED
  BY <1>1, <1>2, <1>4, <1>5

\* _add() adds no Plan that waits or runs.
LEMMA EnqueueElems ==
    ASSUME TypeOK, PlanOnce, NEW ps \in Seq(Plan), IsInjective(ps), Range(ps) \subseteq Fresh,
           NEW f \in BOOLEAN
    PROVE  /\ Enqueue(ps, f) \in Seq(Plan)
           /\ IsInjective(Enqueue(ps, f))
           /\ Running(current) => plan[current] \notin Range(Enqueue(ps, f))
<1>1. queue \in Seq(Plan) /\ IsInjective(queue)
  BY DEF TypeOK, PlanOnce
<1>2. Range(ps) \cap Range(queue) = {}
  BY DEF Fresh
<1>3. Running(current) => plan[current] \notin Range(ps) \cup Range(queue)
  BY DEF Fresh, PlanOnce
<1>4. CASE f
  BY <1>1, <1>2, <1>3, <1>4, JoinElems DEF Enqueue
<1>5. CASE ~f
  BY <1>1, <1>2, <1>3, <1>5, JoinElems DEF Enqueue
<1> QED
  BY <1>4, <1>5

\* The Plan that is started is taken from the queue.
LEMMA StartOnce ==
    ASSUME TypeOK, NEW q \in Seq(Plan), IsInjective(q), SelectStart(q), current' = made + 1
    PROVE  /\ PlanOnce'
           /\ current' \in 0..MaxJob /\ made' \in 0..MaxJob /\ plan' \in [Job -> Plan \cup {None}]
           /\ queue' \in Seq(Plan)
<1>1. /\ Servers /\ made + 1 \in Job /\ made + 1 \in 0..MaxJob
  BY TypeParts, BackupAssumption DEF SelectStart, Servers, Job
<1>2. PICK k \in 1..Len(q) : /\ queue' = SubSeq(q, k + 1, Len(q))
                             /\ plan' = [plan EXCEPT ![made + 1] = q[k]]
  BY DEF SelectStart
<1>3. /\ q[k] \in Plan /\ queue' \in Seq(Plan) /\ IsInjective(queue')
      /\ q[k] \notin Range(queue')
  BY <1>2, Dropped
<1>4. plan'[current'] = q[k] /\ plan' \in [Job -> Plan \cup {None}]
  BY <1>1, <1>2, <1>3 DEF Servers
<1>5. made' \in 0..MaxJob
  BY <1>1 DEF SelectStart
<1> QED
  BY <1>1, <1>3, <1>4, <1>5 DEF PlanOnce

\* Plans that cannot be started are dropped.
LEMMA DropOnce ==
    ASSUME NEW q \in Seq(Plan), IsInjective(q), SelectNone(q)
    PROVE  queue' \in Seq(Plan) /\ IsInjective(queue') /\ UNCHANGED <<made, plan>>
<1>1. PICK k \in 1..Len(q) : queue' = SubSeq(q, k + 1, Len(q))
  BY DEF SelectNone
<1> QED
  BY <1>1, Dropped DEF SelectNone

\* So _select() keeps a Plan in the queue once.
LEMMA SelectOnce ==
    ASSUME TypeOK, PlanOnce, NEW ps \in Seq(Plan), IsInjective(ps), Range(ps) \subseteq Fresh,
           NEW f \in BOOLEAN, Select(ps, f)
    PROVE  PlanOnce' /\ Servers'
<1> DEFINE q == Enqueue(ps, f)
<1>1. /\ q \in Seq(Plan) /\ IsInjective(q)
      /\ Running(current) => plan[current] \notin Range(q)
  BY EnqueueElems
<1>2. Servers /\ UNCHANGED <<saved, cancel>>
  BY TypeParts DEF Select, jobVars
<1>3. CASE Running(current)
  <2>1. queue' = q /\ UNCHANGED <<current, made, plan>>
    BY <1>3 DEF Select
  <2> QED
    BY <1>1, <1>2, <2>1 DEF Servers, PlanOnce, Running
<1>4. CASE ~Running(current)
  <2>1. CASE SelectStart(q) /\ current' = made + 1
    BY <1>1, <1>2, <2>1, StartOnce DEF Servers
  <2>2. CASE SelectNone(q) /\ UNCHANGED current
    <3>1. queue' \in Seq(Plan) /\ IsInjective(queue') /\ UNCHANGED <<made, plan>>
      BY <1>1, <2>2, DropOnce
    <3> QED
      BY <1>2, <1>4, <2>2, <3>1 DEF Servers, PlanOnce, Running
  <2> QED
    BY <1>4, <2>1, <2>2 DEF Select
<1> QED
  BY <1>3, <1>4

\* The result that is saved for a Plan.
LEMMA SaveType ==
    ASSUME Servers, NEW j \in Job, plan[j] \in Plan, Save(j)
    PROVE  saved' \in [Plan -> {None, "ok", "error"}]
BY DEF Save, Servers

\* _select() after a Backup has ended: its Plan may be added again.
LEMMA FinalOnce ==
    ASSUME TypeOK, Made, PlanOnce, Afterwards, NEW ps \in Due, FinalReturn(ps)
    PROVE  PlanOnce' /\ Servers'
<1> DEFINE q == Enqueue(ps, FALSE)
<1>1. q \in Seq(Plan) /\ IsInjective(q)
  BY DueElems, EnqueueElems
<1>2. Servers /\ Threads /\ made \in Nat
  BY TypeParts DEF Servers
<1>3. current \in Job /\ plan[current] \in Plan
  BY <1>2 DEF FinalReturn, Made, Threads, Resting, Thread, Job
<1>4. saved' \in [Plan -> {None, "ok", "error"}]
  BY <1>2, <1>3, SaveType DEF FinalReturn
<1>5. CASE SelectStart(q) /\ current' = made + 1
  BY <1>1, <1>4, <1>5, StartOnce DEF Servers
<1>6. CASE SelectNone(q) /\ current' = 0
  <2>1. queue' \in Seq(Plan) /\ IsInjective(queue') /\ UNCHANGED <<made, plan>>
    BY <1>1, <1>6, DropOnce
  <2> QED
    BY <1>2, <1>4, <1>6, <2>1, BackupAssumption DEF Servers, PlanOnce, Running
<1>7. CASE SelectRefused /\ current' = 0
  BY <1>2, <1>4, <1>7, BackupAssumption DEF SelectRefused, Servers, PlanOnce, Running
<1> QED
  BY <1>5, <1>6, <1>7 DEF FinalReturn

\* What leaves the queue alone.
LEMMA QueueRests ==
    ASSUME TypeOK, PlanOnce, UNCHANGED <<queue, plan>>, current' \in {current, 0},
           \A j \in Job : cancel[j] => cancel'[j]
    PROVE  PlanOnce'
<1>1. current # 0 => current \in Job
  BY TypeParts, BackupAssumption DEF Servers, Job
<1> QED
  BY <1>1 DEF PlanOnce, Running

\* the removal of a Plan,
LEMMA DequeueOnce ==
    ASSUME TypeOK, PlanOnce, NEW p \in Plan, Dequeue(p)
    PROVE  PlanOnce' /\ Servers'
<1>1. /\ queue' \in Seq(Plan) /\ IsInjective(queue')
      /\ Range(queue') = Range(queue) \ {p}
  BY RemoveFirstElems DEF TypeOK, PlanOnce, Dequeue
<1> QED
  BY <1>1, TypeParts DEF Dequeue, PlanOnce, Running, Servers, jobVars

\* and a request to start one keep it.
LEMMA StartPlanOnce ==
    ASSUME TypeOK, PlanOnce, NEW p \in Plan, StartPlan(p)
    PROVE  PlanOnce' /\ Servers'
<1>1. CASE p \in Fresh
  BY <1>1, OneElem, SelectOnce DEF StartPlan
<1>2. CASE p \notin Fresh
  <2>1. <<>> \in Seq(Plan)
    OBVIOUS
  <2>2. IsInjective(<<>>) /\ Range(<<>>) \subseteq Fresh
    BY DEF IsInjective, Range
  <2> QED
    BY <1>2, <2>1, <2>2, SelectOnce DEF StartPlan
<1> QED
  BY <1>1, <1>2

\* Every step keeps a Plan in the queue once.
LEMMA PlanOnceStep ==
    ASSUME TypeOK, Made, Afterwards, PlanOnce, Next
    PROVE  PlanOnce'
<1> USE DEF srvVars, procVars, timeVars, jobVars
<1>1. ASSUME NEW t \in Thread, JobStep(t) PROVE PlanOnce'
  BY <1>1, JobLocal, QueueRests DEF Others
<1>2. ASSUME ExecReturns PROVE PlanOnce'
  BY <1>2, QueueRests DEF ExecReturns, ExecReturn, Raise
<1>3. ASSUME DispReturns PROVE PlanOnce'
  BY <1>3, FinalOnce, QueueRests DEF DispReturns, DispReturn, StartFailed, ShutdownSave,
     SetPaused, Raise
<1>4. ASSUME Handle PROVE PlanOnce'
  BY <1>4, QueueRests DEF Handle, HandleLock, HandleEnd, ShutdownHook
<1>5. ASSUME NEW p \in Plan, StartPlan(p) \/ Dequeue(p) PROVE PlanOnce'
  BY <1>5, StartPlanOnce, DequeueOnce
<1>6. ASSUME NEW ps \in Due, StartDue(ps) PROVE PlanOnce'
  BY <1>6, DueElems, SelectOnce DEF StartDue
<1>7. ASSUME UserStop \/ ClearState \/ Suspend \/ Resume \/ Down PROVE PlanOnce'
  BY <1>7, QueueRests DEF UserStop, ClearState, Suspend, Resume, Down
<1>8. ASSUME NEW p \in Proc, Reap(p) \/ Exit(p) PROVE PlanOnce'
  BY <1>8, QueueRests DEF Reap, Exit, Callback
<1>9. ASSUME NEW j \in Job, StepTimeout(j) \/ PostTimeout(j) PROVE PlanOnce'
  BY <1>9, QueueRests DEF StepTimeout, PostTimeout, Callback
<1> QED
  BY <1>1, <1>2, <1>3, <1>4, <1>5, <1>6, <1>7, <1>8, <1>9 DEF Next

-----------------------------------------------------------------------------
(* Types.                                                                  *)

\* A thread comes to rest,
LEMMA Halts ==
    ASSUME Threads, NEW t \in Thread, NEW place \in Resting, Goto(t, place), Calm(t)
    PROVE  Threads'
BY BackupAssumption DEF Threads, Goto, Calm, Resting

\* or goes to a Backup; it keeps its type.
LEMMA Turns ==
    ASSUME Threads, NEW t \in Thread, NEW place \in Working, NEW j \in Job,
           Goto(t, place), job' = [job EXCEPT ![t] = j], to' = to,
           NEW f \in BOOLEAN, force' \in {force, [force EXCEPT ![t] = f]},
           NEW c \in {None, "forget", "task", "final", "startfail", "shutdown"},
           cont' \in {cont, [cont EXCEPT ![t] = c]}
    PROVE  Threads'
<1>1. place \notin Resting /\ j # 0 /\ j \in 0..MaxJob
  BY BackupAssumption DEF Working, Path, Resting, Job
<1> QED
  BY <1>1 DEF Threads, Goto

\* _select() leaves the dispatcher idle or in a method of the new Backup.
LEMMA SelectThreads ==
    ASSUME TypeOK, NEW q, SelectNone(q) \/ SelectStart(q) \/ SelectRefused
    PROVE  Threads'
<1>1. Threads /\ Disp \in Thread /\ "idle" \in Resting
  BY TypeParts DEF Thread, Resting
<1>2. CASE SelectNone(q) \/ SelectRefused
  BY <1>1, <1>2, Halts DEF SelectNone, SelectRefused
<1>3. CASE SelectStart(q)
  <2>1. made + 1 \in Job
    BY <1>3, TypeParts, BackupAssumption DEF SelectStart, Servers, Job
  <2>2. "next" \in Working /\ "stop" \in Working
    BY DEF Working, Path
  <2>3. CASE Goto(Disp, "next") /\ cont' = [cont EXCEPT ![Disp] = None] /\ UNCHANGED force
    BY <1>1, <1>3, <2>1, <2>2, <2>3, Turns DEF SelectStart
  <2>4. CASE GoStop(Disp, TRUE) /\ cont' = [cont EXCEPT ![Disp] = "startfail"]
    BY <1>1, <1>3, <2>1, <2>2, Turns DEF SelectStart, GoStop
  <2> QED
    BY <1>3, <2>3, <2>4 DEF SelectStart
<1> QED
  BY <1>2, <1>3

\* _select() keeps the types,
LEMMA TypeSelect ==
    ASSUME TypeOK, NEW ps \in Seq(Plan), NEW f \in BOOLEAN, Select(ps, f), Servers'
    PROVE  TypeOK'
<1>1. Threads'
  <2>1. CASE Running(current)
    BY <2>1, TypeParts DEF Select, Threads, frame
  <2>2. CASE ~Running(current)
    BY <2>2, SelectThreads DEF Select
  <2> QED
    BY <2>1, <2>2
<1> QED
  BY <1>1, TypeParts, PartsRest DEF Select

\* and so do returns,
LEMMA TypeReturns ==
    ASSUME TypeOK, Made, Afterwards, PlanOnce, ExecReturns \/ DispReturns
    PROVE  TypeOK'
<1>1. /\ Servers /\ Jobs /\ Timers /\ Processes /\ Signals /\ Threads
      /\ Disp \in Thread /\ Exec \in Thread
      /\ \A t \in Thread : pc[t] \notin Resting => job[t] \in Job
  BY TypeParts, BackupAssumption DEF Threads, Job, Thread
<1>2. "idle" \in Resting /\ "dead" \in Resting /\ "off" \in Resting
  BY DEF Resting
<1>3. CASE ExecReturn
  <2>1. Jobs'
    BY <1>1, <1>3 DEF ExecReturn, Jobs
  <2> QED
    BY <1>1, <1>2, <1>3, <2>1, Halts, PartsRest, TypeParts DEF ExecReturn
<1>4. ASSUME NEW t \in Thread, Raise(t) PROVE TypeOK'
  <2>1. Threads'
    BY <1>1, <1>2, <1>4, Halts DEF Raise
  <2> QED
    BY <1>1, <1>4, <2>1, PartsRest, TypeParts DEF Raise
<1>5. CASE DispReturn
  BY <1>1, <1>2, <1>5, Halts, PartsRest, TypeParts DEF DispReturn
<1>6. CASE StartFailed
  <2>1. Servers'
    BY <1>1, <1>6, BackupAssumption DEF StartFailed, Servers
  <2> QED
    BY <1>1, <1>2, <1>6, <2>1, Halts, PartsRest, TypeParts DEF StartFailed
<1>7. CASE ShutdownSave
  <2>1. current \in Job /\ plan[current] \in Plan
    BY <1>1, <1>7 DEF ShutdownSave, Made, Threads, Resting
  <2>2. saved' \in [Plan -> {None, "ok", "error"}]
    BY <1>1, <1>7, <2>1, SaveType DEF ShutdownSave
  <2>3. Servers'
    BY <1>1, <1>7, <2>2, BackupAssumption DEF ShutdownSave, Servers
  <2> QED
    BY <1>1, <1>2, <1>7, <2>3, Halts, PartsRest, TypeParts DEF ShutdownSave
<1>8. CASE SetPaused
  <2>1. current \in Job
    <3>1. pc[Disp] \notin Resting
      BY <1>8 DEF SetPaused, Resting
    <3>2. job[Disp] \in Job /\ job[Disp] # 0
      BY <1>1, <3>1 DEF Job
    <3> QED
      BY <3>2 DEF Made
  <2>2. Jobs'
    BY <1>1, <1>8, <2>1 DEF SetPaused, Jobs
  <2> QED
    BY <1>1, <1>2, <1>8, <2>2, Halts, PartsRest, TypeParts DEF SetPaused
<1>9. ASSUME NEW ps \in Due, FinalReturn(ps) PROVE TypeOK'
  <2>1. Threads'
    BY <1>9, SelectThreads DEF FinalReturn
  <2>2. Servers'
    BY <1>9, FinalOnce
  <2> QED
    BY <1>1, <1>9, <2>1, <2>2, PartsRest, TypeParts DEF FinalReturn
<1> QED
  BY <1>1, <1>3, <1>4, <1>5, <1>6, <1>7, <1>8, <1>9 DEF ExecReturns, DispReturns

\* requests and messages,
LEMMA TypeRequests ==
    ASSUME TypeOK, Handle \/ UserStop \/ ClearState \/ Suspend \/ Resume \/ Down
    PROVE  TypeOK'
<1>1. /\ Servers /\ Jobs /\ Timers /\ Processes /\ Signals /\ Threads /\ Disp \in Thread
      /\ current # 0 => current \in Job
  BY TypeParts, BackupAssumption DEF Servers, Job, Thread
<1>2. /\ "stop" \in Working /\ "suspend" \in Working /\ "resume" \in Working
      /\ "off" \in Resting
  BY DEF Working, Resting
<1>3. CASE HandleLock
  <2>1. Signals'
    BY <1>1, <1>3, FrontType DEF HandleLock, Signals
  <2>2. Threads'
    BY <1>1, <1>3 DEF HandleLock, Threads, frame
  <2> QED
    BY <1>1, <1>3, <2>1, <2>2, PartsRest, TypeParts DEF HandleLock
<1>4. CASE HandleEnd
  <2>1. Signals'
    BY <1>1, <1>4, FrontType DEF HandleEnd, Signals
  <2>2. Threads'
    <3>1. CASE UNCHANGED <<pc, job, force, cont>>
      BY <1>1, <1>4, <3>1 DEF HandleEnd, Threads
    <3>2. CASE ~UNCHANGED <<pc, job, force, cont>>
      BY <1>1, <1>2, <1>4, <3>2, Turns DEF HandleEnd, GoStop
    <3> QED
      BY <3>1, <3>2
  <2> QED
    BY <1>1, <1>4, <2>1, <2>2, PartsRest, TypeParts DEF HandleEnd
<1>5. CASE ShutdownHook
  <2>1. Threads'
    <3>1. CASE Running(current)
      BY <1>1, <1>2, <1>5, <3>1, Turns DEF ShutdownHook, GoStop, Running
    <3>2. CASE ~Running(current)
      BY <1>1, <1>5, <3>2 DEF ShutdownHook, Threads, Goto, Resting, Idle
    <3> QED
      BY <3>1, <3>2
  <2> QED
    BY <1>1, <1>5, <2>1, PartsRest, TypeParts DEF ShutdownHook
<1>6. CASE UserStop
  <2>1. Threads'
    BY <1>1, <1>2, <1>6, Turns DEF UserStop, GoStop, Running
  <2> QED
    BY <1>1, <1>6, <2>1, PartsRest, TypeParts DEF UserStop
<1>7. CASE ClearState
  <2>1. Servers' /\ Threads'
    BY <1>1, <1>7 DEF ClearState, Servers, Threads, frame
  <2> QED
    BY <1>1, <1>7, <2>1, PartsRest, TypeParts DEF ClearState
<1>8. CASE Suspend
  <2>1. Threads'
    BY <1>1, <1>2, <1>8, Turns DEF Suspend, Running
  <2>2. Processes'
    BY <1>1, <1>8 DEF Suspend, Processes
  <2> QED
    BY <1>1, <1>8, <2>1, <2>2, PartsRest, TypeParts DEF Suspend
<1>9. CASE Resume
  <2>1. Threads'
    BY <1>1, <1>2, <1>9, Turns DEF Resume, Running
  <2>2. Processes'
    BY <1>1, <1>9 DEF Resume, Processes
  <2> QED
    BY <1>1, <1>9, <2>1, <2>2, PartsRest, TypeParts DEF Resume
<1>10. CASE Down
  <2>1. Signals' /\ Threads'
    BY <1>1, <1>10 DEF Down, Signals, Threads, frame
  <2> QED
    BY <1>1, <1>10, <2>1, PartsRest, TypeParts DEF Down
<1> QED
  BY <1>3, <1>4, <1>5, <1>6, <1>7, <1>8, <1>9, <1>10 DEF Handle

\* callbacks and processes that exit,
LEMMA TypeCalls ==
    ASSUME TypeOK, \/ \E p \in Proc : Reap(p) \/ Exit(p)
                   \/ \E j \in Job : StepTimeout(j) \/ PostTimeout(j)
    PROVE  TypeOK'
<1>1. /\ Servers /\ Jobs /\ Timers /\ Processes /\ Signals /\ Threads /\ Exec \in Thread
      /\ "stop" \in Working /\ "next" \in Working
  BY TypeParts DEF Thread, Working, Path
<1>2. ASSUME NEW p \in Proc, Reap(p) PROVE TypeOK'
  <2>1. p[1] \in Job
    BY DEF Proc
  <2>2. Threads'
    BY <1>1, <1>2, <2>1, Turns DEF Reap, Callback
  <2>3. Processes'
    BY <1>1, <1>2 DEF Reap, Callback, Processes
  <2>4. Timers'
    BY <1>1, <1>2 DEF Reap, Callback, Timers
  <2> QED
    BY <1>2, <2>2, <2>3, <2>4, PartsRest, TypeParts DEF Reap, Callback
<1>3. ASSUME NEW p \in Proc, Exit(p) PROVE TypeOK'
  <2>1. Processes' /\ Threads'
    BY <1>1, <1>3 DEF Exit, Processes, Threads, frame
  <2> QED
    BY <1>1, <1>3, <2>1, PartsRest, TypeParts DEF Exit
<1>4. ASSUME NEW j \in Job, StepTimeout(j) \/ PostTimeout(j) PROVE TypeOK'
  <2>1. Threads'
    BY <1>1, <1>4, Turns DEF StepTimeout, PostTimeout, Callback
  <2>2. Timers'
    BY <1>1, <1>4 DEF StepTimeout, PostTimeout, Callback, Timers
  <2>3. Processes'
    BY <1>1, <1>4 DEF StepTimeout, PostTimeout, Callback, Processes
  <2> QED
    BY <1>4, <2>1, <2>2, <2>3, PartsRest, TypeParts DEF StepTimeout, PostTimeout, Callback
<1> QED
  BY <1>2, <1>3, <1>4

\* and every step.
LEMMA TypeStep ==
    ASSUME TypeOK, Made, Afterwards, Target, PlanOnce, Next
    PROVE  TypeOK'
<1>1. ASSUME NEW p \in Plan, StartPlan(p) PROVE TypeOK'
  <2>1. (IF p \in Fresh THEN <<p>> ELSE <<>>) \in Seq(Plan)
    BY EmptySeq, OneElem
  <2> QED
    BY <1>1, <2>1, StartPlanOnce, TypeSelect DEF StartPlan
<1>2. ASSUME NEW ps \in Due, StartDue(ps) PROVE TypeOK'
  BY <1>2, DueElems, SelectOnce, TypeSelect DEF StartDue
<1>3. ASSUME NEW p \in Plan, Dequeue(p) PROVE TypeOK'
  <2>1. Threads'
    BY <1>3, TypeParts DEF Dequeue, Threads, frame
  <2> QED
    BY <1>3, <2>1, DequeueOnce, TypeParts, PartsRest DEF Dequeue
<1> QED
  BY <1>1, <1>2, <1>3, TypeJob, TypeReturns, TypeRequests, TypeCalls DEF Next

-----------------------------------------------------------------------------
(* The theorems.                                                           *)

\* Nothing is made yet.
LEMMA BackupInit ==
    Init => BInv
<1> SUFFICES ASSUME Init PROVE BInv
  OBVIOUS
<1>1. <<>> \in Seq(Plan) /\ <<>> \in Seq(Message)
  OBVIOUS
<1>2. Servers /\ Jobs /\ Timers /\ Processes /\ Signals
  <2>1. Servers
    BY <1>1, BackupAssumption DEF Init, Servers
  <2>2. Jobs /\ Timers
    BY DEF Init, Jobs, Timers, State
  <2>3. Processes /\ Signals
    BY <1>1 DEF Init, Processes, Signals
  <2> QED
    BY <2>1, <2>2, <2>3
<1>3. Threads
  BY BackupAssumption DEF Init, Threads, Resting
<1>4. Made
  BY BackupAssumption DEF Init, Made, Blank, Thread, Job
<1>5. Afterwards /\ Alone /\ Target
  BY DEF Init, Afterwards, Afterward, Alone, Target, Ends, Path, Thread, None
<1>6. Singles /\ Packings
  BY DEF Init, Singles, Single, Packings, Packing, Thread
<1>7. Watched /\ OneAtATime
  <2>1. IsInjective(<<>>)
    BY DEF IsInjective
  <2> QED
    BY <2>1 DEF Init, Watched, OneAtATime, OneLiveJob, PlanOnce, Running
<1> QED
  BY <1>2, <1>3, <1>4, <1>5, <1>6, <1>7, TypeParts DEF BInv

\* Every step keeps the invariant.
LEMMA BackupStep ==
    BInv /\ Next => BInv'
<1> SUFFICES ASSUME BInv, Next PROVE BInv'
  OBVIOUS
<1>1. /\ TypeOK /\ Made /\ Afterwards /\ Alone /\ Singles /\ Target /\ Packings /\ Watched
      /\ OneLiveJob /\ PlanOnce
  BY DEF BInv, OneAtATime
<1>2. TypeOK' /\ PlanOnce'
  BY <1>1, TypeStep, PlanOnceStep
<1>3. ASSUME NEW t \in Thread, JobStep(t)
      PROVE  /\ Made' /\ Afterwards' /\ Alone' /\ Singles' /\ Target' /\ Packings' /\ Watched'
             /\ OneLiveJob'
  BY <1>1, <1>3, MadeJob, AfterwardsJob, AloneJob, SingleJob, TargetJob, PackingJob, WatchedJob,
     OneLiveJobJob
<1>4. ASSUME \/ \E t \in Thread : Leaves(t) /\ OtherSame(t)
             \/ \E p \in Plan : Makes(p) /\ OtherSame(Disp)
             \/ Takes /\ OtherSame(Disp)
             \/ \E j \in Job : Calls(j) /\ OtherSame(Exec)
             \/ Rests
      PROVE  /\ Made' /\ Afterwards' /\ Alone' /\ Singles' /\ Target' /\ Packings' /\ Watched'
             /\ OneLiveJob'
  <2>1. Made' /\ Afterwards'
    BY <1>1, <1>4, MadeKinds, AfterwardsKinds
  <2>2. Alone' /\ Singles'
    BY <1>1, <1>4, AloneKinds, SinglesKinds
  <2>3. Target' /\ Packings'
    BY <1>1, <1>4, TargetKinds, PackingsKinds
  <2>4. Watched' /\ OneLiveJob'
    BY <1>1, <1>4, WatchedKinds, OneLiveJobKinds
  <2> QED
    BY <2>1, <2>2, <2>3, <2>4
<1> QED
  BY <1>1, <1>2, <1>3, <1>4, StepKinds DEF BInv, OneAtATime

\* So does a step that changes nothing.
LEMMA BackupStutter ==
    BInv /\ UNCHANGED vars => BInv'
BY DEF BInv, vars, srvVars, procVars, timeVars, jobVars, frame, TypeOK, Made, Blank, Afterwards,
   Afterward, Alone, Singles, Single, Target, Packings, Packing, Packed, Watched, OneAtATime,
   OneLiveJob, PlanOnce, Running

\* The invariant holds.
LEMMA BackupInvariant ==
    Spec => []BInv
<1>1. BInv /\ [Next]_vars => BInv'
  BY BackupStep, BackupStutter
<1> QED
  BY <1>1, BackupInit, PTL DEF Spec

\* Every variable keeps its type: a thread is at a place of the methods only with a Backup, and
\* a Backup has only a state, a step and a timeout that backup.py knows.
THEOREM BackupTypes ==
    Spec => []TypeOK
<1>1. BInv => TypeOK
  BY DEF BInv
<1> QED
  BY <1>1, BackupInvariant, PTL

\* BackupServer runs one Backup at a time: those that are not current have been stopped; a Plan
\* waits in the queue once, and not while its Backup runs.  _select() and _add() look at _current
\* and the queue, while the executer may end the Backup.
THEOREM OneBackupAtATime ==
    Spec => []OneAtATime
<1>1. BInv => OneAtATime
  BY DEF BInv
<1> QED
  BY <1>1, BackupInvariant, PTL

\* A Backup is DONE only when its packing process ended well: _next() after the callbacks of two
\* threads, in any order, never takes a Backup past a step that has failed or not run.
THEOREM DoneWasPacked ==
    Spec => []DoneIsPacked
<1>1. BInv => DoneIsPacked
  BY DEF BInv, DoneIsPacked, Packings, Packing, Packed
<1> QED
  BY <1>1, BackupInvariant, PTL

\* The invariant implies that a Backup that was not stopped has one process, which is its own,
\* and is guarded by a timeout.
LEMMA ControlledHolds ==
    BInv => Controlled
<1> SUFFICES ASSUME BInv PROVE Controlled
  OBVIOUS
<1>1. /\ Singles /\ Watched
      /\ \A j \in 1..made : j \in Job
  BY TypeParts, BackupAssumption DEF BInv, Servers, Job
<1>2. ASSUME NEW j \in 1..made, ~cancel[j]
      PROVE  /\ Cardinality({s \in Step : <<j, s>> \in alive}) <= 1
             /\ \A s \in Step : <<j, s>> \in alive => proc[j] = s
  <2>1. \A s \in Step : <<j, s>> \in alive => proc[j] = s
    BY <1>1, <1>2 DEF Singles, Single
  <2>2. {s \in Step : <<j, s>> \in alive} \subseteq {proc[j]}
    BY <2>1
  <2>3. IsFiniteSet({proc[j]}) /\ Cardinality({proc[j]}) = 1
    BY FS_Singleton
  <2>4. Cardinality({s \in Step : <<j, s>> \in alive}) <= 1
    <3>1. Cardinality({s \in Step : <<j, s>> \in alive}) <= Cardinality({proc[j]})
      BY <2>2, <2>3, FS_Subset
    <3> QED
      BY <2>3, <3>1
  <2> QED
    BY <2>1, <2>4
<1>3. Guarded
  BY <1>1 DEF Watched, Guarded
<1> QED
  BY <1>2, <1>3 DEF Controlled, OneProcess

\* What runs for a Backup is under its control: one process at a time, the one of its state, which
\* stop() would kill, and a timeout that would stop it, although the dispatcher's stop() may come
\* between any two steps of the executer's _next().
THEOREM BackupsControlled ==
    Spec => []Controlled
<1> QED
  BY ControlledHolds, BackupInvariant, PTL

=============================================================================
