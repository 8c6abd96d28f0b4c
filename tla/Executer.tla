------------------------------ MODULE Executer ------------------------------
(***************************************************************************)
(* The executer thread of lib/structs/dispatcher.py: once a second it runs *)
(* the DAEMON hooks, the scheduled tasks that are due, and the callbacks   *)
(* of the watched processes that have exited.  add_task, cancel_task and   *)
(* watch_process are called by the dispatcher thread at any time, and by   *)
(* the executer itself from the hooks, tasks and callbacks it runs.        *)
(*                                                                         *)
(* The scheduler is created by the first add_task: the test for None and   *)
(* the assignment are two steps, so that two threads may each create one.  *)
(* Its queue is ordered by time; a task's time is abstracted to its place  *)
(* in the queue, and the tasks whose time has come are a prefix of it.     *)
(***************************************************************************)
EXTENDS Naturals, Sequences, FiniteSets, SequencesExt

CONSTANTS
    Task,        \* the events add_task() returns (bounds the calls)
    Proc,        \* the processes watch_process() is given, each once
    Silent,      \* those watched without a callback
    Disp,        \* the dispatcher thread
    Runner,      \* the executer thread
    NoTask

ASSUME ExecuterAssumption == /\ Silent \subseteq Proc
                             /\ Disp # Runner
                             /\ NoTask \notin Task

Caller == {Disp, Runner}
Instance == 1..2     \* each caller creates at most one scheduler

VARIABLES
    sched,       \* the scheduler _sched refers to, 0 for None
    queue,       \* the queue of each scheduler, soonest first
    due,         \* the tasks whose time has come
    opc,         \* where each caller is in add_task()
    oarg,        \* the task it is adding
    started,     \* tasks whose function was called
    cancelled,   \* tasks for which cancel_task() returned True
    watch,       \* _watch
    state,       \* of a process: "new", "running" or "exited"
    called,      \* how often the callback of a process was called
    epc,         \* where the executer is in its loop
    idx,         \* position of the iterator over _watch
    inst,        \* the scheduler run() works on
    stopping,    \* the dispatcher's _running event
    signal       \* the executer's _signal event

schedVars == <<sched, queue, due, opc, oarg, started, cancelled>>
watchVars == <<watch, state, called, idx>>
loopVars == <<epc, inst>>
stopVars == <<stopping, signal>>
executerVars == <<schedVars, watchVars, loopVars, stopVars>>

Queued(t) == \E s \in Instance : t \in Range(queue[s])

ExecuterInit ==
    /\ sched = 0
    /\ queue = [s \in Instance |-> <<>>]
    /\ due = {}
    /\ opc = [c \in Caller |-> "idle"]
    /\ oarg = [c \in Caller |-> NoTask]
    /\ started = {}
    /\ cancelled = {}
    /\ watch = <<>>
    /\ state = [p \in Proc |-> "new"]
    /\ called = [p \in Proc |-> 0]
    /\ epc = "test"
    /\ idx = 0
    /\ inst = 0
    /\ stopping = FALSE
    /\ signal = FALSE

-----------------------------------------------------------------------------
(* Calls into the dispatcher by one of the two threads.                    *)

Code == {"hooks", "task", "callback"}     \* module code runs on the executer

Calls(c) == /\ opc[c] = "idle"
            /\ c = Disp => ~signal
            /\ c = Runner => epc \in Code

Unused(t) == /\ ~Queued(t) /\ t \notin started \cup cancelled
             /\ \A c \in Caller : oarg[c] # t

\* Mutated: every task gets a scheduler of its own.
AlwaysCreate == "create"

CreateOrEnter == IF sched = 0 THEN "create" ELSE "enter"

AddTask(c, t) ==
    /\ Calls(c)
    /\ ~stopping
    /\ Unused(t)
    /\ opc' = [opc EXCEPT ![c] = CreateOrEnter]
    /\ oarg' = [oarg EXCEPT ![c] = t]
    /\ UNCHANGED <<sched, queue, due, started, cancelled, watchVars, loopVars, stopVars>>

CreateSched(c) ==
    /\ opc[c] = "create"
    /\ sched' = IF sched = 0 THEN 1 ELSE 2
    /\ opc' = [opc EXCEPT ![c] = "enter"]
    /\ UNCHANGED <<queue, due, oarg, started, cancelled, watchVars, loopVars, stopVars>>

\* Mutated: the caller still holds the task.
EnterTaskKeepsArg(c) ==
    /\ opc[c] = "enter"
    /\ queue' = [queue EXCEPT ![sched] = Append(@, oarg[c])]
    /\ opc' = [opc EXCEPT ![c] = "idle"]
    /\ UNCHANGED <<sched, due, oarg, started, cancelled, watchVars, loopVars, stopVars>>

\* The new task goes behind the tasks that are due, wherever its time says.
EnterTask(c) ==
    /\ opc[c] = "enter"
    /\ \E i \in 1..(Len(queue[sched]) + 1) :
         /\ \A j \in i..Len(queue[sched]) : queue[sched][j] \notin due
         /\ queue' = [queue EXCEPT ![sched] = InsertAt(@, i, oarg[c])]
    /\ opc' = [opc EXCEPT ![c] = "idle"]
    /\ oarg' = [oarg EXCEPT ![c] = NoTask]
    /\ UNCHANGED <<sched, due, started, cancelled, watchVars, loopVars, stopVars>>

\* Mutated: True as well for a task that was popped already.
QueuedOrPopped == Range(queue[sched]) \cup started

Cancellable == Range(queue[sched])

\* True when the task was still queued; ValueError, hence False, when it had
\* been popped already, even if its function has not returned yet.
CancelTask(c, t) ==
    /\ Calls(c)
    /\ sched # 0
    /\ t \in Cancellable
    /\ queue' = [queue EXCEPT ![sched] = RemoveFirst(@, t)]
    /\ cancelled' = cancelled \cup {t}
    /\ UNCHANGED <<sched, due, opc, oarg, started, watchVars, loopVars, stopVars>>

WatchProcess(c, p) ==
    /\ Calls(c)
    /\ ~stopping
    /\ state[p] = "new"
    /\ state' = [state EXCEPT ![p] = "running"]
    /\ watch' = Append(watch, p)
    /\ UNCHANGED <<schedVars, called, idx, loopVars, stopVars>>

-----------------------------------------------------------------------------
(* The loop of the executer thread.                                        *)

Continue(place) == epc' = place /\ UNCHANGED <<schedVars, watchVars, inst, stopVars>>

NextTurn ==
    /\ epc = "test"
    /\ Continue(IF signal THEN "sweep" ELSE "hooks")

HooksReturn ==
    /\ epc = "hooks"
    /\ opc[Runner] = "idle"
    /\ Continue("sched")

BeginWatch ==
    /\ epc' = "watch"
    /\ idx' = 0
    /\ UNCHANGED <<schedVars, watch, state, called, inst, stopVars>>

RunSched ==     \* _run_sched(): nothing to do, or sched.run(blocking=False)
    /\ epc = "sched"
    /\ IF sched = 0
       THEN BeginWatch
       ELSE epc' = "run" /\ inst' = sched /\ UNCHANGED <<schedVars, watchVars, stopVars>>

HeadDue == queue[inst] # <<>> /\ Head(queue[inst]) \in due

\* Mutated: the task stays in the queue while it runs.
PeekFirst(q) == q

PopFirst(q) == Tail(q)

PopTask ==
    /\ epc = "run"
    /\ HeadDue
    /\ queue' = [queue EXCEPT ![inst] = PopFirst(@)]
    /\ started' = started \cup {Head(queue[inst])}
    /\ epc' = "task"
    /\ UNCHANGED <<sched, due, opc, oarg, cancelled, watchVars, inst, stopVars>>

NoneDue ==
    /\ epc = "run"
    /\ ~HeadDue
    /\ BeginWatch

\* The scheduler catches no exception of a task: it ends the thread, and
\* Service._thread_except interrupts the process.
TaskReturn ==
    /\ epc = "task"
    /\ opc[Runner] = "idle"
    /\ \E place \in {"run", "dead"} : Continue(place)

\* Mutated: the first running process ends the iteration.
StopAtRunning ==
    /\ epc = "watch"
    /\ idx < Len(watch)
    /\ state[watch[idx + 1]] = "running"
    /\ Continue("test")

\* for i in self._watch: the iterator moves on over a running process ...
SkipRunning ==
    /\ epc = "watch"
    /\ idx < Len(watch)
    /\ state[watch[idx + 1]] = "running"
    /\ idx' = idx + 1
    /\ UNCHANGED <<schedVars, watch, state, called, loopVars, stopVars>>

\* poll() is outside of the try block: that of a list of commands (Multi) raises when another
\* thread has just taken its last command.
PollRaises ==
    /\ epc = "watch"
    /\ idx < Len(watch)
    /\ Continue("dead")

Unlisted(p) == RemoveFirst(watch, p)

\* ... and removes an exited one from the list under the iterator, which
\* thereby steps over the entry that follows it.
Reap ==
    /\ epc = "watch"
    /\ idx < Len(watch)
    /\ LET p == watch[idx + 1] IN
         /\ state[p] = "exited"
         /\ watch' = Unlisted(p)
         /\ IF p \in Silent
            THEN UNCHANGED <<called, epc>>
            ELSE called' = [called EXCEPT ![p] = @ + 1] /\ epc' = "callback"
    /\ idx' = idx + 1
    /\ UNCHANGED <<schedVars, state, inst, stopVars>>

CallbackReturn ==     \* returned or raised: the exception is logged
    /\ epc = "callback"
    /\ opc[Runner] = "idle"
    /\ Continue("watch")

WatchEnd ==     \* _signal.wait(1)
    /\ epc = "watch"
    /\ idx >= Len(watch)
    /\ Continue("test")

\* Every queued task is cancelled, the scheduler and the watched processes are
\* forgotten: stop() is given the entry, not its process, and does nothing.
Sweep ==
    /\ epc = "sweep"
    /\ queue' = IF sched = 0 THEN queue ELSE [queue EXCEPT ![sched] = <<>>]
    /\ watch' = <<>>
    /\ epc' = "over"
    /\ UNCHANGED <<sched, due, opc, oarg, started, cancelled, state, called,
                   idx, inst, stopVars>>

-----------------------------------------------------------------------------
(* The environment: time, processes, and the dispatcher's shutdown.        *)

TimeComes ==
    \E s \in Instance, i \in 1..Cardinality(Task) :
        /\ i \in 1..Len(queue[s])
        /\ queue[s][i] \notin due
        /\ \A j \in 1..(i - 1) : queue[s][j] \in due
        /\ due' = due \cup {queue[s][i]}
        /\ UNCHANGED <<sched, queue, opc, oarg, started, cancelled, watchVars,
                       loopVars, stopVars>>

Exit(p) ==
    /\ state[p] = "running"
    /\ state' = [state EXCEPT ![p] = "exited"]
    /\ UNCHANGED <<schedVars, watch, called, idx, loopVars, stopVars>>

Stop ==     \* Dispatcher.stop()
    /\ ~stopping
    /\ stopping' = TRUE
    /\ UNCHANGED <<schedVars, watchVars, epc, inst, signal>>

Signal ==     \* DispatchExecuter.stop(), by the dispatcher thread between calls
    /\ stopping
    /\ ~signal
    /\ opc[Disp] = "idle"
    /\ signal' = TRUE
    /\ UNCHANGED <<schedVars, watchVars, epc, inst, stopping>>

-----------------------------------------------------------------------------
ExecStep == \/ NextTurn \/ HooksReturn \/ RunSched \/ PopTask \/ NoneDue \/ TaskReturn
            \/ SkipRunning \/ PollRaises \/ Reap \/ CallbackReturn \/ WatchEnd \/ Sweep

AddStep(c) == CreateSched(c) \/ EnterTask(c)

ExecuterNext ==
    \/ ExecStep
    \/ \E c \in Caller :
         \/ AddStep(c)
         \/ \E t \in Task : AddTask(c, t) \/ CancelTask(c, t)
         \/ \E p \in Proc : WatchProcess(c, p)
    \/ TimeComes \/ Stop \/ Signal
    \/ \E p \in Proc : Exit(p)

ExecuterSpec == ExecuterInit /\ [][ExecuterNext]_executerVars

\* Both threads are scheduled, the code they run returns, and time passes.
ExecuterFairness ==
    /\ WF_executerVars(ExecStep)
    /\ \A c \in Caller : WF_executerVars(AddStep(c))
    /\ WF_executerVars(TimeComes)

FairExecuterSpec == ExecuterSpec /\ ExecuterFairness

-----------------------------------------------------------------------------
(* Properties.                                                             *)

ExecuterTypeOK ==
    /\ sched \in 0..2
    /\ queue \in [Instance -> Seq(Task)]
    /\ due \in SUBSET Task
    /\ opc \in [Caller -> {"idle", "create", "enter"}]
    /\ oarg \in [Caller -> Task \cup {NoTask}]
    /\ \A c \in Caller : oarg[c] = NoTask <=> opc[c] = "idle"
    /\ started \in SUBSET Task
    /\ cancelled \in SUBSET Task
    /\ watch \in Seq(Proc)
    /\ state \in [Proc -> {"new", "running", "exited"}]
    /\ called \in [Proc -> Nat]
    /\ epc \in {"test", "hooks", "sched", "run", "task", "watch", "callback",
               "sweep", "over", "dead"}
    /\ idx \in Nat
    /\ inst \in 0..2
    /\ stopping \in BOOLEAN
    /\ signal \in BOOLEAN

\* cancel_task() returns True only for a task that never runs: modules cancel a
\* timeout from one thread while the executer may be about to run it.
CancelIsFinal == cancelled \cap started = {}

\* A task is in one scheduler at most, once, and no longer when it has started
\* or was cancelled: no function is called twice.
TaskOnce ==
    /\ \A s \in Instance : IsInjective(queue[s])
    /\ Range(queue[1]) \cap Range(queue[2]) = {}
    /\ \A s \in Instance : Range(queue[s]) \cap (started \cup cancelled) = {}

\* The callback of a watched process is called once at most, and only when the
\* process has exited, although the list changes under the iterator.
CallbackOnce ==
    /\ IsInjective(watch)
    /\ \A p \in Proc : /\ called[p] <= 1
                       /\ called[p] = 1 => state[p] = "exited" /\ p \notin Range(watch)

\* What the executer calls, it calls once: tasks and callbacks.
CalledOnce == TaskOnce /\ CallbackOnce

Halts == signal \/ epc = "dead"

\* No exited process is stepped over for ever: its callback is called unless
\* the executer ends first.
ExitNoticed ==
    \A p \in Proc \ Silent :
        (state[p] = "exited" /\ p \in Range(watch)) ~> (called[p] = 1 \/ Halts)

\* A task of the scheduler in use runs or is cancelled, unless the executer
\* ends first or another thread was just then creating its own scheduler.
TaskRuns ==
    \A t \in Task :
        (/\ sched # 0
         /\ t \in Range(queue[sched])
         /\ \A c \in Caller : opc[c] # "create")
            ~> (t \in started \cup cancelled \/ Halts)
=============================================================================
