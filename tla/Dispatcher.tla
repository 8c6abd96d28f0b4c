----------------------------- MODULE Dispatcher -----------------------------
(***************************************************************************)
(* The message loop of lib/structs/dispatcher.py: one dispatcher thread,   *)
(* the threads that add messages to its list, and the thread that stops it.*)
(*                                                                         *)
(* The list _messages is shared without a lock.  add() tests _running,     *)
(* appends, and sets the _waiting event as three separate steps; run()     *)
(* tests the length, clears the event and waits on it as three steps too.  *)
(* Every one of these steps is an action, so that TLC interleaves them as  *)
(* the interpreter may.  Reading the length of a list, appending to it and *)
(* popping from it are atomic under the interpreter lock.                  *)
(*                                                                         *)
(* The executer thread appears only through its life cycle and as one of   *)
(* the threads that add messages; Executer models its own loop.            *)
(***************************************************************************)
EXTENDS Naturals, Sequences, FiniteSets

CONSTANTS
    Msg,          \* the messages of a behaviour (bounds the number of add() calls)
    HookedMsg,    \* those whose header has registered hooks
    LogMsg,       \* those whose header is HOOK_LOG; the rest is un-hooked
    Producer,     \* the threads other than the dispatcher that call add()
    Exec,         \* the producer that is the executer thread
    Self,         \* the dispatcher thread, whose hooks call add() too
    NoMsg

ASSUME DispatcherAssumption ==
    /\ HookedMsg \subseteq Msg
    /\ LogMsg \subseteq Msg
    /\ HookedMsg \cap LogMsg = {}
    /\ NoMsg \notin Msg
    /\ Exec \in Producer
    /\ Self \notin Producer

Thread == Producer \cup {Self}

VARIABLES
    messages,     \* _messages, in append order; pop() takes the last one
    waiting,      \* the _waiting event
    running,      \* the _running event: set means "stop"
    complete,     \* the _complete event
    pc,           \* where the dispatcher thread is in run()
    apc,          \* where each thread is in add()
    arg,          \* the message each thread is adding
    fresh,        \* messages no thread has created yet
    refused,      \* messages add() returned from without appending
    taken,        \* messages the loop has popped
    stopper,      \* where the caller of stop() is
    exec          \* life cycle of the executer thread

list == <<messages, taken>>
events == <<waiting, running, complete>>
adders == <<apc, arg, fresh, refused>>
vars == <<list, events, adders, pc, stopper, exec>>

Elems(s) == {s[i] : i \in 1..Len(s)}
Distinct(s) == \A i, j \in 1..Len(s) : s[i] = s[j] => i = j

Pending == Elems(messages)

Busy == {"boot", "hooks"}                 \* the hooks of a message are running
Loop == {"boot", "test", "check", "clear", "wait", "drain", "hooks", "log"}
After == {"shutdown", "quit", "join", "done", "dead"}

Init ==
    /\ messages = <<>>
    /\ waiting = FALSE
    /\ running = FALSE
    /\ complete = FALSE
    /\ pc = "boot"
    /\ apc = [t \in Thread |-> "idle"]
    /\ arg = [t \in Thread |-> NoMsg]
    /\ fresh = Msg
    /\ refused = {}
    /\ taken = {}
    /\ stopper = "idle"
    /\ exec = "off"

-----------------------------------------------------------------------------
(* add(): a thread that is able to run code creates a message and submits  *)
(* it.  The executer adds while it lives, the dispatcher thread only from  *)
(* inside a hook.                                                          *)

CanAdd(t) ==
    /\ apc[t] = "idle"
    /\ t = Exec => exec \in {"on", "quit"}
    /\ t = Self => pc \in Busy \cup {"shutdown"}

AddTest(t, m) ==
    /\ CanAdd(t)
    /\ m \in fresh
    /\ fresh' = fresh \ {m}
    /\ IF running
       THEN refused' = refused \cup {m} /\ UNCHANGED <<apc, arg>>
       ELSE /\ apc' = [apc EXCEPT ![t] = "append"]
            /\ arg' = [arg EXCEPT ![t] = m]
            /\ UNCHANGED refused
    /\ UNCHANGED <<list, events, pc, stopper, exec>>

AddAppend(t) ==
    /\ apc[t] = "append"
    /\ messages' = Append(messages, arg[t])
    /\ apc' = [apc EXCEPT ![t] = "set"]
    /\ UNCHANGED <<taken, events, arg, fresh, refused, pc, stopper, exec>>

\* Mutated: the thread still holds the message.
AddSetKeepsArg(t) ==
    /\ apc[t] = "set"
    /\ waiting' = TRUE
    /\ apc' = [apc EXCEPT ![t] = "idle"]
    /\ UNCHANGED <<list, running, complete, arg, fresh, refused, pc, stopper, exec>>

AddSet(t) ==
    /\ apc[t] = "set"
    /\ waiting' = TRUE
    /\ apc' = [apc EXCEPT ![t] = "idle"]
    /\ arg' = [arg EXCEPT ![t] = NoMsg]
    /\ UNCHANGED <<list, running, complete, fresh, refused, pc, stopper, exec>>

-----------------------------------------------------------------------------
(* run(): the dispatcher thread.                                           *)

Goto(place) == pc' = place /\ UNCHANGED <<list, adders, stopper>>

Boot ==     \* load, STARTUP hooks, save, start the executer
    /\ pc = "boot"
    /\ apc[Self] = "idle"
    /\ exec' = "on"
    /\ Goto("test") /\ UNCHANGED events

BootFails ==     \* loading a module raises: the thread ends, the executer never starts
    /\ pc = "boot"
    /\ apc[Self] = "idle"
    /\ Goto("dead") /\ UNCHANGED <<events, exec>>

Test ==
    /\ pc = "test"
    /\ Goto(IF running THEN "shutdown" ELSE "check") /\ UNCHANGED <<events, exec>>

\* Mutated: the event is cleared whether the list is empty or not.
CheckAlwaysClears ==
    /\ pc = "check"
    /\ Goto("clear") /\ UNCHANGED <<events, exec>>

Check ==
    /\ pc = "check"
    /\ Goto(IF messages = <<>> THEN "clear" ELSE "wait") /\ UNCHANGED <<events, exec>>

Clear ==
    /\ pc = "clear"
    /\ waiting' = FALSE
    /\ Goto("wait") /\ UNCHANGED <<running, complete, exec>>

Wait ==
    /\ pc = "wait"
    /\ waiting
    /\ Goto("drain") /\ UNCHANGED <<events, exec>>

Drained ==
    /\ pc = "drain"
    /\ messages = <<>>
    /\ Goto("test") /\ UNCHANGED <<events, exec>>

\* Mutated: the list is emptied although only its last message is processed.
PopAll(s) == <<>>

PopLast(s) == SubSeq(s, 1, Len(s) - 1)

Pop ==
    /\ pc = "drain"
    /\ messages # <<>>
    /\ LET m == messages[Len(messages)] IN
         /\ taken' = taken \cup {m}
         /\ pc' = IF m \in LogMsg THEN "log"
                  ELSE IF m \in HookedMsg THEN "hooks" ELSE "drain"
    /\ messages' = PopLast(messages)
    /\ UNCHANGED <<events, adders, stopper, exec>>

HooksDone ==     \* hooks returned or raised: the reply is sent or the error logged
    /\ pc = "hooks"
    /\ apc[Self] = "idle"
    /\ Goto("drain") /\ UNCHANGED <<events, exec>>

\* A log request is sent on to every client outside of the try block: when
\* that send raises (Server shows how it can) the thread ends.
LogDone ==
    /\ pc = "log"
    /\ \E place \in {"drain", "dead"} : Goto(place)
    /\ UNCHANGED <<events, exec>>

\* Mutated: what is left in the list is processed after the SHUTDOWN hooks.
ShutdownThenDrain ==
    /\ pc = "shutdown"
    /\ apc[Self] = "idle"
    /\ Goto(IF messages = <<>> THEN "quit" ELSE "drain") /\ UNCHANGED <<events, exec>>

Shutdown ==     \* SHUTDOWN hooks, save
    /\ pc = "shutdown"
    /\ apc[Self] = "idle"
    /\ Goto("quit") /\ UNCHANGED <<events, exec>>

Quit ==     \* DispatchExecuter.stop() sets its _signal
    /\ pc = "quit"
    /\ exec' = "quit"
    /\ Goto("join") /\ UNCHANGED events

Join ==     \* the executer is over, or TIMEOUT_SEC_STOP has passed
    /\ pc = "join"
    /\ complete' = TRUE
    /\ Goto("done") /\ UNCHANGED <<waiting, running, exec>>

ExecOver ==
    /\ exec = "quit"
    /\ apc[Exec] = "idle"
    /\ exec' = "over"
    /\ UNCHANGED <<list, events, adders, pc, stopper>>

-----------------------------------------------------------------------------
(* stop(): set _running, set _waiting, wait for _complete at most          *)
(* TIMEOUT_SEC_STOP.                                                       *)

StopSet ==
    /\ stopper = "idle"
    /\ stopper' = "wake"
    /\ running' = TRUE
    /\ UNCHANGED <<list, waiting, complete, adders, pc, exec>>

StopWake ==
    /\ stopper = "wake"
    /\ stopper' = "join"
    /\ waiting' = TRUE
    /\ UNCHANGED <<list, running, complete, adders, pc, exec>>

StopReturn ==
    /\ stopper = "join"
    /\ stopper' = IF complete THEN "joined" ELSE "timeout"
    /\ UNCHANGED <<list, events, adders, pc, exec>>

-----------------------------------------------------------------------------
Run == \/ Boot \/ BootFails \/ Test \/ Check \/ Clear \/ Wait \/ Drained \/ Pop
       \/ HooksDone \/ LogDone \/ Shutdown \/ Quit \/ Join

Add(t) == AddAppend(t) \/ AddSet(t)

Next == \/ Run
        \/ ExecOver
        \/ \E t \in Thread : Add(t) \/ \E m \in Msg : AddTest(t, m)
        \/ StopSet \/ StopWake \/ StopReturn

Spec == Init /\ [][Next]_vars

\* A thread that has entered add() or stop() is scheduled again, and so is the
\* dispatcher thread whenever it is not blocked on an event.  Nothing forces
\* anyone to add a message or to stop the service.
Fairness == /\ WF_vars(Run)
            /\ \A t \in Thread : WF_vars(Add(t))
            /\ WF_vars(StopWake)

FairSpec == Spec /\ Fairness

-----------------------------------------------------------------------------
(* Properties.                                                             *)

TypeOK ==
    /\ messages \in Seq(Msg)
    /\ waiting \in BOOLEAN
    /\ running \in BOOLEAN
    /\ complete \in BOOLEAN
    /\ pc \in Loop \cup After
    /\ apc \in [Thread -> {"idle", "append", "set"}]
    /\ arg \in [Thread -> Msg \cup {NoMsg}]
    /\ \A t \in Thread : arg[t] = NoMsg <=> apc[t] = "idle"
    /\ fresh \in SUBSET Msg
    /\ refused \in SUBSET Msg
    /\ taken \in SUBSET Msg
    /\ stopper \in {"idle", "wake", "join", "joined", "timeout"}
    /\ exec \in {"off", "on", "quit", "over"}

\* Every message is in exactly one place: not created, refused by add(), about
\* to be appended by one thread, in the list (once), or taken by the loop.
\* However the threads interleave on the unlocked list, none is lost from it
\* and none is in it twice.
Unappended == {arg[t] : t \in {u \in Thread : apc[u] = "append"}}

Conservation ==
    /\ Msg = fresh \cup refused \cup Unappended \cup Pending \cup taken
    /\ fresh \cap (refused \cup Unappended \cup Pending \cup taken) = {}
    /\ refused \cap (Unappended \cup Pending \cup taken) = {}
    /\ Unappended \cap (Pending \cup taken) = {}
    /\ Pending \cap taken = {}
    /\ Distinct(messages)
    /\ \A t, u \in Thread :
         (apc[t] = "append" /\ apc[u] = "append" /\ arg[t] = arg[u]) => t = u

\* The message loop implements the bus of MessageBus: accepted messages are
\* taken at most once, and none after the SHUTDOWN hooks have begun.
Bus == INSTANCE MessageBus
         WITH pending <- Pending, taken <- taken, open <- pc \in Loop

BusSpec == Bus!Spec

\* The wake-up of add() is lost only in one place: a message whose add() has
\* yet to set the event is taken, unless the dispatcher thread is at that
\* moment between finding the list empty and clearing the event.
AddWakes ==
    \A t \in Thread, m \in Msg :
        (apc[t] = "set" /\ arg[t] = m /\ pc # "clear")
            ~> (m \in taken \/ pc \in After)

\* The same for stop(): when _running was set while the dispatcher thread was
\* not between testing it and clearing the event, the SHUTDOWN hooks run and
\* _complete is set (or a hook had already killed the thread).
StopWakes == (stopper = "wake" /\ pc \notin {"check", "clear"}) ~> (complete \/ pc = "dead")

\* Outside of that window no wake-up is lost, neither that of add() nor that of stop().
Wakes == AddWakes /\ StopWakes

\* dispatcher.py says the Dispatcher "allows for dynamic and asynchronous
\* calling of various functions loaded": a message that was added has its
\* functions called, unless the service stops or dies first.
EveryMessageCalled ==
    \A m \in Msg : (m \in Pending) ~> (m \in taken \/ running \/ pc \in After)
=============================================================================
