-------------------------- MODULE DispatcherProofs --------------------------
(***************************************************************************)
(* Proofs about the two threads of structs/dispatcher.py.  Of Dispatcher,  *)
(* for any number of messages and threads: its types, the conservation of  *)
(* messages on the unlocked list, and that the loop implements MessageBus. *)
(* Of Executer, for any number of tasks and processes, which its two       *)
(* threads add, cancel and watch: its types, that a task that was          *)
(* cancelled is never run, and that nothing is called twice.  The          *)
(* invariant adds that a task that is on its way into a queue is in no     *)
(* other place, and that a process nobody has handed over yet is not       *)
(* watched.                                                                *)
(***************************************************************************)
EXTENDS Dispatcher, Executer, ListLemmas, SequenceTheorems, TLAPS

-----------------------------------------------------------------------------
(* The list: what append() and pop() do to its elements.                   *)

\* Appending an element that is not in a list of distinct elements.
LEMMA AppendedElems ==
    ASSUME NEW S, NEW s \in Seq(S), NEW m \in S
    PROVE  /\ Append(s, m) \in Seq(S)
           /\ Elems(Append(s, m)) = Elems(s) \cup {m}
           /\ (Distinct(s) /\ m \notin Elems(s)) => Distinct(Append(s, m))
<1>1. /\ Append(s, m) \in Seq(S)
      /\ Len(Append(s, m)) = Len(s) + 1
      /\ \A i \in 1..Len(s) : Append(s, m)[i] = s[i]
      /\ Append(s, m)[Len(s) + 1] = m
      /\ Len(s) \in Nat
  OBVIOUS
<1>2. Elems(Append(s, m)) = Elems(s) \cup {m}
  BY <1>1 DEF Elems
<1>3. ASSUME Distinct(s), m \notin Elems(s)
      PROVE  Distinct(Append(s, m))
  BY <1>1, <1>3 DEF Distinct, Elems
<1> QED
  BY <1>1, <1>2, <1>3

\* Popping the last element of a list.
LEMMA PopElems ==
    ASSUME NEW S, NEW s \in Seq(S), s # <<>>
    PROVE  /\ s[Len(s)] \in S
           /\ s[Len(s)] \in Elems(s)
           /\ SubSeq(s, 1, Len(s) - 1) \in Seq(S)
           /\ Elems(s) = Elems(SubSeq(s, 1, Len(s) - 1)) \cup {s[Len(s)]}
           /\ Distinct(s) => /\ Distinct(SubSeq(s, 1, Len(s) - 1))
                            /\ s[Len(s)] \notin Elems(SubSeq(s, 1, Len(s) - 1))
<1> SUFFICES ASSUME NEW r, r = SubSeq(s, 1, Len(s) - 1),
                    NEW m, m = s[Len(s)]
             PROVE  /\ m \in S
                    /\ m \in Elems(s)
                    /\ r \in Seq(S)
                    /\ Elems(s) = Elems(r) \cup {m}
                    /\ Distinct(s) => Distinct(r) /\ m \notin Elems(r)
  OBVIOUS
<1>1. Len(s) \in Nat /\ Len(s) > 0 /\ m \in S
  OBVIOUS
<1>2. /\ r \in Seq(S)
      /\ Len(r) = Len(s) - 1
      /\ \A i \in 1..Len(r) : r[i] = s[i]
  <2>1. \A i \in 1..(Len(s) - 1) : s[i] \in S
    BY <1>1
  <2>2. Len(s) - 1 \in Int /\ 1 \in Int
    BY <1>1
  <2>3. /\ r \in Seq(S)
        /\ Len(r) = IF 1 <= Len(s) - 1 THEN Len(s) - 1 - 1 + 1 ELSE 0
        /\ \A i \in 1 .. Len(s) - 1 - 1 + 1 : r[i] = s[1 + i - 1]
    BY <2>1, <2>2, SubSeqProperties
  <2>4. Len(r) = Len(s) - 1
    <3>1. \A n \in Nat : n > 0 => (IF 1 <= n - 1 THEN n - 1 - 1 + 1 ELSE 0) = n - 1
      OBVIOUS
    <3> QED
      BY <1>1, <2>3, <3>1
  <2>5. ASSUME NEW i \in 1..Len(r)
        PROVE  r[i] = s[i]
    <3>1. i \in 1 .. Len(s) - 1 - 1 + 1 /\ 1 + i - 1 = i
      BY <1>1, <2>4
    <3> QED
      BY <2>3, <3>1
  <2> QED
    BY <2>3, <2>4, <2>5
<1>3. Elems(s) = Elems(r) \cup {m}
  BY <1>1, <1>2 DEF Elems
<1>4. ASSUME Distinct(s)
      PROVE  Distinct(r) /\ m \notin Elems(r)
  BY <1>1, <1>2, <1>4 DEF Distinct, Elems
<1>5. m \in Elems(s)
  BY <1>1 DEF Elems
<1> QED
  BY <1>1, <1>2, <1>3, <1>4, <1>5

-----------------------------------------------------------------------------
(* Types.                                                                  *)

\* Every variable of the loop keeps its type; a thread holds a message exactly
\* while it is inside add().
THEOREM Typing == Spec => []TypeOK
<1> USE DispatcherAssumption
<1>1. Init => TypeOK
  <2> SUFFICES ASSUME Init
               PROVE  TypeOK
    OBVIOUS
  <2>1. messages \in Seq(Msg)
    BY DEF Init
  <2>2. /\ apc \in [Thread -> {"idle", "append", "set"}]
        /\ arg \in [Thread -> Msg \cup {NoMsg}]
        /\ \A t \in Thread : arg[t] = NoMsg <=> apc[t] = "idle"
    BY DEF Init
  <2> QED
    BY <2>1, <2>2 DEF Init, TypeOK, Loop
<1>2. TypeOK /\ [Next]_vars => TypeOK'
  <2> SUFFICES ASSUME TypeOK, [Next]_vars
               PROVE  TypeOK'
    OBVIOUS
  <2> USE DEF TypeOK, Loop, After, Goto, list, events, adders
  <2>1. CASE Boot
    BY <2>1 DEF Boot
  <2>2. CASE BootFails
    BY <2>2 DEF BootFails
  <2>3. CASE Test
    BY <2>3 DEF Test
  <2>4. CASE Check
    BY <2>4 DEF Check
  <2>5. CASE Clear
    BY <2>5 DEF Clear
  <2>6. CASE Wait
    BY <2>6 DEF Wait
  <2>7. CASE Drained
    BY <2>7 DEF Drained
  <2>8. CASE Pop
    <3>1. /\ messages[Len(messages)] \in Msg
          /\ PopLast(messages) \in Seq(Msg)
      BY <2>8, PopElems DEF Pop, PopLast
    <3> QED
      BY <2>8, <3>1 DEF Pop
  <2>9. CASE HooksDone
    BY <2>9 DEF HooksDone
  <2>10. CASE LogDone
    BY <2>10 DEF LogDone
  <2>11. CASE Shutdown
    BY <2>11 DEF Shutdown
  <2>12. CASE Quit
    BY <2>12 DEF Quit
  <2>13. CASE Join
    BY <2>13 DEF Join
  <2>14. CASE ExecOver
    BY <2>14 DEF ExecOver
  <2>15. ASSUME NEW t \in Thread, NEW m \in Msg, AddTest(t, m)
         PROVE  TypeOK'
    BY <2>15 DEF AddTest, CanAdd
  <2>16. ASSUME NEW t \in Thread, AddAppend(t)
         PROVE  TypeOK'
    <3>1. arg[t] \in Msg
      BY <2>16 DEF AddAppend
    <3>2. Append(messages, arg[t]) \in Seq(Msg)
      BY <3>1
    <3> QED
      BY <2>16, <3>2 DEF AddAppend
  <2>17. ASSUME NEW t \in Thread, AddSet(t)
         PROVE  TypeOK'
    BY <2>17 DEF AddSet
  <2>18. CASE StopSet
    BY <2>18 DEF StopSet
  <2>19. CASE StopWake
    BY <2>19 DEF StopWake
  <2>20. CASE StopReturn
    BY <2>20 DEF StopReturn
  <2>21. CASE UNCHANGED vars
    BY <2>21 DEF vars
  <2> QED
    BY <2>1, <2>2, <2>3, <2>4, <2>5, <2>6, <2>7, <2>8, <2>9, <2>10, <2>11,
       <2>12, <2>13, <2>14, <2>15, <2>16, <2>17, <2>18, <2>19, <2>20, <2>21
       DEF Next, Run, Add
<1> QED
  BY <1>1, <1>2, PTL DEF Spec

-----------------------------------------------------------------------------
(* Conservation of messages.  It is inductive together with the types: only *)
(* add() and pop() move a message.                                          *)

\* A step that leaves the list, add() and the histories alone keeps every
\* message where it is.
LEMMA ConservationFrame ==
    ASSUME Conservation,
           UNCHANGED <<messages, apc, arg, fresh, refused, taken>>
    PROVE  Conservation'
BY DEF Conservation, Unappended, Pending, Elems, Distinct

\* The step that pops a message: it leaves the pending set, and no copy of it
\* stays behind.
LEMMA PopMessage ==
    ASSUME TypeOK, Conservation, Pop,
           NEW m, m = messages[Len(messages)]
    PROVE  /\ m \in Msg
           /\ m \in Pending
           /\ m \notin Pending'
           /\ Pending = Pending' \cup {m}
           /\ Distinct(messages)'
           /\ taken' = taken \cup {m}
<1>1. /\ messages \in Seq(Msg)
      /\ messages # <<>>
      /\ messages' = SubSeq(messages, 1, Len(messages) - 1)
      /\ taken' = taken \cup {m}
  BY DEF TypeOK, Pop, PopLast
<1>2. Distinct(messages)
  BY DEF Conservation
<1>3. /\ m \in Msg
      /\ m \in Elems(messages)
      /\ Elems(messages) = Elems(messages') \cup {m}
      /\ Distinct(messages) => Distinct(messages') /\ m \notin Elems(messages')
  BY <1>1, PopElems
<1>4. Pending = Elems(messages) /\ Pending' = Elems(messages')
  BY DEF Pending
<1>5. Distinct(messages)'
  BY <1>2, <1>3 DEF Distinct
<1> QED
  BY <1>1, <1>2, <1>3, <1>4, <1>5

\* Every message is in one place and the list holds no message twice.
THEOREM MessagesConserved == Spec => []Conservation
<1> USE DispatcherAssumption
<1>1. Init => Conservation
  BY DEF Init, Conservation, Unappended, Pending, Elems, Distinct
<1>2. TypeOK /\ Conservation /\ [Next]_vars => Conservation'
  <2> SUFFICES ASSUME TypeOK, Conservation, [Next]_vars
               PROVE  Conservation'
    OBVIOUS
  <2>1. CASE /\ ~Pop
             /\ \A t \in Thread : ~AddAppend(t) /\ ~AddSet(t)
             /\ \A t \in Thread, m \in Msg : ~AddTest(t, m)
    <3>1. UNCHANGED <<messages, apc, arg, fresh, refused, taken>>
      BY <2>1 DEF Next, Run, Add, vars, list, events, adders, Goto, Boot, BootFails, Test, Check, Clear, Wait,
                  Drained, HooksDone, LogDone, Shutdown, Quit, Join, ExecOver,
                  StopSet, StopWake, StopReturn
    <3> QED
      BY <3>1, ConservationFrame
  <2>2. CASE Pop
    <3> DEFINE m == messages[Len(messages)]
    <3>1. /\ m \in Pending
          /\ Pending = Pending' \cup {m}
          /\ Distinct(messages)' /\ m \notin Pending'
      BY <2>2, PopMessage
    <3>2. taken' = taken \cup {m}
      BY <2>2 DEF Pop
    <3>3. UNCHANGED <<apc, arg, fresh, refused, Unappended>>
      BY <2>2 DEF Pop, Unappended, adders
    <3> QED
      BY <3>1, <3>2, <3>3 DEF Conservation
  <2>3. ASSUME NEW t \in Thread, AddAppend(t)
        PROVE  Conservation'
    <3> DEFINE m == arg[t]
    <3>1. m \in Msg /\ m \in Unappended
      BY <2>3 DEF AddAppend, TypeOK, Unappended
    <3>2. m \notin Pending
      BY <3>1 DEF Conservation
    <3>3. Pending' = Pending \cup {m} /\ Distinct(messages)'
      BY <2>3, <3>1, <3>2, AppendedElems DEF AddAppend, TypeOK, Conservation, Pending
    <3>4. \A u \in Thread : apc'[u] = "append" <=> (apc[u] = "append" /\ u # t)
      BY <2>3 DEF AddAppend, TypeOK
    <3>5. Unappended' = Unappended \ {m}
      BY <2>3, <3>4 DEF AddAppend, Unappended, Conservation
    <3>6. UNCHANGED <<arg, fresh, refused, taken>>
      BY <2>3 DEF AddAppend
    <3> QED
      BY <3>1, <3>2, <3>3, <3>4, <3>5, <3>6 DEF Conservation
  <2>4. ASSUME NEW t \in Thread, AddSet(t)
        PROVE  Conservation'
    <3>1. \A u \in Thread : /\ apc'[u] = "append" <=> apc[u] = "append"
                            /\ apc[u] = "append" => arg'[u] = arg[u]
      BY <2>4 DEF AddSet, TypeOK
    <3>2. Unappended' = Unappended
      BY <3>1 DEF Unappended
    <3>3. UNCHANGED <<messages, fresh, refused, taken, Pending>>
      BY <2>4 DEF AddSet, Pending, list
    <3> QED
      BY <3>1, <3>2, <3>3 DEF Conservation
  <2>5. ASSUME NEW t \in Thread, NEW m \in Msg, AddTest(t, m)
        PROVE  Conservation'
    <3>1. m \in fresh /\ fresh' = fresh \ {m} /\ UNCHANGED <<messages, taken, Pending>>
      BY <2>5 DEF AddTest, Pending, list
    <3>2. m \notin refused \cup Unappended \cup Pending \cup taken
      BY <3>1 DEF Conservation
    <3>3. CASE running
      <4>1. refused' = refused \cup {m} /\ UNCHANGED <<apc, arg, Unappended>>
        BY <2>5, <3>3 DEF AddTest, Unappended
      <4> QED
        BY <3>1, <3>2, <4>1 DEF Conservation
    <3>4. CASE ~running
      <4>1. \A u \in Thread :
               /\ apc'[u] = "append" <=> (apc[u] = "append" \/ u = t)
               /\ arg'[u] = IF u = t THEN m ELSE arg[u]
        BY <2>5, <3>4 DEF AddTest, TypeOK
      <4>2. Unappended' = Unappended \cup {m}
        BY <2>5, <4>1 DEF Unappended, AddTest, CanAdd
      <4>3. refused' = refused
        BY <2>5, <3>4 DEF AddTest
      <4>4. \A u \in Thread : apc[u] = "append" => arg[u] # m
        BY <3>2 DEF Unappended
      <4>5. apc[t] = "idle"
        BY <2>5 DEF AddTest, CanAdd
      <4> QED
        BY <3>1, <3>2, <4>1, <4>2, <4>3, <4>4, <4>5 DEF Conservation
    <3> QED
      BY <3>3, <3>4
  <2> QED
    BY <2>1, <2>2, <2>3, <2>4, <2>5
<1> QED
  BY <1>1, <1>2, Typing, PTL DEF Spec

-----------------------------------------------------------------------------
(* Refinement.                                                             *)

\* The message loop implements MessageBus: a pop is a Take, the append of
\* add() an Accept, the end of the loop (or of the thread) its Close.
THEOREM LoopImplementsBus == Spec => BusSpec
<1> USE DispatcherAssumption
<1>1. Init => Bus!Init
  BY DEF Init, Bus!Init, Pending, Elems, Loop
<1>2. TypeOK /\ Conservation /\ [Next]_vars => [Bus!Next]_(Bus!busVars)
  <2> SUFFICES ASSUME TypeOK, Conservation, [Next]_vars
               PROVE  Bus!Next \/ UNCHANGED <<Pending, taken, pc \in Loop>>
    BY DEF Bus!busVars
  <2>1. CASE /\ UNCHANGED <<messages, taken>>
             /\ pc \in Loop <=> pc' \in Loop
    BY <2>1 DEF Pending, Elems
  <2>2. CASE BootFails \/ (Test /\ running) \/ (LogDone /\ pc' = "dead")
    <3>1. pc \in Loop /\ pc' \notin Loop /\ UNCHANGED <<messages, taken>>
      BY <2>2 DEF BootFails, Test, LogDone, Loop, Goto, list
    <3>2. Bus!Close
      BY <3>1 DEF Bus!Close, Pending, Elems
    <3> QED
      BY <3>2 DEF Bus!Next
  <2>3. CASE Pop
    <3> DEFINE m == messages[Len(messages)]
    <3>1. /\ m \in Msg /\ m \in Pending
          /\ Pending = Pending' \cup {m}
          /\ m \notin Pending'
      BY <2>3, PopMessage
    <3>2. pc \in Loop /\ pc' \in Loop /\ taken' = taken \cup {m}
      BY <2>3 DEF Pop, Loop
    <3>3. Bus!Take(m)
      BY <3>1, <3>2 DEF Bus!Take
    <3> QED
      BY <3>1, <3>3 DEF Bus!Next
  <2>4. ASSUME NEW t \in Thread, AddAppend(t)
        PROVE  Bus!Next
    <3> DEFINE m == arg[t]
    <3>1. m \in Msg /\ m \in Unappended
      BY <2>4 DEF AddAppend, TypeOK, Unappended
    <3>2. m \notin Pending /\ m \notin taken
      BY <3>1 DEF Conservation
    <3>3. Pending' = Pending \cup {m}
      BY <2>4, <3>1, AppendedElems DEF AddAppend, TypeOK, Pending
    <3>4. Bus!Accept(m)
      BY <2>4, <3>2, <3>3 DEF Bus!Accept, AddAppend
    <3> QED
      BY <3>1, <3>4 DEF Bus!Next
  <2>5. CASE /\ ~Pop /\ ~BootFails /\ ~(Test /\ running) /\ ~(LogDone /\ pc' = "dead")
             /\ \A t \in Thread : ~AddAppend(t)
    <3>1. UNCHANGED <<messages, taken>>
      BY <2>5 DEF Next, Run, Add, vars, list, events, adders, Goto, Boot, Test, Check, Clear, Wait, Drained,
                  HooksDone, LogDone, Shutdown, Quit, Join, ExecOver, AddSet,
                  AddTest, StopSet, StopWake, StopReturn
    <3>2. pc \in Loop <=> pc' \in Loop
      BY <2>5 DEF Next, Run, Add, vars, list, events, adders, Goto, Boot, Test, Check, Clear, Wait, Drained,
                  HooksDone, LogDone, Shutdown, Quit, Join, ExecOver, AddSet,
                  AddTest, StopSet, StopWake, StopReturn, Loop
    <3> QED
      BY <2>1, <3>1, <3>2
  <2> QED
    BY <2>2, <2>3, <2>4, <2>5
<1> QED
  BY <1>1, <1>2, Typing, MessagesConserved, PTL DEF Spec, BusSpec, Bus!Spec

-----------------------------------------------------------------------------
(* Executer: the scheduled tasks and the watched processes.                *)

\* The scheduler a thread is about to use has been created.
Places ==
    /\ \A c \in Caller : opc[c] = "enter" => sched # 0
    /\ epc \in {"run", "task"} => inst # 0

\* A task that is being added is nowhere else.
Held ==
    \A c \in Caller : oarg[c] # NoTask =>
        /\ \A s \in Instance : oarg[c] \notin Range(queue[s])
        /\ oarg[c] \notin started \cup cancelled
        /\ \A d \in Caller \ {c} : oarg[d] # oarg[c]

\* A process that was not given to watch_process() yet is not watched.
NotYetWatched ==
    \A p \in Proc : state[p] = "new" => p \notin Range(watch) /\ called[p] = 0

ScheduleInv == Places /\ Held /\ TaskOnce /\ CancelIsFinal

WatchInv == NotYetWatched /\ CallbackOnce

\* When the queue of one scheduler becomes another list of tasks, the rest being as it was.
LEMMA QueueChange ==
    ASSUME ExecuterTypeOK, TaskOnce, NEW s \in Instance, NEW q \in Seq(Task), IsInjective(q),
           queue' = [queue EXCEPT ![s] = q],
           \A r \in Instance \ {s} : Range(q) \cap Range(queue[r]) = {},
           \A r \in Instance \ {s} : Range(queue[r]) \cap (started' \cup cancelled') = {},
           Range(q) \cap (started' \cup cancelled') = {}
    PROVE  /\ queue' \in [Instance -> Seq(Task)]
           /\ queue'[s] = q /\ \A r \in Instance \ {s} : queue'[r] = queue[r]
           /\ TaskOnce'
<1>1. /\ queue' \in [Instance -> Seq(Task)]
      /\ queue'[s] = q /\ \A r \in Instance \ {s} : queue'[r] = queue[r]
  BY DEF ExecuterTypeOK
<1>2. \A r \in Instance : /\ IsInjective(queue'[r])
                          /\ Range(queue'[r]) \cap (started' \cup cancelled') = {}
  BY <1>1 DEF TaskOnce
<1>3. Range(queue'[1]) \cap Range(queue'[2]) = {}
  <2>1. CASE s = 1
    BY <1>1, <2>1 DEF Instance
  <2>2. CASE s = 2
    BY <1>1, <2>2 DEF Instance
  <2> QED
    BY <2>1, <2>2 DEF Instance
<1> QED
  BY <1>1, <1>2, <1>3 DEF TaskOnce

\* heapq.heappush(): the task enters the queue of the scheduler that was current when add()
\* looked; it was nowhere else.
LEMMA EnterKeeps ==
    ASSUME ExecuterTypeOK, ScheduleInv, NEW c \in Caller, EnterTask(c)
    PROVE  ExecuterTypeOK' /\ ScheduleInv'
<1> USE DEF ScheduleInv
<1>1. /\ opc[c] = "enter" /\ oarg[c] \in Task /\ sched \in Instance
      /\ oarg[c] # NoTask
  BY ExecuterAssumption DEF EnterTask, ExecuterTypeOK, Places, Instance
<1>2. PICK i \in 1..(Len(queue[sched]) + 1) :
          queue' = [queue EXCEPT ![sched] = InsertAt(@, i, oarg[c])]
  BY DEF EnterTask
<1> DEFINE q == InsertAt(queue[sched], i, oarg[c])
<1>3. queue[sched] \in Seq(Task) /\ IsInjective(queue[sched])
  BY <1>1 DEF ExecuterTypeOK, TaskOnce
<1>4. \A s \in Instance : oarg[c] \notin Range(queue[s])
  BY <1>1 DEF Held
<1>5. /\ q \in Seq(Task) /\ IsInjective(q)
      /\ Range(q) = Range(queue[sched]) \cup {oarg[c]}
  BY <1>1, <1>3, <1>4, InsertAtElems
<1>6. queue' = [queue EXCEPT ![sched] = q]
  BY <1>2
<1> HIDE DEF q
<1>7. /\ UNCHANGED <<sched, due, started, cancelled, watchVars, loopVars, stopVars>>
      /\ opc' = [opc EXCEPT ![c] = "idle"]
      /\ oarg' = [oarg EXCEPT ![c] = NoTask]
  BY DEF EnterTask
<1>8. \A r \in Instance \ {sched} : Range(queue[sched]) \cap Range(queue[r]) = {}
  BY <1>1 DEF TaskOnce, Instance
<1>9. /\ queue' \in [Instance -> Seq(Task)]
      /\ queue'[sched] = q /\ \A r \in Instance \ {sched} : queue'[r] = queue[r]
      /\ TaskOnce'
  <2>1. /\ \A r \in Instance \ {sched} : Range(q) \cap Range(queue[r]) = {}
        /\ Range(q) \cap (started \cup cancelled) = {}
        /\ \A r \in Instance : Range(queue[r]) \cap (started \cup cancelled) = {}
    BY <1>1, <1>4, <1>5, <1>8 DEF TaskOnce, Held
  <2> QED
    BY <1>1, <1>5, <1>6, <1>7, <2>1, QueueChange
<1>10. ExecuterTypeOK'
  BY <1>1, <1>7, <1>9 DEF ExecuterTypeOK, watchVars, loopVars, stopVars
<1>11. Places' /\ CancelIsFinal'
  BY <1>7 DEF Places, CancelIsFinal, loopVars, ExecuterTypeOK
<1>12. Held'
  <2> SUFFICES ASSUME NEW d \in Caller, oarg'[d] # NoTask
               PROVE  /\ \A s \in Instance : oarg'[d] \notin Range(queue'[s])
                      /\ oarg'[d] \notin started' \cup cancelled'
                      /\ \A e \in Caller \ {d} : oarg'[e] # oarg'[d]
    BY DEF Held
  <2>1. d # c /\ oarg'[d] = oarg[d] /\ oarg[d] # NoTask /\ oarg[d] # oarg[c]
    BY <1>1, <1>7 DEF ExecuterTypeOK, Held
  <2>2. \A s \in Instance : oarg[d] \notin Range(queue'[s])
    BY <1>1, <1>5, <1>9, <2>1 DEF Held
  <2>3. \A e \in Caller \ {d} : oarg'[e] # oarg'[d]
    BY <1>7, <2>1 DEF ExecuterTypeOK, Held
  <2> QED
    BY <1>7, <2>1, <2>2, <2>3 DEF Held
<1> QED
  BY <1>9, <1>10, <1>11, <1>12

\* list.remove() of a task that is cancelled, or its ValueError when it has left the queue.
LEMMA CancelKeeps ==
    ASSUME ExecuterTypeOK, ScheduleInv, NEW c \in Caller, NEW t \in Task, CancelTask(c, t)
    PROVE  ExecuterTypeOK' /\ ScheduleInv'
<1> USE DEF ScheduleInv
<1> DEFINE q == RemoveFirst(queue[sched], t)
<1>1. /\ sched \in Instance /\ t \in Range(queue[sched])
      /\ queue' = [queue EXCEPT ![sched] = q]
      /\ cancelled' = cancelled \cup {t}
      /\ UNCHANGED <<sched, due, opc, oarg, started, watchVars, loopVars, stopVars>>
  BY DEF CancelTask, Cancellable, ExecuterTypeOK, Instance
<1>2. queue[sched] \in Seq(Task) /\ IsInjective(queue[sched])
  BY <1>1 DEF ExecuterTypeOK, TaskOnce
<1>3. q \in Seq(Task) /\ IsInjective(q) /\ Range(q) = Range(queue[sched]) \ {t}
  BY <1>2, RemoveFirstElems
<1> HIDE DEF q
<1>4. \A r \in Instance \ {sched} : Range(queue[sched]) \cap Range(queue[r]) = {}
  BY <1>1 DEF TaskOnce, Instance
<1>5. /\ queue' \in [Instance -> Seq(Task)]
      /\ queue'[sched] = q /\ \A r \in Instance \ {sched} : queue'[r] = queue[r]
      /\ TaskOnce'
  <2>1. /\ \A r \in Instance \ {sched} : Range(q) \cap Range(queue[r]) = {}
        /\ Range(q) \cap (started' \cup cancelled') = {}
        /\ \A r \in Instance \ {sched} : Range(queue[r]) \cap (started' \cup cancelled') = {}
    BY <1>1, <1>3, <1>4 DEF TaskOnce
  <2> QED
    BY <1>1, <1>3, <2>1, QueueChange
<1>6. ExecuterTypeOK'
  BY <1>1, <1>5 DEF ExecuterTypeOK, watchVars, loopVars, stopVars
<1>7. Places'
  BY <1>1 DEF Places, loopVars
<1>8. CancelIsFinal'
  BY <1>1 DEF TaskOnce, CancelIsFinal
<1>9. Held'
  <2>1. \A d \in Caller : oarg[d] # NoTask => oarg[d] # t
    BY <1>1 DEF Held
  <2>2. \A s \in Instance : Range(queue'[s]) \subseteq Range(queue[s])
    BY <1>1, <1>3, <1>5
  <2> QED
    BY <1>1, <2>1, <2>2 DEF Held
<1> QED
  BY <1>5, <1>6, <1>7, <1>8, <1>9

\* The executer takes the first task that is due out of the queue, and has begun to run it.
LEMMA PopKeeps ==
    ASSUME ExecuterTypeOK, ScheduleInv, PopTask
    PROVE  ExecuterTypeOK' /\ ScheduleInv'
<1> USE DEF ScheduleInv
<1> DEFINE q == Tail(queue[inst])
           t == Head(queue[inst])
<1>1. /\ inst \in Instance /\ queue[inst] # <<>>
      /\ queue' = [queue EXCEPT ![inst] = q]
      /\ started' = started \cup {t} /\ epc' = "task"
      /\ UNCHANGED <<sched, due, opc, oarg, cancelled, watchVars, inst, stopVars>>
  BY DEF PopTask, PopFirst, HeadDue, ExecuterTypeOK, Places, Instance
<1>2. queue[inst] \in Seq(Task) /\ IsInjective(queue[inst])
  BY <1>1 DEF ExecuterTypeOK, TaskOnce
<1>3. /\ q \in Seq(Task) /\ IsInjective(q) /\ Range(q) = Range(queue[inst]) \ {t}
      /\ t \in Range(queue[inst])
  BY <1>1, <1>2, TailElems
<1>4. t \in Task
  BY <1>1, <1>2
<1> HIDE DEF q, t
<1>5. \A r \in Instance \ {inst} : Range(queue[inst]) \cap Range(queue[r]) = {}
  BY <1>1 DEF TaskOnce, Instance
<1>6. /\ queue' \in [Instance -> Seq(Task)]
      /\ queue'[inst] = q /\ \A r \in Instance \ {inst} : queue'[r] = queue[r]
      /\ TaskOnce'
  <2>1. /\ \A r \in Instance \ {inst} : Range(q) \cap Range(queue[r]) = {}
        /\ Range(q) \cap (started' \cup cancelled') = {}
        /\ \A r \in Instance \ {inst} : Range(queue[r]) \cap (started' \cup cancelled') = {}
    BY <1>1, <1>3, <1>5 DEF TaskOnce
  <2> QED
    BY <1>1, <1>3, <2>1, QueueChange
<1>7. ExecuterTypeOK'
  BY <1>1, <1>4, <1>6 DEF ExecuterTypeOK, watchVars, stopVars
<1>8. Places'
  BY <1>1 DEF Places, Instance
<1>9. CancelIsFinal'
  BY <1>1, <1>3 DEF TaskOnce, CancelIsFinal
<1>10. Held'
  <2>1. \A d \in Caller : oarg[d] # NoTask => oarg[d] # t
    BY <1>1, <1>3 DEF Held
  <2>2. \A s \in Instance : Range(queue'[s]) \subseteq Range(queue[s])
    BY <1>1, <1>3, <1>6
  <2> QED
    BY <1>1, <2>1, <2>2 DEF Held
<1> QED
  BY <1>6, <1>7, <1>8, <1>9, <1>10

\* The sweep over the watched processes reads the list as it is now, item by item.
LEMMA SweepKeeps ==
    ASSUME ExecuterTypeOK, ScheduleInv, Sweep
    PROVE  ExecuterTypeOK' /\ ScheduleInv'
<1> USE DEF ScheduleInv
<1>1. /\ watch' = <<>> /\ epc' = "over"
      /\ UNCHANGED <<sched, due, opc, oarg, started, cancelled, state, called,
                     idx, inst, stopVars>>
  BY DEF Sweep
<1>2. /\ queue' \in [Instance -> Seq(Task)]
      /\ \A s \in Instance : Range(queue'[s]) \subseteq Range(queue[s])
      /\ TaskOnce'
  <2>1. CASE queue' = queue
    BY <1>1, <2>1 DEF ExecuterTypeOK, TaskOnce
  <2>2. CASE sched \in Instance /\ queue' = [queue EXCEPT ![sched] = <<>>]
    <3>1. <<>> \in Seq(Task) /\ IsInjective(<<>>) /\ Range(<<>>) = {}
      BY DEF IsInjective, Range
    <3>2. \A r \in Instance : Range(queue[r]) \cap (started' \cup cancelled') = {}
      BY <1>1 DEF TaskOnce
    <3>3. /\ queue' \in [Instance -> Seq(Task)]
          /\ queue'[sched] = <<>> /\ \A r \in Instance \ {sched} : queue'[r] = queue[r]
          /\ TaskOnce'
      BY <2>2, <3>1, <3>2, QueueChange
    <3> QED
      BY <3>1, <3>3
  <2> QED
    BY <2>1, <2>2 DEF Sweep, ExecuterTypeOK, Instance
<1>3. watch' \in Seq(Proc)
  BY <1>1
<1>4. ExecuterTypeOK'
  BY <1>1, <1>2, <1>3 DEF ExecuterTypeOK, stopVars
<1>5. Places' /\ CancelIsFinal' /\ Held'
  BY <1>1, <1>2 DEF Places, CancelIsFinal, Held
<1> QED
  BY <1>2, <1>4, <1>5

\* Adding a task: its first two steps.
LEMMA AddKeeps ==
    ASSUME ExecuterTypeOK, ScheduleInv, NEW c \in Caller,
           CreateSched(c) \/ \E t \in Task : AddTask(c, t)
    PROVE  ExecuterTypeOK' /\ ScheduleInv'
<1> USE DEF ScheduleInv
<1>1. CASE CreateSched(c)
  <2>1. /\ opc[c] = "create" /\ opc' = [opc EXCEPT ![c] = "enter"]
        /\ sched' \in {1, 2}
        /\ UNCHANGED <<queue, due, oarg, started, cancelled, watchVars, loopVars, stopVars>>
    BY <1>1 DEF CreateSched
  <2>2. ExecuterTypeOK'
    BY <2>1 DEF ExecuterTypeOK, watchVars, loopVars, stopVars
  <2>3. Places' /\ Held' /\ TaskOnce' /\ CancelIsFinal'
    BY <2>1 DEF Places, Held, TaskOnce, CancelIsFinal, loopVars
  <2> QED
    BY <2>2, <2>3
<1>2. ASSUME NEW t \in Task, AddTask(c, t)
      PROVE  ExecuterTypeOK' /\ ScheduleInv'
  <2>1. /\ opc' = [opc EXCEPT ![c] = CreateOrEnter]
        /\ oarg' = [oarg EXCEPT ![c] = t]
        /\ Unused(t)
        /\ UNCHANGED <<sched, queue, due, started, cancelled, watchVars, loopVars, stopVars>>
    BY <1>2 DEF AddTask
  <2>2. CreateOrEnter \in {"create", "enter"} /\ (CreateOrEnter = "enter" => sched # 0)
    BY DEF CreateOrEnter
  <2>3. ExecuterTypeOK'
    BY <2>1, <2>2, ExecuterAssumption DEF ExecuterTypeOK, watchVars, loopVars, stopVars
  <2>4. Places' /\ TaskOnce' /\ CancelIsFinal'
    BY <2>1, <2>2 DEF Places, TaskOnce, CancelIsFinal, loopVars, ExecuterTypeOK
  <2>5. Held'
    BY <2>1 DEF Held, ExecuterTypeOK, Unused, Queued
  <2> QED
    BY <2>3, <2>4, <2>5
<1> QED
  BY <1>1, <1>2

\* Whatever leaves the tasks alone, and does not begin to run them.
LEMMA ScheduleFrame ==
    ASSUME ExecuterTypeOK, ScheduleInv, UNCHANGED <<sched, queue, opc, oarg, started, cancelled>>,
           epc' \in {"run", "task"} => inst' # 0
    PROVE  ScheduleInv'
BY DEF ScheduleInv, Places, Held, TaskOnce, CancelIsFinal

\* Whatever leaves the watched processes alone.
LEMMA WatchFrame ==
    ASSUME WatchInv, UNCHANGED watchVars
    PROVE  WatchInv'
BY DEF WatchInv, NotYetWatched, CallbackOnce, watchVars

\* A process is given to watch_process() once, and only then is it in the list.
LEMMA WatchProcessKeeps ==
    ASSUME ExecuterTypeOK, ScheduleInv, WatchInv, NEW c \in Caller, NEW p \in Proc, WatchProcess(c, p)
    PROVE  ExecuterTypeOK' /\ ScheduleInv' /\ WatchInv'
<1>1. /\ state[p] = "new" /\ state' = [state EXCEPT ![p] = "running"]
      /\ watch' = Append(watch, p)
      /\ UNCHANGED <<schedVars, called, idx, loopVars, stopVars>>
  BY DEF WatchProcess
<1>2. p \notin Range(watch) /\ called[p] = 0 /\ IsInjective(watch)
  BY <1>1 DEF WatchInv, NotYetWatched, CallbackOnce
<1>3. /\ watch' \in Seq(Proc) /\ IsInjective(watch')
      /\ Range(watch') = Range(watch) \cup {p}
  BY <1>1, <1>2, AppendElems DEF ExecuterTypeOK
<1>4. ExecuterTypeOK'
  BY <1>1, <1>3 DEF ExecuterTypeOK, schedVars, loopVars, stopVars
<1>5. ScheduleInv'
  BY <1>1, ScheduleFrame DEF schedVars, loopVars, ScheduleInv, Places
<1>6. \A q \in Proc \ {p} : state'[q] = state[q]
  BY <1>1 DEF ExecuterTypeOK
<1>7. state'[p] = "running" /\ called'[p] = 0
  BY <1>1, <1>2 DEF ExecuterTypeOK
<1>8. NotYetWatched'
  BY <1>1, <1>3, <1>6, <1>7 DEF WatchInv, NotYetWatched
<1>9. CallbackOnce'
  BY <1>1, <1>3, <1>6, <1>7 DEF WatchInv, CallbackOnce
<1> QED
  BY <1>4, <1>5, <1>8, <1>9 DEF WatchInv

\* The entry that is removed under the iterator is that of the process that has exited.
LEMMA ReapKeeps ==
    ASSUME ExecuterTypeOK, ScheduleInv, WatchInv, Reap
    PROVE  ExecuterTypeOK' /\ ScheduleInv' /\ WatchInv'
<1> DEFINE p == watch[idx + 1]
<1>1. /\ idx < Len(watch) /\ state[p] = "exited"
      /\ watch' = RemoveFirst(watch, p) /\ idx' = idx + 1
      /\ \/ p \in Silent /\ UNCHANGED <<called, epc>>
         \/ called' = [called EXCEPT ![p] = @ + 1] /\ epc' = "callback"
      /\ UNCHANGED <<schedVars, state, inst, stopVars>>
  BY DEF Reap, Unlisted
<1>2. watch \in Seq(Proc) /\ IsInjective(watch)
  BY DEF ExecuterTypeOK, WatchInv, CallbackOnce
<1>3. p \in Proc /\ p \in Range(watch)
  <2>1. PICK n \in Nat : n = Len(watch)
    BY <1>2, LenProperties
  <2>2. idx + 1 \in 1..n
    BY <1>1, <2>1 DEF ExecuterTypeOK
  <2> QED
    BY <1>2, <2>1, <2>2, ListElems
<1>4. /\ watch' \in Seq(Proc) /\ IsInjective(watch')
      /\ Range(watch') = Range(watch) \ {p}
  BY <1>1, <1>2, RemoveFirstElems
<1> HIDE DEF p
<1>5. called[p] = 0
  BY <1>3 DEF WatchInv, CallbackOnce, ExecuterTypeOK
<1>6. /\ called' \in [Proc -> Nat] /\ called'[p] \in {0, 1}
      /\ \A q \in Proc \ {p} : called'[q] = called[q]
  <2>1. called \in [Proc -> Nat]
    BY DEF ExecuterTypeOK
  <2>2. CASE UNCHANGED called
    BY <1>3, <1>5, <2>1, <2>2
  <2>3. CASE called' = [called EXCEPT ![p] = @ + 1]
    <3>1. called' = [called EXCEPT ![p] = 1]
      BY <1>5, <2>3
    <3> QED
      BY <1>3, <2>1, <3>1
  <2> QED
    BY <1>1, <2>2, <2>3
<1>7. ExecuterTypeOK'
  BY <1>1, <1>4, <1>6 DEF ExecuterTypeOK, schedVars, stopVars
<1>8. ScheduleInv'
  BY <1>1, ScheduleFrame DEF schedVars, ScheduleInv, Places
<1>9. NotYetWatched'
  BY <1>1, <1>4, <1>6 DEF WatchInv, NotYetWatched
<1>10. CallbackOnce'
  BY <1>1, <1>4, <1>6 DEF WatchInv, CallbackOnce
<1> QED
  BY <1>7, <1>8, <1>9, <1>10 DEF WatchInv

-----------------------------------------------------------------------------
IInv == ExecuterTypeOK /\ ScheduleInv /\ WatchInv

\* Nothing is scheduled and nothing watched.
LEMMA InvInit == ExecuterInit => IInv
<1> SUFFICES ASSUME ExecuterInit PROVE IInv
  OBVIOUS
<1>1. \A s \in Instance : Range(queue[s]) = {} /\ IsInjective(queue[s])
  BY DEF ExecuterInit, Range, IsInjective
<1>2. Range(watch) = {} /\ IsInjective(watch)
  BY DEF ExecuterInit, Range, IsInjective
<1>3. ExecuterTypeOK
  <2>1. queue \in [Instance -> Seq(Task)] /\ watch \in Seq(Proc)
    BY DEF ExecuterInit
  <2>2. /\ opc \in [Caller -> {"idle", "create", "enter"}]
        /\ oarg \in [Caller -> Task \cup {NoTask}]
        /\ \A c \in Caller : oarg[c] = NoTask <=> opc[c] = "idle"
    BY DEF ExecuterInit
  <2>3. /\ state \in [Proc -> {"new", "running", "exited"}]
        /\ called \in [Proc -> Nat]
    BY DEF ExecuterInit
  <2>4. sched \in 0..2 /\ inst \in 0..2 /\ idx \in Nat
    BY DEF ExecuterInit
  <2> QED
    BY <2>1, <2>2, <2>3, <2>4 DEF ExecuterInit, ExecuterTypeOK
<1>4. ScheduleInv
  BY <1>1 DEF ExecuterInit, ScheduleInv, Places, Held, TaskOnce, CancelIsFinal, Instance
<1>5. WatchInv
  BY <1>2 DEF ExecuterInit, WatchInv, NotYetWatched, CallbackOnce
<1> QED
  BY <1>3, <1>4, <1>5 DEF IInv

\* Every step of the callers, of the executer and of the processes keeps the invariant.
LEMMA InvStep == IInv /\ [ExecuterNext]_executerVars => IInv'
<1> SUFFICES ASSUME IInv, [ExecuterNext]_executerVars PROVE IInv'
  OBVIOUS
<1> USE DEF IInv
<1>1. ASSUME NEW c \in Caller, EnterTask(c) PROVE IInv'
  <2>1. UNCHANGED watchVars
    BY <1>1 DEF EnterTask
  <2> QED
    BY <1>1, <2>1, EnterKeeps, WatchFrame
<1>2. ASSUME NEW c \in Caller, NEW t \in Task, CancelTask(c, t) PROVE IInv'
  <2>1. UNCHANGED watchVars
    BY <1>2 DEF CancelTask
  <2> QED
    BY <1>2, <2>1, CancelKeeps, WatchFrame
<1>3. ASSUME NEW c \in Caller, CreateSched(c) \/ \E t \in Task : AddTask(c, t) PROVE IInv'
  <2>1. UNCHANGED watchVars
    BY <1>3 DEF CreateSched, AddTask
  <2> QED
    BY <1>3, <2>1, AddKeeps, WatchFrame
<1>4. CASE PopTask
  <2>1. UNCHANGED watchVars
    BY <1>4 DEF PopTask
  <2> QED
    BY <1>4, <2>1, PopKeeps, WatchFrame
<1>5. CASE Sweep
  <2>1. UNCHANGED <<state, called>> /\ watch' = <<>>
    BY <1>5 DEF Sweep
  <2>2. Range(watch') = {} /\ IsInjective(watch')
    BY <2>1 DEF Range, IsInjective
  <2>3. WatchInv'
    BY <2>1, <2>2 DEF WatchInv, NotYetWatched, CallbackOnce
  <2> QED
    BY <1>5, <2>3, SweepKeeps
<1>6. ASSUME NEW c \in Caller, NEW p \in Proc, WatchProcess(c, p) PROVE IInv'
  BY <1>6, WatchProcessKeeps
<1>7. CASE Reap
  BY <1>7, ReapKeeps
<1>8. CASE \/ NextTurn \/ HooksReturn \/ TaskReturn \/ CallbackReturn
           \/ WatchEnd \/ PollRaises
  <2>1. /\ UNCHANGED <<schedVars, watchVars, inst, stopVars>>
        /\ epc' \in {"sweep", "hooks", "sched", "run", "dead", "watch", "test"}
        /\ epc' = "run" => epc = "task"
    BY <1>8 DEF NextTurn, HooksReturn, TaskReturn, CallbackReturn, WatchEnd, PollRaises, Continue
  <2>2. ExecuterTypeOK'
    BY <2>1 DEF ExecuterTypeOK, schedVars, watchVars, stopVars
  <2>3. ScheduleInv'
    BY <2>1, ScheduleFrame DEF schedVars, ScheduleInv, Places
  <2> QED
    BY <2>1, <2>2, <2>3, WatchFrame
<1>9. CASE RunSched \/ NoneDue \/ SkipRunning
  <2>1. /\ UNCHANGED <<schedVars, watch, state, called, stopVars>>
        /\ idx' \in Nat /\ inst' \in 0..2
        /\ epc' \in {"run", "watch"}
        /\ epc' = "run" => inst' # 0
    BY <1>9 DEF RunSched, NoneDue, SkipRunning, BeginWatch, ExecuterTypeOK, watchVars, loopVars
  <2>2. ExecuterTypeOK'
    BY <2>1 DEF ExecuterTypeOK, schedVars, stopVars
  <2>3. ScheduleInv'
    BY <2>1, ScheduleFrame DEF schedVars
  <2>4. WatchInv'
    BY <2>1 DEF WatchInv, NotYetWatched, CallbackOnce
  <2> QED
    BY <2>2, <2>3, <2>4
<1>10. CASE TimeComes
  <2>1. /\ due' \in SUBSET Task
        /\ UNCHANGED <<sched, queue, opc, oarg, started, cancelled, watchVars, loopVars, stopVars>>
    <3>1. PICK s \in Instance, i \in 1..Cardinality(Task) :
             /\ i \in 1..Len(queue[s])
             /\ due' = due \cup {queue[s][i]}
             /\ UNCHANGED <<sched, queue, opc, oarg, started, cancelled, watchVars, loopVars, stopVars>>
      BY <1>10 DEF TimeComes
    <3>2. queue[s][i] \in Task
      BY <3>1, ElementOfSeq DEF ExecuterTypeOK
    <3> QED
      BY <3>1, <3>2 DEF ExecuterTypeOK
  <2>2. ExecuterTypeOK'
    BY <2>1 DEF ExecuterTypeOK, watchVars, loopVars, stopVars
  <2>3. ScheduleInv'
    BY <2>1, ScheduleFrame DEF loopVars, ScheduleInv, Places
  <2> QED
    BY <2>1, <2>2, <2>3, WatchFrame
<1>11. ASSUME NEW p \in Proc, Exit(p) PROVE IInv'
  <2>1. /\ state[p] = "running" /\ state' = [state EXCEPT ![p] = "exited"]
        /\ UNCHANGED <<schedVars, watch, called, idx, loopVars, stopVars>>
    BY <1>11 DEF Exit
  <2>2. ExecuterTypeOK'
    BY <2>1 DEF ExecuterTypeOK, schedVars, loopVars, stopVars
  <2>3. ScheduleInv'
    BY <2>1, ScheduleFrame DEF schedVars, loopVars, ScheduleInv, Places
  <2>4. \A q \in Proc : state'[q] = state[q] \/ (q = p /\ state'[q] = "exited")
    BY <2>1 DEF ExecuterTypeOK
  <2>5. WatchInv'
    BY <2>1, <2>4 DEF WatchInv, NotYetWatched, CallbackOnce
  <2> QED
    BY <2>2, <2>3, <2>5
<1>12. CASE Stop \/ Signal
  <2>1. /\ UNCHANGED <<schedVars, watchVars, epc, inst>>
        /\ stopping' \in BOOLEAN /\ signal' \in BOOLEAN
    BY <1>12 DEF Stop, Signal, ExecuterTypeOK
  <2>2. ExecuterTypeOK'
    BY <2>1 DEF ExecuterTypeOK, schedVars, watchVars
  <2>3. ScheduleInv'
    BY <2>1, ScheduleFrame DEF schedVars, ScheduleInv, Places
  <2> QED
    BY <2>1, <2>2, <2>3, WatchFrame
<1>13. CASE UNCHANGED executerVars
  <2>1. UNCHANGED <<schedVars, watchVars, loopVars, stopVars>>
    BY <1>13 DEF executerVars
  <2>2. ExecuterTypeOK'
    BY <2>1 DEF ExecuterTypeOK, schedVars, watchVars, loopVars, stopVars
  <2>3. ScheduleInv'
    BY <2>1, ScheduleFrame DEF schedVars, loopVars, ScheduleInv, Places
  <2> QED
    BY <2>1, <2>2, <2>3, WatchFrame
<1> QED
  BY <1>1, <1>2, <1>3, <1>4, <1>5, <1>6, <1>7, <1>8, <1>9, <1>10, <1>11, <1>12, <1>13
     DEF ExecuterNext, ExecStep, AddStep

\* The invariant holds in every state.
LEMMA Invariant == ExecuterSpec => []IInv
BY InvInit, InvStep, PTL DEF ExecuterSpec

\* ExecuterTypeOK: every variable keeps its type, for any tasks and processes.
THEOREM ExecuterTyping == ExecuterSpec => []ExecuterTypeOK
<1>1. IInv => ExecuterTypeOK
  BY DEF IInv
<1> QED
  BY <1>1, Invariant, PTL

\* CancelIsFinal: a task whose cancel() has succeeded is never run, however the cancel races the
\* scheduler that is about to take the task out of its queue.
THEOREM CancelledNeverRun == ExecuterSpec => []CancelIsFinal
<1>1. IInv => CancelIsFinal
  BY DEF IInv, ScheduleInv
<1> QED
  BY <1>1, Invariant, PTL

\* CalledOnce: no task is run twice and no process is reported twice to its callback, although
\* the list of processes changes under the loop that walks it.
THEOREM NothingCalledTwice == ExecuterSpec => []CalledOnce
<1>1. IInv => CalledOnce
  BY DEF IInv, ScheduleInv, WatchInv, CalledOnce
<1> QED
  BY <1>1, Invariant, PTL
=============================================================================
