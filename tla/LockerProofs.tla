---------------------------- MODULE LockerProofs ----------------------------
(***************************************************************************)
(* Proofs about the two halves of the Lockers, for any values of their     *)
(* constants.                                                              *)
(*                                                                         *)
(* The daemon (LockerServer): the types, that expiries and Lockers fit     *)
(* together, that the clients know which Lockers are held, that a sleep    *)
(* leaves nothing behind, and that the daemon hibernates after a resume    *)
(* only when the wake alarm has fired.                                     *)
(*                                                                         *)
(* The client (LockerClient): the types, that what a lock has changed is   *)
(* undone with it, and that no step of the client ends a lock screen that  *)
(* runs.                                                                   *)
(*                                                                         *)
(* In both halves two threads share the fields without a lock, so that     *)
(* most of these are so only without a race (Raced).  The theorems name    *)
(* the races: they must be recorded, so that a behaviour without them is   *)
(* recognised.  What is shown is that nothing else breaks the property.    *)
(*                                                                         *)
(* Few of them are inductive.  Each section states why its property stays  *)
(* so, what a step does that bears on nothing of it (an "Aside"), which    *)
(* steps are asides, and what each of the others does.                     *)
(***************************************************************************)
EXTENDS LockerServer, LockerClient, ListLemmas, TLAPS

-----------------------------------------------------------------------------
(* The types.                                                              *)

\* Where the dispatcher may be,
DispPlace == {"idle", "pop", "close", "store", "mark", "reload", "empty", "arm",
              "cancel", "restart", "screen", "screened"}

\* and the executer.
ExecPlace == {"idle", "expire", "expired", "tell", "clear", "lid", "backoff", "screen", "screened"}

\* What TypeOK leaves open: the fields that carry a request, and the messages.  systemd sleeps
\* because it was asked to.
ControlOK ==
    /\ pc \in [Thread -> DispPlace \cup ExecPlace]
    /\ entry \in [name : Name \cup {"hibernate", None}, limit : BOOLEAN,
                  next : {"idle", "store", "mark", "arm"}]
    /\ sweep \in (SUBSET Locker) \X (SUBSET Locker)
    /\ inbox \in Seq(Kind \X {"pre", "post"})
    /\ power # "awake" => goal # None

\* The dispatcher carries an entry while it sets or removes a Locker.
EntryFits ==
    /\ pc[Disp] \in {"pop", "close", "store", "mark"} => entry.name \in Name
    /\ pc[Disp] \in {"pop", "close"} => entry.next \in {"store", "mark", "arm"}
    /\ pc[Disp] \in {"store", "mark"} => entry.next \in {"store", "mark"}
    /\ entry.next = "arm" => pc[Disp] \in {"pop", "close", "arm"}

\* The invariant of the types.
LockerTypes == TypeOK /\ ControlOK /\ EntryFits

\* TypeOK has three parts: the Lockers,
TableOK ==
    /\ table \in [Name -> Locker \cup {None}] /\ name \in [Locker -> Name]
    /\ task \in [Locker -> {"none", "queued", "taken", "closed"}]
    /\ \A n \in Held : name[table[n]] = n

\* the threads,
ThreadsOK ==
    /\ pc[Disp] \in DispPlace /\ pc[Exec] \in ExecPlace
    /\ work \in [Thread -> Locker \cup {None}]
    /\ work[Disp] # None <=> pc[Disp] = "close"
    /\ work[Exec] # None <=> pc[Exec] \in {"expire", "expired"}

\* and the rest.
FieldsOK ==
    /\ update \in BOOLEAN /\ told \subseteq Name /\ ability \in Abilities
    /\ backoff \in Handle \cup {None} /\ timers \subseteq Handle
    /\ suspending \in BOOLEAN /\ hibernating \in BOOLEAN /\ alarm \in BOOLEAN
    /\ rtc \in {"off", "armed", "fired"} /\ woken \in {"no", "woke", "early", "past"}
    /\ power \in {"awake", "leaving", "asleep"}
    /\ goal \in {None, "suspend", "hibernate"}
    /\ history \subseteq Race

\* These are the parts of TypeOK now,
LEMMA TypeParts == TypeOK <=> TableOK /\ ThreadsOK /\ FieldsOK
BY DEF TypeOK, TableOK, ThreadsOK, FieldsOK, DispPlace, ExecPlace

\* and after a step.
LEMMA TypePartsNext == TypeOK' <=> TableOK' /\ ThreadsOK' /\ FieldsOK'
BY DEF TypeOK, TableOK, ThreadsOK, FieldsOK, DispPlace, ExecPlace

\* Only races that are to be recorded are.
LEMMA RaceType == \A r, happened : history \subseteq Race => Raced(r, happened) \subseteq Race
BY DEF Raced

\* There are two threads.
LEMMA Threads ==
    Disp \in Thread /\ Exec \in Thread /\ Disp # Exec /\ Thread = {Disp, Exec}
BY LockerAssumption DEF Thread

\* The last message is taken away, and only it.
LEMMA LastMessage ==
    ASSUME NEW V, NEW s \in Seq(V), s # <<>>
    PROVE  /\ Last(s) \in V /\ Front(s) \in Seq(V)
           /\ Last(s) \in Range(s)
           /\ \A m \in Range(Front(s)) : m \in Range(s)
           /\ \A m \in Range(s) : m = Last(s) \/ m \in Range(Front(s))
<1>1. PICK n \in Nat : n = Len(s) /\ n >= 1
  BY EmptySeq, LenProperties
<1>2. Last(s) = s[n] /\ Front(s) = SubSeq(s, 1, n - 1)
  BY <1>1 DEF Last, Front
<1>3. \A m : m \in Range(s) <=> \E k \in 1..n : s[k] = m
  BY <1>1, ListElems
<1>4. \A m : m \in Range(Front(s)) <=> \E k \in 1..(n - 1) : s[k] = m
  BY <1>1, <1>2, PartElems
<1> QED
  BY <1>1, <1>2, <1>3, <1>4, FrontType

\* So it is by the handlers of systemd's messages, which the idle dispatcher runs.
LEMMA Taken ==
    ASSUME LockerTypes, NEW m, Take(m)
    PROVE  /\ inbox' \in Seq(Kind \X {"pre", "post"})
           /\ m \in Range(inbox)
           /\ \A k \in Range(inbox') : k \in Range(inbox)
           /\ \A k \in Range(inbox) : k = m \/ k \in Range(inbox')
           /\ pc[Disp] = "idle"
<1>1. /\ inbox \in Seq(Kind \X {"pre", "post"}) /\ inbox # <<>>
      /\ Last(inbox) = m /\ inbox' = Front(inbox) /\ pc[Disp] = "idle"
  BY DEF Take, LockerTypes, ControlOK, At
<1> QED
  BY <1>1, LastMessage

\* Every step keeps the types.
LEMMA TypesStep ==
    ASSUME LockerTypes, [Next]_vars
    PROVE  LockerTypes'
<1> USE Threads, LockerAssumption, TypeParts, TypePartsNext, RaceType
    DEF LockerTypes, TableOK, ThreadsOK, FieldsOK, ControlOK, EntryFits, DispPlace, ExecPlace,
        lockerVars, clientVars, sleepVars,
        timerVars, systemVars, argVars, At, Goto, Held, Listed, Kind, NoEntry
<1>1. CASE PopName
  <2>1. TypeOK'
    <3>1. TableOK'
      BY <1>1 DEF PopName, Popped
    <3>2. ThreadsOK'
      BY <1>1 DEF PopName, Popped
    <3>3. FieldsOK'
      BY <1>1 DEF PopName, Popped
    <3> QED
      BY <3>1, <3>2, <3>3
  <2>2. ControlOK'
    BY <1>1 DEF PopName, Popped
  <2>3. EntryFits'
    BY <1>1 DEF PopName, Popped
  <2> QED
    BY <2>1, <2>2, <2>3
<1>2. CASE Close
  BY <1>2 DEF Close, Closed, Raced
<1>3. CASE Store
  <2>0. PICK l \in Locker : /\ Free(l) /\ table' = [table EXCEPT ![entry.name] = l]
                            /\ name' = [name EXCEPT ![l] = entry.name]
                            /\ task' = [task EXCEPT ![l] = IF entry.limit THEN "queued" ELSE "none"]
    BY <1>3 DEF Store
  <2>1. TypeOK'
    <3>1. TableOK'
      <4>1. entry.name \in Name
        BY <1>3 DEF Store
      <4>2. \A n \in Name : table[n] # l
        BY <2>0 DEF Free
      <4>3. /\ table' \in [Name -> Locker \cup {None}] /\ name' \in [Locker -> Name]
            /\ task' \in [Locker -> {"none", "queued", "taken", "closed"}]
        BY <2>0, <4>1
      <4>4. ASSUME NEW n \in Name, table'[n] # None PROVE name'[table'[n]] = n
        BY <2>0, <4>1, <4>2, <4>4
      <4> QED
        BY <4>3, <4>4
    <3>2. ThreadsOK'
      BY <1>3 DEF Store, Free
    <3>3. FieldsOK'
      BY <1>3 DEF Store, Free
    <3> QED
      BY <3>1, <3>2, <3>3
  <2>2. ControlOK'
    BY <1>3 DEF Store, Free
  <2>3. EntryFits'
    BY <1>3 DEF Store, Free
  <2> QED
    BY <2>1, <2>2, <2>3
<1>4. CASE Mark
  BY <1>4 DEF Mark, Marked, Raced
<1>5. CASE ReloadBegin
  BY <1>5 DEF ReloadBegin
<1>6. CASE ReloadNext
  <2>1. TypeOK'
    <3>1. TableOK'
      <4>1. UNCHANGED <<table, name>> /\ (task' = task \/ \E l : task' = Closed(l))
        BY <1>6 DEF ReloadNext
      <4>2. task' \in [Locker -> {"none", "queued", "taken", "closed"}]
        BY <4>1 DEF Closed
      <4> QED
        BY <4>1, <4>2
    <3>2. ThreadsOK'
      BY <1>6 DEF ReloadNext, Closed, Raced
    <3>3. FieldsOK'
      BY <1>6 DEF ReloadNext, Closed, Raced
    <3> QED
      BY <3>1, <3>2, <3>3
  <2>2. ControlOK'
    BY <1>6 DEF ReloadNext, Closed, Raced
  <2>3. EntryFits'
    BY <1>6 DEF ReloadNext, Closed, Raced
  <2> QED
    BY <2>1, <2>2, <2>3
<1>7. CASE ReloadClear
  <2>1. TypeOK'
    <3>1. TableOK'
      BY <1>7 DEF ReloadClear, Raced
    <3>2. ThreadsOK'
      BY <1>7 DEF ReloadClear, Raced
    <3>3. FieldsOK'
      BY <1>7 DEF ReloadClear, Raced
    <3> QED
      BY <3>1, <3>2, <3>3
  <2>2. ControlOK'
    BY <1>7 DEF ReloadClear, Raced
  <2>3. EntryFits'
    BY <1>7 DEF ReloadClear, Raced
  <2> QED
    BY <2>1, <2>2, <2>3
<1>8. CASE PreSuspend
  <2>0. inbox' \in Seq(Kind \X {"pre", "post"}) /\ pc[Disp] = "idle" /\ Take(<<"suspend", "pre">>)
    BY <1>8, Taken DEF PreSuspend
  <2>1. TypeOK'
    <3>1. TableOK'
      BY <1>8, <2>0 DEF PreSuspend, Endless
    <3>2. ThreadsOK'
      BY <1>8, <2>0 DEF PreSuspend, Endless
    <3>3. FieldsOK'
      BY <1>8, <2>0 DEF PreSuspend, Endless
    <3> QED
      BY <3>1, <3>2, <3>3
  <2>2. ControlOK'
    <3>1. CASE UNCHANGED <<entry, pc>>
      BY <1>8, <2>0, <3>1 DEF PreSuspend
    <3>2. CASE /\ entry' = [name |-> "hibernate", limit |-> FALSE, next |-> "arm"]
               /\ pc' = [pc EXCEPT ![Disp] = IF "hibernate" \in Held THEN "pop" ELSE "arm"]
      BY <1>8, <2>0, <3>2 DEF PreSuspend
    <3> QED
      BY <1>8, <3>1, <3>2 DEF PreSuspend
  <2>3. EntryFits'
    BY <1>8, <2>0 DEF PreSuspend, Endless
  <2> QED
    BY <2>1, <2>2, <2>3
<1>9. CASE Arm
  <2>1. TypeOK'
    <3>1. TableOK'
      BY <1>9 DEF Arm
    <3>2. ThreadsOK'
      BY <1>9 DEF Arm
    <3>3. rtc' \in {"off", "armed", "fired"} /\ alarm' \in BOOLEAN
      <4>1. CASE rtc' = "armed" /\ alarm' = TRUE
        BY <4>1
      <4>2. CASE rtc' \in {"off", rtc} /\ UNCHANGED alarm
        BY <4>2
      <4> QED
        BY <1>9, <4>1, <4>2 DEF Arm
    <3>4. UNCHANGED <<update, told, ability, backoff, timers, suspending, hibernating, woken,
                      power, goal, history>>
      BY <1>9 DEF Arm
    <3>5. FieldsOK'
      BY <3>3, <3>4
    <3> QED
      BY <3>1, <3>2, <3>5
  <2>2. ControlOK'
    BY <1>9 DEF Arm
  <2>3. EntryFits'
    BY <1>9 DEF Arm
  <2> QED
    BY <2>1, <2>2, <2>3
<1>10. CASE PostSuspend
  <2>0. inbox' \in Seq(Kind \X {"pre", "post"}) /\ pc[Disp] = "idle" /\ Take(<<"suspend", "post">>)
    BY <1>10, Taken DEF PostSuspend
  <2>1. TypeOK'
    <3>1. TableOK'
      BY <1>10, <2>0 DEF PostSuspend, Swaps, Awoken, WakeCheck, Asked
    <3>2. ThreadsOK'
      BY <1>10, <2>0 DEF PostSuspend, Swaps, Awoken, WakeCheck, Asked
    <3>3. FieldsOK'
      BY <1>10, <2>0 DEF PostSuspend, Swaps, Awoken, WakeCheck, Asked
    <3> QED
      BY <3>1, <3>2, <3>3
  <2>2. ControlOK'
    BY <1>10, <2>0 DEF PostSuspend, Swaps, Awoken, WakeCheck, Asked
  <2>3. EntryFits'
    BY <1>10, <2>0 DEF PostSuspend, Swaps, Awoken, WakeCheck, Asked
  <2> QED
    BY <2>1, <2>2, <2>3
<1>11. CASE PreHibernate
  <2>0. inbox' \in Seq(Kind \X {"pre", "post"}) /\ pc[Disp] = "idle" /\ Take(<<"hibernate", "pre">>)
    BY <1>11, Taken DEF PreHibernate
  <2>1. TypeOK'
    <3>1. TableOK'
      BY <1>11, <2>0 DEF PreHibernate
    <3>2. ThreadsOK'
      BY <1>11, <2>0 DEF PreHibernate
    <3>3. FieldsOK'
      BY <1>11, <2>0 DEF PreHibernate
    <3> QED
      BY <3>1, <3>2, <3>3
  <2>2. ControlOK'
    BY <1>11, <2>0 DEF PreHibernate
  <2>3. EntryFits'
    BY <1>11, <2>0 DEF PreHibernate
  <2> QED
    BY <2>1, <2>2, <2>3
<1>12. CASE PostHibernate
  <2>0. inbox' \in Seq(Kind \X {"pre", "post"}) /\ pc[Disp] = "idle" /\ Take(<<"hibernate",
          "post">>)
    BY <1>12, Taken DEF PostHibernate
  <2>1. TypeOK'
    <3>1. TableOK'
      BY <1>12, <2>0 DEF PostHibernate, Swaps, Awoken
    <3>2. ThreadsOK'
      BY <1>12, <2>0 DEF PostHibernate, Swaps, Awoken
    <3>3. FieldsOK'
      BY <1>12, <2>0 DEF PostHibernate, Swaps, Awoken
    <3> QED
      BY <3>1, <3>2, <3>3
  <2>2. ControlOK'
    BY <1>12, <2>0 DEF PostHibernate, Swaps, Awoken
  <2>3. EntryFits'
    BY <1>12, <2>0 DEF PostHibernate, Swaps, Awoken
  <2> QED
    BY <2>1, <2>2, <2>3
<1>13. CASE Cancel
  BY <1>13 DEF Cancel
<1>14. CASE Restart
  BY <1>14 DEF Restart, StartBackoff, Unused
<1>15. CASE ScreenMessage
  BY <1>15 DEF ScreenMessage, Step
<1>16. CASE Trigger
  BY <1>16 DEF Trigger, Suspend, Asked, Command
<1>17. CASE ExpirePop
  BY <1>17 DEF ExpirePop, Closed, Raced
<1>18. CASE ExpireMark
  BY <1>18 DEF ExpireMark
<1>19. CASE NotifyTest
  BY <1>19 DEF NotifyTest, Step
<1>20. CASE Tell
  BY <1>20 DEF Tell
<1>21. CASE ClearUpdate
  <2>1. TypeOK'
    <3>1. TableOK'
      BY <1>21 DEF ClearUpdate
    <3>2. ThreadsOK'
      BY <1>21 DEF ClearUpdate
    <3>3. FieldsOK'
      BY <1>21 DEF ClearUpdate
    <3> QED
      BY <3>1, <3>2, <3>3
  <2>2. ControlOK'
    BY <1>21 DEF ClearUpdate
  <2>3. EntryFits'
    BY <1>21 DEF ClearUpdate
  <2> QED
    BY <2>1, <2>2, <2>3
<1>22. CASE LidRead
  BY <1>22 DEF LidRead, Step
<1>23. CASE LidSuspend
  BY <1>23 DEF LidSuspend, Suspend, Asked, Command
<1>24. CASE BackoffClear
  BY <1>24 DEF BackoffClear
<1>25. ASSUME NEW n \in Name, NEW limit \in BOOLEAN, NEW force \in BOOLEAN, Add(n, limit, force)
       PROVE LockerTypes'
  BY <1>25 DEF Add, Endless
<1>26. ASSUME NEW n \in Name, Drop(n) PROVE LockerTypes'
  BY <1>26 DEF Drop
<1>27. ASSUME NEW a \in Abilities, Config(a) PROVE LockerTypes'
  BY <1>27 DEF Config
<1>28. ASSUME NEW l \in Locker, Expire(l) PROVE LockerTypes'
  BY <1>28 DEF Expire
<1>29. ASSUME NEW h \in Handle, BackoffDue(h) PROVE LockerTypes'
  BY <1>29 DEF BackoffDue
<1>30. ASSUME NEW kind \in Kind, Leave(kind) PROVE LockerTypes'
  BY <1>30 DEF Leave, systemStep
<1>31. ASSUME NEW t \in Thread, ScreenTest(t) PROVE LockerTypes'
  BY <1>31 DEF ScreenTest, Step
<1>32. ASSUME NEW t \in Thread, ScreenSet(t) PROVE LockerTypes'
  BY <1>32 DEF ScreenSet, StartBackoff, Unused
<1>33. CASE Sleep
  BY <1>33 DEF Sleep, systemStep
<1>34. CASE WakeUp
  BY <1>34 DEF WakeUp, systemStep, RtcFires
<1>35. CASE RtcAwake
  BY <1>35 DEF RtcAwake, systemStep, RtcFires
<1>39. CASE UNCHANGED vars
  BY <1>39 DEF vars
<1> HIDE DEF LockerTypes, TableOK, ThreadsOK, FieldsOK, ControlOK, EntryFits, DispPlace, ExecPlace,
  lockerVars, clientVars,
        sleepVars, timerVars, systemVars, argVars, At, Goto, Held, Listed, NoEntry
<1>36. CASE Dispatch
  BY <1>1, <1>2, <1>3, <1>4, <1>5, <1>6, <1>7, <1>8, <1>9, <1>10, <1>11, <1>12, <1>13, <1>14, <1>15,
     <1>16, <1>25, <1>26, <1>27, <1>36 DEF Dispatch
<1>37. CASE Execute
  BY <1>17, <1>18, <1>19, <1>20, <1>21, <1>22, <1>23, <1>24, <1>28, <1>29, <1>37 DEF Execute
<1>38. CASE System
  BY <1>30, <1>33, <1>34, <1>35, <1>38 DEF System
<1> QED
  BY <1>31, <1>32, <1>39, <1>36, <1>37, <1>38 DEF Next

-----------------------------------------------------------------------------
(* The expiries.                                                           *)

\* What the dispatcher closes is no longer held, and what it stores has no other of its name;
\* what an expiry has removed is closed.
Closing ==
    /\ pc[Disp] = "close" => work[Disp] \notin Listed
    /\ pc[Disp] \in {"close", "store"} => entry.name \notin Held
    /\ pc[Exec] = "expired" => task[work[Exec]] = "closed"

\* A reload closes what it has found at its begin; nothing is added meanwhile.
Sweeping ==
    /\ pc[Disp] = "reload" => /\ sweep[2] \subseteq sweep[1]
                              /\ \A l \in sweep[1] \ sweep[2] : task[l] = "closed"
                              /\ \A l \in Listed : task[l] = "closed" =>
                                     l \in sweep[1] \ sweep[2] \/ "torn" \in history
    /\ pc[Disp] = "empty" => \A l \in Listed : task[l] = "closed"

\* The invariants hold at first.
LEMMA LockerInit ==
    Init => LockerTypes /\ Closing /\ Sweeping
<1> SUFFICES ASSUME Init PROVE LockerTypes /\ Closing /\ Sweeping
  OBVIOUS
<1>1. Held = {} /\ Listed = {}
  BY DEF Init, Held, Listed
<1>2. TypeOK
  BY <1>1, LockerAssumption, Threads DEF Init, TypeOK
<1>3. ControlOK /\ EntryFits
  BY LockerAssumption, Threads DEF Init, ControlOK, EntryFits, NoEntry, DispPlace
<1>4. Closing /\ Sweeping
  BY <1>1, Threads DEF Init, Closing, Sweeping
<1> QED
  BY <1>2, <1>3, <1>4 DEF LockerTypes

\* What a step does that has nothing to do with expiries: no Locker, no task and no reload
\* changes, and what the dispatcher begins to set is not held.
ExpiryAside ==
    /\ UNCHANGED <<table, name, task, work, sweep>>
    /\ history \cap {"torn", "hit"} \subseteq history'
    /\ pc'[Disp] = pc[Disp] \/ {pc[Disp], pc'[Disp]} \cap {"close", "reload", "empty"} = {}
    /\ pc'[Exec] = pc[Exec] \/ pc'[Exec] # "expired"
    /\ pc'[Disp] \in {"close", "store"} => \/ pc'[Disp] = pc[Disp] /\ entry' = entry
                                           \/ entry'.name \notin Held

\* Such a step keeps the invariant of the expiries.
LEMMA ExpiryFrame ==
    ASSUME LockerTypes, LockerTypes', Closing, Sweeping, ExpiryFits, ExpiryAside
    PROVE  Closing' /\ Sweeping' /\ ExpiryFits'
<1>1. Held' = Held /\ Listed' = Listed
  BY DEF ExpiryAside, Held, Listed
<1>2. Closing'
  <2>1. pc'[Disp] = "close" => pc[Disp] = "close"
    BY DEF ExpiryAside
  <2>2. pc'[Exec] = "expired" => pc[Exec] = "expired"
    BY DEF ExpiryAside
  <2> QED
    BY <1>1, <2>1, <2>2 DEF ExpiryAside, Closing
<1>3. Sweeping'
  BY <1>1 DEF ExpiryAside, Sweeping
<1>4. ExpiryFits'
  BY <1>1 DEF ExpiryAside, ExpiryFits, NoneClosed, NoStrayExpiry
<1> QED
  BY <1>2, <1>3, <1>4

\* These steps are of that kind.
LEMMA ExpiryAsides ==
    ASSUME LockerTypes
    PROVE  /\ Mark \/ PreSuspend \/ Arm => ExpiryAside
           /\ PostSuspend \/ PreHibernate \/ PostHibernate => ExpiryAside
           /\ Cancel \/ Restart \/ ScreenMessage \/ Trigger => ExpiryAside
           /\ NotifyTest \/ Tell \/ ClearUpdate \/ LidRead \/ LidSuspend \/ BackoffClear =>
              ExpiryAside
           /\ System => ExpiryAside
           /\ \A n \in Name, limit, force \in BOOLEAN : Add(n, limit, force) => ExpiryAside
           /\ \A n \in Name : Drop(n) => ExpiryAside
           /\ \A a \in Abilities : Config(a) => ExpiryAside
           /\ \A h \in Handle : BackoffDue(h) => ExpiryAside
           /\ \A t \in Thread : ScreenTest(t) \/ ScreenSet(t) => ExpiryAside
           /\ UNCHANGED vars => ExpiryAside
<1>0. pc \in [Thread -> DispPlace \cup ExecPlace] /\ Thread = {Disp, Exec} /\ Disp # Exec
  BY Threads DEF LockerTypes, ControlOK
<1> USE DEF lockerVars, clientVars, sleepVars, timerVars, systemVars, argVars, At, Goto, ExpiryAside
<1>1. ASSUME NEW m, Take(m) PROVE pc[Disp] = "idle"
  BY <1>1 DEF Take
<1>2. Mark \/ Arm => ExpiryAside
  BY <1>0 DEF Mark, Arm, Raced
<1>3. PreSuspend => ExpiryAside
  BY <1>0, <1>1 DEF PreSuspend
<1>4. PostSuspend => ExpiryAside
  BY <1>0, <1>1 DEF PostSuspend, Swaps, Raced
<1>5. PreHibernate \/ PostHibernate => ExpiryAside
  BY <1>0, <1>1 DEF PreHibernate, PostHibernate, Swaps, Raced
<1>6. Cancel \/ Restart \/ ScreenMessage \/ Trigger => ExpiryAside
  BY <1>0 DEF Cancel, Restart, StartBackoff, ScreenMessage, Step, Trigger
<1>7. NotifyTest \/ Tell \/ ClearUpdate => ExpiryAside
  BY <1>0 DEF NotifyTest, Tell, ClearUpdate, Step
<1>8. LidRead \/ LidSuspend \/ BackoffClear => ExpiryAside
  BY <1>0 DEF LidRead, LidSuspend, BackoffClear, Step
<1>9. System => ExpiryAside
  BY <1>0 DEF System, Sleep, WakeUp, RtcAwake, Leave, systemStep
<1>10. \A n \in Name, limit, force \in BOOLEAN : Add(n, limit, force) => ExpiryAside
  BY <1>0 DEF Add
<1>11. \A n \in Name : Drop(n) => ExpiryAside
  BY <1>0 DEF Drop
<1>12. \A a \in Abilities : Config(a) => ExpiryAside
  BY <1>0 DEF Config
<1>13. \A h \in Handle : BackoffDue(h) => ExpiryAside
  BY <1>0 DEF BackoffDue
<1>14. \A t \in Thread : ScreenTest(t) \/ ScreenSet(t) => ExpiryAside
  BY <1>0 DEF ScreenTest, ScreenSet, Step, StartBackoff
<1>15. UNCHANGED vars => ExpiryAside
  BY <1>0 DEF vars
<1> QED
  BY <1>2, <1>3, <1>4, <1>5, <1>6, <1>7, <1>8, <1>9, <1>10, <1>11, <1>12, <1>13, <1>14, <1>15

\* Every step keeps the invariant of the expiries, if the two races are recorded.
LEMMA ExpiryStep ==
    ASSUME {"torn", "hit"} \subseteq Race, LockerTypes, LockerTypes', Closing, Sweeping, ExpiryFits,
           [Next]_vars
    PROVE  Closing' /\ Sweeping' /\ ExpiryFits'
<1>0. /\ pc \in [Thread -> DispPlace \cup ExecPlace] /\ Thread = {Disp, Exec} /\ Disp # Exec
      /\ work \in [Thread -> Locker \cup {None}]
      /\ work[Disp] # None <=> pc[Disp] = "close"
      /\ work[Exec] # None <=> pc[Exec] \in {"expire", "expired"}
      /\ table \in [Name -> Locker \cup {None}] /\ name \in [Locker -> Name]
      /\ task \in [Locker -> {"none", "queued", "taken", "closed"}]
      /\ \A n \in Name : table[n] # None => name[table[n]] = n
      /\ Listed = {table[n] : n \in Held} /\ Held = {n \in Name : table[n] # None}
      /\ Listed' = {table'[n] : n \in Held'} /\ Held' = {n \in Name : table'[n] # None}
      /\ None \notin Locker
  BY Threads, LockerAssumption DEF LockerTypes, TypeOK, ControlOK, Held, Listed
<1> USE DEF lockerVars, clientVars, sleepVars, timerVars, systemVars, argVars, At, Goto
<1>1. CASE PopName
  <2>1. entry.name \in Name /\ work[Disp] = None /\ task' = task /\ sweep' = sweep /\ history' =
          history
    BY <1>0, <1>1 DEF PopName, LockerTypes, EntryFits
  <2>2. PICK n \in Name : /\ n = entry.name /\ table' = [table EXCEPT ![n] = None]
                          /\ work' = [work EXCEPT ![Disp] = table[n]]
    BY <1>1, <2>1 DEF PopName, Popped
  <2>3. /\ \A m \in Name : table'[m] = IF m = n THEN None ELSE table[m]
        /\ work'[Disp] = table[n] /\ work'[Exec] = work[Exec]
    BY <1>0, <2>2
  <2>4. /\ pc'[Exec] = pc[Exec] /\ pc[Disp] = "pop" /\ pc'[Disp] \in {"close", "store", "arm",
             "idle"}
    BY <1>0, <1>1 DEF PopName, LockerTypes, EntryFits
  <2>5. table[n] # None => table[n] \notin Listed'
    BY <1>0, <2>3
  <2>6. \A l \in Listed : l \in Listed' \/ l = table[n]
    BY <1>0, <2>3
  <2>7. Closing'
    <3>1. pc'[Disp] \in {"close", "store"} => entry'.name \notin Held'
      BY <1>0, <1>1, <2>2, <2>3 DEF PopName, LockerTypes, ControlOK
    <3>2. pc'[Disp] = "close" => work'[Disp] \notin Listed'
      BY <1>0, <1>1, <2>1, <2>2, <2>3, <2>5 DEF PopName
    <3> QED
      BY <2>1, <2>3, <2>4, <3>1, <3>2 DEF Closing
  <2>8. Sweeping'
    BY <2>4 DEF Sweeping
  <2>9. NoneClosed'
    BY <1>0, <2>1, <2>3, <2>4 DEF NoneClosed, ExpiryFits
  <2>10. NoStrayExpiry'
    BY <1>0, <2>1, <2>3, <2>6 DEF NoStrayExpiry, ExpiryFits
  <2> QED
    BY <2>7, <2>8, <2>9, <2>10 DEF ExpiryFits
<1>2. CASE Close
  <2>1. PICK l \in Locker : /\ l = work[Disp] /\ task' = [task EXCEPT ![l] = "closed"]
                            /\ work' = [work EXCEPT ![Disp] = None] /\ l \notin Listed
    BY <1>0, <1>2 DEF Close, Closed, Closing
  <2>2. /\ pc'[Exec] = pc[Exec] /\ pc[Disp] = "close" /\ pc'[Disp] \in {"store", "mark", "arm"}
        /\ table' = table /\ Listed' = Listed /\ history \cap {"torn", "hit"} \subseteq history'
    BY <1>0, <1>2 DEF Close, LockerTypes, EntryFits, Raced
  <2>3. /\ \A k \in Locker : task'[k] = IF k = l THEN "closed" ELSE task[k]
        /\ work'[Disp] = None /\ work'[Exec] = work[Exec]
    BY <1>0, <2>1
  <2>4. Closing'
    <3>1. entry' = entry /\ Held' = Held /\ entry.name \notin Held
      BY <1>0, <1>2, <2>2 DEF Close, Closing
    <3> QED
      BY <1>0, <2>2, <2>3, <3>1 DEF Closing
  <2>5. Sweeping'
    BY <2>2 DEF Sweeping
  <2>6. NoneClosed'
    BY <1>0, <2>1, <2>2, <2>3 DEF NoneClosed, ExpiryFits
  <2>7. NoStrayExpiry'
    BY <1>0, <2>1, <2>2, <2>3 DEF NoStrayExpiry, ExpiryFits
  <2> QED
    BY <2>4, <2>5, <2>6, <2>7 DEF ExpiryFits
<1>3. CASE Store
  <2>1. entry.name \in Name /\ work' = work /\ sweep' = sweep /\ history' = history
    BY <1>3 DEF Store, LockerTypes, EntryFits
  <2>2. PICK l \in Locker, n \in Name, s \in {"queued", "none"} :
           /\ n = entry.name /\ n \notin Held
           /\ Free(l) /\ table' = [table EXCEPT ![n] = l]
           /\ task' = [task EXCEPT ![l] = s]
    BY <1>3, <2>1 DEF Store, Closing
  <2>3. /\ \A m \in Name : table'[m] = IF m = n THEN l ELSE table[m]
        /\ \A k \in Locker : task'[k] = IF k = l THEN s ELSE task[k]
        /\ l \notin Listed /\ l # work[Disp] /\ l # work[Exec]
    BY <1>0, <2>2 DEF Free
  <2>4. pc'[Exec] = pc[Exec] /\ pc[Disp] = "store" /\ pc'[Disp] = "mark"
    BY <1>0, <1>3 DEF Store
  <2>5. Closing'
    BY <1>0, <2>1, <2>3, <2>4 DEF Closing
  <2>6. Sweeping'
    BY <2>4 DEF Sweeping
  <2>7. NoneClosed'
    BY <1>0, <2>1, <2>3, <2>4 DEF NoneClosed, ExpiryFits
  <2>8. NoStrayExpiry'
    <3>1. ASSUME NEW k \in Locker, task'[k] \in {"queued", "taken"}
          PROVE  k \in Listed' \/ (\E t \in Thread : work[t] = k) \/ "hit" \in history
      <4>1. CASE k = l
        BY <1>0, <2>3, <4>1
      <4>2. CASE k # l /\ k \in Listed
        BY <1>0, <2>2, <2>3, <4>2
      <4> QED
        BY <2>3, <3>1, <4>1, <4>2 DEF NoStrayExpiry, ExpiryFits
    <3> QED
      BY <2>1, <3>1 DEF NoStrayExpiry
  <2> QED
    BY <2>5, <2>6, <2>7, <2>8 DEF ExpiryFits
<1>4. CASE ReloadBegin
  <2>1. sweep' = <<Listed, Listed>> /\ pc'[Disp] = "reload" /\ pc'[Exec] = pc[Exec] /\ pc[Disp] =
          "idle"
    BY <1>0, <1>4 DEF ReloadBegin
  <2>2. UNCHANGED <<table, name, task, work, history, Held, Listed>>
    BY <1>4 DEF ReloadBegin, Held, Listed
  <2>3. Closing' /\ NoStrayExpiry' /\ NoneClosed'
    BY <1>0, <2>1, <2>2 DEF Closing, ExpiryFits, NoStrayExpiry, NoneClosed
  <2>4. \A l \in Listed : task[l] = "closed" => "torn" \in history
    BY <1>0, <2>1 DEF ExpiryFits, NoneClosed
  <2>5. Sweeping'
    BY <2>1, <2>2, <2>4 DEF Sweeping
  <2> QED
    BY <2>3, <2>5 DEF ExpiryFits
<1>5. CASE ReloadNext
  <2>1. /\ UNCHANGED <<table, name, work, Held, Listed>>
        /\ pc'[Exec] = pc[Exec] /\ pc[Disp] = "reload" /\ pc'[Disp] \in {"reload", "idle", "empty"}
        /\ sweep[1] \subseteq Locker /\ sweep[2] \subseteq sweep[1]
        /\ \A l \in sweep[1] \ sweep[2] : task[l] = "closed"
    BY <1>0, <1>5 DEF ReloadNext, Held, Listed, LockerTypes, ControlOK, Sweeping
  <2>2. CASE pc'[Disp] = "idle" /\ task' = task /\ history' = Raced("torn", sweep[1] # sweep[2])
    <3>1. NoneClosed'
      BY <1>0, <2>1, <2>2 DEF NoneClosed, ExpiryFits, Sweeping, Raced
    <3> QED
      BY <2>1, <2>2, <3>1 DEF Closing, Sweeping, ExpiryFits, NoStrayExpiry, Raced
  <2>3. CASE /\ UNCHANGED <<pc, history>>
             /\ \E l \in sweep[2] : task' = Closed(l) /\ sweep' = <<sweep[1], sweep[2] \ {l}>>
    <3>1. PICK l \in sweep[2] : task' = [task EXCEPT ![l] = "closed"] /\ sweep' = <<sweep[1],
                 sweep[2] \ {l}>>
      BY <2>3 DEF Closed
    <3>2. \A k \in Locker : task'[k] = IF k = l THEN "closed" ELSE task[k]
      BY <1>0, <2>1, <3>1
    <3>3. sweep'[1] = sweep[1] /\ sweep'[2] = sweep[2] \ {l}
      BY <3>1
    <3>4. Closing'
      BY <1>0, <2>1, <2>3, <3>2 DEF Closing
    <3>5. Sweeping'
      BY <1>0, <2>1, <2>3, <3>2, <3>3 DEF Sweeping
    <3>6. ExpiryFits'
      BY <1>0, <2>1, <2>3, <3>2 DEF ExpiryFits, NoneClosed, NoStrayExpiry
    <3> QED
      BY <3>4, <3>5, <3>6
  <2>4. CASE /\ Listed = sweep[1] /\ sweep[2] = {} /\ pc'[Disp] = "empty"
             /\ UNCHANGED <<task, sweep, history>>
    BY <2>1, <2>4 DEF Closing, Sweeping, ExpiryFits, NoneClosed, NoStrayExpiry
  <2> QED
    BY <1>0, <1>5, <2>2, <2>3, <2>4 DEF ReloadNext
<1>6. CASE ReloadClear
  <2>1. /\ UNCHANGED <<task, work>> /\ history \cap {"torn", "hit"} \subseteq history'
        /\ pc'[Exec] = pc[Exec] /\ pc[Disp] = "empty" /\ pc'[Disp] = "screen"
        /\ Held' = {} /\ Listed' = {}
    BY <1>0, <1>6 DEF ReloadClear, Raced
  <2>2. \A l \in Listed : task[l] = "closed"
    BY <2>1 DEF Sweeping
  <2> QED
    BY <2>1, <2>2 DEF Closing, Sweeping, ExpiryFits, NoneClosed, NoStrayExpiry
<1>7. ASSUME NEW l \in Locker, Expire(l) PROVE Closing' /\ Sweeping' /\ ExpiryFits'
  <2>1. /\ task' = [task EXCEPT ![l] = "taken"] /\ work' = [work EXCEPT ![Exec] = l]
        /\ pc[Exec] = "idle" /\ task[l] = "queued" /\ pc' = [pc EXCEPT ![Exec] = "expire"]
        /\ UNCHANGED <<table, sweep, history, Held, Listed, entry>>
    BY <1>7 DEF Expire, Held, Listed
  <2>2. /\ \A k \in Locker : task'[k] = IF k = l THEN "taken" ELSE task[k]
        /\ work'[Exec] = l /\ work'[Disp] = work[Disp] /\ work[Exec] = None
        /\ pc'[Exec] = "expire" /\ pc'[Disp] = pc[Disp]
    BY <1>0, <2>1
  <2>3. Closing'
    BY <2>1, <2>2 DEF Closing
  <2>4. Sweeping'
    <3>1. sweep[1] \subseteq Locker
      BY DEF LockerTypes, ControlOK
    <3> QED
      BY <1>0, <2>1, <2>2, <3>1 DEF Sweeping
  <2>5. NoneClosed' /\ NoStrayExpiry'
    BY <1>0, <2>1, <2>2 DEF ExpiryFits, NoneClosed, NoStrayExpiry
  <2> QED
    BY <2>3, <2>4, <2>5 DEF ExpiryFits
<1>8. CASE ExpirePop
  <2>1. PICK l \in Locker, n \in Name :
          /\ l = work[Exec] /\ n = name[l] /\ table' = [table EXCEPT ![n] = None]
          /\ task' = [task EXCEPT ![l] = "closed"]
          /\ history' = Raced("hit", table[n] \notin {l, None})
    BY <1>0, <1>8 DEF ExpirePop, Closed
  <2>2. /\ \A m \in Name : table'[m] = IF m = n THEN None ELSE table[m]
        /\ \A k \in Locker : task'[k] = IF k = l THEN "closed" ELSE task[k]
        /\ history \cap {"torn", "hit"} \subseteq history'
    BY <1>0, <2>1 DEF Raced
  <2>3. /\ UNCHANGED <<work, sweep, entry>> /\ pc[Exec] = "expire" /\ pc'[Exec] = "expired"
        /\ pc'[Disp] = pc[Disp]
    BY <1>0, <1>8 DEF ExpirePop
  <2>4. Listed' \subseteq Listed \ {l} /\ Held' \subseteq Held
    BY <1>0, <2>1, <2>2
  <2>5. \A k \in Listed : k \in Listed' \/ k = l \/ "hit" \in history'
    BY <1>0, <2>1, <2>2 DEF Raced
  <2>6. Closing'
    BY <2>1, <2>2, <2>3, <2>4 DEF Closing
  <2>7. Sweeping'
    <3>1. sweep[1] \subseteq Locker
      BY DEF LockerTypes, ControlOK
    <3> QED
      BY <1>0, <2>2, <2>3, <2>4, <3>1 DEF Sweeping
  <2>8. NoneClosed'
    BY <1>0, <2>1, <2>2, <2>3, <2>4 DEF ExpiryFits, NoneClosed
  <2>9. NoStrayExpiry'
    BY <1>0, <2>2, <2>3, <2>5 DEF ExpiryFits, NoStrayExpiry
  <2> QED
    BY <2>6, <2>7, <2>8, <2>9 DEF ExpiryFits
<1>9. CASE ExpireMark
  <2>1. /\ UNCHANGED <<table, task, sweep, history, Held, Listed, entry>>
        /\ work' = [work EXCEPT ![Exec] = None]
        /\ pc[Exec] = "expired" /\ pc'[Exec] = "idle" /\ pc'[Disp] = pc[Disp]
    BY <1>0, <1>9 DEF ExpireMark, Held, Listed
  <2>2. work'[Disp] = work[Disp] /\ task[work[Exec]] = "closed"
    BY <1>0, <2>1 DEF Closing
  <2> QED
    BY <1>0, <2>1, <2>2 DEF Closing, Sweeping, ExpiryFits, NoneClosed, NoStrayExpiry
<1>10. CASE ExpiryAside
  BY <1>10, ExpiryFrame
<1> HIDE DEF lockerVars, clientVars, sleepVars, timerVars, systemVars, argVars, At, Goto
<1>11. CASE Dispatch
  BY <1>1, <1>2, <1>3, <1>4, <1>5, <1>6, <1>10, <1>11, ExpiryAsides DEF Dispatch
<1>12. CASE Execute
  BY <1>7, <1>8, <1>9, <1>10, <1>12, ExpiryAsides DEF Execute
<1> QED
  BY <1>10, <1>11, <1>12, ExpiryAsides DEF Next

-----------------------------------------------------------------------------
(* What the clients are told.                                              *)

\* The clients do not know which Lockers are held.
Unknown == told \ {"backup"} # Held \ {"backup"}

\* Then they will be told: _update is set and not about to be cleared, or the thread that
\* changed the table is about to set it.  Otherwise the race was recorded.
ToldInv ==
    Unknown => \/ update /\ pc[Exec] # "clear"
               \/ pc[Disp] \in {"close", "store", "mark"} /\ entry.name # "backup"
               \/ pc[Exec] = "expired" /\ name[work[Exec]] # "backup"
               \/ "silent" \in history

\* What a step does that neither changes the table nor tells it.
ToldAside ==
    /\ UNCHANGED <<table, told, update>>
    /\ "silent" \in history => "silent" \in history'
    /\ pc[Disp] \in {"close", "store", "mark"} => pc'[Disp] = pc[Disp] /\ entry' = entry
    /\ pc[Exec] = "expired" => pc'[Exec] = "expired" /\ name'[work'[Exec]] = name[work[Exec]]
    /\ pc'[Exec] = "clear" => pc[Exec] = "clear"

\* Such a step keeps the invariant,
LEMMA ToldFrame ==
    ASSUME ToldInv, ToldAside
    PROVE  ToldInv'
<1>1. Held' = Held
  BY DEF ToldAside, Held
<1>2. Unknown' = Unknown
  BY <1>1 DEF ToldAside, Unknown
<1> QED
  BY <1>2 DEF ToldAside, ToldInv

\* and these steps are of that kind.
LEMMA ToldAsides ==
    ASSUME LockerTypes
    PROVE  /\ ReloadBegin \/ ReloadNext \/ PreSuspend \/ Arm => ToldAside
           /\ PostSuspend \/ PreHibernate \/ PostHibernate => ToldAside
           /\ Cancel \/ Restart \/ ScreenMessage \/ Trigger => ToldAside
           /\ NotifyTest \/ LidRead \/ LidSuspend \/ BackoffClear => ToldAside
           /\ System => ToldAside
           /\ \A n \in Name, limit, force \in BOOLEAN : Add(n, limit, force) => ToldAside
           /\ \A n \in Name : Drop(n) => ToldAside
           /\ \A a \in Abilities : Config(a) => ToldAside
           /\ \A l \in Locker : Expire(l) => ToldAside
           /\ \A h \in Handle : BackoffDue(h) => ToldAside
           /\ \A t \in Thread : ScreenTest(t) \/ ScreenSet(t) => ToldAside
           /\ UNCHANGED vars => ToldAside
<1>0. pc \in [Thread -> DispPlace \cup ExecPlace] /\ Thread = {Disp, Exec} /\ Disp # Exec
  BY Threads DEF LockerTypes, ControlOK
<1> USE DEF lockerVars, clientVars, sleepVars, timerVars, systemVars, argVars, At, Goto, ToldAside
<1>1. ASSUME NEW m, Take(m) PROVE pc[Disp] = "idle"
  BY <1>1 DEF Take
<1>2. ReloadBegin \/ ReloadNext \/ Arm => ToldAside
  BY <1>0 DEF ReloadBegin, ReloadNext, Arm, Raced
<1>3. PreSuspend => ToldAside
  BY <1>0, <1>1 DEF PreSuspend
<1>4. PostSuspend => ToldAside
  BY <1>0, <1>1 DEF PostSuspend, Swaps, Raced
<1>5. PreHibernate \/ PostHibernate => ToldAside
  BY <1>0, <1>1 DEF PreHibernate, PostHibernate, Swaps, Raced
<1>6. Cancel \/ Restart \/ ScreenMessage \/ Trigger => ToldAside
  BY <1>0 DEF Cancel, Restart, StartBackoff, ScreenMessage, Step, Trigger
<1>7. NotifyTest \/ LidRead \/ LidSuspend \/ BackoffClear => ToldAside
  BY <1>0 DEF NotifyTest, LidRead, LidSuspend, BackoffClear, Step
<1>8. System => ToldAside
  BY <1>0 DEF System, Sleep, WakeUp, RtcAwake, Leave, systemStep
<1>9. \A n \in Name, limit, force \in BOOLEAN : Add(n, limit, force) => ToldAside
  BY <1>0 DEF Add
<1>10. \A n \in Name : Drop(n) => ToldAside
  BY <1>0 DEF Drop
<1>11. \A a \in Abilities : Config(a) => ToldAside
  BY <1>0 DEF Config
<1>12. \A l \in Locker : Expire(l) => ToldAside
  BY <1>0 DEF Expire
<1>13. \A h \in Handle : BackoffDue(h) => ToldAside
  BY <1>0 DEF BackoffDue
<1>14. \A t \in Thread : ScreenTest(t) \/ ScreenSet(t) => ToldAside
  BY <1>0 DEF ScreenTest, ScreenSet, Step, StartBackoff
<1>15. UNCHANGED vars => ToldAside
  BY <1>0 DEF vars
<1> QED
  BY <1>2, <1>3, <1>4, <1>5, <1>6, <1>7, <1>8, <1>9, <1>10, <1>11, <1>12, <1>13, <1>14, <1>15

\* Every step keeps the invariant, if the race is recorded.
LEMMA ToldStep ==
    ASSUME {"silent"} \subseteq Race, LockerTypes, ToldInv, [Next]_vars
    PROVE  ToldInv'
<1>0. /\ pc \in [Thread -> DispPlace \cup ExecPlace] /\ Thread = {Disp, Exec} /\ Disp # Exec
      /\ work[Exec] # None <=> pc[Exec] \in {"expire", "expired"}
      /\ work \in [Thread -> Locker \cup {None}]
      /\ table \in [Name -> Locker \cup {None}] /\ name \in [Locker -> Name]
      /\ Held = {n \in Name : table[n] # None} /\ Held' = {n \in Name : table'[n] # None}
      /\ None \notin Locker
  BY Threads, LockerAssumption DEF LockerTypes, TypeOK, ControlOK, Held
<1> USE DEF lockerVars, clientVars, sleepVars, timerVars, systemVars, argVars, At, Goto
<1>1. CASE PopName
  <2>1. /\ UNCHANGED <<name, told, update, history>> /\ entry.name \in Name /\ pc[Disp] = "pop"
        /\ work'[Exec] = work[Exec] /\ pc'[Exec] = pc[Exec]
    BY <1>0, <1>1 DEF PopName, LockerTypes, EntryFits
  <2>2. \A m \in Name : table'[m] = IF m = entry.name THEN None ELSE table[m]
    BY <1>0, <1>1 DEF PopName, Popped
  <2>3. CASE entry.name \in Held /\ entry.name # "backup"
    BY <1>0, <1>1, <2>3 DEF PopName, ToldInv
  <2>4. CASE entry.name \notin Held \/ entry.name = "backup"
    <3>1. Unknown' = Unknown
      BY <1>0, <2>1, <2>2, <2>4 DEF Unknown
    <3> QED
      BY <2>1, <3>1 DEF ToldInv
  <2> QED
    BY <2>3, <2>4
<1>2. CASE Close
  <2>1. /\ UNCHANGED <<table, name, told, update, entry>> /\ pc[Disp] = "close"
        /\ pc'[Disp] = entry.next /\ entry.next \in {"store", "mark", "arm"}
        /\ history' = Raced("silent", entry.next = "arm")
        /\ work'[Exec] = work[Exec] /\ pc'[Exec] = pc[Exec]
    BY <1>0, <1>2 DEF Close, LockerTypes, EntryFits
  <2>2. Unknown' = Unknown
    BY <1>0, <2>1 DEF Unknown
  <2>3. CASE entry.next = "arm"
    BY <2>1, <2>3 DEF ToldInv, Raced
  <2>4. CASE entry.next # "arm"
    BY <2>1, <2>2, <2>4 DEF ToldInv, Raced
  <2> QED
    BY <2>3, <2>4
<1>3. CASE Store
  <2>1. /\ UNCHANGED <<told, update, history, entry, work>> /\ entry.name \in Name
        /\ pc[Disp] = "store" /\ pc'[Disp] = "mark" /\ pc'[Exec] = pc[Exec]
    BY <1>0, <1>3 DEF Store, LockerTypes, EntryFits
  <2>2. CASE entry.name # "backup"
    BY <2>1, <2>2 DEF ToldInv
  <2>3. CASE entry.name = "backup"
    <3>1. PICK l \in Locker : /\ Free(l) /\ table' = [table EXCEPT ![entry.name] = l]
                              /\ name' = [name EXCEPT ![l] = entry.name]
      BY <1>3 DEF Store
    <3>2. /\ \A m \in Name : m # "backup" => table'[m] = table[m]
          /\ pc[Exec] = "expired" => name'[work[Exec]] = name[work[Exec]]
      BY <1>0, <2>3, <3>1 DEF Free
    <3>3. Unknown' = Unknown
      BY <1>0, <2>1, <3>2 DEF Unknown
    <3> QED
      BY <2>1, <2>3, <3>2, <3>3 DEF ToldInv
  <2> QED
    BY <2>2, <2>3
<1>4. CASE Mark
  <2>1. /\ UNCHANGED <<table, name, told, work>> /\ update' = (update \/ entry.name # "backup")
        /\ pc'[Exec] = pc[Exec] /\ history' = Raced("silent", pc[Exec] = "clear")
    BY <1>0, <1>4 DEF Mark, Marked
  <2>2. Unknown' = Unknown
    BY <1>0, <2>1 DEF Unknown
  <2> QED
    BY <2>1, <2>2 DEF ToldInv, Raced
<1>5. CASE ReloadClear
  BY <1>5 DEF ReloadClear, ToldInv, Raced
<1>6. CASE ExpirePop
  <2>1. PICK n \in Name : n = name[work[Exec]] /\ table' = [table EXCEPT ![n] = None]
    BY <1>0, <1>6 DEF ExpirePop
  <2>2. /\ UNCHANGED <<told, update, entry, name, work>> /\ pc[Exec] = "expire"
        /\ pc'[Exec] = "expired" /\ pc'[Disp] = pc[Disp]
        /\ "silent" \in history => "silent" \in history'
    BY <1>0, <1>6 DEF ExpirePop, Raced
  <2>3. CASE n # "backup"
    BY <2>1, <2>2, <2>3 DEF ToldInv
  <2>4. CASE n = "backup"
    <3>1. Unknown' = Unknown
      BY <1>0, <2>1, <2>2, <2>4 DEF Unknown
    <3> QED
      BY <2>2, <3>1 DEF ToldInv
  <2> QED
    BY <2>3, <2>4
<1>7. CASE ExpireMark
  <2>1. /\ UNCHANGED <<table, told, entry, history>> /\ pc'[Exec] = "idle" /\ pc'[Disp] = pc[Disp]
        /\ update' = (update \/ name[work[Exec]] # "backup")
    BY <1>0, <1>7 DEF ExpireMark
  <2>2. Unknown' = Unknown
    BY <1>0, <2>1 DEF Unknown
  <2> QED
    BY <2>1, <2>2 DEF ToldInv
<1>8. CASE Tell
  <2>1. /\ UNCHANGED <<table, update, entry>> /\ pc[Exec] = "tell" /\ pc'[Disp] = pc[Disp]
        /\ told' \in {Held, told} /\ pc'[Exec] \in {"clear", "idle"}
        /\ pc'[Exec] = "clear" => told' = Held
        /\ history' = IF told' = Held THEN history \ {"silent"} ELSE history
    BY <1>0, <1>8 DEF Tell
  <2>2. Held' = Held
    BY <1>0, <2>1
  <2>3. told' = Held => ~Unknown'
    BY <2>2 DEF Unknown
  <2>4. told' = told => Unknown' = Unknown
    BY <2>2 DEF Unknown
  <2> QED
    BY <2>1, <2>3, <2>4 DEF ToldInv
<1>9. CASE ClearUpdate
  <2>1. /\ UNCHANGED <<table, told, entry, history>> /\ pc[Exec] = "clear" /\ pc'[Disp] = pc[Disp]
    BY <1>0, <1>9 DEF ClearUpdate
  <2>2. Unknown' = Unknown
    BY <1>0, <2>1 DEF Unknown
  <2> QED
    BY <2>1, <2>2 DEF ToldInv
<1>10. CASE ToldAside
  BY <1>10, ToldFrame
<1> HIDE DEF lockerVars, clientVars, sleepVars, timerVars, systemVars, argVars, At, Goto
<1>11. CASE Dispatch
  BY <1>1, <1>2, <1>3, <1>4, <1>5, <1>10, <1>11, ToldAsides DEF Dispatch
<1>12. CASE Execute
  BY <1>6, <1>7, <1>8, <1>9, <1>10, <1>12, ToldAsides DEF Execute
<1> QED
  BY <1>10, <1>11, <1>12, ToldAsides DEF Next

-----------------------------------------------------------------------------
(* The end of a sleep.                                                     *)

\* Every step keeps BackoffEnds, which is inductive as it stands: the task of a backoff may be
\* cancelled or taken only when another is about to be queued, or it is running.
LEMMA BackoffStep ==
    ASSUME LockerTypes, BackoffEnds, [Next]_vars
    PROVE  BackoffEnds'
<1>0. pc \in [Thread -> DispPlace \cup ExecPlace] /\ Thread = {Disp, Exec} /\ Disp # Exec
  BY Threads DEF LockerTypes, ControlOK
<1> DEFINE Aside == /\ UNCHANGED timerVars
                    /\ pc[Exec] = "backoff" => pc'[Exec] = "backoff"
                    /\ pc[Disp] = "restart" => pc'[Disp] = "restart"
<1>1. Aside => BackoffEnds'
  BY DEF BackoffEnds, timerVars
<1> USE DEF lockerVars, clientVars, sleepVars, systemVars, argVars, At, Goto
<1>2. ASSUME NEW m, Take(m) PROVE pc[Disp] = "idle"
  BY <1>2 DEF Take
<1>3. PopName \/ Close \/ Store \/ Mark \/ ReloadBegin \/ ReloadNext \/ ReloadClear \/ Arm => Aside
  BY <1>0 DEF PopName, Close, Store, Mark, ReloadBegin, ReloadNext, ReloadClear, Arm
<1>4. PreSuspend \/ PostSuspend \/ PreHibernate \/ PostHibernate => Aside
  BY <1>0, <1>2 DEF PreSuspend, PostSuspend, PreHibernate, PostHibernate
<1>5. ScreenMessage \/ Trigger \/ System => Aside
  BY <1>0 DEF ScreenMessage, Step, Trigger, System, Sleep, WakeUp, RtcAwake, Leave, systemStep
<1>6. /\ \A n \in Name, limit, force \in BOOLEAN : Add(n, limit, force) => Aside
      /\ \A n \in Name : Drop(n) => Aside
      /\ \A a \in Abilities : Config(a) => Aside
  BY <1>0 DEF Add, Drop, Config
<1>7. ExpirePop \/ ExpireMark \/ NotifyTest \/ Tell \/ ClearUpdate \/ LidRead \/ LidSuspend => Aside
  BY <1>0 DEF ExpirePop, ExpireMark, NotifyTest, Tell, ClearUpdate, LidRead, LidSuspend, Step
<1>8. /\ \A l \in Locker : Expire(l) => Aside
      /\ \A t \in Thread : ScreenTest(t) => Aside
      /\ UNCHANGED vars => Aside
  BY <1>0 DEF Expire, ScreenTest, Step, vars
<1>9. Cancel => BackoffEnds'
  BY <1>0 DEF Cancel, BackoffEnds
<1>10. \A t, place : StartBackoff(t, place) => BackoffEnds'
  BY DEF StartBackoff, BackoffEnds
<1>11. \A h \in Handle : BackoffDue(h) => BackoffEnds'
  BY <1>0 DEF BackoffDue, BackoffEnds
<1>12. BackoffClear => BackoffEnds'
  BY DEF BackoffClear, BackoffEnds
<1>13. Restart \/ (\E t \in Thread : ScreenSet(t)) => BackoffEnds'
  BY <1>10 DEF Restart, ScreenSet
<1> HIDE DEF lockerVars, clientVars, sleepVars, systemVars, argVars, At, Goto, Aside
<1>14. CASE Dispatch
  BY <1>1, <1>3, <1>4, <1>5, <1>6, <1>9, <1>13, <1>14 DEF Dispatch
<1>15. CASE Execute
  BY <1>1, <1>7, <1>8, <1>11, <1>12, <1>15 DEF Execute
<1> QED
  BY <1>1, <1>5, <1>8, <1>13, <1>14, <1>15 DEF Next

\* The end of this sleep is still to come: the system is amidst it, or its message waits.
Ends(kind) == (power # "awake" /\ goal = kind) \/ <<kind, "post">> \in Range(inbox)

\* Unless messages were swapped, a flag that is set has an end to come, and so has each begin
\* that still waits.
FlagsEnd ==
    "swapped" \notin history =>
        /\ suspending => Ends("suspend")
        /\ hibernating => Ends("hibernate")
        /\ \A kind \in Kind : <<kind, "pre">> \in Range(inbox) => Ends(kind)

\* What a step does that is no part of a sleep.  A thread may ask for one when none was asked
\* for; the system is awake then.
SleepAside ==
    /\ UNCHANGED <<suspending, hibernating, inbox, power>>
    /\ goal' = goal \/ power = "awake"
    /\ "swapped" \in history => "swapped" \in history'

\* These steps are of that kind.
LEMMA SleepAsides ==
    ASSUME LockerTypes
    PROVE  /\ PopName \/ Close \/ Store \/ Mark => SleepAside
           /\ ReloadBegin \/ ReloadNext \/ ReloadClear => SleepAside
           /\ Arm \/ Cancel \/ Restart \/ ScreenMessage \/ Trigger => SleepAside
           /\ Execute => SleepAside
           /\ \A n \in Name, limit, force \in BOOLEAN : Add(n, limit, force) => SleepAside
           /\ \A n \in Name : Drop(n) => SleepAside
           /\ \A a \in Abilities : Config(a) => SleepAside
           /\ \A t \in Thread : ScreenTest(t) \/ ScreenSet(t) => SleepAside
           /\ RtcAwake \/ UNCHANGED vars => SleepAside
<1>0. (power # "awake" => goal # None) /\ power \in {"awake", "leaving", "asleep"}
  BY DEF LockerTypes, ControlOK, TypeOK
<1> USE DEF sleepVars, systemVars, SleepAside
<1>1. PopName \/ Close \/ Store \/ Mark \/ ReloadBegin \/ ReloadNext \/ ReloadClear => SleepAside
  BY DEF PopName, Close, Store, Mark, ReloadBegin, ReloadNext, ReloadClear, Raced
<1>2. Arm \/ Cancel \/ Restart \/ ScreenMessage => SleepAside
  BY DEF Arm, Cancel, Restart, StartBackoff, ScreenMessage, Step
<1>3. Trigger \/ LidSuspend => SleepAside
  BY <1>0 DEF Trigger, LidSuspend, Suspend, Asked
<1>4. ExpirePop \/ ExpireMark \/ NotifyTest \/ Tell \/ ClearUpdate \/ LidRead \/ BackoffClear =>
      SleepAside
  BY DEF ExpirePop, ExpireMark, NotifyTest, Tell, ClearUpdate, LidRead, BackoffClear, Step, Raced
<1>5. (\E l \in Locker : Expire(l)) \/ (\E h \in Handle : BackoffDue(h)) => SleepAside
  BY DEF Expire, BackoffDue
<1>6. Execute => SleepAside
  BY <1>3, <1>4, <1>5 DEF Execute
<1>7. /\ \A n \in Name, limit, force \in BOOLEAN : Add(n, limit, force) => SleepAside
      /\ \A n \in Name : Drop(n) => SleepAside
      /\ \A a \in Abilities : Config(a) => SleepAside
  BY DEF Add, Drop, Config
<1>8. \A t \in Thread : ScreenTest(t) \/ ScreenSet(t) => SleepAside
  BY DEF ScreenTest, ScreenSet, Step, StartBackoff
<1>9. RtcAwake \/ UNCHANGED vars => SleepAside
  BY DEF RtcAwake, systemStep, vars
<1> QED
  BY <1>1, <1>2, <1>3, <1>6, <1>7, <1>8, <1>9

\* Every step keeps FlagsEnd, if the swaps are recorded.
LEMMA FlagsStep ==
    ASSUME {"swapped"} \subseteq Race, LockerTypes, FlagsEnd, [Next]_vars
    PROVE  FlagsEnd'
<1>0. /\ inbox \in Seq(Kind \X {"pre", "post"}) /\ (power # "awake" => goal # None)
      /\ suspending \in BOOLEAN /\ hibernating \in BOOLEAN
      /\ power \in {"awake", "leaving", "asleep"} /\ goal \in {None, "suspend", "hibernate"}
  BY DEF LockerTypes, ControlOK, TypeOK
<1>1. CASE SleepAside
  <2>1. \A kind \in Kind : Ends(kind) => Ends(kind)'
    BY <1>1 DEF SleepAside, Ends
  <2> QED
    BY <1>1, <2>1 DEF SleepAside, FlagsEnd, Kind
<1>2. ASSUME NEW m, Take(m)
      PROVE  /\ m \in Range(inbox)
             /\ \A k \in Range(inbox') : k \in Range(inbox)
             /\ \A k \in Range(inbox) : k = m \/ k \in Range(inbox')
  BY <1>2, Taken
<1>3. CASE PreSuspend
  <2>1. /\ <<"suspend", "pre">> \in Range(inbox)
        /\ \A k \in Range(inbox') : k \in Range(inbox)
        /\ \A k \in Range(inbox) : k = <<"suspend", "pre">> \/ k \in Range(inbox')
        /\ UNCHANGED <<power, goal, history>> /\ ~hibernating'
    BY <1>2, <1>3 DEF PreSuspend
  <2>2. \A kind \in Kind : Ends(kind) => Ends(kind)'
    BY <2>1 DEF Ends
  <2> QED
    BY <2>1, <2>2 DEF FlagsEnd, Kind
<1>4. CASE PreHibernate
  <2>1. /\ <<"hibernate", "pre">> \in Range(inbox)
        /\ \A k \in Range(inbox') : k \in Range(inbox)
        /\ \A k \in Range(inbox) : k = <<"hibernate", "pre">> \/ k \in Range(inbox')
        /\ UNCHANGED <<power, goal, history>> /\ ~suspending'
    BY <1>2, <1>4 DEF PreHibernate
  <2>2. \A kind \in Kind : Ends(kind) => Ends(kind)'
    BY <2>1 DEF Ends
  <2> QED
    BY <2>1, <2>2 DEF FlagsEnd, Kind
<1>5. ASSUME Swaps, "swapped" \notin history'
      PROVE  /\ \A kind \in Kind : <<kind, "pre">> \notin Range(inbox')
             /\ suspending' \/ hibernating' => "swapped" \notin history
  BY <1>5 DEF Swaps, Raced
<1>6. CASE PostSuspend
  <2>1. /\ \A k \in Range(inbox) : k = <<"suspend", "post">> \/ k \in Range(inbox')
        /\ UNCHANGED power /\ Swaps
    BY <1>2, <1>6 DEF PostSuspend
  <2>2. \/ ~suspending' /\ ~hibernating'
        \/ ~suspending' /\ hibernating' = hibernating /\ goal' = goal
    BY <1>0, <1>6 DEF PostSuspend, Awoken, sleepVars
  <2>3. goal' = goal /\ Ends("hibernate") => Ends("hibernate")'
    BY <2>1 DEF Ends
  <2> QED
    BY <1>5, <2>1, <2>2, <2>3 DEF FlagsEnd
<1>7. CASE PostHibernate
  <2>1. /\ \A k \in Range(inbox) : k = <<"hibernate", "post">> \/ k \in Range(inbox')
        /\ UNCHANGED <<power, goal>> /\ Swaps
    BY <1>2, <1>7 DEF PostHibernate
  <2>2. \/ ~suspending' /\ ~hibernating'
        \/ ~hibernating' /\ suspending' = suspending
    BY <1>0, <1>7 DEF PostHibernate, Awoken
  <2>3. Ends("suspend") => Ends("suspend")'
    BY <2>1 DEF Ends
  <2> QED
    BY <1>5, <2>1, <2>2, <2>3 DEF FlagsEnd
<1>8. CASE Sleep
  <2>1. /\ UNCHANGED <<suspending, hibernating, history, inbox, goal>>
        /\ power = "leaving" /\ power' = "asleep"
    BY <1>8 DEF Sleep, systemStep, sleepVars
  <2>2. \A kind \in Kind : Ends(kind) => Ends(kind)'
    BY <2>1 DEF Ends
  <2> QED
    BY <2>1, <2>2 DEF FlagsEnd, Kind
<1>9. CASE WakeUp
  <2>1. /\ UNCHANGED <<suspending, hibernating, history>>
        /\ power = "asleep" /\ inbox' = Append(inbox, <<goal, "post">>)
    BY <1>9 DEF WakeUp, systemStep, sleepVars
  <2>2. Range(inbox') = Range(inbox) \cup {<<goal, "post">>}
    BY <1>0, <2>1, AppendElems DEF Kind
  <2>3. \A kind \in Kind : Ends(kind) => Ends(kind)'
    BY <2>1, <2>2 DEF Ends
  <2>4. \A kind \in Kind : <<kind, "pre">> \in Range(inbox') => <<kind, "pre">> \in Range(inbox)
    BY <2>2
  <2> QED
    BY <2>1, <2>3, <2>4 DEF FlagsEnd, Kind
<1>10. ASSUME NEW new \in Kind, Leave(new) PROVE FlagsEnd'
  <2>1. /\ UNCHANGED <<suspending, hibernating, history>>
        /\ power = "awake" /\ power' = "leaving" /\ goal' = new
        /\ inbox' = Append(inbox, <<new, "pre">>)
    BY <1>10 DEF Leave, systemStep, sleepVars
  <2>2. Range(inbox') = Range(inbox) \cup {<<new, "pre">>}
    BY <1>0, <2>1, AppendElems
  <2>3. Ends(new)' /\ \A kind \in Kind : Ends(kind) => Ends(kind)'
    BY <2>1, <2>2 DEF Ends
  <2>4. \A kind \in Kind : <<kind, "pre">> \in Range(inbox') =>
        kind = new \/ <<kind, "pre">> \in Range(inbox)
    BY <2>2
  <2> QED
    BY <2>1, <2>3, <2>4 DEF FlagsEnd, Kind
<1>11. CASE Dispatch
  BY <1>1, <1>3, <1>4, <1>6, <1>7, <1>11, SleepAsides DEF Dispatch
<1>12. CASE System
  BY <1>1, <1>8, <1>9, <1>10, <1>12, SleepAsides DEF System
<1> QED
  BY <1>1, <1>11, <1>12, SleepAsides DEF Next

\* When the system is awake and no message waits, no end is to come, so that no flag is set.
LEMMA FlagsKnown ==
    FlagsEnd => AwakeIsKnown
<1> SUFFICES ASSUME FlagsEnd, power = "awake", inbox = <<>>, "swapped" \notin history
             PROVE  ~suspending /\ ~hibernating
  BY DEF AwakeIsKnown
<1>1. Range(inbox) = {}
  BY DEF Range
<1> QED
  BY <1>1 DEF FlagsEnd, Ends

-----------------------------------------------------------------------------
(* The wake alarm.                                                         *)

\* While _wake_alarm is set the alarm of the hardware is armed, or has fired since the daemon last
\* handled a sleep.  The flag is unset while the dispatcher goes to arm it.
AlarmArmed ==
    /\ alarm => rtc = "armed" \/ (rtc = "fired" /\ woken # "no")
    /\ entry.next = "arm" \/ pc[Disp] = "arm" => ~alarm

\* What a step does that is no part of the wake alarm, which may fire.
AlarmAside ==
    /\ UNCHANGED alarm
    /\ \/ rtc' = rtc /\ (woken # "no" => woken' # "no")
       \/ rtc' = "fired" /\ woken' # "no"
    /\ entry'.next = "arm" \/ pc'[Disp] = "arm" => entry.next = "arm" \/ pc[Disp] = "arm"

\* These steps are of that kind.
LEMMA AlarmAsides ==
    ASSUME LockerTypes
    PROVE  /\ PopName \/ Close \/ Store \/ Mark => AlarmAside
           /\ ReloadBegin \/ ReloadNext \/ ReloadClear => AlarmAside
           /\ Cancel \/ Restart \/ ScreenMessage \/ Trigger => AlarmAside
           /\ Execute => AlarmAside
           /\ System => AlarmAside
           /\ \A n \in Name, limit, force \in BOOLEAN : Add(n, limit, force) => AlarmAside
           /\ \A n \in Name : Drop(n) => AlarmAside
           /\ \A a \in Abilities : Config(a) => AlarmAside
           /\ \A t \in Thread : ScreenTest(t) \/ ScreenSet(t) => AlarmAside
           /\ UNCHANGED vars => AlarmAside
<1>0. pc \in [Thread -> DispPlace \cup ExecPlace] /\ Thread = {Disp, Exec} /\ Disp # Exec
  BY Threads DEF LockerTypes, ControlOK
<1> USE DEF sleepVars, systemVars, argVars, At, Goto, NoEntry, AlarmAside
<1>1. PopName \/ Close \/ Store \/ Mark \/ ReloadBegin \/ ReloadNext \/ ReloadClear => AlarmAside
  <2>1. PopName => AlarmAside
    BY <1>0 DEF PopName
  <2>2. Close \/ Store \/ Mark => AlarmAside
    BY <1>0 DEF Close, Store, Mark
  <2>3. ReloadBegin \/ ReloadNext \/ ReloadClear => AlarmAside
    BY <1>0 DEF ReloadBegin, ReloadNext, ReloadClear
  <2> QED
    BY <2>1, <2>2, <2>3
<1>2. Cancel \/ Restart \/ ScreenMessage \/ Trigger => AlarmAside
  BY <1>0 DEF Cancel, Restart, StartBackoff, ScreenMessage, Step, Trigger
<1>3. ExpirePop \/ ExpireMark \/ NotifyTest \/ Tell \/ ClearUpdate => AlarmAside
  BY <1>0 DEF ExpirePop, ExpireMark, NotifyTest, Tell, ClearUpdate, Step
<1>4. LidRead \/ LidSuspend \/ BackoffClear => AlarmAside
  BY <1>0 DEF LidRead, LidSuspend, BackoffClear, Step
<1>5. (\E l \in Locker : Expire(l)) \/ (\E h \in Handle : BackoffDue(h)) => AlarmAside
  BY <1>0 DEF Expire, BackoffDue
<1>6. Execute => AlarmAside
  BY <1>3, <1>4, <1>5 DEF Execute
<1>7. System => AlarmAside
  BY <1>0 DEF System, Sleep, WakeUp, RtcAwake, RtcFires, Leave, systemStep
<1>8. /\ \A n \in Name, limit, force \in BOOLEAN : Add(n, limit, force) => AlarmAside
      /\ \A n \in Name : Drop(n) => AlarmAside
      /\ \A a \in Abilities : Config(a) => AlarmAside
  BY <1>0 DEF Add, Drop, Config
<1>9. \A t \in Thread : ScreenTest(t) \/ ScreenSet(t) => AlarmAside
  BY <1>0 DEF ScreenTest, ScreenSet, Step, StartBackoff
<1>10. UNCHANGED vars => AlarmAside
  BY <1>0 DEF vars
<1> QED
  BY <1>1, <1>2, <1>6, <1>7, <1>8, <1>9, <1>10

\* Every step keeps AlarmArmed.
LEMMA AlarmStep ==
    ASSUME LockerTypes, AlarmArmed, [Next]_vars
    PROVE  AlarmArmed'
<1>0. /\ pc \in [Thread -> DispPlace \cup ExecPlace] /\ Thread = {Disp, Exec} /\ Disp # Exec
      /\ alarm \in BOOLEAN
      /\ pc[Disp] = "idle" => entry.next # "arm"
  BY Threads DEF LockerTypes, ControlOK, TypeOK, EntryFits
<1>1. CASE AlarmAside
  BY <1>1 DEF AlarmAside, AlarmArmed
<1>2. ASSUME NEW m, Take(m) PROVE pc[Disp] = "idle"
  BY <1>2 DEF Take, At
<1>3. CASE PreSuspend
  BY <1>3 DEF PreSuspend, AlarmArmed
<1>4. CASE Arm
  BY <1>0, <1>4 DEF Arm, At, Goto, NoEntry, AlarmArmed
<1>5. CASE PostSuspend
  <2>1. pc[Disp] = "idle" /\ entry' = entry /\ pc'[Disp] # "arm"
    BY <1>0, <1>2, <1>5 DEF PostSuspend, argVars, Goto
  <2>2. ~alarm' \/ (alarm' = alarm /\ rtc' = rtc /\ woken' = woken)
    BY <1>5 DEF PostSuspend, sleepVars
  <2> QED
    BY <1>0, <2>1, <2>2 DEF AlarmArmed
<1>6. CASE PreHibernate
  BY <1>6 DEF PreHibernate, AlarmArmed
<1>7. CASE PostHibernate
  BY <1>7 DEF PostHibernate, AlarmArmed
<1>8. CASE Dispatch
  BY <1>1, <1>3, <1>4, <1>5, <1>6, <1>7, <1>8, AlarmAsides DEF Dispatch
<1> QED
  BY <1>1, <1>8, AlarmAsides DEF Next

\* A queue whose last message was taken is neither what it was nor has one been added.
LEMMA FrontShorter ==
    ASSUME NEW V, NEW s \in Seq(V), s # <<>>
    PROVE  Front(s) # s /\ \A e \in V : Front(s) # Append(s, e)
<1>1. PICK n \in Nat : n = Len(s) /\ n >= 1
  BY EmptySeq, LenProperties
<1>2. Front(s) = SubSeq(s, 1, n - 1)
  BY <1>1 DEF Front
<1>3. Len(Front(s)) = n - 1
  BY <1>1, <1>2
<1>4. \A e \in V : Len(Append(s, e)) = n + 1
  BY <1>1
<1> QED
  BY <1>1, <1>3, <1>4

\* A message that makes the system hibernate is the end of a suspend that the alarm has ended.
LEMMA AlarmLeads ==
    ASSUME LockerTypes, AlarmArmed, [Next]_vars, inbox # <<>>, inbox' = Front(inbox), goal' # goal
    PROVE  woken \in {"woke", "early", "past"}
<1>0. /\ inbox \in Seq(Kind \X {"pre", "post"}) /\ woken \in {"no", "woke", "early", "past"}
      /\ goal \in {None, "suspend", "hibernate"} /\ (power # "awake" => goal # None)
      /\ alarm \in BOOLEAN
  BY DEF LockerTypes, ControlOK, TypeOK
<1>1. inbox' # inbox /\ \A e \in Kind \X {"pre", "post"} : inbox' # Append(inbox, e)
  BY <1>0, FrontShorter
<1> USE DEF systemVars
<1>2. ~(PopName \/ Close \/ Store \/ Mark \/ ReloadBegin \/ ReloadNext \/ ReloadClear \/ Arm)
  BY DEF PopName, Close, Store, Mark, ReloadBegin, ReloadNext, ReloadClear, Arm
<1>3. ~(PreSuspend \/ PreHibernate \/ PostHibernate)
  BY DEF PreSuspend, PreHibernate, PostHibernate
<1>4. ~(Cancel \/ Restart \/ ScreenMessage \/ Trigger)
  BY <1>1 DEF Cancel, Restart, StartBackoff, ScreenMessage, Step, Trigger
<1>5. ~(\/ \E n \in Name, limit, force \in BOOLEAN : Add(n, limit, force)
        \/ \E n \in Name : Drop(n)
        \/ \E a \in Abilities : Config(a))
  BY DEF Add, Drop, Config
<1>6. ~Execute
  <2>1. ~(ExpirePop \/ ExpireMark \/ NotifyTest \/ Tell \/ ClearUpdate \/ LidRead)
    BY DEF ExpirePop, ExpireMark, NotifyTest, Tell, ClearUpdate, LidRead, Step
  <2>2. ~(LidSuspend \/ BackoffClear)
    BY <1>1 DEF LidSuspend, BackoffClear
  <2>3. ~((\E l \in Locker : Expire(l)) \/ (\E h \in Handle : BackoffDue(h)))
    BY DEF Expire, BackoffDue
  <2> QED
    BY <2>1, <2>2, <2>3 DEF Execute
<1>7. ~System
  <2>1. ~(Sleep \/ RtcAwake)
    BY <1>1 DEF Sleep, RtcAwake
  <2>2. ~WakeUp
    BY <1>0, <1>1 DEF WakeUp, Kind
  <2>3. \A kind \in Kind : ~Leave(kind)
    BY <1>1 DEF Leave
  <2> QED
    BY <2>1, <2>2, <2>3 DEF System
<1>8. ~(\E t \in Thread : ScreenTest(t) \/ ScreenSet(t)) /\ ~UNCHANGED vars
  BY <1>1 DEF ScreenTest, ScreenSet, Step, StartBackoff, vars
<1>9. PostSuspend
  BY <1>2, <1>3, <1>4, <1>5, <1>6, <1>7, <1>8 DEF Next, Dispatch
<1>10. WakeCheck(TRUE)
  BY <1>9 DEF PostSuspend
<1>11. alarm /\ rtc # "armed"
  BY <1>10 DEF WakeCheck
<1> QED
  BY <1>0, <1>11 DEF AlarmArmed

-----------------------------------------------------------------------------
(* The theorems.                                                           *)

\* The other invariants hold at first too.
LEMMA InitOther ==
    Init => ExpiryFits /\ ToldInv /\ BackoffEnds /\ FlagsEnd /\ AlarmArmed
<1> SUFFICES ASSUME Init PROVE ExpiryFits /\ ToldInv /\ BackoffEnds /\ FlagsEnd /\ AlarmArmed
  OBVIOUS
<1>1. Held = {}
  BY DEF Init, Held
<1>2. ExpiryFits
  BY <1>1 DEF Init, ExpiryFits, NoneClosed, NoStrayExpiry
<1>3. ToldInv
  BY <1>1 DEF Init, ToldInv, Unknown
<1>4. BackoffEnds /\ AlarmArmed
  BY Threads DEF Init, BackoffEnds, AlarmArmed, NoEntry
<1>5. Range(inbox) = {}
  BY DEF Init, Range
<1>6. FlagsEnd
  BY <1>5 DEF Init, FlagsEnd
<1> QED
  BY <1>2, <1>3, <1>4, <1>6

\* The fields and the threads fit together, in every behaviour.
THEOREM Types == Spec => []LockerTypes
<1>1. Init => LockerTypes
  BY LockerInit
<1>2. LockerTypes /\ [Next]_vars => LockerTypes'
  BY TypesStep
<1> QED
  BY <1>1, <1>2, PTL DEF Spec

\* Every field of LockerServer has a value that the code gives it (TypeOK).
THEOREM LockersTyped == Spec => []TypeOK
<1>1. LockerTypes => TypeOK
  BY DEF LockerTypes
<1> QED
  BY <1>1, Types, PTL

\* A Locker that was set with a timeout does not stay for ever, and a Locker that was removed or
\* replaced takes its task with it (ExpiryFits), although _locker_close() runs on both threads and a
\* task that was taken cannot be cancelled; unless a reload failed half-way or an expiry has hit
\* another Locker of its name.
THEOREM ExpiriesFit ==
    ASSUME {"torn", "hit"} \subseteq Race
    PROVE  Spec => []ExpiryFits
<1> DEFINE Inv == Closing /\ Sweeping /\ ExpiryFits
<1>1. Init => Inv
  BY LockerInit, InitOther
<1>2. LockerTypes /\ LockerTypes' /\ Inv /\ [Next]_vars => Inv'
  BY ExpiryStep
<1>3. Inv => ExpiryFits
  OBVIOUS
<1> HIDE DEF Inv
<1> QED
  BY <1>1, <1>2, <1>3, Types, PTL DEF Spec

\* When nobody is at work on it and _update is not set, the clients know which Lockers are held
\* (ToldIsHeld), although _notify() clears _update after it has told them; unless the table was
\* changed at that moment, by a reload, or for the wake alarm.
THEOREM ClientsTold ==
    ASSUME {"silent"} \subseteq Race
    PROVE  Spec => []ToldIsHeld
<1>1. Init => ToldInv
  BY InitOther
<1>2. LockerTypes /\ ToldInv /\ [Next]_vars => ToldInv'
  BY ToldStep
<1>3. ToldInv => ToldIsHeld
  BY DEF ToldInv, ToldIsHeld, Unknown
<1> QED
  BY <1>1, <1>2, <1>3, Types, PTL DEF Spec

\* A backoff ends, and a system that is awake and has handled every message is not thought to be
\* suspending or hibernating (SleepEnds), unless the messages of systemd came in reverse.
THEOREM SleepsEnd ==
    ASSUME {"swapped"} \subseteq Race
    PROVE  Spec => []SleepEnds
<1>1. Init => BackoffEnds /\ FlagsEnd
  BY InitOther
<1>2. LockerTypes /\ BackoffEnds /\ [Next]_vars => BackoffEnds'
  BY BackoffStep
<1>3. LockerTypes /\ FlagsEnd /\ [Next]_vars => FlagsEnd'
  BY FlagsStep
<1>4. BackoffEnds /\ FlagsEnd => SleepEnds
  BY FlagsKnown DEF SleepEnds
<1> QED
  BY <1>1, <1>2, <1>3, <1>4, Types, PTL DEF Spec

\* suspend(MSG_POST) hibernates only when the wake alarm that was set for this sleep has woken the
\* system, or has fired at another moment that _wake_check() cannot tell from it (HibernateByAlarm).
THEOREM HibernatesByAlarm == Spec => HibernateByAlarm
<1>1. Init => AlarmArmed
  BY InitOther
<1>2. LockerTypes /\ AlarmArmed /\ [Next]_vars => AlarmArmed'
  BY AlarmStep
<1>3. LockerTypes /\ AlarmArmed /\ [Next]_vars =>
        [(inbox # <<>> /\ inbox' = Front(inbox) /\ goal' # goal)
             => woken \in {"woke", "early", "past"}]_vars
  BY AlarmLeads
<1> QED
  BY <1>1, <1>2, <1>3, Types, PTL DEF Spec, HibernateByAlarm

-----------------------------------------------------------------------------
(* LockerClient, the half of the Lockers that runs in a session.           *)

\* Where a thread rests or is between two calls,
Alone == {"idle", "source", "idling", "end", "down", "drop", "timeout", "dead"}

\* and where it is in _lock() or _lock_unlock().
Calls == Locking \cup Unlocking

\* What a thread does fits its place: a call knows where it ends, the lock screen is left to
\* itself at the end of the client only, and _lock() calls _wake_check() after the others.
Fits(t, r) ==
    /\ r \in [at : Place, unlock : BOOLEAN, tell : BOOLEAN, next : Place]
    /\ r.at \in Alone => r.unlock /\ ~r.tell /\ r.next = "idle"
    /\ r.tell => r.at \in {"check", "make", "tell"}
    /\ r.at = "tell" => r.tell
    /\ r.unlock <=> r.next # "end"
    /\ r.next = "end" => r.at \in Unlocking
    /\ t = Disp => /\ r.at \in Calls \cup {"idle", "source", "idling", "end", "down"}
                   /\ r.next \in {"idle", "source", "end"}
    /\ t = Exec => /\ r.at \in Calls \cup {"idle", "drop", "attempt", "timeout", "dead"}
                   /\ r.next \in {"idle", "timeout"}
                   /\ r.at = "attempt" => r.next = "timeout"

\* Each thread does what fits it.
ThreadsFit ==
    /\ th = [t \in Thread |-> th[t]]
    /\ \A t \in Thread : Fits(t, th[t])

\* The other fields.
ClientFields ==
    /\ screen \in Screen \cup {None} /\ up \subseteq Screen
    /\ cmd \in {"own", "default", "empty"}
    /\ {clientAbility, fits} \subseteq {"power", "battery"}
    /\ idle \in {"none", "run", "paused", "exited"}
    /\ {dpms, clientBackoff, quiet, sleeping, away} \subseteq BOOLEAN
    /\ sleeper \in ClientHandle \cup {None} /\ wakes \subseteq ClientHandle
    /\ lockers \in Reports \cup {{}}
    /\ clientTold \in {"locked", "unlocked"}
    /\ clientInbox \in Seq({"pre", "post"})
    /\ clientHistory \subseteq ClientRace

\* The invariant of the types.
ClientTypes == ClientFields /\ ThreadsFit

\* The client has two threads.
LEMMA ClientThreads ==
    Thread = {Disp, Exec} /\ Disp # Exec
  BY LockerAssumption DEF Thread

\* A thread that fits rests at "idle" only without a call.
LEMMA ClientTyped ==
    ClientTypes => ClientTypeOK
<1> SUFFICES ASSUME ClientTypes PROVE ClientTypeOK
  OBVIOUS
<1>1. th \in [Thread -> [at : Place, unlock : BOOLEAN, tell : BOOLEAN, next : Place]]
  BY DEF ClientTypes, ThreadsFit, Fits
<1>2. ASSUME NEW t \in Thread, th[t].at = "idle" PROVE th[t] = Resting
  <2>1. Fits(t, th[t])
    BY DEF ClientTypes, ThreadsFit
  <2>2. th[t].unlock /\ ~th[t].tell /\ th[t].next = "idle"
    BY <1>2, <2>1 DEF Fits, Alone
  <2> QED
    BY <1>1, <1>2, <2>2 DEF Resting
<1> QED
  BY <1>1, <1>2 DEF ClientTypes, ClientFields, ClientTypeOK

-----------------------------------------------------------------------------
(* The threads.                                                            *)

\* What a thread does may be replaced by what fits it:
LEMMA ClientMove ==
    ASSUME ThreadsFit, NEW t \in Thread, NEW r, Fits(t, r), th' = [th EXCEPT ![t] = r]
    PROVE  ThreadsFit'
<1>1. \A o \in Thread : th'[o] = IF o = t THEN r ELSE th[o]
  BY DEF ThreadsFit
<1>2. th' = [o \in Thread |-> th'[o]]
  BY DEF ThreadsFit
<1>3. \A o \in Thread : Fits(o, th'[o])
  BY <1>1 DEF ThreadsFit
<1> QED
  BY <1>2, <1>3 DEF ThreadsFit, Fits

\* another place,
LEMMA ClientGoes ==
    ASSUME ThreadsFit, NEW t \in Thread, NEW place, ClientGoto(t, place),
           Fits(t, [th[t] EXCEPT !.at = place])
    PROVE  ThreadsFit'
  BY ClientMove DEF ClientGoto

\* a call,
LEMMA ClientCalls ==
    ASSUME ThreadsFit, NEW t \in Thread, NEW place, NEW next, Call(t, place, next),
           Fits(t, [Resting EXCEPT !.at = place, !.next = next])
    PROVE  ThreadsFit'
  BY ClientMove DEF Call

\* the place after a call,
LEMMA ClientReturns ==
    ASSUME ThreadsFit, NEW t \in Thread, Return(t), th[t].at \in Calls \cup {"source", "idling"}
    PROVE  ThreadsFit'
<1>1. Fits(t, th[t])
  BY DEF ThreadsFit
<1>2. th[t].at \in {"source", "idling"} => th[t].next = "idle"
  BY <1>1 DEF Fits, Alone, Resting
<1>3. Fits(t, [Resting EXCEPT !.at = th[t].next])
  BY <1>1, <1>2, ClientThreads DEF Fits, Alone, Resting, Calls, Locking, Unlocking,
     Place, Thread
<1> QED
  BY <1>3, ClientMove DEF Return

\* or where an exception leads.
LEMMA ClientRaises ==
    ASSUME ThreadsFit, NEW t \in Thread, Raise(t)
    PROVE  ThreadsFit'
<1>1. Fits(t, th[t])
  BY DEF ThreadsFit
<1> DEFINE place == IF th[t].next = "timeout" THEN "dead" ELSE "idle"
<1>2. Fits(t, [Resting EXCEPT !.at = place])
  BY <1>1, ClientThreads DEF Fits, Alone, Resting, Calls, Locking, Unlocking, Place,
     Thread
<1> QED
  BY <1>2, ClientMove DEF Raise

\* The steps of _lock() and _lock_unlock() fit,
LEMMA ClientLocks ==
    ASSUME ThreadsFit, NEW t \in Thread, Lock(t) \/ Unlock(t)
    PROVE  ThreadsFit'
<1>1. Fits(t, th[t])
  BY DEF ThreadsFit
<1> USE DEF Fits, Alone, Resting, Calls, Locking, Unlocking, Place
<1>2. CASE LockExec(t)
  <2>1. th[t].at = "exec"
    BY <1>2 DEF LockExec, ClientAt
  <2>2. ClientGoto(t, "dpms") \/ ClientGoto(t, "kill") \/ Raise(t)
    BY <1>2 DEF LockExec
  <2>3. /\ Fits(t, [th[t] EXCEPT !.at = "dpms"])
        /\ Fits(t, [th[t] EXCEPT !.at = "kill"])
    BY <1>1, <2>1
  <2> HIDE DEF Fits
  <2> QED
    BY <2>2, <2>3, ClientGoes, ClientRaises
<1>3. CASE LockDpms(t)
  <2>1. th[t].at = "dpms"
    BY <1>3 DEF LockDpms, ClientAt
  <2>2. Raise(t) \/ th' = [th EXCEPT ![t] = [th[t] EXCEPT !.at = "check", !.tell = TRUE]]
    BY <1>3 DEF LockDpms
  <2>3. Fits(t, [th[t] EXCEPT !.at = "check", !.tell = TRUE])
    BY <1>1, <2>1
  <2> HIDE DEF Fits
  <2> QED
    BY <2>2, <2>3, ClientMove, ClientRaises
<1>4. ASSUME Checked(t), th[t].at \in {"check", "make"} PROVE ThreadsFit'
  <2>1. th[t].tell => Fits(t, [th[t] EXCEPT !.at = "tell"])
    BY <1>1, <1>4
  <2>2. CASE ClientGoto(t, "tell") /\ th[t].tell
    <3> HIDE DEF Fits
    <3> QED
      BY <2>1, <2>2, ClientGoes
  <2> QED
    BY <1>4, <2>2, ClientReturns DEF Checked
<1>5. CASE Check(t)
  <2>1. th[t].at = "check"
    BY <1>5 DEF Check, ClientAt
  <2>2. Checked(t) \/ ClientGoto(t, "make")
    BY <1>5 DEF Check
  <2>3. Fits(t, [th[t] EXCEPT !.at = "make"])
    BY <1>1, <2>1
  <2> HIDE DEF Fits
  <2> QED
    BY <1>4, <2>1, <2>2, <2>3, ClientGoes
<1>6. CASE Make(t)
  BY <1>4, <1>6 DEF Make, ClientAt
<1>7. CASE LockTell(t)
  BY <1>7, ClientReturns DEF LockTell, ClientAt
<1>8. CASE UnlockKill(t)
  <2>1. th[t].at = "kill"
    BY <1>8 DEF UnlockKill, ClientAt
  <2>2. ClientGoto(t, "reset") \/ ClientGoto(t, "undpms")
    BY <1>8 DEF UnlockKill
  <2>3. Fits(t, [th[t] EXCEPT !.at = "reset"]) /\ Fits(t, [th[t] EXCEPT !.at = "undpms"])
    BY <1>1, <2>1
  <2> HIDE DEF Fits
  <2> QED
    BY <2>2, <2>3, ClientGoes
<1>9. CASE UnlockDpms(t)
  <2>1. th[t].at = "undpms"
    BY <1>9 DEF UnlockDpms, ClientAt
  <2>2. ClientGoto(t, "reset")
    BY <1>9 DEF UnlockDpms
  <2>3. Fits(t, [th[t] EXCEPT !.at = "reset"])
    BY <1>1, <2>1
  <2> HIDE DEF Fits
  <2> QED
    BY <2>2, <2>3, ClientGoes
<1>10. CASE UnlockReset(t)
  BY <1>10, ClientReturns DEF UnlockReset, ClientAt
<1> QED
  BY <1>2, <1>3, <1>5, <1>6, <1>7, <1>8, <1>9, <1>10 DEF Lock, Unlock

\* A thread that begins a lock is called or goes on.
LEMMA ClientBegins ==
    ASSUME ThreadsFit, NEW t \in Thread, NEW force, NEW next, BeginLock(t, force, next),
           t = Disp => next \in {"idle", "source"},
           t = Exec => next = "timeout"
    PROVE  ThreadsFit'
<1>1. /\ Fits(t, [Resting EXCEPT !.at = "exec", !.next = next])
      /\ Fits(t, [Resting EXCEPT !.at = next, !.next = "idle"])
  BY ClientThreads DEF Fits, Alone, Resting, Calls, Locking, Unlocking, Place
<1> QED
  BY <1>1, ClientCalls DEF BeginLock

\* those of the dispatcher,
LEMMA ClientHandles ==
    ASSUME ThreadsFit, Handler
    PROVE  ThreadsFit'
<1>1. Fits(Disp, th[Disp]) /\ Disp \in Thread /\ Disp # Exec
  BY ClientThreads DEF ThreadsFit
<1>2. (\E force \in BOOLEAN : LockMessage(force)) \/ KeyMessage \/ PreSleep => ThreadsFit'
  BY <1>1, ClientBegins DEF LockMessage, KeyMessage, PreSleep
<1>3. CASE \E names \in Reports : Status(names)
  BY <1>3 DEF Status, ThreadsFit, Fits
<1>4. CASE PostSleep
  <2>1. Fits(Disp, [Resting EXCEPT !.at = "check", !.next = "source"])
    BY <1>1 DEF Fits, Alone, Resting, Calls, Locking, Unlocking, Place
  <2>2. Call(Disp, "check", "source") \/ BeginLock(Disp, TRUE, "source")
    BY <1>4 DEF PostSleep
  <2> QED
    BY <1>1, <2>1, <2>2, ClientCalls, ClientBegins
<1>5. ASSUME ClientAt(Disp, "idle") \/ ClientAt(Disp, "source"), ClientGoto(Disp, "idling")
      PROVE  ThreadsFit'
  <2>1. Fits(Disp, [th[Disp] EXCEPT !.at = "idling"])
    BY <1>1, <1>5 DEF Fits, Alone, Resting, Calls, Locking, Unlocking, Place, ClientAt
  <2> QED
    BY <1>1, <1>5, <2>1, ClientGoes
<1>6. CASE Source("idle") \/ Source("source")
  BY <1>1, <1>5, <1>6, ClientReturns DEF Source, ClientAt
<1>7. CASE IdleInit
  BY <1>1, <1>7, ClientReturns DEF IdleInit, ClientAt
<1>8. CASE Reload
  BY <1>5, <1>8 DEF Reload
<1>9. CASE Shutdown
  <2>1. Fits(Disp, [Resting EXCEPT !.at = "kill", !.unlock = FALSE, !.next = "end"])
    BY <1>1 DEF Fits, Alone, Resting, Calls, Locking, Unlocking, Place
  <2> QED
    BY <1>1, <1>9, <2>1, ClientMove DEF Shutdown
<1>10. CASE ShutdownEnd
  <2>1. Fits(Disp, [th[Disp] EXCEPT !.at = "down"])
    BY <1>1, <1>10 DEF Fits, Alone, Resting, Calls, Locking, Unlocking, Place, ClientAt,
       ShutdownEnd
  <2> QED
    BY <1>1, <1>10, <2>1, ClientGoes DEF ShutdownEnd
<1> QED
  BY <1>2, <1>3, <1>4, <1>6, <1>7, <1>8, <1>9, <1>10 DEF Handler

\* and all others.
LEMMA ClientThreadsStep ==
    ASSUME ThreadsFit, [ClientNext]_sessionVars
    PROVE  ThreadsFit'
<1>1. Fits(Exec, th[Exec]) /\ Exec \in Thread /\ Disp # Exec
  BY ClientThreads DEF ThreadsFit
<1>2. UNCHANGED th => ThreadsFit'
  BY DEF ThreadsFit, Fits
<1>3. /\ Fits(Exec, [Resting EXCEPT !.at = "check", !.next = "idle"])
      /\ Fits(Exec, [Resting EXCEPT !.at = "kill", !.next = "idle"])
      /\ Fits(Exec, [Resting EXCEPT !.at = "attempt", !.next = "timeout"])
  BY <1>1 DEF Fits, Alone, Resting, Calls, Locking, Unlocking, Place
<1>4. CASE Round
  <2>1. Call(Exec, "check", "idle") \/ Call(Exec, "kill", "idle") \/ UNCHANGED th
    BY <1>4 DEF Round
  <2> QED
    BY <1>1, <1>2, <1>3, <2>1, ClientCalls
<1>5. ASSUME NEW place \in {"idle", "drop"}, ClientGoto(Exec, place),
             th[Exec].at \in {"idle", "drop", "timeout"}
      PROVE  ThreadsFit'
  <2>1. Fits(Exec, [th[Exec] EXCEPT !.at = place])
    BY <1>1, <1>5 DEF Fits, Alone, Resting, Calls, Locking, Unlocking, Place
  <2> QED
    BY <1>1, <1>5, <2>1, ClientGoes
<1>6. CASE Look \/ DropIdle \/ Timeout
  BY <1>5, <1>6 DEF Look, DropIdle, Timeout, Running, ClientAt
<1>7. CASE \E h \in ClientHandle : Fire(h)
  BY <1>1, <1>3, <1>7, ClientCalls DEF Fire
<1>8. CASE Attempt
  BY <1>1, <1>8, ClientBegins DEF Attempt
<1>9. CASE WakeBackoff \/ BlankBackoff \/ World \/ UNCHANGED sessionVars
  BY <1>2, <1>9 DEF WakeBackoff, BlankBackoff, World, ScreenExits, IdleExits, SleepBegins,
     Wake, sessionVars
<1> QED
  BY <1>4, <1>6, <1>7, <1>8, <1>9, ClientLocks, ClientHandles DEF ClientNext, Timer

-----------------------------------------------------------------------------
(* The fields.                                                             *)

\* Only races that are to be recorded are.
LEMMA ClientRaces ==
    \A r, happened :
        clientHistory \subseteq ClientRace => ClientRaced(r, happened) \subseteq ClientRace
  BY DEF ClientRaced

\* Every step keeps the types of the fields,
LEMMA ClientFieldsStep ==
    ASSUME ClientFields, [ClientNext]_sessionVars
    PROVE  ClientFields'
<1> USE DEF ClientFields, sessionVars, stateVars, screenVars, idleVars, wakeVars, worldVars
<1>0. CASE UNCHANGED sessionVars
  BY <1>0
<1>1. ASSUME NEW t \in Thread, Lock(t) PROVE ClientFields'
  <2>1. CASE LockExec(t)
    <3>1. screen' \in Screen \cup {None} /\ up' \subseteq Screen
      <4> DEFINE free == Screen \ (up \cup {screen})
      <4>1. free # {} => (CHOOSE s \in free : TRUE) \in free
        OBVIOUS
      <4>2. \/ free # {} /\ screen' = (CHOOSE s \in free : TRUE) /\ up' = up \cup {screen'}
            \/ screen' = screen /\ up' = up
        BY <2>1 DEF LockExec
      <4> QED
        BY <4>1, <4>2
    <3>2. clientHistory' \subseteq ClientRace
      BY <2>1, ClientRaces DEF LockExec
    <3> QED
      BY <2>1, <3>1, <3>2 DEF LockExec
  <2>2. CASE LockDpms(t)
    BY <2>2, ClientRaces DEF LockDpms
  <2>3. CASE Check(t)
    BY <2>3 DEF Check, CancelSleeper
  <2>4. CASE Make(t)
    <3>1. sleeper' \in ClientHandle \cup {None} /\ wakes' \subseteq ClientHandle
      <4> DEFINE free == ClientHandle \ (wakes \cup {sleeper})
      <4>1. free # {} => (CHOOSE h \in free : TRUE) \in free
        OBVIOUS
      <4>2. free # {} /\ sleeper' = (CHOOSE h \in free : TRUE) /\ wakes' = wakes \cup {sleeper'}
        BY <2>4 DEF Make
      <4> QED
        BY <4>1, <4>2
    <3>2. clientHistory' \subseteq ClientRace
      BY <2>4, ClientRaces DEF Make
    <3> QED
      BY <2>4, <3>1, <3>2 DEF Make
  <2>5. CASE LockTell(t)
    BY <2>5 DEF LockTell
  <2> QED
    BY <1>1, <2>1, <2>2, <2>3, <2>4, <2>5 DEF Lock
<1>2. ASSUME NEW t \in Thread, Unlock(t) PROVE ClientFields'
  BY <1>2 DEF Unlock, UnlockKill, UnlockDpms, UnlockReset, Killed, Continued,
     CancelSleeper
<1>3. ASSUME NEW m \in {"pre", "post"}, ClientTake(m) PROVE clientInbox' \in Seq({"pre", "post"})
  BY <1>3, FrontType DEF ClientTake, Front, Last, Front, Last
<1>4. CASE Handler
  <2>1. CASE (\E force \in BOOLEAN : LockMessage(force)) \/ KeyMessage
    BY <2>1 DEF LockMessage, KeyMessage
  <2>2. CASE \E names \in Reports : Status(names)
    BY <2>2 DEF Status
  <2>3. CASE PreSleep
    BY <1>3, <2>3 DEF PreSleep, CancelSleeper
  <2>4. CASE PostSleep
    BY <1>3, <2>4 DEF PostSleep
  <2>5. CASE Source("idle") \/ Source("source")
    BY <2>5 DEF Source
  <2>6. CASE IdleInit
    BY <2>6 DEF IdleInit
  <2>7. CASE Reload
    BY <2>7, ClientRaces DEF Reload
  <2>8. CASE Shutdown \/ ShutdownEnd
    BY <2>8 DEF Shutdown, ShutdownEnd
  <2> QED
    BY <1>4, <2>1, <2>2, <2>3, <2>4, <2>5, <2>6, <2>7, <2>8 DEF Handler
<1>5. CASE Round \/ Look \/ DropIdle
  BY <1>5, ClientRaces DEF Round, Look, DropIdle
<1>6. CASE Timer
  BY <1>6 DEF Timer, Fire, Attempt, Timeout, WakeBackoff, BlankBackoff, CancelSleeper
<1>7. CASE World
  <2>1. Append(clientInbox, "pre") \in Seq({"pre", "post"})
        /\ Append(clientInbox, "post") \in Seq({"pre", "post"})
    OBVIOUS
  <2>2. CASE (\E s \in Screen : ScreenExits(s)) \/ IdleExits
    BY <2>2 DEF ScreenExits, IdleExits
  <2>3. CASE SleepBegins \/ Wake
    BY <2>1, <2>3 DEF SleepBegins, Wake
  <2> QED
    BY <1>7, <2>2, <2>3 DEF World
<1> QED
  BY <1>0, <1>1, <1>2, <1>4, <1>5, <1>6, <1>7 DEF ClientNext

\* and all types,
LEMMA ClientTypesStep ==
    ClientTypes /\ [ClientNext]_sessionVars => ClientTypes'
  BY ClientThreadsStep, ClientFieldsStep DEF ClientTypes

\* which hold at first.
LEMMA ClientTypesInit ==
    ClientInit => ClientTypes
<1> SUFFICES ASSUME ClientInit PROVE ClientTypes
  OBVIOUS
<1>1. ClientFields
  <2>1. clientInbox \in Seq({"pre", "post"})
    BY DEF ClientInit
  <2> QED
    BY <2>1 DEF ClientInit, ClientFields
<1>2. \A t \in Thread : Fits(t, th[t])
  BY ClientThreads DEF ClientInit, Fits, Alone, Resting, Calls, Locking, Unlocking, Place
<1>3. th = [t \in Thread |-> th[t]]
  BY DEF ClientInit
<1> QED
  BY <1>1, <1>2, <1>3 DEF ClientTypes, ThreadsFit

-----------------------------------------------------------------------------
(* The lock.                                                               *)

\* The two threads have not met.
Clean == clientHistory \cap {"late", "twin"} = {}

\* This thread is amidst a lock whose screen it has run,
Holding(t) == th[t].at = "dpms" \/ th[t].tell

\* or amidst an unlock.
Freeing(t) == th[t].at \in Unlocking

\* The client ends.
Ending == ~th[Disp].unlock \/ th[Disp].at \in {"end", "down"}

\* The lock screen that is about to be killed does not run.
KillsNone == Clean => \A t \in Thread : th[t].at = "kill" /\ th[t].unlock => ~Locked

\* A thread amidst a lock has the lock screen to itself, and the others hear of every lock
\* screen and of every unlock.
LockKept ==
    Clean /\ ~Ending =>
        /\ \A t, o \in Thread : t # o /\ Holding(t) => ~Holding(o) /\ ~Freeing(o)
        /\ \A t \in Thread : Holding(t) => screen # None
        /\ clientTold = "locked" => screen # None
        /\ screen # None => \/ clientTold = "locked"
                            \/ \E t \in Thread : Holding(t) \/ th[t].at = "reset"
        /\ \A t \in Thread : th[t].at = "reset" => clientTold = "unlocked"

\* The idle process is paused only while a lock screen is known that is not just given up, and
\* then there is the process that tells an unlock to continue it.
DimKept ==
    Clean /\ ~Ending /\ "undimmed" \in ClientRace \ clientHistory /\ idle = "paused" =>
        /\ dpms /\ screen # None
        /\ \A t \in Thread : th[t].at # "reset"

\* What a thread's step does to it.
LEMMA ClientMoves ==
    ASSUME ThreadsFit, NEW t \in Thread
    PROVE  /\ \A place : ClientGoto(t, place) =>
                /\ th'[t].at = place /\ th'[t].unlock = th[t].unlock /\ th'[t].tell = th[t].tell
                /\ \A o \in Thread \ {t} : th'[o] = th[o]
           /\ \A place, next : Call(t, place, next) =>
                /\ th'[t].at = place /\ th'[t].unlock /\ ~th'[t].tell
                /\ \A o \in Thread \ {t} : th'[o] = th[o]
           /\ Return(t) =>
                /\ th'[t].at = th[t].next /\ th'[t].unlock /\ ~th'[t].tell
                /\ \A o \in Thread \ {t} : th'[o] = th[o]
           /\ Raise(t) =>
                /\ th'[t].at \in {"idle", "dead"} /\ th'[t].unlock /\ ~th'[t].tell
                /\ \A o \in Thread \ {t} : th'[o] = th[o]
<1>1. th \in [Thread -> [at : Place, unlock : BOOLEAN, tell : BOOLEAN, next : Place]]
  BY DEF ThreadsFit, Fits
<1>2. /\ \A place : ClientGoto(t, place) =>
           /\ th'[t].at = place /\ th'[t].unlock = th[t].unlock /\ th'[t].tell = th[t].tell
           /\ \A o \in Thread \ {t} : th'[o] = th[o]
  BY <1>1 DEF ClientGoto
<1>3. \A place, next : Call(t, place, next) =>
           /\ th'[t].at = place /\ th'[t].unlock /\ ~th'[t].tell
           /\ \A o \in Thread \ {t} : th'[o] = th[o]
  BY <1>1 DEF Call, Resting
<1>4. Return(t) =>
           /\ th'[t].at = th[t].next /\ th'[t].unlock /\ ~th'[t].tell
           /\ \A o \in Thread \ {t} : th'[o] = th[o]
  BY <1>1 DEF Return, Resting
<1>5. Raise(t) =>
           /\ th'[t].at \in {"idle", "dead"} /\ th'[t].unlock /\ ~th'[t].tell
           /\ \A o \in Thread \ {t} : th'[o] = th[o]
  BY <1>1 DEF Raise, Resting
<1> QED
  BY <1>2, <1>3, <1>4, <1>5

\* Where a lock or an unlock has its effects.
Acting == Unlocking \cup {"dpms"}

\* No thread gets further in a lock or an unlock.
NoAct ==
    \A t \in Thread :
        /\ th'[t].tell <=> th[t].tell
        /\ th'[t].unlock <=> th[t].unlock
        /\ \A p \in Acting : th'[t].at = p <=> th[t].at = p

\* What a step does that is no part of a lock or an unlock.
LockAside ==
    /\ UNCHANGED <<screen, clientTold, dpms>>
    /\ up' \subseteq up
    /\ idle' = "paused" => idle = "paused"
    /\ clientHistory \subseteq clientHistory'
    /\ NoAct
    /\ Ending => Ending'

\* Such a step keeps the three invariants.
LEMMA LockFrame ==
    ASSUME LockAside, KillsNone, LockKept, DimKept
    PROVE  KillsNone' /\ LockKept' /\ DimKept'
<1>1. NoAct
  BY DEF LockAside
<1>2. \A t \in Thread : (Holding(t)' <=> Holding(t)) /\ (Freeing(t)' <=> Freeing(t))
  BY <1>1 DEF NoAct, Holding, Freeing, Acting, Unlocking
<1>3. \A t \in Thread : (th'[t].at = "reset" <=> th[t].at = "reset")
                     /\ (th'[t].at = "kill" <=> th[t].at = "kill")
  BY <1>1 DEF NoAct, Acting, Unlocking
<1>4. (Clean' => Clean) /\ (~Ending' => ~Ending)
  BY DEF LockAside, Clean
<1>5. KillsNone'
  BY <1>1, <1>3, <1>4 DEF NoAct, KillsNone, LockAside, Locked
<1>6. LockKept'
  BY <1>2, <1>3, <1>4 DEF LockKept, LockAside
<1>7. DimKept'
  BY <1>3, <1>4 DEF DimKept, LockAside
<1> QED
  BY <1>5, <1>6, <1>7

\* A client that ends is not used again.
LEMMA ClientEnds ==
    ASSUME ClientTypes, [ClientNext]_sessionVars, Ending
    PROVE  Ending'
<1>0. /\ ThreadsFit /\ Disp \in Thread /\ Exec \in Thread /\ Disp # Exec
      /\ Thread = {Disp, Exec} /\ Fits(Disp, th[Disp])
  BY ClientThreads DEF ClientTypes, ThreadsFit
<1>1. th[Disp].at \in Unlocking \cup {"end", "down"}
  BY <1>0 DEF Ending, Fits
<1>2. UNCHANGED th => Ending'
  BY DEF Ending
<1>3. ASSUME \A o \in Thread \ {Exec} : th'[o] = th[o] PROVE Ending'
  BY <1>0, <1>3 DEF Ending
<1>4. ~Lock(Disp)
  BY <1>1 DEF Lock, LockExec, LockDpms, Check, Make, LockTell, ClientAt, Unlocking
<1>5. CASE UnlockKill(Disp) \/ UnlockDpms(Disp)
  <2>1. ClientGoto(Disp, "undpms") \/ ClientGoto(Disp, "reset")
    BY <1>5 DEF UnlockKill, UnlockDpms
  <2>2. ~th[Disp].unlock
    BY <1>5 DEF Ending, UnlockKill, UnlockDpms, ClientAt
  <2> QED
    BY <1>0, <2>1, <2>2, ClientMoves DEF Ending
<1>6. CASE UnlockReset(Disp)
  <2>1. ~th[Disp].unlock
    BY <1>6 DEF Ending, UnlockReset, ClientAt
  <2>2. th'[Disp].at = "end"
    BY <1>0, <1>6, <2>1, ClientMoves DEF UnlockReset, Fits
  <2> QED
    BY <2>2 DEF Ending
<1>7. CASE Handler
  <2>1. ShutdownEnd
    BY <1>1, <1>7 DEF Handler, LockMessage, KeyMessage, Status, PreSleep, PostSleep,
       ClientTake, Source,
       IdleInit, Reload, Shutdown, ClientAt, Unlocking
  <2> QED
    BY <1>0, <2>1, ClientMoves DEF ShutdownEnd, Ending
<1>8. CASE Lock(Exec) \/ Unlock(Exec)
  <2>1. \/ \E place : ClientGoto(Exec, place)
        \/ Return(Exec) \/ Raise(Exec)
        \/ \A o \in Thread \ {Exec} : th'[o] = th[o]
    <3>1. Lock(Exec) => \/ \E place : ClientGoto(Exec, place)
                        \/ Return(Exec) \/ Raise(Exec)
                        \/ \A o \in Thread \ {Exec} : th'[o] = th[o]
      <4>1. LockExec(Exec) => (\E place : ClientGoto(Exec, place)) \/ Raise(Exec)
        BY DEF LockExec
      <4>2. LockDpms(Exec) => Raise(Exec) \/ \A o \in Thread \ {Exec} : th'[o] = th[o]
        BY <1>0 DEF LockDpms, ThreadsFit
      <4>3. Check(Exec) \/ Make(Exec) => (\E place : ClientGoto(Exec, place)) \/ Return(Exec)
        BY DEF Check, Make, Checked
      <4>4. LockTell(Exec) => Return(Exec)
        BY DEF LockTell
      <4> QED
        BY <4>1, <4>2, <4>3, <4>4 DEF Lock
    <3>2. Unlock(Exec) => (\E place : ClientGoto(Exec, place)) \/ Return(Exec)
      BY DEF Unlock, UnlockKill, UnlockDpms, UnlockReset
    <3> QED
      BY <1>8, <3>1, <3>2
  <2> QED
    BY <1>0, <1>3, <2>1, ClientMoves
<1>9. CASE Round \/ Look \/ DropIdle \/ Timer
  <2>1. \/ \E place : ClientGoto(Exec, place)
        \/ \E place, next : Call(Exec, place, next)
        \/ UNCHANGED th
    <3>1. Round \/ Look \/ DropIdle => \/ \E place : ClientGoto(Exec, place)
                                       \/ \E place, next : Call(Exec, place, next)
                                       \/ UNCHANGED th
      BY DEF Round, Look, DropIdle
    <3>2. Timer => \/ \E place : ClientGoto(Exec, place)
                   \/ \E place, next : Call(Exec, place, next)
                   \/ UNCHANGED th
      BY DEF Timer, Fire, Attempt, Timeout, WakeBackoff, BlankBackoff, BeginLock
    <3> QED
      BY <1>9, <3>1, <3>2
  <2> QED
    BY <1>0, <1>2, <1>3, <2>1, ClientMoves
<1>10. CASE World \/ UNCHANGED sessionVars
  BY <1>2, <1>10 DEF World, ScreenExits, IdleExits, SleepBegins, Wake, sessionVars
<1> QED
  BY <1>0, <1>4, <1>5, <1>6, <1>7, <1>8, <1>9, <1>10 DEF ClientNext, Unlock

\* A thread that is not acting may go anywhere where it does not act.
LEMMA ClientCalm ==
    ASSUME ThreadsFit, NEW t \in Thread, th[t].at \notin Acting
    PROVE  /\ \A place : ClientGoto(t, place) /\ place \notin Acting => NoAct
           /\ \A place, next :
                Call(t, place, next) /\ place \notin Acting /\ ~th[t].tell => NoAct
           /\ Return(t) /\ ~th[t].tell => NoAct
           /\ Raise(t) /\ ~th[t].tell => NoAct
<1>1. Fits(t, th[t])
  BY DEF ThreadsFit
<1>2. th[t].unlock /\ th[t].next \notin Acting
  BY <1>1, ClientThreads DEF Fits, Acting, Unlocking
<1> DEFINE Others == \A o \in Thread \ {t} : th'[o] = th[o]
<1>3. ASSUME Others, th'[t].tell <=> th[t].tell, th'[t].unlock <=> th[t].unlock,
             th'[t].at \notin Acting
      PROVE  NoAct
  BY <1>3 DEF NoAct
<1>4. ASSUME NEW place, ClientGoto(t, place), place \notin Acting PROVE NoAct
  <2>1. Others /\ th'[t].at = place /\ th'[t].unlock = th[t].unlock /\ th'[t].tell = th[t].tell
    BY <1>4, ClientMoves
  <2> QED
    BY <1>3, <1>4, <2>1
<1>5. ASSUME NEW place, NEW next, Call(t, place, next), place \notin Acting, ~th[t].tell
      PROVE  NoAct
  <2>1. Others /\ th'[t].at = place /\ th'[t].unlock /\ ~th'[t].tell
    BY <1>5, ClientMoves
  <2> QED
    BY <1>2, <1>3, <1>5, <2>1
<1>6. ASSUME Return(t) \/ Raise(t), ~th[t].tell PROVE NoAct
  <2>1. Others /\ th'[t].at \notin Acting /\ th'[t].unlock /\ ~th'[t].tell
    BY <1>2, <1>6, ClientMoves DEF Acting, Unlocking
  <2> QED
    BY <1>2, <1>3, <1>6, <2>1
<1> QED
  BY <1>4, <1>5, <1>6

\* These steps are no part of a lock or an unlock.
LEMMA LockAsides ==
    ASSUME ClientTypes, [ClientNext]_sessionVars
    PROVE  /\ Handler => Shutdown \/ LockAside
           /\ (Look \/ DropIdle \/ Timer \/ World \/ UNCHANGED sessionVars) => LockAside
           /\ \A t \in Thread : Check(t) \/ Make(t) => LockAside
<1>0. /\ ThreadsFit /\ Disp \in Thread /\ Exec \in Thread /\ Disp # Exec
      /\ Ending => Ending'
  BY ClientThreads, ClientEnds DEF ClientTypes
<1>1. UNCHANGED th => NoAct
  BY DEF NoAct
<1>2. ASSUME NEW t \in Thread, th[t].at \in Alone \cup {"attempt", "exec"}
      PROVE  th[t].at \notin Acting /\ ~th[t].tell
  BY <1>0, <1>2 DEF ThreadsFit, Fits, Alone, Acting, Unlocking
<1>3. ASSUME NEW t \in Thread, NEW force, NEW next, BeginLock(t, force, next),
             next \in Alone, th[t].at \in Alone \cup {"attempt", "exec"}
      PROVE  NoAct
  <2>1. Call(t, "exec", next) \/ Call(t, next, "idle")
    BY <1>3 DEF BeginLock
  <2>2. {"exec", next} \cap Acting = {}
    BY <1>3 DEF Alone, Acting, Unlocking
  <2> QED
    BY <1>0, <1>2, <1>3, <2>1, <2>2, ClientCalm
<1> DEFINE Rest == /\ UNCHANGED <<screen, clientTold, dpms>>
                   /\ up' \subseteq up
                   /\ idle' = "paused" => idle = "paused"
                   /\ clientHistory \subseteq clientHistory'
<1>4. Rest /\ NoAct => LockAside
  BY <1>0 DEF LockAside
<1> USE DEF stateVars, screenVars, idleVars, wakeVars, worldVars, ClientAt
<1>5. ASSUME Handler PROVE Shutdown \/ LockAside
  <2>1. CASE (\E force \in BOOLEAN : LockMessage(force)) \/ KeyMessage
    BY <1>0, <1>3, <1>4, <2>1 DEF LockMessage, KeyMessage, Alone
  <2>2. CASE \E names \in Reports : Status(names)
    BY <1>1, <1>4, <2>2 DEF Status
  <2>3. CASE PreSleep
    BY <1>0, <1>3, <1>4, <2>3 DEF PreSleep, ClientTake, Alone
  <2>4. CASE PostSleep
    <3>1. th[Disp].at = "idle"
      BY <2>4 DEF PostSleep, ClientTake
    <3>2. Call(Disp, "check", "source") \/ BeginLock(Disp, TRUE, "source")
      BY <2>4 DEF PostSleep
    <3>3. NoAct
      BY <1>0, <1>2, <1>3, <3>1, <3>2, ClientCalm DEF Alone, Acting, Unlocking
    <3> QED
      BY <1>4, <2>4, <3>3 DEF PostSleep
  <2>5. CASE Source("idle") \/ Source("source")
    <3>1. th[Disp].at \in Alone /\ (ClientGoto(Disp, "idling") \/ Return(Disp))
      BY <2>5 DEF Source, Alone
    <3>2. NoAct
      BY <1>0, <1>2, <3>1, ClientCalm DEF Acting, Unlocking
    <3> QED
      BY <1>4, <2>5, <3>2 DEF Source
  <2>6. CASE IdleInit
    <3>1. th[Disp].at \in Alone /\ Return(Disp)
      BY <2>6 DEF IdleInit, Alone
    <3>2. NoAct
      BY <1>0, <1>2, <3>1, ClientCalm
    <3> QED
      BY <1>4, <2>6, <3>2 DEF IdleInit
  <2>7. CASE Reload
    <3>1. th[Disp].at \in Alone /\ ClientGoto(Disp, "idling")
      BY <2>7 DEF Reload, Alone
    <3>2. NoAct
      BY <1>0, <1>2, <3>1, ClientCalm DEF Acting, Unlocking
    <3> QED
      BY <1>4, <2>7, <3>2 DEF Reload, ClientRaced
  <2>8. CASE ShutdownEnd
    <3>1. th[Disp].at \in Alone /\ ClientGoto(Disp, "down")
      BY <2>8 DEF ShutdownEnd, Alone
    <3>2. NoAct
      BY <1>0, <1>2, <3>1, ClientCalm DEF Acting, Unlocking
    <3> QED
      BY <1>4, <2>8, <3>2 DEF ShutdownEnd
  <2> QED
    BY <1>5, <2>1, <2>2, <2>3, <2>4, <2>5, <2>6, <2>7, <2>8 DEF Handler
<1>6. ASSUME Look \/ DropIdle PROVE LockAside
  <2>1. th[Exec].at \in Alone /\ (ClientGoto(Exec, "drop") \/ ClientGoto(Exec, "idle"))
    BY <1>6 DEF Look, DropIdle, Running, Alone
  <2>2. NoAct
    BY <1>0, <1>2, <2>1, ClientCalm DEF Acting, Unlocking
  <2> QED
    BY <1>4, <1>6, <2>2 DEF Look, DropIdle, ClientRaced
<1>7. ASSUME \E h \in ClientHandle : Fire(h) PROVE LockAside
  <2>1. th[Exec].at \in Alone /\ Call(Exec, "attempt", "timeout")
    BY <1>7 DEF Fire, Running, Alone
  <2>2. NoAct
    BY <1>0, <1>2, <2>1, ClientCalm DEF Acting, Unlocking
  <2> QED
    BY <1>4, <1>7, <2>2 DEF Fire
<1>8. ASSUME Attempt PROVE LockAside
  BY <1>0, <1>3, <1>4, <1>8 DEF Attempt, Alone
<1>9. ASSUME Timeout PROVE LockAside
  <2>1. th[Exec].at \in Alone /\ ClientGoto(Exec, "idle")
    BY <1>9 DEF Timeout, Alone
  <2>2. NoAct
    BY <1>0, <1>2, <2>1, ClientCalm DEF Acting, Unlocking
  <2> QED
    BY <1>4, <1>9, <2>2 DEF Timeout
<1>10. ASSUME WakeBackoff \/ BlankBackoff \/ World \/ UNCHANGED sessionVars PROVE LockAside
  BY <1>1, <1>4, <1>10 DEF WakeBackoff, BlankBackoff, World, ScreenExits, IdleExits,
     SleepBegins, Wake, sessionVars
<1>11. ASSUME NEW t \in Thread, Check(t) \/ Make(t) PROVE LockAside
  <2>1. th[t].at \in {"check", "make"}
    BY <1>11 DEF Check, Make
  <2>2. \/ ClientGoto(t, "tell") \/ ClientGoto(t, "make")
        \/ Return(t) /\ ~th[t].tell
    BY <1>11 DEF Check, Make, Checked
  <2>3. NoAct
    BY <1>0, <2>1, <2>2, ClientCalm DEF Acting, Unlocking
  <2> QED
    BY <1>4, <1>11, <2>3 DEF Check, Make, ClientRaced
<1> QED
  BY <1>5, <1>6, <1>7, <1>8, <1>9, <1>10, <1>11 DEF Timer

\* Every step keeps them, if the two races are recorded.
LEMMA LockStep ==
    ASSUME ClientTypes, ClientTypes', KillsNone, LockKept, DimKept, [ClientNext]_sessionVars,
           {"late", "twin"} \subseteq ClientRace
    PROVE  KillsNone' /\ LockKept' /\ DimKept'
<1>0. /\ ThreadsFit /\ Disp \in Thread /\ Exec \in Thread /\ Disp # Exec
      /\ Thread = {Disp, Exec} /\ (~Ending' => ~Ending)
      /\ None \notin Screen /\ up \subseteq Screen /\ clientTold \in {"locked", "unlocked"}
  BY ClientAssumption, ClientThreads, ClientEnds DEF ClientTypes, ClientFields
<1>1. \A t \in Thread : Fits(t, th[t])
  BY <1>0 DEF ThreadsFit
<1>2. CASE LockAside
  BY <1>2, LockFrame
<1>3. ASSUME NEW t \in Thread, LockExec(t)
      PROVE  KillsNone' /\ LockKept' /\ DimKept'
  <2>1. th[t].at = "exec" /\ th[t].unlock /\ ~th[t].tell
    BY <1>1, <1>3 DEF LockExec, ClientAt, Fits, Unlocking
  <2>2. CASE Raise(t) /\ UNCHANGED <<screen, up, clientHistory>>
    <3>1. NoAct
      BY <1>0, <2>1, <2>2, ClientCalm DEF Acting, Unlocking
    <3>2. LockAside
      BY <1>3, <2>2, <3>1, <1>0, ClientEnds DEF LockAside, LockExec, idleVars
    <3> QED
      BY <3>2, LockFrame
  <2>3. ASSUME Clean',
               clientHistory' = ClientRaced("twin", Locked) \cup ClientRaced("late", Meets(t))
        PROVE  Clean /\ ~Locked /\ ~Meets(t)
    BY <2>3 DEF ClientRaced, Clean
  <2>4. ASSUME ~Meets(t), NEW o \in Thread, o # t
        PROVE  ~Holding(o) /\ ~Freeing(o)
    BY <2>4 DEF Meets, Holding, Freeing
  <2>5. CASE ClientGoto(t, "dpms") /\ screen' # None
    <3>1. /\ th'[t].at = "dpms" /\ th'[t].unlock = th[t].unlock /\ th'[t].tell = th[t].tell
          /\ \A o \in Thread \ {t} : th'[o] = th[o]
      BY <1>0, <2>5, ClientMoves
    <3>2. clientHistory' = ClientRaced("twin", Locked) \cup ClientRaced("late", Meets(t))
      BY <1>0, <2>1, <3>1, <1>3 DEF LockExec, Raise, Resting, ThreadsFit
    <3>3. Clean' => \A o \in Thread \ {t} :
             ~Holding(o)' /\ ~Freeing(o)' /\ th'[o].at \notin Acting
      BY <2>3, <2>4, <3>1, <3>2 DEF Holding, Freeing, Acting
    <3>4. Holding(t)' /\ th'[t].at \notin Unlocking
      BY <3>1 DEF Holding, Unlocking
    <3>5. KillsNone'
      BY <3>3, <3>4 DEF KillsNone, Acting, Unlocking
    <3>6. LockKept'
      BY <2>5, <3>3, <3>4 DEF LockKept, Acting, Unlocking
    <3>7. /\ UNCHANGED <<idle, dpms>>
          /\ "undimmed" \notin clientHistory' => "undimmed" \notin clientHistory
      BY <1>3, <3>2 DEF LockExec, idleVars, ClientRaced
    <3>8. DimKept'
      BY <1>0, <2>3, <2>5, <3>2, <3>3, <3>4, <3>7 DEF DimKept, Acting, Unlocking
    <3> QED
      BY <3>5, <3>6, <3>8
  <2>6. CASE /\ clientHistory' = ClientRaced("twin", Locked) \cup ClientRaced("late", Meets(t))
             /\ ClientGoto(t, "kill") /\ UNCHANGED <<screen, up>>
    <3>1. /\ th'[t].at = "kill" /\ th'[t].tell = th[t].tell
          /\ \A o \in Thread \ {t} : th'[o] = th[o]
      BY <1>0, <2>6, ClientMoves
    <3>2. /\ UNCHANGED <<clientTold, idle, dpms>>
          /\ "undimmed" \notin clientHistory' => "undimmed" \notin clientHistory
      BY <1>3, <2>6 DEF LockExec, idleVars, ClientRaced
    <3>3. KillsNone'
      BY <2>3, <2>6, <3>1 DEF KillsNone, Locked
    <3>4. /\ ~Holding(t) /\ ~Holding(t)' /\ th[t].at # "reset" /\ th'[t].at # "reset"
          /\ \A o \in Thread \ {t} : /\ Holding(o)' <=> Holding(o)
                                     /\ Freeing(o)' <=> Freeing(o)
      BY <2>1, <3>1 DEF Holding, Freeing
    <3>5. LockKept'
      <4> SUFFICES ASSUME Clean', ~Ending' PROVE LockKept'
        BY DEF LockKept
      <4>1. Clean /\ ~Ending /\ \A o \in Thread \ {t} : ~Holding(o) /\ ~Freeing(o)
        BY <1>0, <2>3, <2>4, <2>6
      <4>2. \A o \in Thread : ~Holding(o)'
        BY <3>4, <4>1
      <4>3. \A o \in Thread : th'[o].at # "reset"
        BY <3>1, <3>4, <4>1 DEF Freeing, Unlocking
      <4>4. (clientTold = "locked") <=> (screen # None)
        BY <3>4, <4>1 DEF LockKept, Freeing, Unlocking
      <4> QED
        BY <2>6, <3>2, <4>2, <4>3, <4>4 DEF LockKept
    <3>6. DimKept'
      BY <1>0, <2>3, <2>6, <3>1, <3>2 DEF DimKept
    <3> QED
      BY <3>3, <3>5, <3>6
  <2>7. \/ ClientGoto(t, "dpms") /\ screen' # None
        \/ /\ clientHistory' = ClientRaced("twin", Locked) \cup ClientRaced("late", Meets(t))
           /\ ClientGoto(t, "kill") /\ UNCHANGED <<screen, up>>
        \/ Raise(t) /\ UNCHANGED <<screen, up, clientHistory>>
    <3> DEFINE free == Screen \ (up \cup {screen})
    <3>1. free # {} => (CHOOSE s \in free : TRUE) \in free
      OBVIOUS
    <3> QED
      BY <1>0, <1>3, <3>1 DEF LockExec
  <2> QED
    BY <2>2, <2>5, <2>6, <2>7
<1>4. ASSUME NEW t \in Thread, LockDpms(t)
      PROVE  KillsNone' /\ LockKept' /\ DimKept'
  <2>1. th[t].at = "dpms" /\ ~th[t].tell /\ Holding(t) /\ ~Freeing(t)
    BY <1>1, <1>4 DEF LockDpms, ClientAt, Fits, Holding, Freeing, Unlocking
  <2>2. UNCHANGED <<screen, up, clientTold>> /\ clientHistory \subseteq clientHistory'
    BY <1>4 DEF LockDpms, screenVars, ClientRaced
  <2>3. (Clean' => Clean) /\ ("undimmed" \notin clientHistory' => "undimmed" \notin clientHistory)
    BY <2>2 DEF Clean
  <2>4. CASE screen # None
    <3>1. /\ th'[t].at = "check" /\ th'[t].tell
          /\ \A o \in Thread \ {t} : th'[o] = th[o]
      BY <1>0, <1>4, <2>4 DEF LockDpms, ThreadsFit, Fits
    <3>2. /\ Holding(t)' /\ ~Freeing(t)' /\ th'[t].at \notin {"kill", "reset"}
          /\ \A o \in Thread \ {t} : /\ Holding(o)' <=> Holding(o)
                                     /\ Freeing(o)' <=> Freeing(o)
      BY <3>1 DEF Holding, Freeing, Unlocking
    <3>3. KillsNone'
      BY <2>2, <2>3, <3>1, <3>2 DEF KillsNone, Locked
    <3>4. LockKept'
      BY <1>0, <2>1, <2>2, <2>3, <2>4, <3>1, <3>2 DEF LockKept, Freeing, Unlocking
    <3>5. "undimmed" \in ClientRace \ clientHistory' => dpms' \/ (dpms' = dpms /\ dpms)
      BY <1>4, <2>4 DEF LockDpms, ClientRaced
    <3>6. Clean' /\ ~Ending' => \A o \in Thread : th'[o].at # "reset"
      BY <1>0, <2>1, <2>3, <3>1, <3>2 DEF LockKept, Freeing, Unlocking
    <3>7. DimKept'
      BY <2>2, <2>4, <3>5, <3>6 DEF DimKept
    <3> QED
      BY <3>3, <3>4, <3>7
  <2>5. CASE screen = None
    <3>1. /\ th'[t].at \in {"idle", "dead"} /\ \A o \in Thread \ {t} : th'[o] = th[o]
      BY <1>0, <1>4, <2>5, ClientMoves DEF LockDpms
    <3>2. KillsNone'
      BY <2>2, <2>3, <3>1 DEF KillsNone, Locked
    <3>3. ~(Clean' /\ ~Ending')
      BY <1>0, <2>1, <2>3, <2>5 DEF LockKept
    <3> QED
      BY <3>2, <3>3 DEF LockKept, DimKept
  <2> QED
    BY <2>4, <2>5
<1>5. ASSUME NEW t \in Thread, LockTell(t)
      PROVE  KillsNone' /\ LockKept' /\ DimKept'
  <2>1. th[t].at = "tell" /\ th[t].tell /\ th[t].next \notin {"kill", "reset", "end"} \cup Acting
    BY <1>0, <1>1, <1>5 DEF LockTell, ClientAt, Fits, Unlocking, Acting
  <2>2. /\ th'[t].at = th[t].next /\ ~th'[t].tell
        /\ \A o \in Thread \ {t} : th'[o] = th[o]
    BY <1>0, <1>5, ClientMoves DEF LockTell
  <2>3. UNCHANGED <<screen, up, idle, dpms, clientHistory>> /\ clientTold' = "locked"
    BY <1>5 DEF LockTell, screenVars, idleVars
  <2>4. /\ Holding(t) /\ ~Holding(t)' /\ ~Freeing(t)' /\ th'[t].at \notin {"kill", "reset"}
        /\ \A o \in Thread \ {t} : /\ Holding(o)' <=> Holding(o)
                                   /\ Freeing(o)' <=> Freeing(o)
    BY <2>1, <2>2 DEF Holding, Freeing, Acting
  <2>5. KillsNone'
    BY <2>2, <2>3, <2>4 DEF KillsNone, Locked, Clean
  <2>6. LockKept'
    BY <1>0, <2>2, <2>3, <2>4 DEF LockKept, Clean, Freeing, Unlocking
  <2>7. DimKept'
    BY <1>0, <2>2, <2>3, <2>4 DEF DimKept, Clean
  <2> QED
    BY <2>5, <2>6, <2>7
<1>6. ASSUME NEW t \in Thread, UnlockKill(t)
      PROVE  KillsNone' /\ LockKept' /\ DimKept'
  <2>1. /\ th[t].at = "kill" /\ ~th[t].tell /\ ~Holding(t) /\ Freeing(t)
    BY <1>1, <1>6 DEF UnlockKill, ClientAt, Fits, Holding, Freeing, Unlocking
  <2>2. /\ th'[t].at = IF screen = None THEN "reset" ELSE "undpms"
        /\ th'[t].tell = th[t].tell
        /\ \A o \in Thread \ {t} : th'[o] = th[o]
    BY <1>0, <1>6, ClientMoves DEF UnlockKill
  <2>3. UNCHANGED <<screen, clientTold, idle, dpms, clientHistory>> /\ up' \subseteq up
    BY <1>6 DEF UnlockKill, Killed, idleVars
  <2>4. /\ ~Holding(t)' /\ Freeing(t)'
        /\ \A o \in Thread \ {t} : /\ Holding(o)' <=> Holding(o)
                                   /\ Freeing(o)' <=> Freeing(o)
    BY <2>1, <2>2 DEF Holding, Freeing, Unlocking
  <2>5. KillsNone'
    BY <2>2, <2>3 DEF KillsNone, Locked, Clean
  <2>6. LockKept'
    BY <1>0, <2>1, <2>2, <2>3, <2>4 DEF LockKept, Clean
  <2>7. DimKept'
    BY <1>0, <2>2, <2>3 DEF DimKept, Clean
  <2> QED
    BY <2>5, <2>6, <2>7
<1>7. ASSUME NEW t \in Thread, UnlockDpms(t)
      PROVE  KillsNone' /\ LockKept' /\ DimKept'
  <2>1. th[t].at = "undpms" /\ ~th[t].tell /\ ~Holding(t) /\ Freeing(t)
    BY <1>1, <1>7 DEF UnlockDpms, ClientAt, Fits, Holding, Freeing, Unlocking
  <2>2. /\ th'[t].at = "reset" /\ th'[t].tell = th[t].tell
        /\ \A o \in Thread \ {t} : th'[o] = th[o]
    BY <1>0, <1>7, ClientMoves DEF UnlockDpms
  <2>3. UNCHANGED <<screen, up, clientHistory>> /\ idle' = Continued
    BY <1>7 DEF UnlockDpms, screenVars
  <2>4. /\ ~Holding(t)' /\ Freeing(t)'
        /\ \A o \in Thread \ {t} : /\ Holding(o)' <=> Holding(o)
                                   /\ Freeing(o)' <=> Freeing(o)
    BY <2>1, <2>2 DEF Holding, Freeing, Unlocking
  <2>5. ~Ending => clientTold' = "unlocked"
    BY <1>0, <1>1, <1>7 DEF UnlockDpms, Ending, Fits
  <2>6. KillsNone'
    BY <2>2, <2>3 DEF KillsNone, Locked, Clean
  <2>7. LockKept'
    BY <1>0, <2>1, <2>2, <2>3, <2>4, <2>5 DEF LockKept, Clean
  <2>8. DimKept'
    BY <1>0, <2>3 DEF DimKept, Clean, Continued
  <2> QED
    BY <2>6, <2>7, <2>8
<1>8. ASSUME NEW t \in Thread, UnlockReset(t)
      PROVE  KillsNone' /\ LockKept' /\ DimKept'
  <2>1. /\ th[t].at = "reset" /\ ~th[t].tell /\ ~Holding(t) /\ Freeing(t)
        /\ th[t].next \notin Acting
    BY <1>0, <1>1, <1>8 DEF UnlockReset, ClientAt, Fits, Holding, Freeing, Unlocking, Acting
  <2>2. /\ th'[t].at = th[t].next /\ ~th'[t].tell
        /\ \A o \in Thread \ {t} : th'[o] = th[o]
    BY <1>0, <1>8, ClientMoves DEF UnlockReset
  <2>3. UNCHANGED <<up, clientTold, idle, dpms, clientHistory>> /\ screen' = None
    BY <1>8 DEF UnlockReset, idleVars
  <2>4. /\ ~Holding(t)' /\ ~Freeing(t)'
        /\ \A o \in Thread \ {t} : /\ Holding(o)' <=> Holding(o)
                                   /\ Freeing(o)' <=> Freeing(o)
    BY <2>1, <2>2 DEF Holding, Freeing, Unlocking, Acting
  <2>5. KillsNone'
    BY <1>0, <2>3 DEF KillsNone, Locked
  <2>6. LockKept'
    <3>1. Clean' /\ ~Ending' => /\ \A o \in Thread : ~Holding(o)'
                                /\ clientTold' = "unlocked"
      BY <1>0, <2>1, <2>3, <2>4 DEF LockKept, Clean
    <3> QED
      BY <2>3, <3>1 DEF LockKept
  <2>7. DimKept'
    BY <1>0, <2>1, <2>3 DEF DimKept, Clean
  <2> QED
    BY <2>5, <2>6, <2>7
<1>9. ASSUME Round
      PROVE  KillsNone' /\ LockKept' /\ DimKept'
  <2>1. /\ th[Exec].at = "idle" /\ th[Exec].unlock /\ ~th[Exec].tell
        /\ UNCHANGED <<screen, up, clientTold, idle, dpms>>
        /\ clientHistory \subseteq clientHistory'
    BY <1>0, <1>1, <1>9 DEF Round, Running, ClientAt, Fits, Alone, stateVars, screenVars,
       idleVars, ClientRaced
  <2>2. CASE Call(Exec, "check", "idle") \/ UNCHANGED th
    <3>1. NoAct
      BY <1>0, <2>1, <2>2, ClientCalm DEF Acting, Unlocking, NoAct
    <3>2. LockAside
      BY <1>0, <2>1, <3>1, ClientEnds DEF LockAside
    <3> QED
      BY <3>2, LockFrame
  <2>3. CASE ~Locked /\ screen # None /\ Call(Exec, "kill", "idle")
    <3>1. /\ th'[Exec].at = "kill" /\ ~th'[Exec].tell
          /\ th'[Disp] = th[Disp]
      BY <1>0, <2>3, ClientMoves
    <3>2. Clean' => Clean /\ th[Disp].at \notin Locking
      BY <1>9, <2>3 DEF Round, ClientRaced, Clean
    <3>3. Clean' => ~Holding(Disp)' /\ ~Holding(Disp) /\ ~Holding(Exec)' /\ ~Holding(Exec)
      BY <1>0, <1>1, <2>1, <3>1, <3>2 DEF Holding, Fits, Locking
    <3>4. KillsNone'
      BY <1>0, <2>1, <2>3, <3>1, <3>2 DEF KillsNone, Locked
    <3>5. LockKept'
      <4> SUFFICES ASSUME Clean', ~Ending' PROVE LockKept'
        BY DEF LockKept
      <4>1. \A o \in Thread : ~Holding(o)' /\ ~Holding(o)
        BY <1>0, <3>3
      <4>2. \A o \in Thread : th'[o].at = "reset" <=> th[o].at = "reset"
        BY <1>0, <2>1, <3>1
      <4> QED
        BY <1>0, <2>1, <3>2, <4>1, <4>2 DEF LockKept
    <3>6. DimKept'
      BY <1>0, <2>1, <3>1, <3>2 DEF DimKept
    <3> QED
      BY <3>4, <3>5, <3>6
  <2> QED
    BY <1>9, <2>2, <2>3 DEF Round
<1>10. ASSUME Shutdown
       PROVE  KillsNone' /\ LockKept' /\ DimKept'
  <2>1. /\ ~th'[Disp].unlock /\ th'[Exec] = th[Exec]
        /\ UNCHANGED <<screen, up, clientHistory>>
    BY <1>0, <1>10 DEF Shutdown, ThreadsFit, Resting, stateVars, screenVars
  <2>2. KillsNone'
    BY <1>0, <2>1 DEF KillsNone, Locked, Clean
  <2>3. Ending'
    BY <2>1 DEF Ending
  <2> QED
    BY <2>2, <2>3 DEF LockKept, DimKept
<1> QED
  BY <1>2, <1>3, <1>4, <1>5, <1>6, <1>7, <1>8, <1>9, <1>10, LockAsides DEF ClientNext, Lock, Unlock

-----------------------------------------------------------------------------
(* The idle process and the timer.                                         *)

\* The idle process has the timeouts of the present ability, unless it is about to be replaced.
IdleFits == th[Disp].at # "idling" /\ idle \in {"run", "paused"} => fits = clientAbility

\* Every step keeps IdleFits.
LEMMA IdleStep ==
    ASSUME ClientTypes, IdleFits, [ClientNext]_sessionVars
    PROVE  IdleFits'
<1>0. /\ ThreadsFit /\ Disp \in Thread /\ Exec \in Thread /\ Disp # Exec
      /\ Thread = {Disp, Exec} /\ Fits(Disp, th[Disp])
  BY ClientThreads DEF ClientTypes, ThreadsFit
<1> DEFINE Aside == /\ UNCHANGED <<clientAbility, fits>>
                    /\ idle' \in {"run", "paused"} => idle \in {"run", "paused"}
                    /\ th[Disp].at = "idling" => th'[Disp].at = "idling"
<1>1. Aside => IdleFits'
  BY DEF IdleFits
<1> USE DEF stateVars, idleVars
<1>2. ASSUME \A o \in Thread \ {Exec} : th'[o] = th[o] PROVE th'[Disp] = th[Disp]
  BY <1>0, <1>2
<1>3. ASSUME NEW t \in Thread, Lock(t) \/ Unlock(t) PROVE Aside
  <2>1. t = Disp => th[Disp].at # "idling"
    BY <1>3 DEF Lock, Unlock, LockExec, LockDpms, Check, Make, LockTell,
       UnlockKill, UnlockDpms,
       UnlockReset, ClientAt
  <2>2. t = Exec => th'[Disp] = th[Disp]
    <3>1. ASSUME t = Exec, Lock(t) PROVE th'[Disp] = th[Disp]
      BY <1>0, <3>1 DEF Lock, LockExec, LockDpms, Check, Make, LockTell, Checked,
         ClientGoto, Return, Raise,
         ThreadsFit
    <3>2. ASSUME t = Exec, Unlock(t) PROVE th'[Disp] = th[Disp]
      BY <1>0, <3>2 DEF Unlock, UnlockKill, UnlockDpms, UnlockReset, ClientGoto, Return,
         ThreadsFit
    <3> QED
      BY <1>3, <3>1, <3>2
  <2>3. /\ UNCHANGED <<clientAbility, fits>>
        /\ idle' \in {"run", "paused"} => idle \in {"run", "paused"}
    BY <1>3 DEF Lock, Unlock, LockExec, LockDpms, Check, Make, LockTell,
       UnlockKill, UnlockDpms,
       UnlockReset, Continued
  <2> QED
    BY <1>0, <2>1, <2>2, <2>3
<1>4. ASSUME Handler PROVE IdleFits'
  <2> USE DEF ClientAt
  <2>1. CASE Source("idle") \/ Source("source")
    <3>1. \/ ClientGoto(Disp, "idling")
          \/ UNCHANGED <<clientAbility, idle, fits>> /\ th[Disp].at # "idling"
      BY <2>1 DEF Source
    <3>2. ClientGoto(Disp, "idling") => th'[Disp].at = "idling"
      BY <1>0, ClientMoves
    <3> QED
      BY <3>1, <3>2 DEF IdleFits
  <2>2. CASE IdleInit \/ Reload
    BY <2>2 DEF IdleInit, Reload, IdleFits
  <2>3. CASE \/ \E force \in BOOLEAN : LockMessage(force)
             \/ KeyMessage
             \/ \E names \in Reports : Status(names)
             \/ PreSleep \/ PostSleep \/ Shutdown \/ ShutdownEnd
    <3>1. th[Disp].at # "idling"
      BY <2>3 DEF LockMessage, KeyMessage, Status, PreSleep, PostSleep, ClientTake,
         Shutdown, ShutdownEnd
    <3>2. /\ UNCHANGED <<clientAbility, fits>>
          /\ idle' \in {"run", "paused"} => idle \in {"run", "paused"}
      BY <2>3 DEF LockMessage, KeyMessage, Status, PreSleep, PostSleep, Shutdown,
         ShutdownEnd
    <3> QED
      BY <1>1, <3>1, <3>2
  <2> QED
    BY <1>4, <2>1, <2>2, <2>3 DEF Handler
<1>5. ASSUME Round \/ Look \/ DropIdle \/ Timer PROVE IdleFits'
  <2>1. \/ \E place : ClientGoto(Exec, place)
        \/ \E place, next : Call(Exec, place, next)
        \/ UNCHANGED th
    <3>1. Round \/ Look \/ DropIdle => \/ \E place : ClientGoto(Exec, place)
                                       \/ \E place, next : Call(Exec, place, next)
                                       \/ UNCHANGED th
      BY DEF Round, Look, DropIdle
    <3>2. Timer => \/ \E place : ClientGoto(Exec, place)
                   \/ \E place, next : Call(Exec, place, next)
                   \/ UNCHANGED th
      BY DEF Timer, Fire, Attempt, Timeout, WakeBackoff, BlankBackoff, BeginLock
    <3> QED
      BY <1>5, <3>1, <3>2
  <2>2. th'[Disp] = th[Disp]
    BY <1>0, <1>2, <2>1, ClientMoves
  <2>3. idle' = "none" \/ UNCHANGED <<clientAbility, fits, idle>>
    BY <1>5 DEF Round, Look, DropIdle, Timer, Fire, Attempt, Timeout, WakeBackoff,
       BlankBackoff
  <2> QED
    BY <2>2, <2>3 DEF IdleFits
<1>6. World \/ UNCHANGED sessionVars => Aside
  BY DEF World, ScreenExits, IdleExits, SleepBegins, Wake, sessionVars
<1> QED
  BY <1>1, <1>3, <1>4, <1>5, <1>6 DEF ClientNext

\* The timer that is queued is the one known, and it is queued only while a lock screen is known.
SleeperKept ==
    clientHistory \cap {"twice", "stray"} = {} =>
        /\ wakes \subseteq {sleeper}
        /\ wakes # {} => screen # None

\* Every step keeps SleeperKept.
LEMMA SleeperStep ==
    ASSUME ClientTypes, SleeperKept, [ClientNext]_sessionVars,
           {"twice", "stray"} \subseteq ClientRace
    PROVE  SleeperKept'
<1>0. wakes \subseteq ClientHandle /\ None \notin Screen \cup ClientHandle
  BY ClientAssumption DEF ClientTypes, ClientFields
<1>1. ASSUME UNCHANGED sleeper, wakes' \subseteq wakes, screen' = screen \/ screen' # None,
             clientHistory \subseteq clientHistory'
      PROVE  SleeperKept'
  BY <1>1 DEF SleeperKept
<1>2. ASSUME CancelSleeper, clientHistory \subseteq clientHistory' PROVE SleeperKept'
  BY <1>2 DEF SleeperKept, CancelSleeper
<1> USE DEF stateVars, screenVars, wakeVars
<1>3. ASSUME NEW t \in Thread, Lock(t) PROVE SleeperKept'
  <2>1. CASE LockExec(t)
    <3> DEFINE free == Screen \ (up \cup {screen})
    <3>1. free # {} => (CHOOSE s \in free : TRUE) \in free
      OBVIOUS
    <3>2. screen' = screen \/ screen' # None
      BY <1>0, <2>1, <3>1 DEF LockExec
    <3> QED
      BY <1>1, <2>1, <3>2 DEF LockExec, ClientRaced
  <2>2. CASE LockDpms(t) \/ LockTell(t)
    BY <1>1, <2>2 DEF LockDpms, LockTell, ClientRaced
  <2>3. CASE Check(t)
    BY <1>1, <1>2, <2>3 DEF Check
  <2>4. CASE Make(t)
    <3>1. /\ clientHistory' = ClientRaced("twice", sleeper # None)
                              \cup ClientRaced("stray", screen = None \/ sleeping)
          /\ wakes' = wakes \cup {sleeper'} /\ screen' = screen
      BY <2>4 DEF Make
    <3>2. clientHistory' \cap {"twice", "stray"} = {} =>
             sleeper = None /\ screen # None /\ clientHistory \cap {"twice", "stray"} = {}
      BY <3>1 DEF ClientRaced
    <3> QED
      BY <1>0, <3>1, <3>2 DEF SleeperKept
  <2> QED
    BY <1>3, <2>1, <2>2, <2>3, <2>4 DEF Lock
<1>4. ASSUME NEW t \in Thread, Unlock(t) PROVE SleeperKept'
  BY <1>1, <1>2, <1>4 DEF Unlock, UnlockKill, UnlockDpms, UnlockReset
<1>5. ASSUME Handler PROVE SleeperKept'
  BY <1>1, <1>2, <1>5 DEF Handler, LockMessage, KeyMessage, Status, PreSleep,
     PostSleep, Source,
     IdleInit, Reload, Shutdown, ShutdownEnd, ClientRaced
<1>6. ASSUME Round \/ Look \/ DropIdle \/ Timer PROVE SleeperKept'
  BY <1>1, <1>2, <1>6 DEF Round, Look, DropIdle, Timer, Fire, Attempt, Timeout,
     WakeBackoff,
     BlankBackoff, ClientRaced
<1>7. ASSUME World \/ UNCHANGED sessionVars PROVE SleeperKept'
  BY <1>1, <1>7 DEF World, ScreenExits, IdleExits, SleepBegins, Wake, sessionVars
<1> QED
  BY <1>3, <1>4, <1>5, <1>6, <1>7 DEF ClientNext

-----------------------------------------------------------------------------
(* The theorems.                                                           *)

\* The invariants hold at first.
LEMMA LockInit ==
    ClientInit => KillsNone /\ LockKept /\ DimKept /\ IdleFits /\ SleeperKept
  BY ClientThreads DEF ClientInit, KillsNone, LockKept, DimKept, IdleFits, SleeperKept, Resting,
     Holding,
     Freeing, Unlocking

\* While both threads rest, the invariants say what a lock leaves behind.
LEMMA RestUndone ==
    ASSUME ClientTypes, LockKept, DimKept, IdleFits, SleeperKept
    PROVE  "undimmed" \in ClientRace => LockUndone
<1> SUFFICES ASSUME "undimmed" \in ClientRace PROVE LockUndone
  OBVIOUS
<1>0. Thread = {Disp, Exec} /\ clientTold \in {"locked", "unlocked"}
      /\ \A t \in Thread : Fits(t, th[t])
  BY ClientThreads DEF ClientTypes, ClientFields, ThreadsFit
<1>1. SleeperIsKnown
  BY DEF SleeperKept, SleeperIsKnown
<1>2. UnlockedIsUndone
  <2> SUFFICES ASSUME AtRest, clientHistory \cap {"late", "twin", "undimmed"} = {}
               PROVE  /\ screen = None => idle # "paused"
                      /\ idle \in {"run", "paused"} => fits = clientAbility
                      /\ clientTold = "locked" <=> screen # None
    BY DEF UnlockedIsUndone
  <2>1. Clean /\ ~Ending /\ "undimmed" \notin clientHistory /\ th[Disp].at # "idling"
    BY <1>0 DEF AtRest, Clean, Ending, Fits, Alone
  <2>2. \A t \in Thread : ~Holding(t) /\ th[t].at # "reset"
    BY <1>0 DEF AtRest, Holding, Fits
  <2> QED
    BY <2>1, <2>2 DEF LockKept, DimKept, IdleFits
<1> QED
  BY <1>1, <1>2 DEF LockUndone

\* Only the user, or its own failure, ends a lock screen that runs.
LEMMA LockStaysStep ==
    ASSUME ClientTypes, KillsNone, [ClientNext]_sessionVars
    PROVE  [clientHistory \cap {"late", "twin"} = {} =>
                \A s \in up \ up' : ScreenExits(s)]_sessionVars
<1> SUFFICES ASSUME Clean, ClientNext, NEW s \in up \ up' PROVE ScreenExits(s)
  BY DEF Clean
<1>1. ASSUME NEW t \in Thread, Lock(t) PROVE up \subseteq up'
  BY <1>1 DEF Lock, LockExec, LockDpms, Check, Make, LockTell, screenVars
<1>2. ASSUME NEW t \in Thread, Unlock(t) PROVE up \subseteq up'
  <2>1. CASE UnlockKill(t)
    BY <2>1 DEF UnlockKill, Killed, KillsNone, Locked, ClientAt
  <2>2. CASE UnlockDpms(t) \/ UnlockReset(t)
    BY <2>2 DEF UnlockDpms, UnlockReset, screenVars
  <2> QED
    BY <1>2, <2>1, <2>2 DEF Unlock
<1>3. Handler \/ Round \/ Look \/ DropIdle \/ Timer => up \subseteq up'
  BY DEF Handler, LockMessage, KeyMessage, Status, PreSleep, PostSleep, Source,
     IdleInit, Reload,
     Shutdown, ShutdownEnd, Round, Look, DropIdle, Timer, Fire, Attempt, Timeout,
     WakeBackoff,
     BlankBackoff, stateVars, screenVars
<1>4. ASSUME World PROVE ScreenExits(s)
  BY <1>4 DEF World, ScreenExits, IdleExits, SleepBegins, Wake, stateVars, screenVars
<1> QED
  BY <1>1, <1>2, <1>3, <1>4 DEF ClientNext

\* The fields of LockerClient have the values the code gives them, and what a thread does fits
\* its place.
THEOREM ClientTyping == ClientSpec => []ClientTypes
  BY ClientTypesInit, ClientTypesStep, PTL DEF ClientSpec

\* Every field of LockerClient has a value that the code gives it (ClientTypeOK).
THEOREM ClientsTyped == ClientSpec => []ClientTypeOK
<1>1. ClientTypes => ClientTypeOK
  BY ClientTyped
<1> QED
  BY <1>1, ClientTyping, PTL

\* What a lock did is undone with it: nothing stays paused, the others have heard of it, and no
\* timer is left that suspends an unlocked system (LockUndone), although both threads run _lock()
\* and _lock_unlock(); unless the two have met, or a process could not be started.
THEOREM LocksUndone ==
    ASSUME {"late", "twin", "twice", "stray", "undimmed"} \subseteq ClientRace
    PROVE  ClientSpec => []LockUndone
<1> DEFINE Inv == KillsNone /\ LockKept /\ DimKept /\ IdleFits /\ SleeperKept
<1>1. ClientInit => Inv
  BY LockInit
<1>2. ClientTypes /\ ClientTypes' /\ Inv /\ [ClientNext]_sessionVars => Inv'
  BY LockStep, IdleStep, SleeperStep
<1>3. ClientTypes /\ Inv => LockUndone
  BY RestUndone
<1> HIDE DEF Inv
<1> QED
  BY <1>1, <1>2, <1>3, ClientTyping, PTL DEF ClientSpec

\* No step of the client ends a lock screen that runs, whichever thread cleans up after one that
\* has exited (LockStays); unless the two threads have met.
THEOREM LocksStay ==
    ASSUME {"late", "twin"} \subseteq ClientRace
    PROVE  ClientSpec => LockStays
<1> DEFINE Inv == KillsNone /\ LockKept /\ DimKept
<1>1. ClientInit => Inv
  BY LockInit
<1>2. ClientTypes /\ ClientTypes' /\ Inv /\ [ClientNext]_sessionVars => Inv'
  BY LockStep
<1>3. ClientTypes /\ Inv /\ [ClientNext]_sessionVars =>
        [clientHistory \cap {"late", "twin"} = {} => \A s \in up \ up' : ScreenExits(s)]_sessionVars
  BY LockStaysStep
<1> HIDE DEF Inv
<1> QED
  BY <1>1, <1>2, <1>3, ClientTyping, PTL DEF ClientSpec, LockStays
=============================================================================
