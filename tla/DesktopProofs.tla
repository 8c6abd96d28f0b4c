---------------------------- MODULE DesktopProofs ----------------------------
(***************************************************************************)
(* Proofs about Desktop, for any pictures, outputs, viewers, tasks and     *)
(* number of waiting messages: its types, and that at rest one rotation    *)
(* runs when it should, the guard of the conversion is open, and the size  *)
(* that pictures are converted to is that of the largest output that is    *)
(* lit.  Each of the three has its own invariant, about what a thread is   *)
(* on its way to: the end of _change(), the end of _background(), and the  *)
(* message that tells the new size.                                        *)
(***************************************************************************)
EXTENDS Desktop, ListLemmas, FiniteSetTheorems, WellFoundedInduction

\* A set of numbers that is not empty has a least one.
LEMMA LeastIs ==
    ASSUME NEW nums \in SUBSET Nat, nums # {}
    PROVE  /\ \E x \in nums : \A y \in nums : x <= y
           /\ Min(nums) \in nums
<1> DEFINE Less == OpToRel(<, Nat)
<1>1. Less = {p \in Nat \X Nat : p[1] < p[2]}
  BY DEF OpToRel
<1>2. PICK x \in nums : \A y \in nums : ~(<<y, x>> \in Less)
  <2>1. IsWellFoundedOn(Less, Nat)
    BY NatLessThanWellFounded
  <2> HIDE DEF Less
  <2> QED
    BY <2>1, WFMin
<1>3. \A y \in nums : x <= y
  <2> HIDE DEF Less
  <2> SUFFICES ASSUME NEW y \in nums, ~(x <= y) PROVE FALSE
    OBVIOUS
  <2>1. <<y, x>> \in Nat \X Nat /\ <<y, x>>[1] < <<y, x>>[2]
    OBVIOUS
  <2> QED
    BY <1>1, <1>2, <2>1
<1> QED
  BY <1>3 DEF Min

\* And a largest one, if it is finite.
LEMMA LargestIs ==
    ASSUME NEW nums \in SUBSET Nat, nums # {}, IsFiniteSet(nums)
    PROVE  Max(nums) \in nums
<1> DEFINE Above(x) == {z \in nums : z > x}
           Counts == {Cardinality(Above(x)) : x \in nums}
<1>1. \A x \in nums : IsFiniteSet(Above(x))
  BY FS_Subset
<1>2. Counts \in SUBSET Nat /\ Counts # {}
  BY <1>1, FS_CardinalityType
<1>3. PICK x \in nums : \A y \in nums : Cardinality(Above(x)) <= Cardinality(Above(y))
  <2> HIDE DEF Counts, Above
  <2>1. PICK n \in Counts : \A m \in Counts : n <= m
    BY <1>2, LeastIs
  <2> QED
    BY <2>1 DEF Counts
<1>4. ASSUME NEW y \in nums, ~(y <= x) PROVE FALSE
  <2>0. x \in Nat /\ y \in Nat /\ x < y /\ \A z \in nums : z \in Nat
    BY <1>4
  <2> HIDE DEF Counts
  <2>1. Above(y) \subseteq Above(x) /\ y \in Above(x) /\ y \notin Above(y)
    <3>1. Above(y) \subseteq Above(x)
      <4> SUFFICES ASSUME NEW z \in Above(y) PROVE z \in Above(x)
        OBVIOUS
      <4> QED
        BY <2>0
    <3>2. y \in Above(x)
      BY <2>0
    <3>3. y \notin Above(y)
      BY <2>0
    <3> QED
      BY <3>1, <3>2, <3>3
  <2>2. Cardinality(Above(y)) < Cardinality(Above(x))
    <3> HIDE DEF Above
    <3>1. Cardinality(Above(y)) <= Cardinality(Above(x)) - 1 \/ Above(y) = Above(x)
      BY <1>1, <2>1, FS_Subset, FS_CardinalityType
    <3> QED
      BY <1>1, <2>1, <3>1, FS_CardinalityType
  <2> HIDE DEF Above
  <2> QED
    BY <1>1, <1>3, <2>2, FS_CardinalityType
<1> QED
  BY <1>4 DEF Max

-----------------------------------------------------------------------------
(* Background and Display: what a thread does.                             *)

\* The places in _background(), and those where a picture is put up.
Inside == {"size", "guard", "show", "replace", "convert", "mark"}
Past == {"show", "replace", "convert", "mark"}

RunStage ==
    [at : Inside \cup {"idle", "again", "down", "dead"},
     found : Nat \cup {None}, old : Viewer \cup {None}, pic : Picture \cup {None},
     started : BOOLEAN, next : {"idle", "again"}]

\* What follows _background() for a thread.
After(t) == IF t = Exec THEN "again" ELSE "idle"

\* What a thread does fits its place: outside of _background() it carries nothing.
RunFits(t, r) ==
    /\ r \in RunStage
    /\ r.at \in Inside => r.next = After(t)
    /\ r.at \in Past => r.pic \in Picture
    /\ r.at \notin Inside => r = [Resting EXCEPT !.at = r.at]
    /\ t = Disp => r.at \in Inside \cup {"idle", "down"}
    /\ t = Exec => r.at \in Inside \cup {"idle", "again", "dead"}

RunsFit ==
    /\ run = [t \in Thread |-> run[t]]
    /\ \A t \in Thread : RunFits(t, run[t])

\* The other fields.
DesktopFields ==
    /\ {enabled, auto, lock, unseen} \subseteq BOOLEAN
    /\ handle \in Handle \cup {None} /\ tasks \subseteq Handle
    /\ size \in Nat \cup {None}
    /\ proc \in Viewer \cup {None} /\ viewers \subseteq Viewer
    /\ converting \cup cache \subseteq Picture /\ linked \in Picture \cup {None}
    /\ history \subseteq Race
    /\ output \in [Output -> {"gone", "off", "on"}]
    /\ last \in [Output -> {"unknown", "off", "on"}]
    /\ inbox \in Seq({"monitor", "display"})

\* The invariant of the types.
DesktopTypes == DesktopFields /\ RunsFit

\* A client has two threads.
LEMMA DesktopThreads ==
    /\ Thread = {Disp, Exec} /\ Disp # Exec
    /\ Other(Disp) = Exec /\ Other(Exec) = Disp
<1>1. Thread = {Disp, Exec} /\ Disp # Exec
  BY BackgroundAssumption DEF Thread
<1> QED
  BY <1>1 DEF Other

\* The invariant says what TypeOK says of Desktop.
LEMMA DesktopTyped ==
    DesktopTypes => TypeOK
<1> SUFFICES ASSUME DesktopTypes PROVE TypeOK
  OBVIOUS
<1>1. run \in [Thread -> RunStage]
  BY DEF DesktopTypes, RunsFit, RunFits
<1>2. ASSUME NEW t \in Thread, run[t].at = "idle" PROVE run[t] = Resting
  <2>1. RunFits(t, run[t])
    BY DEF DesktopTypes, RunsFit
  <2>2. run[t] = [Resting EXCEPT !.at = run[t].at]
    BY <1>2, <2>1 DEF RunFits, Inside
  <2> QED
    BY <1>2, <2>2 DEF Resting
<1> QED
  BY <1>1, <1>2 DEF DesktopTypes, DesktopFields, TypeOK, BackgroundTypeOK, RunStage, Inside

\* The largest size is one of an output, or there is none.
LEMMA SizesTyped ==
    DesktopFields => Sizes \subseteq Nat \cup {None}
<1>1. Lit \in SUBSET Nat /\ IsFiniteSet(Lit)
  BY DisplayAssumption, FS_Subset DEF Lit
<1>2. Lit # {} => Max(Lit) \in Nat
  BY <1>1, LargestIs
<1> QED
  BY <1>2 DEF Sizes, Largest

\* A thread that does something else.
LEMMA RunMove ==
    ASSUME RunsFit, NEW t \in Thread, NEW r, RunFits(t, r), run' = [run EXCEPT ![t] = r]
    PROVE  RunsFit'
<1>1. \A o \in Thread : run'[o] = IF o = t THEN r ELSE run[o]
  BY DEF RunsFit
<1>2. run' = [o \in Thread |-> run'[o]]
  BY DEF RunsFit
<1>3. \A o \in Thread : RunFits(o, run'[o])
  BY <1>1 DEF RunsFit
<1> QED
  BY <1>2, <1>3 DEF RunsFit

\* A thread at a place of _background() carries what belongs to it.
LEMMA InsideFits ==
    ASSUME RunsFit, NEW t \in Thread
    PROVE  /\ run[t] \in RunStage /\ RunFits(t, run[t])
           /\ run[t].at \in Inside => run[t].next = After(t)
           /\ run[t].at \in Past => run[t].pic \in Picture
           /\ run[t].at \notin Inside => run[t].next = "idle" /\ run[t].found = None
  BY DEF RunsFit, RunFits, Resting

\* _background() begins, or has nothing to do.
LEMMA BeginFits ==
    ASSUME RunsFit, NEW t \in Thread, NEW found \in Nat \cup {None}, size \in Nat \cup {None},
           Begin(t, found, After(t))
    PROVE  RunsFit'
<1>1. PICK goes \in BOOLEAN :
        run' = [run EXCEPT ![t] =
                   IF goes /\ enabled
                   THEN [Resting EXCEPT !.at = "size", !.next = After(t),
                                        !.found = IF size = None THEN found ELSE size]
                   ELSE [Resting EXCEPT !.at = After(t)]]
  BY DEF Begin
<1> DEFINE r == IF goes /\ enabled
                THEN [Resting EXCEPT !.at = "size", !.next = After(t),
                                     !.found = IF size = None THEN found ELSE size]
                ELSE [Resting EXCEPT !.at = After(t)]
<1>2. RunFits(t, r)
  BY DesktopThreads DEF RunFits, RunStage, Inside, Past, Resting, After
<1> QED
  BY <1>1, <1>2, RunMove

\* What it does to the threads.
LEMMA BeginMoves ==
    ASSUME RunsFit, NEW t \in Thread, NEW found, NEW next, Begin(t, found, next)
    PROVE  /\ \A o \in Thread \ {t} : run'[o] = run[o]
           /\ \/ /\ run'[t].at = "size" /\ run'[t].next = next
                 /\ run'[t].found = IF size = None THEN found ELSE size
              \/ run'[t].at = next /\ run'[t].next = "idle"
<1>1. PICK goes \in BOOLEAN :
        run' = [run EXCEPT ![t] =
                   IF goes /\ enabled
                   THEN [Resting EXCEPT !.at = "size", !.next = next,
                                        !.found = IF size = None THEN found ELSE size]
                   ELSE [Resting EXCEPT !.at = next]]
  BY DEF Begin
<1>2. t \in DOMAIN run
  BY DEF RunsFit
<1> QED
  BY <1>1, <1>2 DEF Resting

\* The end of _background(), and an exception in it.
LEMMA LeaveFits ==
    ASSUME RunsFit, NEW t \in Thread, run[t].at \in Inside, Return(t) \/ Raise(t)
    PROVE  RunsFit'
<1>1. run[t].next = After(t)
  BY InsideFits
<1>2. \A place \in {"idle", "again", "dead"} :
        (t = Disp => place = "idle") => RunFits(t, [Resting EXCEPT !.at = place])
  BY DesktopThreads DEF RunFits, RunStage, Inside, Past, Resting, After
<1>3. ASSUME Return(t) PROVE RunsFit'
  <2>1. RunFits(t, [Resting EXCEPT !.at = run[t].next])
    BY <1>1, <1>2, DesktopThreads DEF After
  <2> QED
    BY <1>3, <2>1, RunMove DEF Return
<1>4. ASSUME Raise(t) PROVE RunsFit'
  <2>1. RunFits(t, [Resting EXCEPT !.at = IF t = Exec THEN "dead" ELSE "idle"])
    BY <1>2, DesktopThreads
  <2> QED
    BY <1>4, <2>1, RunMove DEF Raise
<1> QED
  BY <1>3, <1>4

\* Every step of _background() leaves the threads at places that fit.
LEMMA ChangeFits ==
    ASSUME DesktopFields, RunsFit, NEW t \in Thread, Change(t)
    PROVE  RunsFit'
<1>0. run[t] \in RunStage /\ RunFits(t, run[t])
  BY InsideFits
<1> DEFINE r == run[t]
<1>1. ASSUME r.at \in Inside, NEW q \in RunStage, q.at \in Inside, q.next = r.next,
             q.at \in Past => q.pic \in Picture,
             run' = [run EXCEPT ![t] = q]
      PROVE  RunsFit'
  <2>1. RunFits(t, q)
    BY <1>0, <1>1 DEF RunFits, Inside, Past
  <2> QED
    BY <1>1, <2>1, RunMove
<1>2. CASE Size(t)
  <2>1. r.at = "size"
    BY <1>2 DEF Size, At
  <2>2. CASE Return(t)
    BY <2>1, <2>2, LeaveFits DEF Inside
  <2>3. CASE run' = [run EXCEPT ![t].at = "guard", ![t].found = None]
    <3>1. [r EXCEPT !.at = "guard", !.found = None] \in RunStage
      BY <1>0 DEF RunStage, Inside
    <3>2. run' = [run EXCEPT ![t] = [r EXCEPT !.at = "guard", !.found = None]]
      BY <2>3 DEF RunsFit
    <3> QED
      BY <1>0, <1>1, <2>1, <3>1, <3>2 DEF RunFits, RunStage, Inside, Past
  <2> QED
    BY <1>2, <2>2, <2>3 DEF Size
<1>3. CASE Guard(t)
  <2>1. r.at = "guard"
    BY <1>3 DEF Guard, At
  <2>2. CASE Return(t)
    BY <2>1, <2>2, LeaveFits DEF Inside
  <2>3. ASSUME NEW p \in Picture, run' = [run EXCEPT ![t].at = "show", ![t].pic = p]
        PROVE  RunsFit'
    <3>1. [r EXCEPT !.at = "show", !.pic = p] \in RunStage
      BY <1>0 DEF RunStage, Inside
    <3>2. run' = [run EXCEPT ![t] = [r EXCEPT !.at = "show", !.pic = p]]
      BY <2>3 DEF RunsFit
    <3> QED
      BY <1>0, <1>1, <2>1, <3>1, <3>2 DEF RunFits, RunStage, Inside, Past
  <2> QED
    BY <1>3, <2>2, <2>3 DEF Guard
<1>4. CASE Show(t)
  <2>1. r.at = "show" /\ run' = [run EXCEPT ![t].at = "replace", ![t].old = proc]
    BY <1>4 DEF Show, At
  <2>2. [r EXCEPT !.at = "replace", !.old = proc] \in RunStage
    BY <1>0 DEF RunStage, Inside, DesktopFields
  <2>3. run' = [run EXCEPT ![t] = [r EXCEPT !.at = "replace", !.old = proc]]
    BY <2>1 DEF RunsFit
  <2> QED
    BY <1>0, <1>1, <2>1, <2>2, <2>3 DEF RunFits, RunStage, Inside, Past
<1>5. CASE Replace(t)
  <2>1. r.at = "replace" /\ run' = [run EXCEPT ![t].at = "convert", ![t].old = None]
    BY <1>5 DEF Replace, At
  <2>2. [r EXCEPT !.at = "convert", !.old = None] \in RunStage
    BY <1>0 DEF RunStage, Inside
  <2>3. run' = [run EXCEPT ![t] = [r EXCEPT !.at = "convert", !.old = None]]
    BY <2>1 DEF RunsFit
  <2> QED
    BY <1>0, <1>1, <2>1, <2>2, <2>3 DEF RunFits, RunStage, Inside, Past
<1>6. CASE Convert(t)
  <2>1. r.at = "convert"
    BY <1>6 DEF Convert, At
  <2>2. CASE Raise(t)
    BY <2>1, <2>2, LeaveFits DEF Inside
  <2>3. CASE run' = [run EXCEPT ![t].at = "mark"]
    <3>1. [r EXCEPT !.at = "mark"] \in RunStage
      BY <1>0 DEF RunStage, Inside
    <3>2. run' = [run EXCEPT ![t] = [r EXCEPT !.at = "mark"]]
      BY <2>3 DEF RunsFit
    <3> QED
      BY <1>0, <1>1, <2>1, <3>1, <3>2 DEF RunFits, RunStage, Inside, Past
  <2>4. CASE run' = [run EXCEPT ![t].at = "mark", ![t].started = TRUE]
    <3>1. [r EXCEPT !.at = "mark", !.started = TRUE] \in RunStage
      BY <1>0 DEF RunStage, Inside
    <3>2. run' = [run EXCEPT ![t] = [r EXCEPT !.at = "mark", !.started = TRUE]]
      BY <2>4 DEF RunsFit
    <3> QED
      BY <1>0, <1>1, <2>1, <3>1, <3>2 DEF RunFits, RunStage, Inside, Past
  <2> QED
    BY <1>6, <2>2, <2>3, <2>4 DEF Convert
<1>7. CASE Mark(t)
  BY <1>7, LeaveFits DEF Mark, At, Inside
<1> QED
  BY <1>2, <1>3, <1>4, <1>5, <1>6, <1>7 DEF Change

\* Every step does.
LEMMA RunsFitStep ==
    ASSUME DesktopFields, RunsFit, [Next]_vars
    PROVE  RunsFit'
<1>0. Disp \in Thread /\ Exec \in Thread /\ Disp # Exec /\ After(Exec) = "again"
      /\ After(Disp) = "idle" /\ size \in Nat \cup {None}
  BY DesktopThreads DEF After, DesktopFields
<1>1. UNCHANGED run => RunsFit'
  BY DEF RunsFit, RunFits
<1>2. ASSUME NEW t \in Thread, Change(t) PROVE RunsFit'
  BY <1>2, ChangeFits
<1>3. ASSUME NEW h \in Handle, NEW found \in Sizes, Fire(h, found) PROVE RunsFit'
  BY <1>0, <1>3, SizesTyped, BeginFits DEF Fire
<1>4. CASE Again
  <2>1. RunFits(Exec, Resting)
    BY DesktopThreads DEF RunFits, RunStage, Inside, Past, Resting
  <2> QED
    BY <1>0, <1>4, <2>1, RunMove DEF Again
<1>5. ASSUME NEW found \in Sizes, Picked(found) PROVE RunsFit'
  BY <1>0, <1>5, SizesTyped, BeginFits DEF Picked
<1>6. ASSUME NEW found \in Sizes, Resized(found) PROVE RunsFit'
  <2>1. RunFits(Disp, [Resting EXCEPT !.at = "size", !.found = found])
    BY <1>6, SizesTyped, DesktopThreads DEF RunFits, RunStage, Inside, Past, Resting, After
  <2> QED
    BY <1>0, <1>1, <1>6, <2>1, RunMove DEF Resized
<1>7. CASE Shutdown
  <2>1. RunFits(Disp, [Resting EXCEPT !.at = "down"])
    BY DesktopThreads DEF RunFits, RunStage, Inside, Past, Resting
  <2>2. run[Disp] = Resting /\ run' = [run EXCEPT ![Disp].at = "down"]
    BY <1>0, <1>7 DEF Shutdown, BackgroundShutdown, At, Goto, RunsFit, RunFits, Inside, Resting
  <2>3. run' = [run EXCEPT ![Disp] = [Resting EXCEPT !.at = "down"]]
    BY <2>2
  <2> QED
    BY <1>0, <2>1, <2>3, RunMove
<1>8. MonitorMessage \/ Reload \/ (\E o \in Output : Plugs(o)) \/ (\E p \in Picture : Link(p))
          \/ UNCHANGED vars => UNCHANGED run
  BY DEF MonitorMessage, Reload, BackgroundReload, Plugs, Link, vars, backgroundVars
<1> QED
  BY <1>1, <1>2, <1>3, <1>4, <1>5, <1>6, <1>7, <1>8 DEF Next, Rotate, Handler, DisplayMessage,
     BackgroundMessage

\* What happened is recorded.
LEMMA DesktopRaces ==
    \A r, happened :
        /\ history \subseteq Raced(r, happened)
        /\ history \subseteq Race => Raced(r, happened) \subseteq Race
        /\ happened /\ r \in Race => r \in Raced(r, happened)
  BY DEF Raced

\* No step makes it undone.
LEMMA DesktopMonotone ==
    [Next]_vars => history \subseteq history'
<1>1. ASSUME NEW t \in Thread, Change(t) PROVE history \subseteq history'
  BY <1>1, DesktopRaces DEF Change, Size, Guard, Show, Replace, Convert, Mark
<1>2. Rotate(Sizes) => history \subseteq history'
  BY DesktopRaces DEF Rotate, Fire, Again, Link
<1>3. MonitorMessage \/ (\E o \in Output : Plugs(o)) \/ UNCHANGED vars => history \subseteq history'
  BY DEF MonitorMessage, Plugs, vars, backgroundVars
<1>4. DisplayMessage \/ BackgroundMessage \/ Reload \/ Shutdown => history \subseteq history'
  BY DesktopRaces DEF DisplayMessage, BackgroundMessage, Reload, Shutdown, Resized, Picked,
     BackgroundReload, BackgroundShutdown
<1> QED
  BY <1>1, <1>2, <1>3, <1>4 DEF Next, Handler

\* Listing the outputs leaves them at what they may be.
LEMMA CheckTyped ==
    ASSUME output \in [Output -> {"gone", "off", "on"}],
           last \in [Output -> {"unknown", "off", "on"}],
           NEW closed \in BOOLEAN, Check(closed)
    PROVE  /\ output' \in [Output -> {"gone", "off", "on"}]
           /\ last' \in [Output -> {"unknown", "off", "on"}]
<1>1. \A o \in Output : Read[o] \in {"unknown", "off", "on"}
  BY DEF Read, Connected
<1>2. last' = Read /\ Read = [o \in Output |-> Read[o]]
  BY DEF Check, Read
<1>3. output' \in [Output -> {"gone", "off", "on"}]
  BY DEF Check
<1> QED
  BY <1>1, <1>2, <1>3

\* The messages that wait.
LEMMA WaitingTyped ==
    ASSUME inbox \in Seq({"monitor", "display"})
    PROVE  /\ \A m \in {"monitor", "display"} :
                /\ Append(inbox, m) \in Seq({"monitor", "display"})
                /\ inbox # <<>> => Append(Front(inbox), m) \in Seq({"monitor", "display"})
           /\ inbox # <<>> => Front(inbox) \in Seq({"monitor", "display"})
<1>1. inbox # <<>> => Front(inbox) \in Seq({"monitor", "display"})
  <2>1. Len(inbox) \in Nat /\ (inbox # <<>> => Len(inbox) > 0)
    OBVIOUS
  <2> QED
    BY <2>1, SubSeqProperties DEF Front
<1> QED
  BY <1>1

\* Every step gives the other fields values that the code gives them.
LEMMA DesktopFieldsStep ==
    ASSUME DesktopFields, RunsFit, [Next]_vars
    PROVE  DesktopFields'
<1> DEFINE Outputs == /\ output \in [Output -> {"gone", "off", "on"}]
                      /\ last \in [Output -> {"unknown", "off", "on"}]
           Rotations == /\ {enabled, auto, lock} \subseteq BOOLEAN
                        /\ handle \in Handle \cup {None} /\ tasks \subseteq Handle
                        /\ size \in Nat \cup {None}
           Pictures == /\ proc \in Viewer \cup {None} /\ viewers \subseteq Viewer
                       /\ converting \cup cache \subseteq Picture
                       /\ linked \in Picture \cup {None}
           Waits == inbox \in Seq({"monitor", "display"}) /\ unseen \in BOOLEAN
<1>1. Outputs /\ Rotations /\ Pictures /\ Waits
  BY DEF DesktopFields
<1>2. ASSUME Outputs', Rotations', Pictures', Waits', history' \subseteq Race PROVE DesktopFields'
  BY <1>2 DEF DesktopFields
<1>3. history \subseteq Race
  BY DEF DesktopFields
<1>4. UNCHANGED displayVars => Outputs'
  BY <1>1 DEF displayVars
<1>5. UNCHANGED <<rotationVars, lock, size>> => Rotations'
  BY <1>1 DEF rotationVars
<1>6. UNCHANGED <<viewerVars, imageVars>> => Pictures'
  BY <1>1 DEF viewerVars, imageVars
<1>7. UNCHANGED systemVars => Waits'
  BY <1>1 DEF systemVars
<1>8. \A nums \in SUBSET Handle : nums # {} => Min(nums) \in Handle
  BY LeastIs, BackgroundAssumption
<1>9. \A nums \in SUBSET Viewer : nums # {} => Min(nums) \in Viewer
  BY LeastIs, BackgroundAssumption
<1> HIDE DEF Outputs, Waits
<1>10. ASSUME NEW t \in Thread, Change(t), UNCHANGED <<displayVars, systemVars>>
       PROVE  DesktopFields'
  <2>0. run[t] \in RunStage
    BY InsideFits
  <2>1. history' \subseteq Race
    BY <1>3, <1>10, DesktopRaces DEF Change, Size, Guard, Show, Replace, Convert, Mark
  <2>2. Rotations'
    <3>1. CASE Size(t)
      BY <1>1, <2>0, <3>1 DEF Size, rotationVars, RunStage
    <3>2. CASE Guard(t)
      BY <1>1, <3>2 DEF Guard, rotationVars
    <3>3. CASE Show(t) \/ Replace(t)
      BY <1>1, <3>3 DEF Show, Replace, rotationVars
    <3>4. CASE Convert(t)
      BY <1>1, <3>4 DEF Convert, rotationVars
    <3>5. CASE Mark(t)
      BY <1>1, <2>0, <3>5 DEF Mark, Marked, rotationVars, RunStage
    <3> QED
      BY <1>10, <3>1, <3>2, <3>3, <3>4, <3>5 DEF Change
  <2>3. Pictures'
    <3>1. CASE Size(t) \/ Guard(t) \/ Show(t) \/ Mark(t)
      BY <1>6, <3>1 DEF Size, Guard, Show, Mark
    <3>2. CASE Replace(t)
      <4>1. CASE UNCHANGED viewerVars
        BY <1>6, <3>2, <4>1 DEF Replace
      <4>2. ASSUME NEW free \in SUBSET Viewer, free # {}, proc' = Min(free),
                   viewers' = Stopped(t) \cup {proc'}
            PROVE  Pictures'
        BY <1>1, <1>9, <3>2, <4>2 DEF Replace, imageVars, Stopped
      <4> QED
        BY <3>2, <4>1, <4>2 DEF Replace
    <3>3. CASE Convert(t)
      <4>1. run[t].at = "convert" /\ t \in Thread
        BY <3>3 DEF Convert, At
      <4>2. run[t].pic \in Picture
        BY <4>1, InsideFits DEF Past
      <4>3. CASE UNCHANGED imageVars
        BY <1>6, <3>3, <4>3 DEF Convert
      <4>4. CASE run[t].pic \in cache /\ linked' = run[t].pic /\ UNCHANGED <<converting, cache>>
        BY <1>1, <3>3, <4>2, <4>4 DEF Convert, viewerVars
      <4>5. CASE converting' = converting \cup {run[t].pic} /\ UNCHANGED <<cache, linked>>
        BY <1>1, <3>3, <4>2, <4>5 DEF Convert, viewerVars
      <4> QED
        BY <3>3, <4>3, <4>4, <4>5 DEF Convert
    <3> QED
      BY <1>10, <3>1, <3>2, <3>3 DEF Change
  <2> QED
    BY <1>2, <1>4, <1>7, <1>10, <2>1, <2>2, <2>3
<1>11. ASSUME Rotate(Sizes), UNCHANGED <<displayVars, systemVars>> PROVE DesktopFields'
  <2>1. history' \subseteq Race
    BY <1>3, <1>11, DesktopRaces DEF Rotate, Fire, Again, Link
  <2>2. Rotations'
    <3>1. ASSUME NEW h \in Handle, NEW found \in Sizes, Fire(h, found) PROVE Rotations'
      BY <1>1, <3>1 DEF Fire
    <3>2. CASE Again
      <4>1. Unused \in SUBSET Handle
        BY DEF Unused
      <4> QED
        BY <1>1, <1>8, <3>2, <4>1 DEF Again
    <3>3. ASSUME NEW p \in Picture, Link(p) PROVE Rotations'
      BY <1>1, <3>3 DEF Link, rotationVars
    <3> QED
      BY <1>11, <3>1, <3>2, <3>3 DEF Rotate
  <2>3. Pictures'
    <3>1. ASSUME NEW p \in Picture, Link(p) PROVE Pictures'
      BY <1>1, <3>1 DEF Link, viewerVars
    <3> QED
      BY <1>6, <1>11, <3>1 DEF Rotate, Fire, Again
  <2> QED
    BY <1>2, <1>4, <1>7, <1>11, <2>1, <2>2, <2>3
<1>12. ASSUME MonitorMessage PROVE DesktopFields'
  <2>1. UNCHANGED <<rotationVars, lock, size, viewerVars, imageVars, history>>
    BY <1>12 DEF MonitorMessage, backgroundVars
  <2>2. Outputs'
    BY <1>1, <1>4, <1>12, CheckTyped DEF MonitorMessage, Outputs
  <2>3. Waits'
    BY <1>1, <1>12, WaitingTyped DEF MonitorMessage, Waits
  <2> QED
    BY <1>2, <1>3, <1>5, <1>6, <2>1, <2>2, <2>3
<1>13. ASSUME DisplayMessage PROVE DesktopFields'
  <2>1. PICK found \in Sizes : Resized(found)
    BY <1>13 DEF DisplayMessage
  <2>2. Rotations' /\ Pictures' /\ history' \subseteq Race
    BY <1>1, <1>3, <1>6, <2>1, DesktopRaces DEF Resized, rotationVars
  <2>3. Waits'
    BY <1>1, <1>13, WaitingTyped DEF DisplayMessage, Take, Waits
  <2> QED
    BY <1>2, <1>4, <1>13, <2>2, <2>3 DEF DisplayMessage
<1>14. ASSUME BackgroundMessage PROVE DesktopFields'
  <2>1. UNCHANGED <<rotationVars, lock, size, viewerVars, imageVars, history, displayVars,
                    systemVars>>
    BY <1>14 DEF BackgroundMessage, Picked
  <2> QED
    BY <1>2, <1>3, <1>4, <1>5, <1>6, <1>7, <2>1
<1>15. ASSUME Reload PROVE DesktopFields'
  <2>1. PICK on \in BOOLEAN, rotates \in BOOLEAN : BackgroundReload(on, rotates)
    BY <1>15 DEF Reload
  <2>2. Rotations'
    <3>1. Handle \ tasks \in SUBSET Handle
      OBVIOUS
    <3> QED
      BY <1>1, <1>8, <2>1, <3>1 DEF BackgroundReload, Cancelled
  <2>3. history' \subseteq Race
    BY <1>3, <2>1, DesktopRaces DEF BackgroundReload
  <2>4. Outputs'
    BY <1>1, <1>4, <1>15, CheckTyped DEF Reload, Outputs
  <2> QED
    BY <1>2, <1>6, <1>7, <1>15, <2>1, <2>2, <2>3, <2>4 DEF Reload, BackgroundReload
<1>16. ASSUME Shutdown PROVE DesktopFields'
  <2>1. Rotations' /\ Pictures'
    BY <1>1, <1>16 DEF Shutdown, BackgroundShutdown, imageVars
  <2> QED
    BY <1>2, <1>3, <1>4, <1>7, <1>16, <2>1 DEF Shutdown, BackgroundShutdown
<1>17. ASSUME NEW o \in Output, Plugs(o) PROVE DesktopFields'
  <2>1. UNCHANGED <<rotationVars, lock, size, viewerVars, imageVars, history>>
    BY <1>17 DEF Plugs, backgroundVars
  <2>2. Outputs'
    BY <1>1, <1>17 DEF Plugs, Plug, Unplug, Outputs
  <2>3. Waits'
    BY <1>1, <1>17, WaitingTyped DEF Plugs, Waits
  <2> QED
    BY <1>2, <1>3, <1>5, <1>6, <2>1, <2>2, <2>3
<1>18. ASSUME UNCHANGED vars PROVE DesktopFields'
  BY <1>2, <1>3, <1>4, <1>5, <1>6, <1>7, <1>18 DEF vars, backgroundVars, systemVars
<1> QED
  BY <1>10, <1>11, <1>12, <1>13, <1>14, <1>15, <1>16, <1>17, <1>18 DEF Next, Handler

-----------------------------------------------------------------------------
(* The rotation.                                                           *)

\* Is the executer in _change(), or at its end?
Changing == run[Exec].next = "again" \/ run[Exec].at = "again"

\* The rotation has one task, or the executer is about to give it one; unless a reload has
\* begun another.
RotationKept ==
    "forked" \notin history =>
        /\ tasks \subseteq {handle}
        /\ tasks # {} => enabled /\ auto
        /\ Changing => tasks = {}
        /\ enabled /\ auto => \/ tasks # {} \/ Changing
                              \/ run[Disp].at = "down" \/ run[Exec].at = "dead"

\* What a step of _background() does to the threads.
LEMMA ChangeMoves ==
    ASSUME RunsFit, NEW t \in Thread, Change(t)
    PROVE  /\ run[t].at \in Inside
           /\ \A o \in Thread \ {t} : run'[o] = run[o]
           /\ UNCHANGED rotationVars
<1>1. run[t].at \in Inside
  BY DEF Change, Size, Guard, Show, Replace, Convert, Mark, At, Inside
<1>2. UNCHANGED rotationVars
  BY DEF Change, Size, Guard, Show, Replace, Convert, Mark
<1>3. \A o \in Thread \ {t} : run'[o] = run[o]
  <2>1. \A q : run' = [run EXCEPT ![t] = q] => \A o \in Thread \ {t} : run'[o] = run[o]
    BY DEF RunsFit
  <2>2. Return(t) \/ Raise(t) => \E q : run' = [run EXCEPT ![t] = q]
    BY DEF Return, Raise
  <2>3. CASE Size(t)
    BY <2>1, <2>2, <2>3 DEF Size
  <2>4. CASE Guard(t)
    BY <2>1, <2>2, <2>4 DEF Guard
  <2>5. CASE Show(t) \/ Replace(t)
    BY <2>1, <2>5 DEF Show, Replace
  <2>6. CASE Convert(t)
    BY <2>1, <2>2, <2>6 DEF Convert
  <2>7. CASE Mark(t)
    BY <2>1, <2>2, <2>7 DEF Mark
  <2> QED
    BY <2>3, <2>4, <2>5, <2>6, <2>7 DEF Change
<1> QED
  BY <1>1, <1>2, <1>3

\* A thread amidst _background() stays there, or goes on to what follows it.
LEMMA ChangeEnds ==
    ASSUME DesktopFields, RunsFit, RunsFit', NEW t \in Thread, Change(t)
    PROVE  /\ t = Exec => run'[Exec].next = "again" \/ run'[Exec].at \in {"again", "dead"}
           /\ t = Disp => run'[Disp].at # "down"
<1>1. run[t].at \in Inside /\ run[t].next = After(t)
  BY ChangeMoves, InsideFits
<1>2. RunFits(t, run'[t]) /\ t \in DOMAIN run
  BY DEF RunsFit
<1>3. run'[t].at \in Inside \cup {run[t].next, IF t = Exec THEN "dead" ELSE "idle"}
  <2>1. Return(t) => run'[t].at = run[t].next
    BY <1>2 DEF Return, Resting
  <2>2. Raise(t) => run'[t].at = IF t = Exec THEN "dead" ELSE "idle"
    BY <1>2 DEF Raise, Resting
  <2>3. run[t] \in RunStage
    BY InsideFits
  <2>4. CASE Size(t)
    BY <1>2, <2>1, <2>3, <2>4 DEF Size, Inside, RunStage
  <2>5. CASE Guard(t)
    <3>1. \A p : run' = [run EXCEPT ![t].at = "show", ![t].pic = p] => run'[t].at = "show"
      BY <1>2, <2>3 DEF RunStage
    <3> QED
      BY <2>1, <2>5, <3>1 DEF Guard, Inside
  <2>6. CASE Show(t) \/ Replace(t)
    BY <1>2, <2>3, <2>6 DEF Show, Replace, Inside, RunStage
  <2>7. CASE Convert(t)
    BY <1>2, <2>2, <2>3, <2>7 DEF Convert, Inside, RunStage
  <2>8. CASE Mark(t)
    BY <2>1, <2>8 DEF Mark
  <2> QED
    BY <2>4, <2>5, <2>6, <2>7, <2>8 DEF Change
<1> QED
  BY <1>1, <1>2, <1>3, DesktopThreads DEF RunFits, After, Inside

\* A step that leaves the rotation and the executer alone keeps it.
LEMMA RotationAside ==
    ASSUME RotationKept, history \subseteq history', UNCHANGED rotationVars,
           Changing' <=> Changing, run[Disp].at = "down" => run'[Disp].at = "down",
           run[Exec].at = "dead" => run'[Exec].at = "dead"
    PROVE  RotationKept'
  BY DEF RotationKept, rotationVars

\* Every step keeps the rotation.
LEMMA RotationStep ==
    ASSUME DesktopTypes, DesktopTypes', RotationKept, "forked" \in Race, [Next]_vars
    PROVE  RotationKept'
<1>0. /\ DesktopFields /\ RunsFit /\ RunsFit' /\ history \subseteq history'
      /\ Thread = {Disp, Exec} /\ Disp \in Thread /\ Exec \in Thread /\ Disp # Exec
      /\ RunFits(Exec, run[Exec]) /\ RunFits(Exec, run'[Exec]) /\ Exec \in DOMAIN run
      /\ RunFits(Disp, run[Disp]) /\ RunFits(Disp, run'[Disp]) /\ Disp \in DOMAIN run
  BY DesktopThreads, DesktopMonotone DEF DesktopTypes, RunsFit
<1>1. CASE Change(Disp)
  <2>1. run'[Exec] = run[Exec] /\ run[Disp].at # "down" /\ UNCHANGED rotationVars
    BY <1>0, <1>1, ChangeMoves DEF Inside
  <2> QED
    BY <1>0, <2>1, RotationAside DEF Changing
<1>2. CASE Change(Exec)
  <2>1. /\ run'[Disp] = run[Disp] /\ Changing /\ run[Exec].at # "dead"
        /\ Changing' \/ run'[Exec].at = "dead"
        /\ UNCHANGED rotationVars
    BY <1>0, <1>2, ChangeMoves, ChangeEnds DEF Inside, Changing, RunFits, After
  <2> QED
    BY <1>0, <2>1 DEF RotationKept, rotationVars
<1>3. ASSUME NEW h \in Handle, NEW found \in Sizes, Fire(h, found) PROVE RotationKept'
  <2>1. /\ run'[Disp] = run[Disp] /\ Changing' /\ ~Changing
        /\ run[Exec].at = "idle" /\ h \in tasks
    BY <1>0, <1>3, BeginMoves DEF Fire, At, Changing, RunFits, Inside, Resting
  <2>2. tasks' = tasks \ {h} /\ UNCHANGED <<enabled, auto, handle, history>>
    BY <1>3 DEF Fire
  <2> QED
    BY <1>0, <2>1, <2>2 DEF RotationKept
<1>4. CASE Again
  <2>1. /\ run[Exec].at = "again" /\ Changing /\ UNCHANGED <<enabled, auto, history>>
        /\ run'[Exec] = Resting /\ run'[Disp] = run[Disp]
        /\ \/ Continues /\ tasks' = tasks \cup {handle'}
           \/ ~Continues /\ UNCHANGED <<handle, tasks>>
    BY <1>0, <1>4 DEF Again, At, Changing
  <2>2. ~Changing'
    BY <2>1 DEF Changing, Resting
  <2> QED
    BY <2>1, <2>2 DEF RotationKept, Continues
<1>5. CASE Reload
  <2>1. PICK on \in BOOLEAN, rotates \in BOOLEAN : BackgroundReload(on, rotates)
    BY <1>5 DEF Reload
  <2>2. /\ run' = run /\ enabled' = on /\ auto' = (IF on THEN rotates ELSE auto)
        /\ \/ on /\ rotates /\ tasks' = (tasks \ {handle}) \cup {handle'}
           \/ ~(on /\ rotates) /\ tasks' = tasks \ {handle}
    BY <2>1 DEF BackgroundReload, Cancelled
  <2>3. Changing => "forked" \in history'
    <3>1. ~Torn
      BY <2>1 DEF BackgroundReload, At
    <3> QED
      BY <2>1, <3>1, DesktopRaces DEF BackgroundReload, Changing, At
  <2>4. "forked" \notin history' => "forked" \notin history /\ ~Changing /\ ~Changing'
    BY <1>0, <2>2, <2>3 DEF Changing
  <2> QED
    BY <2>2, <2>4 DEF RotationKept
<1>6. CASE Shutdown
  <2>1. /\ run'[Exec] = run[Exec] /\ run'[Disp].at = "down"
        /\ tasks' = tasks \ {handle} /\ UNCHANGED <<enabled, auto, history>>
    BY <1>0, <1>6 DEF Shutdown, BackgroundShutdown, Goto, RunFits, RunStage
  <2> QED
    BY <2>1 DEF RotationKept, Changing
<1>7. ASSUME NEW found \in Sizes, Picked(found) \/ Resized(found) PROVE RotationKept'
  <2>1. run[Disp].at = "idle" /\ run'[Exec] = run[Exec] /\ UNCHANGED rotationVars
    BY <1>0, <1>7, BeginMoves DEF Picked, Resized, At
  <2> QED
    BY <1>0, <2>1, RotationAside DEF Changing
<1>8. MonitorMessage \/ (\E o \in Output : Plugs(o)) \/ (\E p \in Picture : Link(p))
          \/ UNCHANGED vars => RotationKept'
  <2>1. MonitorMessage \/ (\E o \in Output : Plugs(o)) \/ (\E p \in Picture : Link(p))
            \/ UNCHANGED vars => UNCHANGED <<rotationVars, run>>
    BY DEF MonitorMessage, Plugs, Link, vars, backgroundVars
  <2> QED
    BY <1>0, <2>1, RotationAside DEF Changing
<1> QED
  BY <1>0, <1>1, <1>2, <1>3, <1>4, <1>5, <1>6, <1>7, <1>8 DEF Next, Rotate, Handler,
     DisplayMessage, BackgroundMessage

-----------------------------------------------------------------------------
(* The guard of the conversion.                                            *)

\* The guard is closed for a conversion, or for the one thread past it; and the process that
\* this thread replaces is the one known.
GuardKept ==
    history \cap {"met", "early"} = {} =>
        /\ \A t \in Thread : run[t].at \in Past => run[Other(t)].at \notin Past
        /\ lock => \/ converting # {} \/ run[Exec].at = "dead"
                   \/ \E t \in Thread : run[t].at \in Past
        /\ run[Disp].at \in Past \cup {"guard"} => size # None
        /\ viewers \subseteq {proc}
        /\ \A t \in Thread : run[t].at = "replace" => run[t].old = proc

\* A step that puts no picture up keeps it when it closes no guard.
LEMMA GuardAside ==
    ASSUME GuardKept, history \subseteq history',
           \A t \in Thread : run'[t].at \in Past <=> run[t].at \in Past,
           \A t \in Thread : run'[t].at = "replace" =>
                                 run[t].at = "replace" /\ run'[t].old = run[t].old,
           run[Exec].at = "dead" => run'[Exec].at = "dead",
           lock' => lock /\ UNCHANGED converting,
           run'[Disp].at \in Past \cup {"guard"} => size' # None,
           UNCHANGED proc, viewers' \subseteq viewers
    PROVE  GuardKept'
<1>1. Thread = {Disp, Exec} /\ Other(Disp) = Exec /\ Other(Exec) = Disp
  BY DesktopThreads
<1>2. Other(Disp)' = Exec /\ Other(Exec)' = Disp
  BY DesktopThreads DEF Other
<1> QED
  BY <1>1, <1>2 DEF GuardKept

\* Every step of _background() keeps the guard.
LEMMA GuardChange ==
    ASSUME DesktopTypes, DesktopTypes', GuardKept, {"met", "early"} \subseteq Race,
           NEW t \in Thread, Change(t)
    PROVE  GuardKept'
<1> DEFINE o == Other(t)
<1>0. /\ DesktopFields /\ RunsFit /\ RunsFit'
      /\ Thread = {t, o} /\ o \in Thread /\ t # o /\ Other(t) = o /\ Other(o) = t
      /\ run'[o] = run[o] /\ run[t].at \in Inside /\ run[t] \in RunStage /\ t \in DOMAIN run
      /\ Disp \in {t, o} /\ Exec \in {t, o} /\ Disp # Exec
      /\ t = Disp => o = Exec
      /\ t = Exec => o = Disp
  BY DesktopThreads, ChangeMoves, InsideFits DEF DesktopTypes, RunsFit
<1>1. Other(t)' = o /\ Other(o)' = t
  BY <1>0 DEF Other
<1>2. run[t].next = After(t) /\ RunFits(t, run[t]) /\ RunFits(t, run'[t])
  BY <1>0, InsideFits DEF RunsFit
<1> HIDE DEF o
<1>3. CASE Size(t)
  <2>1. /\ run[t].at = "size" /\ run'[t].at \in {"guard", "idle", "again"}
        /\ run'[t].at = "guard" => size' # None
        /\ UNCHANGED <<lock, proc, viewers, converting>> /\ history \subseteq history'
        /\ size # None => size' # None
    <3>1. Return(t) => run'[t].at \in {"idle", "again"}
      BY <1>0, <1>2 DEF Return, Resting, After
    <3>2. run' = [run EXCEPT ![t].at = "guard", ![t].found = None] => run'[t].at = "guard"
      BY <1>0 DEF RunStage
    <3> QED
      BY <1>3, <3>1, <3>2, DesktopRaces DEF Size, At, viewerVars, imageVars
  <2> QED
    BY <1>0, <2>1, GuardAside DEF GuardKept, Past
<1>4. CASE Guard(t)
  <2>0. run[t].at = "guard" /\ history \subseteq history'
        /\ UNCHANGED <<size, proc, viewers, converting>>
    BY <1>4, DesktopRaces DEF Guard, At, viewerVars, imageVars
  <2>1. history' \cap {"met", "early"} = {} => run[o].at \notin Inside
    BY <1>0, <1>4, DesktopRaces DEF Guard, Amidst, Inside
  <2>2. CASE lock' = FALSE /\ Return(t)
    <3>1. run'[t].at \in {"idle", "again"}
      BY <1>0, <1>2, <2>2 DEF Return, Resting, After
    <3> QED
      BY <1>0, <2>0, <2>2, <3>1, GuardAside DEF GuardKept, Past
  <2>3. ASSUME NEW p \in Picture, run' = [run EXCEPT ![t].at = "show", ![t].pic = p]
        PROVE  GuardKept'
    <3>1. run'[t].at = "show"
      BY <1>0, <2>3 DEF RunStage
    <3> QED
      BY <1>0, <1>1, <2>0, <2>1, <3>1 DEF GuardKept, Past, Inside
  <2> QED
    BY <1>4, <2>2, <2>3 DEF Guard
<1>5. CASE Show(t)
  <2>1. /\ run[t].at = "show" /\ run'[t].at = "replace" /\ run'[t].old = proc
        /\ UNCHANGED <<lock, size, proc, viewers, converting, history>>
    BY <1>0, <1>5 DEF Show, At, RunStage, viewerVars, imageVars
  <2> QED
    BY <1>0, <1>1, <2>1 DEF GuardKept, Past
<1>6. CASE Replace(t)
  <2>1. /\ run[t].at = "replace" /\ run'[t].at = "convert"
        /\ UNCHANGED <<lock, size, converting, history>>
        /\ viewers' = (viewers \ {run[t].old}) \cup {proc'} \/ UNCHANGED viewerVars
    BY <1>0, <1>6 DEF Replace, At, RunStage, imageVars, Stopped
  <2> QED
    BY <1>0, <1>1, <2>1 DEF GuardKept, Past, viewerVars
<1>7. CASE Convert(t)
  <2>1. /\ run[t].at = "convert" /\ UNCHANGED <<size, proc, viewers, history>>
        /\ \/ run'[t].at = "mark" /\ converting \subseteq converting'
           \/ size = None /\ Raise(t) /\ UNCHANGED <<lock, converting>>
    <3>1. run' = [run EXCEPT ![t].at = "mark"] => run'[t].at = "mark"
      BY <1>0 DEF RunStage
    <3>2. run' = [run EXCEPT ![t].at = "mark", ![t].started = TRUE] => run'[t].at = "mark"
      BY <1>0 DEF RunStage
    <3> QED
      BY <1>0, <1>7, <3>1, <3>2 DEF Convert, At, viewerVars, imageVars
  <2>2. CASE run'[t].at = "mark" /\ converting \subseteq converting'
    BY <1>0, <1>1, <2>1, <2>2 DEF GuardKept, Past
  <2>3. CASE size = None /\ Raise(t) /\ UNCHANGED <<lock, converting>>
    <3>1. t = Exec => run'[Exec].at = "dead"
      BY <1>0, <2>3 DEF Raise, Resting
    <3>2. t = Disp => history \cap {"met", "early"} # {}
      BY <1>0, <2>1, <2>3 DEF GuardKept, Past
    <3> QED
      BY <1>0, <1>1, <2>1, <2>3, <3>1, <3>2 DEF GuardKept, Past
  <2> QED
    BY <2>1, <2>2, <2>3
<1>8. CASE Mark(t)
  <2>1. /\ run[t].at = "mark" /\ run'[t].at \in {"idle", "again"}
        /\ lock' /\ history' \cap {"met", "early"} = {} => converting # {}
        /\ UNCHANGED <<size, proc, viewers, converting>> /\ history \subseteq history'
    BY <1>0, <1>2, <1>8, DesktopRaces DEF Mark, Marked, At, Return, Resting, After, viewerVars,
       imageVars
  <2> QED
    BY <1>0, <1>1, <2>1 DEF GuardKept, Past
<1> QED
  BY <1>3, <1>4, <1>5, <1>6, <1>7, <1>8 DEF Change

\* Every step keeps the guard.
LEMMA GuardStep ==
    ASSUME DesktopTypes, DesktopTypes', GuardKept, {"met", "early"} \subseteq Race, [Next]_vars
    PROVE  GuardKept'
<1>0. /\ DesktopFields /\ RunsFit /\ RunsFit' /\ history \subseteq history'
      /\ Thread = {Disp, Exec} /\ Disp \in Thread /\ Exec \in Thread /\ Disp # Exec
      /\ RunFits(Exec, run[Exec]) /\ RunFits(Disp, run[Disp])
      /\ Exec \in DOMAIN run /\ Disp \in DOMAIN run
  BY DesktopThreads, DesktopMonotone DEF DesktopTypes, RunsFit
<1>1. \A t \in Thread : Change(t) => GuardKept'
  BY GuardChange
<1>2. ASSUME NEW h \in Handle, NEW found \in Sizes, Fire(h, found) PROVE GuardKept'
  <2>1. /\ run[Exec].at = "idle" /\ run'[Exec].at \in {"size", "again"} /\ run'[Disp] = run[Disp]
        /\ UNCHANGED <<lock, size, proc, viewers, converting>>
    BY <1>0, <1>2, BeginMoves DEF Fire, At, viewerVars, imageVars
  <2> QED
    BY <1>0, <2>1, GuardAside DEF GuardKept, Past
<1>3. CASE Again
  <2>1. /\ run[Exec].at = "again" /\ run'[Exec].at = "idle" /\ run'[Disp] = run[Disp]
        /\ UNCHANGED <<lock, size, proc, viewers, converting>>
    BY <1>0, <1>3 DEF Again, At, Resting, viewerVars, imageVars
  <2> QED
    BY <1>0, <2>1, GuardAside DEF GuardKept, Past
<1>4. ASSUME NEW p \in Picture, Link(p) PROVE GuardKept'
  <2>1. UNCHANGED <<size, proc, viewers, run>> /\ ~lock'
    BY <1>4 DEF Link, viewerVars
  <2> QED
    BY <1>0, <2>1, GuardAside DEF GuardKept, Past
<1>5. ASSUME NEW found \in Sizes, Picked(found) \/ Resized(found) PROVE GuardKept'
  <2>1. /\ run[Disp].at = "idle" /\ run'[Disp].at \in {"size", "idle"} /\ run'[Exec] = run[Exec]
        /\ UNCHANGED <<lock, proc, viewers, converting>>
    BY <1>0, <1>5, BeginMoves DEF Picked, Resized, At, Resting, viewerVars, imageVars
  <2> QED
    BY <1>0, <2>1, GuardAside DEF GuardKept, Past
<1>6. CASE Reload
  <2>1. run[Disp].at = "idle" /\ UNCHANGED <<proc, viewers, run>> /\ ~lock'
    BY <1>6 DEF Reload, BackgroundReload, At, viewerVars
  <2> QED
    BY <1>0, <2>1, GuardAside DEF GuardKept, Past
<1>7. CASE Shutdown
  <2>1. /\ run[Disp].at = "idle" /\ run'[Disp].at = "down" /\ run'[Exec] = run[Exec]
        /\ UNCHANGED <<lock, size, proc, converting>> /\ viewers' \subseteq viewers
    BY <1>0, <1>7 DEF Shutdown, BackgroundShutdown, At, Goto, RunFits, RunStage, imageVars
  <2> QED
    BY <1>0, <2>1, GuardAside DEF GuardKept, Past
<1>8. MonitorMessage \/ (\E o \in Output : Plugs(o)) \/ UNCHANGED vars => GuardKept'
  <2>1. MonitorMessage \/ (\E o \in Output : Plugs(o)) \/ UNCHANGED vars =>
            UNCHANGED <<lock, size, proc, viewers, converting, run>>
    BY DEF MonitorMessage, Plugs, vars, backgroundVars, viewerVars, imageVars
  <2> QED
    BY <1>0, <2>1, GuardAside DEF GuardKept, Past
<1> QED
  BY <1>1, <1>2, <1>3, <1>4, <1>5, <1>6, <1>7, <1>8 DEF Next, Rotate, Handler,
     DisplayMessage, BackgroundMessage

-----------------------------------------------------------------------------
(* The size.                                                               *)

\* The size that is known, and those the threads have read, are that of the largest output.
SizeKnown ==
    /\ size \in {None, Largest(None)}
    /\ \A t \in Thread : run[t].at = "size" => run[t].found \in {None, Largest(None)}

\* A message is under way that will have the size forgotten.
SizeDue ==
    \E i \in DOMAIN inbox : inbox[i] = "display" \/ (inbox[i] = "monitor" /\ Differs)

\* One of the two, unless a change of the outputs has gone unnoticed.
SizeKept == ~unseen /\ ~Torn => SizeKnown \/ SizeDue

\* A step that leaves the outputs and the messages alone, and reads no other size, keeps it.
LEMMA SizeAside ==
    ASSUME SizeKept, history \subseteq history', UNCHANGED <<inbox, unseen, output, last>>,
           size' \in {size, None},
           \A t \in Thread : run'[t].at = "size" =>
               \/ run'[t].found \in {size, None, Largest(None)}
               \/ run[t].at = "size" /\ run'[t].found = run[t].found
    PROVE  SizeKept'
<1>1. Largest(None)' = Largest(None)
  BY DEF Largest, Lit
<1>2. SizeDue => SizeDue'
  BY DEF SizeDue, Differs, Connected
<1>3. SizeKnown => SizeKnown'
  BY <1>1 DEF SizeKnown, Thread
<1>4. ~Torn' => ~Torn
  BY DEF Torn
<1> QED
  BY <1>2, <1>3, <1>4 DEF SizeKept

\* Every step keeps the size.
LEMMA SizeStep ==
    ASSUME DesktopTypes, DesktopTypes', SizeKept, "met" \in Race, [Next]_vars
    PROVE  SizeKept'
<1>0. /\ DesktopFields /\ RunsFit /\ RunsFit' /\ history \subseteq history'
      /\ Thread = {Disp, Exec} /\ Disp \in Thread /\ Exec \in Thread /\ Disp # Exec
      /\ \A t \in Thread : RunFits(t, run[t]) /\ run[t] \in RunStage /\ t \in DOMAIN run
  BY DesktopThreads, DesktopMonotone, InsideFits DEF DesktopTypes, RunsFit
<1>1. ASSUME NEW t \in Thread, Change(t), UNCHANGED <<displayVars, systemVars>> PROVE SizeKept'
  <2>1. \A o \in Thread \ {t} : run'[o] = run[o]
    BY <1>0, <1>1, ChangeMoves
  <2>2. UNCHANGED <<inbox, unseen, output, last>>
    BY <1>1 DEF displayVars, systemVars
  <2>3. CASE Size(t)
    <3>1. run[t].at = "size" /\ run'[t].at # "size" /\ size' \in {size, run[t].found}
      <4>1. run[t].next # "size"
        BY <1>0 DEF RunStage
      <4>2. Return(t) => run'[t].at = run[t].next
        BY <1>0 DEF Return, Resting
      <4>3. run' = [run EXCEPT ![t].at = "guard", ![t].found = None] => run'[t].at = "guard"
        BY <1>0 DEF RunStage
      <4> QED
        BY <2>3, <4>1, <4>2, <4>3 DEF Size, At
    <3>2. Largest(None)' = Largest(None)
      BY <2>2 DEF Largest, Lit
    <3>3. SizeDue => SizeDue'
      BY <2>2 DEF SizeDue, Differs, Connected
    <3>4. SizeKnown => SizeKnown'
      BY <1>0, <2>1, <3>1, <3>2 DEF SizeKnown
    <3> QED
      BY <1>0, <2>2, <3>3, <3>4 DEF SizeKept, Torn
  <2>4. CASE ~Size(t)
    <3>1. size' = size
      BY <1>1, <2>4 DEF Change, Guard, Show, Replace, Convert, Mark
    <3>2. run'[t].at # "size"
      <4>1. Return(t) => run'[t].at # "size"
        BY <1>0 DEF Return, Resting, RunStage
      <4>2. Raise(t) => run'[t].at # "size"
        BY <1>0 DEF Raise, Resting
      <4>3. CASE Guard(t)
        <5>1. \A p : run' = [run EXCEPT ![t].at = "show", ![t].pic = p] => run'[t].at = "show"
          BY <1>0 DEF RunStage
        <5> QED
          BY <4>1, <4>3, <5>1 DEF Guard
      <4>4. CASE Show(t) \/ Replace(t)
        BY <1>0, <4>4 DEF Show, Replace, RunStage
      <4>5. CASE Convert(t)
        BY <1>0, <4>2, <4>5 DEF Convert, RunStage
      <4>6. CASE Mark(t)
        BY <4>1, <4>6 DEF Mark
      <4> QED
        BY <1>1, <2>4, <4>3, <4>4, <4>5, <4>6 DEF Change
    <3> QED
      BY <1>0, <2>1, <2>2, <3>1, <3>2, SizeAside
  <2> QED
    BY <2>3, <2>4
<1>2. ASSUME Rotate(Sizes), UNCHANGED <<displayVars, systemVars>> PROVE SizeKept'
  <2>1. UNCHANGED <<inbox, unseen, output, last, size>>
    BY <1>2 DEF Rotate, Fire, Again, Link, displayVars, systemVars
  <2>2. \A t \in Thread : run'[t].at = "size" =>
               \/ run'[t].found \in {size, None, Largest(None)}
               \/ run[t].at = "size" /\ run'[t].found = run[t].found
    <3>1. ASSUME NEW h \in Handle, NEW found \in Sizes, Fire(h, found)
          PROVE  run'[Disp] = run[Disp]
                 /\ (run'[Exec].at = "size" => run'[Exec].found \in {size, None, Largest(None)})
      BY <1>0, <3>1, BeginMoves DEF Fire, Sizes
    <3>2. Again => run'[Disp] = run[Disp] /\ run'[Exec].at = "idle"
      BY <1>0 DEF Again, Resting
    <3>3. (\E p \in Picture : Link(p)) => UNCHANGED run
      BY DEF Link
    <3> QED
      BY <1>0, <1>2, <3>1, <3>2, <3>3 DEF Rotate
  <2> QED
    BY <1>0, <2>1, <2>2, SizeAside
<1>3. CASE BackgroundMessage
  <2>1. PICK found \in Sizes : Picked(found)
    BY <1>3 DEF BackgroundMessage
  <2>2. UNCHANGED <<inbox, unseen, output, last, size>>
    BY <1>3 DEF BackgroundMessage, Picked, displayVars, systemVars
  <2>3. run'[Exec] = run[Exec]
        /\ (run'[Disp].at = "size" => run'[Disp].found \in {size, None, Largest(None)})
    BY <1>0, <2>1, BeginMoves DEF Picked, Sizes
  <2> QED
    BY <1>0, <2>2, <2>3, SizeAside
<1>4. CASE DisplayMessage
  <2>1. PICK found \in Sizes : Resized(found)
    BY <1>4 DEF DisplayMessage
  <2>2. UNCHANGED <<output, unseen>> /\ size' = None /\ run'[Exec] = run[Exec]
    BY <1>0, <1>4, <2>1 DEF DisplayMessage, Resized, displayVars
  <2>3. ~Torn /\ run[Disp].at = "idle"
    BY <2>1 DEF Resized, At
  <2>4. run'[Disp].at = "size" => run'[Disp].found \in {None, Largest(None)}
    BY <1>0, <2>1, <2>3 DEF Resized, Resting, Sizes
  <2>5. ~Torn' => run[Exec].at # "size"
    BY <2>1, <2>3, DesktopRaces DEF Resized, At, Torn
  <2>6. Largest(None)' = Largest(None)
    BY <2>2 DEF Largest, Lit
  <2> QED
    BY <1>0, <2>2, <2>4, <2>5, <2>6 DEF SizeKept, SizeKnown
<1>5. CASE Reload
  <2>1. PICK on \in BOOLEAN, rotates \in BOOLEAN : BackgroundReload(on, rotates)
    BY <1>5 DEF Reload
  <2>2. size' = None /\ run' = run /\ run[Disp].at = "idle"
    BY <2>1 DEF BackgroundReload, At
  <2>3. ~Torn' => run[Exec].at # "size"
    BY <2>1, DesktopRaces DEF BackgroundReload, Amidst, Torn
  <2> QED
    BY <1>0, <2>2, <2>3 DEF SizeKept, SizeKnown
<1>6. CASE Shutdown
  <2>1. UNCHANGED <<inbox, unseen, output, last, size>>
    BY <1>6 DEF Shutdown, BackgroundShutdown, displayVars, systemVars
  <2>2. run'[Exec] = run[Exec] /\ run'[Disp].at = "down"
    BY <1>0, <1>6 DEF Shutdown, BackgroundShutdown, Goto, RunStage
  <2> QED
    BY <1>0, <2>1, <2>2, SizeAside
<1>7. CASE MonitorMessage
  <2>1. UNCHANGED <<size, run, history>>
    BY <1>7 DEF MonitorMessage, backgroundVars
  <2>2. SUFFICES ASSUME ~unseen', ~Torn' PROVE SizeKnown' \/ SizeDue'
    BY DEF SizeKept
  <2>3. /\ inbox # <<>> /\ Last(inbox) = "monitor"
        /\ inbox' = IF Differs THEN Append(Front(inbox), "display") ELSE Front(inbox)
        /\ ~unseen /\ (Differs \/ output' = output)
    BY <1>7, <2>2 DEF MonitorMessage
  <2>4. inbox \in Seq({"monitor", "display"}) /\ Front(inbox) \in Seq({"monitor", "display"})
    BY <1>0, <2>3, WaitingTyped DEF DesktopFields
  <2>5. CASE Differs
    <3>1. inbox' = Append(Front(inbox), "display")
      BY <2>3, <2>5
    <3>2. inbox'[Len(inbox')] = "display" /\ Len(inbox') \in DOMAIN inbox'
      BY <2>4, <3>1
    <3> QED
      BY <3>2 DEF SizeDue
  <2>6. CASE ~Differs
    <3>1. inbox' = Front(inbox) /\ output' = output
      BY <2>3, <2>6
    <3>2. SizeKnown => SizeKnown'
      BY <1>0, <2>1, <3>1 DEF SizeKnown, Largest, Lit
    <3>3. ASSUME SizeDue PROVE SizeDue'
      <4>1. PICK i \in DOMAIN inbox : inbox[i] = "display"
        BY <2>6, <3>3 DEF SizeDue
      <4>2. i \in 1..(Len(inbox) - 1)
        BY <2>3, <2>4, <4>1 DEF Last
      <4>3. i \in DOMAIN Front(inbox) /\ Front(inbox)[i] = "display"
        BY <2>4, <4>1, <4>2, SubSeqProperties DEF Front
      <4> QED
        BY <3>1, <4>3 DEF SizeDue
    <3> QED
      BY <2>1, <2>2, <2>3, <3>2, <3>3 DEF SizeKept, Torn
  <2> QED
    BY <2>5, <2>6
<1>8. ASSUME NEW o \in Output, Plugs(o) PROVE SizeKept'
  <2>1. SUFFICES ASSUME ~unseen' PROVE SizeDue'
    BY DEF SizeKept
  <2>2. PICK lit \in BOOLEAN : Plug(o, lit) /\ last[o] = "unknown"
    BY <1>8, <2>1 DEF Plugs
  <2>3. output'[o] \in {"on", "off"} /\ last' = last
    BY <1>0, <2>2 DEF Plug, DesktopFields
  <2>4. Differs'
    BY <2>2, <2>3 DEF Differs, Connected
  <2>5. inbox' = Append(inbox, "monitor") /\ inbox \in Seq({"monitor", "display"})
    BY <1>0, <1>8 DEF Plugs, DesktopFields
  <2>6. inbox'[Len(inbox')] = "monitor" /\ Len(inbox') \in DOMAIN inbox'
    BY <2>5
  <2> QED
    BY <2>4, <2>6 DEF SizeDue
<1>9. CASE UNCHANGED vars
  BY <1>0, <1>9, SizeAside DEF vars, backgroundVars, displayVars
<1> QED
  BY <1>1, <1>2, <1>3, <1>4, <1>5, <1>6, <1>7, <1>8, <1>9 DEF Next, Handler

-----------------------------------------------------------------------------
(* The theorems.                                                           *)

\* All of it holds at first.
LEMMA DesktopInit ==
    Init => DesktopTypes /\ RotationKept /\ GuardKept /\ SizeKept
<1> SUFFICES ASSUME Init PROVE DesktopTypes /\ RotationKept /\ GuardKept /\ SizeKept
  OBVIOUS
<1> USE DEF Init, BackgroundInit, DisplayInit
<1>1. run = [t \in Thread |-> Resting] /\ (\A t \in Thread : run[t] = Resting)
  OBVIOUS
<1>2. RunsFit
  <2>1. \A t \in Thread : RunFits(t, Resting)
    BY DEF RunFits, RunStage, Inside, Past, Resting
  <2> QED
    BY <1>1, <2>1 DEF RunsFit
<1>3. handle \in Handle \cup {None} /\ tasks \subseteq Handle
  <2>1. Min(Handle) \in Handle
    BY LeastIs, BackgroundAssumption
  <2> QED
    BY <2>1
<1>4. DesktopFields
  <2>1. output \in [Output -> {"gone", "off", "on"}] /\ last \in [Output -> {"unknown", "off", "on"}]
    OBVIOUS
  <2>2. enabled \in BOOLEAN /\ auto \in BOOLEAN /\ lock \in BOOLEAN /\ unseen \in BOOLEAN
    BY Zenon
  <2>3. <<>> \in Seq({"monitor", "display"})
    OBVIOUS
  <2>4. inbox = <<>>
    OBVIOUS
  <2> QED
    BY <1>3, <2>1, <2>2, <2>3, <2>4 DEF DesktopFields
<1>5. RotationKept
  <2>1. run[Exec].next = "idle" /\ run[Exec].at = "idle"
    BY <1>1, DesktopThreads DEF Resting
  <2>2. ~Changing
    BY <2>1 DEF Changing
  <2>3. (tasks # {} <=> enabled /\ auto) /\ tasks \subseteq {handle}
    OBVIOUS
  <2> QED
    BY <2>2, <2>3 DEF RotationKept
<1>6. GuardKept
  BY <1>1, DesktopThreads DEF GuardKept, Past, Resting
<1>7. SizeKept
  BY <1>1 DEF SizeKept, SizeKnown, Resting
<1> QED
  BY <1>2, <1>4, <1>5, <1>6, <1>7 DEF DesktopTypes

\* Every field of Background and Display has a value that the code gives it.
THEOREM DesktopTyping == Spec => []DesktopTypes
<1>1. DesktopTypes /\ [Next]_vars => DesktopTypes'
  BY DesktopFieldsStep, RunsFitStep DEF DesktopTypes
<1> QED
  BY <1>1, DesktopInit, PTL DEF Spec

\* BackgroundHolds.
THEOREM BackgroundsHold ==
    ASSUME {"forked", "met", "early"} \subseteq Race
    PROVE  Spec => []BackgroundHolds
<1> DEFINE Inv == RotationKept /\ GuardKept /\ SizeKept
<1>1. DesktopTypes /\ DesktopTypes' /\ Inv /\ [Next]_vars => Inv'
  BY RotationStep, GuardStep, SizeStep
<1>2. DesktopTypes /\ Inv => BackgroundHolds
  <2> SUFFICES ASSUME DesktopTypes, Inv PROVE BackgroundHolds
    OBVIOUS
  <2>0. Thread = {Disp, Exec} /\ \A t \in Thread : RunFits(t, run[t])
    BY DesktopThreads DEF DesktopTypes, RunsFit
  <2>1. ASSUME BackgroundRests PROVE /\ ~Changing /\ run[Disp].at # "down" /\ run[Exec].at # "dead"
                                     /\ \A t \in Thread : run[t].at = "idle"
    BY <2>0, <2>1 DEF BackgroundRests, Changing, RunFits, Inside, Resting
  <2>2. OneRotation
    BY <2>1 DEF OneRotation, RotationKept
  <2>3. GuardOpens
    BY <2>1 DEF GuardOpens, GuardKept, Past
  <2>4. SizeFits
    BY <2>1 DEF SizeFits, SizeKept, SizeKnown, SizeDue
  <2> QED
    BY <2>2, <2>3, <2>4 DEF BackgroundHolds, RotationHolds
<1>3. Init => Inv
  BY DesktopInit
<1> HIDE DEF Inv
<1> QED
  BY <1>1, <1>2, <1>3, DesktopTyping, PTL DEF Spec
=============================================================================
