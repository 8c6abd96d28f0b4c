---------------------------- MODULE HydraProofs ----------------------------
(***************************************************************************)
(* Proofs about Hydra, for any VMs, devices and processes and any number   *)
(* of requests, which the dispatcher and the executer work on without a    *)
(* lock: the types, that every VM that runs is known to the daemon and     *)
(* its devices are registered for it, that Hydra goes down only when none  *)
(* runs, and that what the VMs claim is given back.                        *)
(*                                                                         *)
(* All but the types fail after three races (Losing), the last after three *)
(* more (Costing).  The theorems name them: they must be recorded, so that *)
(* a behaviour without them is recognised.  What is shown is that there is *)
(* no other way to lose a VM, or to leave something taken.                 *)
(*                                                                         *)
(* That each VM that runs is listed is not inductive.  InOrder says why    *)
(* it stays so: what the executer has listed to visit or to stop, and what *)
(* the dispatcher is starting, are apart; and stop() of HydraServer has    *)
(* each VM that runs still ahead of it.  Most steps only take away: Moves  *)
(* says what they may do, and keeps InOrder (MovesKeep).  The others start *)
(* a VM, run its process, or list it.  UsbInv says the like of the devices *)
(* that listed VMs hold, and ClaimInv of all that is claimed: most steps   *)
(* leave the claims alone, and keep it (SparingKeeps).                     *)
(***************************************************************************)
EXTENDS Hydra, TLAPS

-----------------------------------------------------------------------------
(* The parts of the type invariant.                                        *)

\* The states of a VM,
State == {"stopped", "waiting", "running", "sleeping", "done", "failed"}

\* and a VM object.
Machine == [id : Vmid, proc : Process \cup {None}, adapters : BOOLEAN, timer : BOOLEAN,
            usb : SUBSET Device, wait : Nat, state : State]

\* The places of a thread without a VM in hand, and of one that works on a VM.
Quiet == {"idle", "timers", "reap", "reaped"}

\* The places of HydraServer.stop() between two VMs.
Stopping == {"all", "clear", "down"}

\* The places at which a thread has a VM in hand.
Working == {"build", "spawn", "poll", "perm", "kill", "end", "soft", "signal", "usbadd", "usbdel",
            "promote", "drop", "exited"}

\* Where the dispatcher may be,
DispPlace == {"idle", "kill", "end", "all", "clear", "down", "boot", "build", "spawn", "poll",
              "perm", "soft", "signal", "each", "usbadd", "usbdel", "ended"}

\* and the executer.
ExecPlace == {"idle", "kill", "end", "all", "clear", "down", "boot", "round", "promote", "drop",
              "timers", "reap", "reaped", "exited", "dead"}

\* What a thread does, whichever it is.
Work == [at : DispPlace \cup ExecPlace, vm : Object \cup {None},
         call : {"hook", "new", "again", "visit", "all", "timer", "each"},
         todo : SUBSET Object, usb : SUBSET Device,
         next : {None, "ended", "clear", "sleeping", "running", "failed", "done"},
         new : Object \cup {None}]

\* Every VM object has its fields.
Machines == vm \in [Object -> Machine]

\* A VM is listed under its id.
Lists ==
    /\ vms \in [Vmid -> Object \cup {None}]
    /\ \A v \in Vmid : vms[v] # None => vm[vms[v]].id = v

\* What belongs to an id.
Claims ==
    /\ owner \in [Device -> Vmid \cup {None}]
    /\ pages \subseteq Vmid /\ taps \subseteq Vmid /\ running \in BOOLEAN

\* The processes.
Processes == alive \subseteq Process /\ watch \subseteq Process \X Object

\* What the dispatcher does fits its place: on the way through a method it has a VM, and knows
\* whose call it is.
DispWork(w) ==
    /\ w.at \in DispPlace
    /\ w.call \in {"hook", "new", "again", "all", "each"}
    /\ w.at \in Working \cup {"boot"} => w.vm \in Object
    /\ w.at \in StartPlace => w.call \in {"new", "again"} /\ w.new = None
    /\ w.at \in {"kill", "end"} => w.call \in {"hook", "all"}
    /\ w.at \in Stopping => w.call = "all"
    /\ w.call = "all" => w.at \in Stopping \cup {"kill", "end", "ended"}
    /\ w.new # None => w.call = "all" /\ w.at \in Stopping \cup {"kill", "end"} /\ w.next # "ended"
    /\ w.at = "signal" => w.next \in {"sleeping", "running"}
    /\ w.at = "each" => w.call = "each"
    /\ w.call = "each" => w.at \in {"each", "signal"} /\ w.next = "sleeping"
    /\ w.at = "idle" => w.vm = None /\ w.call = "hook" /\ w.todo = {}

\* So does the executer; it never starts a VM and ends only by the timer of a soft shutdown.
ExecWork(w) ==
    /\ w.at \in ExecPlace
    /\ w.call \in {"hook", "visit", "all", "timer"}
    /\ w.at \in Working => w.vm \in Object
    /\ w.at \in {"kill", "end"} => w.call \in {"visit", "all", "timer"}
    /\ w.at \in {"promote", "drop"} => w.call = "visit"
    /\ w.at = "round" => w.call \in {"hook", "visit"}
    /\ w.at \in Stopping => w.call = "all"
    /\ w.call = "all" => w.at \in Stopping \cup {"kill", "end"}
    /\ w.next # "ended" /\ w.new = None
    /\ w.at = "exited" => w.next \in {"failed", "done"} /\ w.call = "hook" /\ w.todo = {}
    /\ w.at \in Quiet \cup {"boot"} => w.vm = None /\ w.call = "hook" /\ w.todo = {}
    /\ w.call = "timer" => w.todo = {}

\* The threads.
Threads ==
    /\ th \in [Thread -> Work]
    /\ DispWork(th[Disp]) /\ ExecWork(th[Exec])

\* The types, more than TypeOK: what comes next fits the place a thread is at.
HydraTypes == Machines /\ Lists /\ Claims /\ Processes /\ Threads /\ history \subseteq Race

\* They imply TypeOK.
LEMMA TypesImply ==
    HydraTypes => TypeOK
<1> SUFFICES ASSUME HydraTypes PROVE TypeOK
  OBVIOUS
<1>1. \A o \in Listed : vms[vm[o].id] = o
  BY DEF HydraTypes, Lists, Listed
<1>2. \A t \in Thread : /\ th[t].vm \in Object \cup {None}
                        /\ th[t].todo \subseteq Object /\ th[t].usb \subseteq Device
  BY DEF HydraTypes, Threads, Work
<1>3. /\ th[Disp].at \in Place \cup StartPlace \cup {"soft", "signal", "each", "usbadd", "usbdel",
                                         "ended"}
      /\ th[Exec].at \in Place \cup {"round", "promote", "drop", "timers", "reap",
                                   "reaped", "exited", "dead"}
  BY DEF HydraTypes, Threads, DispWork, ExecWork, DispPlace, ExecPlace, Place, StartPlace
<1> QED
  BY <1>1, <1>2, <1>3 DEF HydraTypes, TypeOK, Machines, Machine, State, Lists, Claims, Processes

\* A thread does something else that fits it, the other what it did.
LEMMA ThreadMoves ==
    ASSUME Threads, NEW t \in Thread, NEW w \in Work, th' = [th EXCEPT ![t] = w],
           t = Disp => DispWork(w), t = Exec => ExecWork(w)
    PROVE  Threads' /\ th'[t] = w /\ \A u \in Thread \ {t} : th'[u] = th[u]
BY HydraAssumption DEF Threads, Thread

\* They hold at first.
LEMMA HydraInit ==
    Init => HydraTypes
<1> SUFFICES ASSUME Init PROVE HydraTypes
  OBVIOUS
<1>1. Machines
  BY HydraAssumption DEF Init, Machines, Machine, State, New
<1>2. Lists
  BY DEF Init, Lists
<1>3. Threads
  <2>1. Resting \in Work
    BY DEF Resting, Work, DispPlace
  <2>2. DispWork(Resting) /\ ExecWork(Resting)
    BY HydraAssumption DEF Resting, DispWork, ExecWork, DispPlace, ExecPlace, Working,
       StartPlace, Stopping, Quiet
  <2> QED
    BY <2>1, <2>2 DEF Init, Threads, Thread
<1> QED
  BY <1>1, <1>2, <1>3 DEF Init, HydraTypes, Claims, Processes

-----------------------------------------------------------------------------
(* The threads.                                                            *)

\* A thread that rests has no work;
LEMMA RestingWorks ==
    /\ Resting \in Work /\ DispWork(Resting) /\ ExecWork(Resting)
    /\ \A t \in Thread : Done(t) \in Work
    /\ DispWork(Done(Disp)) /\ ExecWork(Done(Exec))
<1>1. Resting \in Work /\ DispWork(Resting) /\ ExecWork(Resting)
  BY HydraAssumption DEF Resting, Work, DispWork, ExecWork, DispPlace, ExecPlace, Working,
     StartPlace, Stopping, Quiet
<1>2. Done(Disp) = Resting
  BY DEF Done, Resting
<1>3. Done(Exec) = [Resting EXCEPT !.at = "timers"]
  BY HydraAssumption DEF Done
<1>4. [Resting EXCEPT !.at = "timers"] \in Work /\ ExecWork([Resting EXCEPT !.at = "timers"])
  BY HydraAssumption DEF Resting, Work, ExecWork, DispPlace, ExecPlace, Working, Stopping, Quiet
<1> QED
  BY <1>1, <1>2, <1>3, <1>4 DEF Thread

\* nor has one whose hook or round has ended.
LEMMA DoneWorks ==
    ASSUME NEW t \in Thread
    PROVE  Done(t) \in Work /\ (t = Disp => DispWork(Done(t))) /\ (t = Exec => ExecWork(Done(t)))
BY RestingWorks

\* The dispatcher builds a new VM.
LEMMA BuildingWorks ==
    ASSUME NEW o \in Object
    PROVE  Building(o) \in Work /\ DispWork(Building(o))
<1>1. Building(o) \in [at : {"build"}, vm : {o}, call : {"new"}, todo : {{}}, usb : {{}},
                      next : {None}, new : {None}]
  BY DEF Building, Resting
<1> QED
  BY <1>1 DEF Work, DispWork, DispPlace, Working, Stopping, StartPlace

\* The steps of _stop() and of HydraServer.stop() by either thread,
LEMMA StopWorks ==
    ASSUME HydraTypes, NEW t \in Thread
    PROVE  /\ Kill(t) => Threads'
           /\ StopEnd(t) => Threads'
           /\ StopNext(t) => Threads'
           /\ StopClear(t) => Threads'
           /\ StopDown(t) => Threads'
<1>0. /\ Threads /\ th[t] \in Work /\ Resting \in Work
      /\ t = Disp => DispWork(th[t])
      /\ t = Exec => ExecWork(th[t])
      /\ t \in {Disp, Exec} /\ Disp # Exec
  BY HydraAssumption DEF HydraTypes, Threads, Resting, Work, DispPlace, Thread
<1>1. ASSUME Kill(t) PROVE Threads'
  <2> DEFINE w == [th[t] EXCEPT !.at = "end", !.usb = vm[Me(t)].usb]
  <2>1. w \in Work /\ Me(t) \in Object
    BY <1>0, <1>1 DEF Kill, At, Me, Work, DispPlace, ExecPlace, HydraTypes, Machines, Machine,
       DispWork, ExecWork, Working
  <2>2. (t = Disp => DispWork(w)) /\ (t = Exec => ExecWork(w))
    BY <1>0, <1>1 DEF Kill, At, Work, DispWork, ExecWork, DispPlace, ExecPlace, Working,
       Stopping, StartPlace, Quiet
  <2>3. th' = [th EXCEPT ![t] = w]
    BY <1>0, <1>1 DEF Kill
  <2> QED
    BY <1>0, <2>1, <2>2, <2>3, ThreadMoves
<1>2. ASSUME StopEnd(t) PROVE Threads'
  <2>d. Done(t) \in Work /\ (t = Disp => DispWork(Done(t))) /\ (t = Exec => ExecWork(Done(t)))
    BY DoneWorks
  <2>1. CASE Return(t)
    <3>1. CASE th[t].call = "visit"
      <4> DEFINE w == [th[t] EXCEPT !.at = "drop"]
      <4>1. w \in Work /\ (t = Disp => DispWork(w)) /\ (t = Exec => ExecWork(w))
        BY <1>0, <1>2, <3>1 DEF StopEnd, At, Work, DispWork, ExecWork, DispPlace, ExecPlace,
           Working, Stopping, StartPlace, Quiet, Resting
      <4>2. th' = [th EXCEPT ![t] = w]
        BY <2>1, <3>1 DEF Return
      <4> QED
        BY <1>0, <4>1, <4>2, ThreadMoves
    <3>2. CASE th[t].call = "all"
      <4> DEFINE w == [th[t] EXCEPT !.at = "all"]
      <4>1. w \in Work /\ (t = Disp => DispWork(w)) /\ (t = Exec => ExecWork(w))
        BY <1>0, <1>2, <3>2 DEF StopEnd, At, Work, DispWork, ExecWork, DispPlace, ExecPlace,
           Working, Stopping, StartPlace, Quiet, Resting
      <4>2. th' = [th EXCEPT ![t] = w]
        BY <2>1, <3>2 DEF Return
      <4> QED
        BY <1>0, <4>1, <4>2, ThreadMoves
    <3>3. CASE th[t].call \notin {"visit", "all"}
      BY <1>0, <2>1, <2>d, <3>3, ThreadMoves DEF Return
    <3> QED
      BY <3>1, <3>2, <3>3
  <2>2. CASE Raise(t)
    <3>1. CASE th[t].call = "timer" /\ Goto(t, "dead")
      <4> DEFINE w == [th[t] EXCEPT !.at = "dead"]
      <4>1. w \in Work /\ (t = Disp => DispWork(w)) /\ (t = Exec => ExecWork(w))
        BY <1>0, <1>2, <3>1 DEF StopEnd, At, Work, DispWork, ExecWork, DispPlace, ExecPlace,
           Working, Stopping, StartPlace, Quiet, Resting
      <4> QED
        BY <1>0, <3>1, <4>1, ThreadMoves DEF Goto
    <3>2. CASE th[t].next = "ended" /\ Goto(t, "ended")
      <4> DEFINE w == [th[t] EXCEPT !.at = "ended"]
      <4>1. w \in Work /\ (t = Disp => DispWork(w)) /\ (t = Exec => ExecWork(w))
        BY <1>0, <1>2, <3>2, HydraAssumption DEF StopEnd, At, Work, DispWork, ExecWork,
           DispPlace, ExecPlace, Working, Stopping, StartPlace, Quiet, Resting
      <4> QED
        BY <1>0, <3>2, <4>1, ThreadMoves DEF Goto
    <3>3. CASE Rest(t)
      BY <1>0, <2>d, <3>3, ThreadMoves DEF Rest
    <3> QED
      BY <2>2, <3>1, <3>2, <3>3 DEF Raise
  <2> QED
    BY <1>2, <2>1, <2>2 DEF StopEnd
<1>3. ASSUME StopNext(t) PROVE Threads'
  <2>0. th[t].at = "all"
    BY <1>3 DEF StopNext, At
  <2>1. ASSUME NEW o \in th[t].todo,
               th' = [th EXCEPT ![t].todo = @ \ {o}, ![t].vm = o,
                                ![t].at = IF Stops(o) THEN "kill" ELSE "all"]
        PROVE  Threads'
    <3> DEFINE p == IF Stops(o) THEN "kill" ELSE "all"
               w == [th[t] EXCEPT !.todo = @ \ {o}, !.vm = o, !.at = p]
    <3>0. o \in Object /\ p \in {"kill", "all"}
      BY <1>0 DEF Work
    <3> HIDE DEF p
    <3>1. w \in Work
      BY <1>0, <3>0 DEF Work, DispPlace
    <3>2. (t = Disp => DispWork(w)) /\ (t = Exec => ExecWork(w))
      BY <1>0, <2>0, <3>0 DEF Work, DispWork, ExecWork, DispPlace, ExecPlace, Working, Stopping,
         StartPlace, Quiet
    <3>3. th' = [th EXCEPT ![t] = w]
      BY <1>0, <2>1 DEF p
    <3> QED
      BY <1>0, <3>1, <3>2, <3>3, ThreadMoves
  <2>2. CASE Goto(t, "clear")
    <3> DEFINE w == [th[t] EXCEPT !.at = "clear"]
    <3>1. w \in Work /\ (t = Disp => DispWork(w)) /\ (t = Exec => ExecWork(w))
      BY <1>0, <2>0 DEF Work, DispWork, ExecWork, DispPlace, ExecPlace, Working, Stopping,
         StartPlace, Quiet
    <3> QED
      BY <1>0, <2>2, <3>1, ThreadMoves DEF Goto
  <2> QED
    BY <1>3, <2>1, <2>2 DEF StopNext
<1>4. ASSUME StopClear(t) PROVE Threads'
  <2> DEFINE w == [th[t] EXCEPT !.at = "down"]
  <2>1. w \in Work /\ (t = Disp => DispWork(w)) /\ (t = Exec => ExecWork(w))
    BY <1>0, <1>4 DEF StopClear, At, Work, DispWork, ExecWork, DispPlace, ExecPlace, Working,
       Stopping, StartPlace, Quiet, Resting
  <2> QED
    BY <1>0, <1>4, <2>1, ThreadMoves DEF StopClear, Goto
<1>5. ASSUME StopDown(t) PROVE Threads'
  <2>d. Done(t) \in Work /\ (t = Disp => DispWork(Done(t))) /\ (t = Exec => ExecWork(Done(t)))
    BY DoneWorks
  <2>1. CASE th[t].new # None
    <3> DEFINE w == Building(th[t].new)
    <3>0. t = Disp /\ th[t].new \in Object /\ th[t].next # "ended"
      BY <1>0, <2>1 DEF Work, DispWork, ExecWork
    <3>1. w \in Work /\ DispWork(w)
      BY <3>0, BuildingWorks
    <3>2. th' = [th EXCEPT ![t] = w]
      BY <1>5, <2>1, <3>0 DEF StopDown
    <3> QED
      BY <1>0, <3>0, <3>1, <3>2, ThreadMoves
  <2>2. CASE th[t].new = None /\ th[t].next = "ended"
    <3> DEFINE w == [th[t] EXCEPT !.at = "ended"]
    <3>1. w \in Work /\ (t = Disp => DispWork(w)) /\ (t = Exec => ExecWork(w))
      BY <1>0, <1>5, <2>2 DEF StopDown, At, Work, DispWork, ExecWork, DispPlace, ExecPlace,
         Working, Stopping, StartPlace, Quiet, Resting
    <3> QED
      BY <1>0, <1>5, <2>2, <3>1, ThreadMoves DEF StopDown
  <2>3. CASE th[t].new = None /\ th[t].next # "ended"
    BY <1>0, <1>5, <2>3, <2>d, ThreadMoves DEF StopDown
  <2> QED
    BY <2>1, <2>2, <2>3
<1> QED
  BY <1>1, <1>2, <1>3, <1>4, <1>5

\* the requests about one VM,
LEMMA HookWorks ==
    ASSUME HydraTypes
    PROVE  /\ (\E o \in Object : StartAgain(o)) => Threads'
           /\ (\E o \in Object : StopHook(o)) => Threads'
           /\ (\E o \in Object : SoftHook(o)) => Threads'
           /\ (\E o \in Object : \E s \in {"running", "sleeping"} : SleepHook(o, s)) => Threads'
           /\ (\E o \in Object : \E d \in Device : UsbAdd(o, d)) => Threads'
           /\ (\E o \in Object : \E d \in Device : UsbRemove(o, d)) => Threads'
<1>0. /\ Threads /\ th[Disp] \in Work /\ DispWork(th[Disp])
      /\ Disp \in Thread /\ Exec \in Thread /\ Disp # Exec
      /\ Listed \subseteq Object
  BY HydraAssumption DEF HydraTypes, Threads, Thread, Lists, Listed
<1>1. (\E o \in Object : StartAgain(o)) => Threads'
  <2> SUFFICES ASSUME NEW o \in Object, StartAgain(o) PROVE Threads'
    OBVIOUS
  <2> DEFINE w == [th[Disp] EXCEPT !.at = "build", !.vm = o, !.call = "again"]
  <2>0. th[Disp].at = "idle"
    BY <1>0 DEF StartAgain, At
  <2>1. w \in Work
    BY <1>0, <2>0 DEF Work, DispPlace, ExecPlace
  <2>2. DispWork(w)
    BY <1>0, <2>0, HydraAssumption DEF Work, DispWork, DispPlace, ExecPlace, Working, Stopping,
       StartPlace, Quiet
  <2>3. th' = [th EXCEPT ![Disp] = w]
    BY <1>0, <2>0 DEF StartAgain, At
  <2> QED
    BY <1>0, <2>1, <2>2, <2>3, ThreadMoves
<1>2. (\E o \in Object : StopHook(o)) => Threads'
  <2> SUFFICES ASSUME NEW o \in Object, StopHook(o) PROVE Threads'
    OBVIOUS
  <2> DEFINE w == [th[Disp] EXCEPT !.at = "kill", !.vm = o, !.call = "hook"]
  <2>0. th[Disp].at = "idle"
    BY <1>0 DEF StopHook, Asked, At
  <2>1. w \in Work
    BY <1>0, <2>0 DEF Work, DispPlace, ExecPlace
  <2>2. DispWork(w)
    BY <1>0, <2>0, HydraAssumption DEF Work, DispWork, DispPlace, ExecPlace, Working, Stopping,
       StartPlace, Quiet
  <2>3. th' = [th EXCEPT ![Disp] = w]
    BY <1>0, <2>0 DEF StopHook, BeginStop
  <2> QED
    BY <1>0, <2>1, <2>2, <2>3, ThreadMoves
<1>3. (\E o \in Object : SoftHook(o)) => Threads'
  <2> SUFFICES ASSUME NEW o \in Object, SoftHook(o) PROVE Threads'
    OBVIOUS
  <2> DEFINE w == [th[Disp] EXCEPT !.at = "soft", !.vm = o]
  <2>0. th[Disp].at = "idle"
    BY <1>0 DEF SoftHook, Asked, At
  <2>1. w \in Work
    BY <1>0, <2>0 DEF Work, DispPlace, ExecPlace
  <2>2. DispWork(w)
    BY <1>0, <2>0, HydraAssumption DEF Work, DispWork, DispPlace, ExecPlace, Working, Stopping,
       StartPlace, Quiet
  <2>3. th' = [th EXCEPT ![Disp] = w]
    BY <1>0, <2>0 DEF SoftHook, Begin
  <2> QED
    BY <1>0, <2>1, <2>2, <2>3, ThreadMoves
<1>4. (\E o \in Object : \E s \in {"running", "sleeping"} : SleepHook(o, s)) => Threads'
  <2> SUFFICES ASSUME NEW o \in Object, NEW s \in {"running", "sleeping"}, SleepHook(o, s)
               PROVE  Threads'
    OBVIOUS
  <2> DEFINE w == [th[Disp] EXCEPT !.at = "signal", !.vm = o, !.next = s]
  <2>0. th[Disp].at = "idle"
    BY <1>0 DEF SleepHook, Asked, At
  <2>1. w \in Work
    BY <1>0, <2>0 DEF Work, DispPlace, ExecPlace
  <2>2. DispWork(w)
    BY <1>0, <2>0, HydraAssumption DEF Work, DispWork, DispPlace, ExecPlace, Working, Stopping,
       StartPlace, Quiet
  <2>3. th' = [th EXCEPT ![Disp] = w]
    BY <1>0, <2>0 DEF SleepHook, Asked, At
  <2> QED
    BY <1>0, <2>1, <2>2, <2>3, ThreadMoves
<1>5. (\E o \in Object : \E d \in Device : UsbAdd(o, d)) => Threads'
  <2> SUFFICES ASSUME NEW o \in Object, NEW d \in Device, UsbAdd(o, d) PROVE Threads'
    OBVIOUS
  <2> DEFINE w == [th[Disp] EXCEPT !.at = "usbadd", !.vm = o, !.usb = {d}]
  <2>0. th[Disp].at = "idle"
    BY <1>0 DEF UsbAdd, Asked, At
  <2>1. w \in Work
    BY <1>0, <2>0 DEF Work, DispPlace, ExecPlace
  <2>2. DispWork(w)
    BY <1>0, <2>0, HydraAssumption DEF Work, DispWork, DispPlace, ExecPlace, Working, Stopping,
       StartPlace, Quiet
  <2>3. th' = [th EXCEPT ![Disp] = w]
    BY <1>0, <2>0 DEF UsbAdd, Asked, At
  <2> QED
    BY <1>0, <2>1, <2>2, <2>3, ThreadMoves
<1>6. (\E o \in Object : \E d \in Device : UsbRemove(o, d)) => Threads'
  <2> SUFFICES ASSUME NEW o \in Object, NEW d \in Device, UsbRemove(o, d) PROVE Threads'
    OBVIOUS
  <2> DEFINE w == [th[Disp] EXCEPT !.at = "usbdel", !.vm = o, !.usb = {d}]
  <2>0. th[Disp].at = "idle"
    BY <1>0 DEF UsbRemove, Asked, At
  <2>1. w \in Work
    BY <1>0, <2>0 DEF Work, DispPlace, ExecPlace
  <2>2. DispWork(w)
    BY <1>0, <2>0, HydraAssumption DEF Work, DispWork, DispPlace, ExecPlace, Working, Stopping,
       StartPlace, Quiet
  <2>3. th' = [th EXCEPT ![Disp] = w]
    BY <1>0, <2>0 DEF UsbRemove, Asked, At
  <2> QED
    BY <1>0, <2>1, <2>2, <2>3, ThreadMoves
<1> QED
  BY <1>1, <1>2, <1>3, <1>4, <1>5, <1>6

\* the beginning of HydraServer.stop(),
LEMMA AllWorks ==
    ASSUME HydraTypes
    PROVE  /\ \A n \in Object \cup {None} : BeginStopAll(Disp, None, n) => Threads'
           /\ BeginStopAll(Disp, "ended", None) => Threads'
           /\ \A n \in {None, "clear"} : BeginStopAll(Exec, n, None) => Threads'
<1>0. /\ Threads /\ Disp \in Thread /\ Exec \in Thread /\ Disp # Exec /\ Listed \subseteq Object
  BY HydraAssumption DEF HydraTypes, Threads, Thread, Lists, Listed
<1>1. ASSUME NEW t \in Thread, NEW n, NEW o, BeginStopAll(t, n, o),
             t = Disp => /\ n \in {None, "ended"} /\ o \in Object \cup {None}
                         /\ n = None \/ o = None,
             t = Exec => n \in {None, "clear"} /\ o = None
      PROVE  Threads'
  <2> DEFINE w == [Resting EXCEPT !.at = "all", !.call = "all", !.todo = Listed, !.next = n,
                                  !.new = o]
  <2>1. w \in [at : {"all"}, vm : {None}, call : {"all"}, todo : {Listed}, usb : {{}},
               next : {n}, new : {o}]
    BY DEF Resting
  <2>2. w \in Work /\ (t = Disp => DispWork(w)) /\ (t = Exec => ExecWork(w))
    BY <1>0, <1>1, <2>1, HydraAssumption DEF Work, DispWork, ExecWork, DispPlace, ExecPlace,
       Working, Stopping, StartPlace, Quiet, Thread
  <2>3. th' = [th EXCEPT ![t] = w]
    BY <1>0, <1>1 DEF BeginStopAll
  <2> QED
    BY <1>0, <2>2, <2>3, ThreadMoves
<1> QED
  BY <1>0, <1>1


\* the other requests,
LEMMA RequestWorks ==
    ASSUME HydraTypes
    PROVE  /\ (\E v \in Vmid : StartNew(v)) => Threads'
           /\ HibernateHook => Threads'
           /\ Shutdown => Threads'
<1>0. /\ Threads /\ th[Disp] \in Work /\ DispWork(th[Disp])
      /\ Disp \in Thread /\ Exec \in Thread /\ Disp # Exec
      /\ Listed \subseteq Object
  BY HydraAssumption DEF HydraTypes, Threads, Thread, Lists, Listed
<1>1. (\E v \in Vmid : StartNew(v)) => Threads'
  <2> SUFFICES ASSUME NEW v \in Vmid, StartNew(v) PROVE Threads'
    OBVIOUS
  <2> DEFINE o == CHOOSE k \in Object : Free(k)
             w == [th[Disp] EXCEPT !.at = IF running THEN "build" ELSE "boot", !.vm = o,
                                   !.call = "new"]
  <2>0. th[Disp].at = "idle" /\ o \in Object
    BY DEF StartNew, At
  <2>3. th' = [th EXCEPT ![Disp] = w]
    BY <1>0 DEF StartNew
  <2> HIDE DEF o
  <2>1. w \in Work
    BY <1>0, <2>0 DEF Work, DispPlace
  <2>2. DispWork(w)
    BY <1>0, <2>0, HydraAssumption DEF Work, DispWork, DispPlace, Working, Stopping, StartPlace
  <2> QED
    BY <1>0, <2>1, <2>2, <2>3, ThreadMoves
<1>2. HibernateHook => Threads'
  <2> SUFFICES ASSUME HibernateHook PROVE Threads'
    OBVIOUS
  <2> DEFINE w == [Resting EXCEPT !.at = "each", !.call = "each", !.todo = Listed,
                                  !.next = "sleeping"]
  <2>1. w \in [at : {"each"}, vm : {None}, call : {"each"}, todo : {Listed}, usb : {{}},
               next : {"sleeping"}, new : {None}]
    BY DEF Resting
  <2>2. w \in Work /\ DispWork(w)
    BY <1>0, <2>1, HydraAssumption DEF Work, DispWork, DispPlace, Working, Stopping, StartPlace
  <2>3. th' = [th EXCEPT ![Disp] = w]
    BY <1>0 DEF HibernateHook
  <2> QED
    BY <1>0, <2>2, <2>3, ThreadMoves
<1>3. Shutdown => Threads'
  <2> SUFFICES ASSUME Shutdown PROVE Threads'
    OBVIOUS
  <2>1. None \in Object \cup {None} /\ None \in {None, "ended"} /\ "ended" \in {None, "ended"}
    OBVIOUS
  <2> QED
    BY <1>0, <2>1, AllWorks DEF Shutdown
<1> QED
  BY <1>1, <1>2, <1>3


\* what the dispatcher does for them,
LEMMA DispWorks ==
    ASSUME HydraTypes
    PROVE  /\ Build => Threads'
           /\ Spawn => Threads'
           /\ Poll => Threads'
           /\ Perm => Threads'
           /\ SoftTimer => Threads'
           /\ UsbSet => Threads'
           /\ UsbForget => Threads'
<1>0. /\ Threads /\ th[Disp] \in Work /\ DispWork(th[Disp])
      /\ Disp \in Thread /\ Exec \in Thread /\ Disp # Exec
      /\ Listed \subseteq Object
  BY HydraAssumption DEF HydraTypes, Threads, Thread, Lists, Listed
<1>r. Rest(Disp) => Threads'
  BY <1>0, DoneWorks, ThreadMoves DEF Rest
<1>1. Build => Threads'
  <2> SUFFICES ASSUME Build PROVE Threads'
    OBVIOUS
  <2>0. th[Disp].at = "build" /\ (Rest(Disp) \/ Goto(Disp, "spawn"))
    BY DEF Build, Fail, At
  <2>1. CASE Goto(Disp, "spawn")
    <3> DEFINE w == [th[Disp] EXCEPT !.at = "spawn"]
    <3>1. w \in Work
      BY <1>0 DEF Work, DispPlace, ExecPlace
    <3>2. DispWork(w)
      BY <1>0, <2>0, HydraAssumption DEF Work, DispWork, DispPlace, ExecPlace, Working, Stopping,
         StartPlace, Quiet
    <3> QED
      BY <1>0, <2>1, <3>1, <3>2, ThreadMoves DEF Goto
  <2> QED
    BY <1>r, <2>0, <2>1
<1>2. Spawn => Threads'
  <2> SUFFICES ASSUME Spawn PROVE Threads'
    OBVIOUS
  <2>0. th[Disp].at = "spawn" /\ (Rest(Disp) \/ Goto(Disp, "poll"))
    BY DEF Spawn, Fail, At
  <2>1. CASE Goto(Disp, "poll")
    <3> DEFINE w == [th[Disp] EXCEPT !.at = "poll"]
    <3>1. w \in Work
      BY <1>0 DEF Work, DispPlace, ExecPlace
    <3>2. DispWork(w)
      BY <1>0, <2>0, HydraAssumption DEF Work, DispWork, DispPlace, ExecPlace, Working, Stopping,
         StartPlace, Quiet
    <3> QED
      BY <1>0, <2>1, <3>1, <3>2, ThreadMoves DEF Goto
  <2> QED
    BY <1>r, <2>0, <2>1
<1>3. Poll => Threads'
  <2> SUFFICES ASSUME Poll PROVE Threads'
    OBVIOUS
  <2>0. th[Disp].at = "poll" /\ (Rest(Disp) \/ Goto(Disp, "perm"))
    BY DEF Poll, Started, At
  <2>1. CASE Goto(Disp, "perm")
    <3> DEFINE w == [th[Disp] EXCEPT !.at = "perm"]
    <3>1. w \in Work
      BY <1>0 DEF Work, DispPlace, ExecPlace
    <3>2. DispWork(w)
      BY <1>0, <2>0, HydraAssumption DEF Work, DispWork, DispPlace, ExecPlace, Working, Stopping,
         StartPlace, Quiet
    <3> QED
      BY <1>0, <2>1, <3>1, <3>2, ThreadMoves DEF Goto
  <2> QED
    BY <1>r, <2>0, <2>1
<1>4. Perm => Threads'
  <2> SUFFICES ASSUME Perm PROVE Threads'
    OBVIOUS
  <2> QED
    BY <1>r DEF Perm, Started
<1>5. SoftTimer => Threads'
  <2> SUFFICES ASSUME SoftTimer PROVE Threads'
    OBVIOUS
  <2> QED
    BY <1>r DEF SoftTimer
<1>6. UsbSet => Threads'
  <2> SUFFICES ASSUME UsbSet PROVE Threads'
    OBVIOUS
  <2> QED
    BY <1>r DEF UsbSet
<1>7. UsbForget => Threads'
  <2> SUFFICES ASSUME UsbForget PROVE Threads'
    OBVIOUS
  <2> QED
    BY <1>r DEF UsbForget
<1> QED
  BY <1>1, <1>2, <1>3, <1>4, <1>5, <1>6, <1>7


\* the executer's steps that look at one VM at most,
LEMMA ExecWorks ==
    ASSUME HydraTypes
    PROVE  /\ Promote => Threads'
           /\ Drop => Threads'
           /\ RoundEnd => Threads'
           /\ Timers => Threads'
<1>0. /\ Threads /\ th[Exec] \in Work /\ ExecWork(th[Exec])
      /\ Disp \in Thread /\ Exec \in Thread /\ Disp # Exec
      /\ Listed \subseteq Object
  BY HydraAssumption DEF HydraTypes, Threads, Thread, Lists, Listed
<1>r. Rest(Exec) => Threads'
  BY <1>0, DoneWorks, ThreadMoves DEF Rest
<1>1. Promote => Threads'
  <2> SUFFICES ASSUME Promote PROVE Threads'
    OBVIOUS
  <2>0. th[Exec].at = "promote" /\ (Rest(Exec) \/ Goto(Exec, "round"))
    BY DEF Promote, At
  <2>1. CASE Goto(Exec, "round")
    <3> DEFINE w == [th[Exec] EXCEPT !.at = "round"]
    <3>1. w \in Work
      BY <1>0 DEF Work, DispPlace, ExecPlace
    <3>2. ExecWork(w)
      BY <1>0, <2>0, HydraAssumption DEF Work, ExecWork, DispPlace, ExecPlace, Working, Stopping,
         StartPlace, Quiet
    <3> QED
      BY <1>0, <2>1, <3>1, <3>2, ThreadMoves DEF Goto
  <2> QED
    BY <1>r, <2>0, <2>1
<1>2. Drop => Threads'
  <2> SUFFICES ASSUME Drop PROVE Threads'
    OBVIOUS
  <2>0. th[Exec].at = "drop" /\ (Rest(Exec) \/ Goto(Exec, "kill") \/ Goto(Exec, "round"))
    BY DEF Drop, At
  <2>1. CASE Goto(Exec, "kill")
    <3> DEFINE w == [th[Exec] EXCEPT !.at = "kill"]
    <3>1. w \in Work
      BY <1>0 DEF Work, DispPlace, ExecPlace
    <3>2. ExecWork(w)
      BY <1>0, <2>0, HydraAssumption DEF Work, ExecWork, DispPlace, ExecPlace, Working, Stopping,
         StartPlace, Quiet
    <3> QED
      BY <1>0, <2>1, <3>1, <3>2, ThreadMoves DEF Goto
  <2>2. CASE Goto(Exec, "round")
    <3> DEFINE w == [th[Exec] EXCEPT !.at = "round"]
    <3>1. w \in Work
      BY <1>0 DEF Work, DispPlace, ExecPlace
    <3>2. ExecWork(w)
      BY <1>0, <2>0, HydraAssumption DEF Work, ExecWork, DispPlace, ExecPlace, Working, Stopping,
         StartPlace, Quiet
    <3> QED
      BY <1>0, <2>2, <3>1, <3>2, ThreadMoves DEF Goto
  <2> QED
    BY <1>r, <2>0, <2>1, <2>2
<1>3. RoundEnd => Threads'
  <2> SUFFICES ASSUME RoundEnd PROVE Threads'
    OBVIOUS
  <2> QED
    BY <1>r DEF RoundEnd
<1>4. Timers => Threads'
  <2> SUFFICES ASSUME Timers PROVE Threads'
    OBVIOUS
  <2>0. th[Exec].at = "timers" /\ (Rest(Exec) \/ Goto(Exec, "reap"))
    BY DEF Timers, At
  <2>1. CASE Goto(Exec, "reap")
    <3> DEFINE w == [th[Exec] EXCEPT !.at = "reap"]
    <3>1. w \in Work
      BY <1>0 DEF Work, DispPlace, ExecPlace
    <3>2. ExecWork(w)
      BY <1>0, <2>0, HydraAssumption DEF Work, ExecWork, DispPlace, ExecPlace, Working, Stopping,
         StartPlace, Quiet
    <3> QED
      BY <1>0, <2>1, <3>1, <3>2, ThreadMoves DEF Goto
  <2> QED
    BY <1>r, <2>0, <2>1
<1> QED
  BY <1>1, <1>2, <1>3, <1>4

\* and all the others keep the types of the threads.
LEMMA MoreWorks ==
    ASSUME HydraTypes
    PROVE  /\ Boot(Disp) \/ Boot(Exec) => Threads'
           /\ Signalled \/ HibernateNext => Threads'
           /\ ThreadBegin \/ Verdict \/ ReapEnd => Threads'
           /\ (\E o \in Object : Visit(o) \/ TimerDue(o)) => Threads'
           /\ (\E w \in watch : Reap(w)) => Threads'
<1>0. /\ Threads
      /\ th[Disp] \in Work /\ DispWork(th[Disp]) /\ th[Exec] \in Work /\ ExecWork(th[Exec])
      /\ Disp \in Thread /\ Exec \in Thread /\ Disp # Exec
      /\ Listed \subseteq Object
  BY HydraAssumption DEF HydraTypes, Threads, Thread, Lists, Listed
<1>r. Rest(Disp) \/ Rest(Exec) => Threads'
  BY <1>0, DoneWorks, ThreadMoves DEF Rest
<1>1. ASSUME Boot(Disp) PROVE Threads'
  <2>1. th[Disp].vm \in Object
    BY <1>0, <1>1 DEF Boot, At, DispWork
  <2>2. CASE th' = [th EXCEPT ![Disp] = Building(@.vm)]
    <3>1. Building(th[Disp].vm) \in Work /\ DispWork(Building(th[Disp].vm))
      BY <2>1, BuildingWorks
    <3> QED
      BY <1>0, <2>2, <3>1, ThreadMoves
  <2>3. CASE BeginStopAll(Disp, None, Me(Disp))
    BY <2>1, <2>3, AllWorks DEF Me
  <2> QED
    BY <1>0, <1>1, <2>2, <2>3 DEF Boot
<1>2. ASSUME Boot(Exec) PROVE Threads'
  <2>1. CASE th' = [th EXCEPT ![Exec] = Done(Exec)]
    BY <1>r, <2>1 DEF Rest
  <2>2. CASE BeginStopAll(Exec, "clear", Me(Exec))
    <3>1. Me(Exec) = None
      BY <1>0, <1>2 DEF Boot, At, ExecWork, Me
    <3> QED
      BY <2>2, <3>1, AllWorks
  <2> QED
    BY <1>0, <1>2, <2>1, <2>2 DEF Boot
<1>3. ASSUME Signalled PROVE Threads'
  <2>1. CASE th[Disp].call = "each" /\ Goto(Disp, "each")
    <3> DEFINE w == [th[Disp] EXCEPT !.at = "each"]
    <3>1. w \in Work
      BY <1>0 DEF Work, DispPlace
    <3>2. DispWork(w)
      BY <1>0, <1>3, <2>1 DEF Signalled, At, Work, DispWork, DispPlace, Working, Stopping,
         StartPlace
    <3> QED
      BY <1>0, <2>1, <3>1, <3>2, ThreadMoves DEF Goto
  <2> QED
    BY <1>r, <1>3, <2>1 DEF Signalled
<1>4. ASSUME HibernateNext PROVE Threads'
  <2>0. th[Disp].at = "each"
    BY <1>4 DEF HibernateNext, At
  <2>1. ASSUME NEW o \in th[Disp].todo,
               th' = [th EXCEPT ![Disp].todo = @ \ {o}, ![Disp].vm = o,
                             ![Disp].at = IF vm[o].state = "running" THEN "signal" ELSE "each"]
        PROVE  Threads'
    <3> DEFINE p == IF vm[o].state = "running" THEN "signal" ELSE "each"
               w == [th[Disp] EXCEPT !.todo = @ \ {o}, !.vm = o, !.at = p]
    <3>0. o \in Object /\ p \in {"signal", "each"}
      BY <1>0 DEF Work
    <3> HIDE DEF p
    <3>1. w \in Work
      BY <1>0, <3>0 DEF Work, DispPlace
    <3>w. /\ w.at = p /\ w.vm = o /\ w.call = "each" /\ w.next = "sleeping"
          /\ w.new = None
      BY <1>0, <2>0, <3>0 DEF Work, DispWork, Stopping
    <3>3. th' = [th EXCEPT ![Disp] = w]
      BY <1>0, <2>1 DEF p
    <3> HIDE DEF w
    <3>2. DispWork(w)
      BY <3>w, <3>0, HydraAssumption DEF DispWork, DispPlace, Working, Stopping, StartPlace
    <3> QED
      BY <1>0, <3>1, <3>2, <3>3, ThreadMoves
  <2> QED
    BY <1>r, <1>4, <2>1 DEF HibernateNext
<1>5. ASSUME ThreadBegin PROVE Threads'
  <2>0. th[Exec].at = "idle"
    BY <1>5 DEF ThreadBegin, At
  <2>1. ASSUME NEW p \in {"timers", "boot"}, Goto(Exec, p) PROVE Threads'
    <3> DEFINE w == [th[Exec] EXCEPT !.at = p]
    <3>1. w \in Work
      BY <1>0, <2>1 DEF Work, ExecPlace
    <3>2. ExecWork(w)
      BY <1>0, <2>0, <2>1, HydraAssumption DEF Work, ExecWork, ExecPlace, Working, Stopping,
         Quiet
    <3> QED
      BY <1>0, <2>1, <3>1, <3>2, ThreadMoves DEF Goto
  <2>2. CASE BeginStopAll(Exec, None, None)
    BY <2>2, AllWorks
  <2>3. CASE th' = [th EXCEPT ![Exec].at = "round", ![Exec].todo = Listed]
    <3> DEFINE w == [th[Exec] EXCEPT !.at = "round", !.todo = Listed]
    <3>1. w \in Work
      BY <1>0 DEF Work, ExecPlace
    <3>2. ExecWork(w)
      BY <1>0, <2>0, HydraAssumption DEF Work, ExecWork, ExecPlace, Working, Stopping, Quiet
    <3>3. th' = [th EXCEPT ![Exec] = w]
      BY <1>0, <2>3
    <3> QED
      BY <1>0, <3>1, <3>2, <3>3, ThreadMoves
  <2> QED
    BY <1>5, <2>1, <2>2, <2>3 DEF ThreadBegin
<1>6. ASSUME Verdict PROVE Threads'
  <2> DEFINE w == [Resting EXCEPT !.at = "reaped"]
  <2>1. w \in Work /\ ExecWork(w)
    BY HydraAssumption DEF Resting, Work, ExecWork, ExecPlace, Working, Stopping, Quiet
  <2> QED
    BY <1>0, <1>6, <2>1, ThreadMoves DEF Verdict
<1>7. ASSUME ReapEnd PROVE Threads'
  <2>0. th[Exec].at \in {"reap", "reaped"}
    BY <1>7 DEF ReapEnd, At
  <2> DEFINE w == [th[Exec] EXCEPT !.at = "idle"]
  <2>1. w \in Work
    BY <1>0 DEF Work, ExecPlace
  <2>2. ExecWork(w)
    BY <1>0, <2>0, HydraAssumption DEF Work, ExecWork, ExecPlace, Working, Stopping, Quiet
  <2> QED
    BY <1>0, <1>7, <2>1, <2>2, ThreadMoves DEF ReapEnd, Goto
<1>8. ASSUME NEW o \in Object, Visit(o) PROVE Threads'
  <2>1. PICK p \in {"kill", "round", "promote", "drop"} :
          th' = [th EXCEPT ![Exec].at = p, ![Exec].vm = o, ![Exec].call = "visit",
                           ![Exec].todo = @ \ {o}]
    BY <1>8 DEF Visit
  <2> DEFINE w == [th[Exec] EXCEPT !.at = p, !.vm = o, !.call = "visit", !.todo = @ \ {o}]
  <2>2. w \in Work
    BY <1>0, <2>1 DEF Work, ExecPlace
  <2>3. ExecWork(w)
    BY <1>0, <2>1, HydraAssumption DEF Work, ExecWork, ExecPlace, Working, Stopping, Quiet
  <2>4. th' = [th EXCEPT ![Exec] = w]
    BY <1>0, <2>1
  <2> QED
    BY <1>0, <2>2, <2>3, <2>4, ThreadMoves
<1>9. ASSUME NEW o \in Object, TimerDue(o) PROVE Threads'
  <2>0. th[Exec].at = "timers"
    BY <1>9 DEF TimerDue, At
  <2>1. CASE UNCHANGED th
    BY <1>0, <2>1 DEF Threads
  <2>2. CASE BeginStop(Exec, o, "timer")
    <3> DEFINE w == [th[Exec] EXCEPT !.at = "kill", !.vm = o, !.call = "timer"]
    <3>1. w \in Work
      BY <1>0 DEF Work, ExecPlace
    <3>2. ExecWork(w)
      BY <1>0, <2>0, HydraAssumption DEF Work, ExecWork, ExecPlace, Working, Stopping, Quiet
    <3>3. th' = [th EXCEPT ![Exec] = w]
      BY <1>0, <2>2 DEF BeginStop
    <3> QED
      BY <1>0, <3>1, <3>2, <3>3, ThreadMoves
  <2> QED
    BY <1>9, <2>1, <2>2 DEF TimerDue
<1>10. ASSUME NEW w \in watch, Reap(w) PROVE Threads'
  <2>0. th[Exec].at \in {"reap", "reaped"} /\ w[2] \in Object
    BY <1>10 DEF Reap, At, HydraTypes, Processes
  <2>1. CASE th' = [th EXCEPT ![Exec].at = "reaped"]
    <3> DEFINE x == [th[Exec] EXCEPT !.at = "reaped"]
    <3>1. x \in Work
      BY <1>0 DEF Work, ExecPlace
    <3>2. ExecWork(x)
      BY <1>0, <2>0, HydraAssumption DEF Work, ExecWork, ExecPlace, Working, Stopping, Quiet
    <3>3. th' = [th EXCEPT ![Exec] = x]
      BY <1>0, <2>1
    <3> QED
      BY <1>0, <3>1, <3>2, <3>3, ThreadMoves
  <2>2. ASSUME NEW s \in {"failed", "done"},
               th' = [th EXCEPT ![Exec].at = "exited", ![Exec].vm = w[2], ![Exec].next = s]
        PROVE  Threads'
    <3> DEFINE x == [th[Exec] EXCEPT !.at = "exited", !.vm = w[2], !.next = s]
    <3>1. x \in Work
      BY <1>0, <2>0, <2>2 DEF Work, ExecPlace
    <3>2. ExecWork(x)
      BY <1>0, <2>0, <2>2, HydraAssumption DEF Work, ExecWork, ExecPlace, Working, Stopping,
         Quiet
    <3>3. th' = [th EXCEPT ![Exec] = x]
      BY <1>0, <2>2
    <3> QED
      BY <1>0, <3>1, <3>2, <3>3, ThreadMoves
  <2> QED
    BY <1>10, <2>1, <2>2 DEF Reap
<1> QED
  BY <1>1, <1>2, <1>3, <1>4, <1>5, <1>6, <1>7, <1>8, <1>9, <1>10

-----------------------------------------------------------------------------
(* The VMs, the lists and the claims.                                      *)

\* A VM object is changed, but not its id.
LEMMA MachineChange ==
    ASSUME Machines, NEW o \in Object, NEW m \in Machine, m.id = vm[o].id,
           vm' = [vm EXCEPT ![o] = m]
    PROVE  Machines' /\ \A k \in Object : vm'[k].id = vm[k].id
BY DEF Machines, Machine

\* The steps that change one keep its type and its id.
LEMMA MachinesKept ==
    ASSUME HydraTypes,
           \/ \E t \in Thread : Stop(t)
           \/ Build \/ Spawn \/ Poll \/ Perm \/ SoftTimer \/ Signalled \/ UsbSet \/ UsbForget
           \/ Promote \/ Verdict \/ \E o \in Object : Visit(o) \/ TimerDue(o)
    PROVE  Machines' /\ \A k \in Object : vm'[k].id = vm[k].id
<1>0. /\ Machines /\ Processes /\ Disp \in Thread /\ Exec \in Thread
      /\ \A t \in Thread : th[t] \in Work /\ (At(t, "kill") \/ At(t, "end") => Me(t) \in Object)
      /\ th[Disp].at \in Working => Me(Disp) \in Object
      /\ th[Exec].at \in Working => Me(Exec) \in Object
  BY DEF HydraTypes, Threads, Thread, DispWork, ExecWork, Working, At, Me
<1>s. ASSUME NEW o \in Object, NEW s \in State, Assign(o, s)
      PROVE  Machines' /\ \A k \in Object : vm'[k].id = vm[k].id
  <2> DEFINE m == [vm[o] EXCEPT !.state = s]
  <2>1. m \in Machine /\ m.id = vm[o].id
    BY <1>0 DEF Machines, Machine
  <2> QED
    BY <1>0, <1>s, <2>1, MachineChange DEF Assign
<1>1. ASSUME NEW t \in Thread, Kill(t) PROVE Machines' /\ \A k \in Object : vm'[k].id = vm[k].id
  <2> DEFINE o == Me(t)
             m == [vm[o] EXCEPT !.proc = None, !.adapters = FALSE, !.timer = FALSE]
  <2>0. o \in Object
    BY <1>0, <1>1 DEF Kill
  <2>1. m \in Machine /\ m.id = vm[o].id
    BY <1>0, <2>0 DEF Machines, Machine
  <2>2. vm' = [vm EXCEPT ![o] = m]
    BY <1>0, <1>1, <2>0 DEF Kill, Machines
  <2> QED
    BY <1>0, <2>0, <2>1, <2>2, MachineChange
<1>2. ASSUME NEW t \in Thread, StopEnd(t) PROVE Machines' /\ \A k \in Object : vm'[k].id = vm[k].id
  <2> DEFINE o == Me(t)
             m == IF Raises(t) THEN [vm[o] EXCEPT !.usb = @ \ th[t].usb]
                  ELSE [vm[o] EXCEPT !.usb = {}, !.state = "stopped"]
  <2>0. o \in Object
    BY <1>0, <1>2 DEF StopEnd
  <2>1. m \in Machine /\ m.id = vm[o].id
    BY <1>0, <2>0 DEF Machines, Machine, State
  <2>2. vm' = [vm EXCEPT ![o] = m]
    BY <1>0, <1>2, <2>0 DEF StopEnd, Machines
  <2> QED
    BY <1>0, <2>0, <2>1, <2>2, MachineChange
<1>3. ASSUME Build PROVE Machines' /\ \A k \in Object : vm'[k].id = vm[k].id
  <2> DEFINE o == Me(Disp)
  <2>0. o \in Object
    BY <1>0, <1>3 DEF Build, At, Working
  <2> DEFINE m == [vm[o] EXCEPT !.state = "stopped", !.proc = None]
             n == [m EXCEPT !.adapters = TRUE]
  <2>1. m \in Machine /\ m.id = vm[o].id /\ n \in Machine /\ n.id = vm[o].id
    BY <1>0, <2>0 DEF Machines, Machine, State
  <2>2. [vm EXCEPT ![o].state = "stopped", ![o].proc = None] = [vm EXCEPT ![o] = m]
    BY <1>0, <2>0 DEF Machines
  <2>3. vm' = [vm EXCEPT ![o] = m] \/ vm' = [[vm EXCEPT ![o] = m] EXCEPT ![o].adapters = TRUE]
    BY <1>3, <2>2 DEF Build
  <2>4. [[vm EXCEPT ![o] = m] EXCEPT ![o].adapters = TRUE] = [vm EXCEPT ![o] = n]
    BY <1>0, <2>0 DEF Machines
  <2>5. vm' = [vm EXCEPT ![o] = m] \/ vm' = [vm EXCEPT ![o] = n]
    BY <2>3, <2>4
  <2> HIDE DEF m, n
  <2> QED
    BY <1>0, <2>0, <2>1, <2>5, MachineChange
<1>4. ASSUME Spawn PROVE Machines' /\ \A k \in Object : vm'[k].id = vm[k].id
  <2> DEFINE o == Me(Disp)
  <2>0. o \in Object
    BY <1>0, <1>4 DEF Spawn, At, Working
  <2>1. PICK made \in BOOLEAN, p \in Process \cup {None} :
          \/ vm' = [vm EXCEPT ![o].proc = p, ![o].wait = 0, ![o].adapters = made]
          \/ vm' = [vm EXCEPT ![o].wait = 0, ![o].adapters = made]
    <3> DEFINE unused == Process \ (alive \cup {vm[k].proc : k \in Object}
                                          \cup {w[1] : w \in watch})
               q == CHOOSE p \in unused : TRUE
    <3>1. unused # {} => q \in Process
      OBVIOUS
    <3>2. \E made \in BOOLEAN :
             \/ unused # {} /\ vm' = [vm EXCEPT ![o].proc = q, ![o].wait = 0, ![o].adapters = made]
             \/ vm' = [vm EXCEPT ![o].wait = 0, ![o].adapters = made]
      BY <1>4 DEF Spawn
    <3> QED
      BY <3>1, <3>2
  <2> DEFINE m == [vm[o] EXCEPT !.proc = p, !.wait = 0, !.adapters = made]
             n == [vm[o] EXCEPT !.wait = 0, !.adapters = made]
  <2>2. m \in Machine /\ m.id = vm[o].id /\ n \in Machine /\ n.id = vm[o].id
    BY <1>0, <2>0 DEF Machines, Machine
  <2>3. vm' = [vm EXCEPT ![o] = m] \/ vm' = [vm EXCEPT ![o] = n]
    BY <1>0, <2>0, <2>1 DEF Machines
  <2> QED
    BY <1>0, <2>0, <2>2, <2>3, MachineChange
<1>5. ASSUME Poll \/ Perm PROVE Machines' /\ \A k \in Object : vm'[k].id = vm[k].id
  <2>0. Me(Disp) \in Object
    BY <1>0, <1>5 DEF Poll, Perm, At, Working
  <2>1. UNCHANGED vm \/ \E s \in State : Assign(Me(Disp), s)
    BY <1>5 DEF Poll, Perm, Started, State
  <2> QED
    BY <1>0, <1>s, <2>0, <2>1 DEF Machines
<1>6. ASSUME SoftTimer PROVE Machines' /\ \A k \in Object : vm'[k].id = vm[k].id
  <2> DEFINE m == [vm[Me(Disp)] EXCEPT !.timer = TRUE]
  <2>0. Me(Disp) \in Object
    BY <1>0, <1>6 DEF SoftTimer, At, Working
  <2>1. m \in Machine /\ m.id = vm[Me(Disp)].id
    BY <1>0, <2>0 DEF Machines, Machine
  <2> QED
    BY <1>0, <1>6, <2>0, <2>1, MachineChange DEF SoftTimer
<1>7. ASSUME Signalled PROVE Machines' /\ \A k \in Object : vm'[k].id = vm[k].id
  <2>0. Me(Disp) \in Object /\ th[Disp].next \in State
    BY <1>0, <1>7 DEF Signalled, At, Working, HydraTypes, Threads, DispWork, State
  <2> QED
    BY <1>7, <1>s, <2>0 DEF Signalled
<1>8. ASSUME UsbSet PROVE Machines' /\ \A k \in Object : vm'[k].id = vm[k].id
  <2> DEFINE m == [vm[Me(Disp)] EXCEPT !.usb = @ \cup th[Disp].usb]
  <2>0. Me(Disp) \in Object
    BY <1>0, <1>8 DEF UsbSet, At, Working
  <2>1. m \in Machine /\ m.id = vm[Me(Disp)].id
    BY <1>0, <2>0 DEF Machines, Machine, Work
  <2> QED
    BY <1>0, <1>8, <2>0, <2>1, MachineChange DEF UsbSet
<1>9. ASSUME UsbForget PROVE Machines' /\ \A k \in Object : vm'[k].id = vm[k].id
  <2> DEFINE m == [vm[Me(Disp)] EXCEPT !.usb = @ \ th[Disp].usb]
  <2>0. Me(Disp) \in Object
    BY <1>0, <1>9 DEF UsbForget, At, Working
  <2>1. m \in Machine /\ m.id = vm[Me(Disp)].id
    BY <1>0, <2>0 DEF Machines, Machine
  <2> QED
    BY <1>0, <1>9, <2>0, <2>1, MachineChange DEF UsbForget, DroppedBy
<1>10. ASSUME Promote \/ Verdict PROVE Machines' /\ \A k \in Object : vm'[k].id = vm[k].id
  <2>0. Me(Exec) \in Object
    BY <1>0, <1>10 DEF Promote, Verdict, At, Working
  <2>1. Verdict => th[Exec].next \in State
    BY <1>0 DEF Verdict, At, HydraTypes, Threads, ExecWork, State
  <2> QED
    BY <1>10, <1>s, <2>0, <2>1 DEF Promote, Verdict, State
<1>11. ASSUME NEW o \in Object, Visit(o) PROVE Machines' /\ \A k \in Object : vm'[k].id = vm[k].id
  <2> DEFINE m == [vm[o] EXCEPT !.wait = @ + 1]
  <2>1. m \in Machine /\ m.id = vm[o].id
    BY <1>0 DEF Machines, Machine
  <2>2. vm' = vm \/ vm' = [vm EXCEPT ![o] = m]
    BY <1>11 DEF Visit, Waited
  <2> QED
    BY <1>0, <2>1, <2>2, MachineChange DEF Machines
<1>12. ASSUME NEW o \in Object, TimerDue(o)
       PROVE  Machines' /\ \A k \in Object : vm'[k].id = vm[k].id
  <2> DEFINE m == [vm[o] EXCEPT !.timer = FALSE]
  <2>1. m \in Machine /\ m.id = vm[o].id
    BY <1>0 DEF Machines, Machine
  <2> QED
    BY <1>0, <1>12, <2>1, MachineChange DEF TimerDue
<1> QED
  BY <1>1, <1>2, <1>3, <1>4, <1>5, <1>6, <1>7, <1>8, <1>9, <1>10, <1>11, <1>12 DEF Stop

\* A VM is listed, one is removed, or all are, while the ids stay.
LEMMA ListChanges ==
    ASSUME HydraTypes, \A k \in Object : vm'[k].id = vm[k].id
    PROVE  /\ UNCHANGED vms => Lists'
           /\ vms' = [v \in Vmid |-> None] => Lists'
           /\ \A v \in Vmid : vms' = [vms EXCEPT ![v] = None] => Lists'
           /\ \A o \in Object : vms' = [vms EXCEPT ![vm[o].id] = o] => Lists'
BY HydraAssumption DEF HydraTypes, Lists, Machines, Machine

\* Every step keeps the types of the VMs and of their list: an object that is made anew is not
\* listed.
LEMMA ListsTyped ==
    ASSUME HydraTypes, Next
    PROVE  Machines' /\ Lists'
<1>0. /\ Machines /\ Lists /\ Disp \in Thread /\ Exec \in Thread
      /\ th[Disp].at \in Working => Me(Disp) \in Object
      /\ th[Exec].at \in Working => Me(Exec) \in Object
      /\ \A o \in Object : vm[o].id \in Vmid
  BY DEF HydraTypes, Machines, Machine, Threads, Thread, DispWork, ExecWork, Working, Me
<1>u. ASSUME UNCHANGED vm PROVE Machines' /\ \A k \in Object : vm'[k].id = vm[k].id
  BY <1>0, <1>u DEF Machines
<1>1. CASE \/ \E t \in Thread : Stop(t)
           \/ SoftTimer \/ Signalled \/ UsbSet \/ UsbForget
           \/ Promote \/ Verdict \/ \E o \in Object : Visit(o) \/ TimerDue(o)
  <2>1. UNCHANGED vms
    BY <1>1 DEF Stop, Kill, StopEnd, SoftTimer, Signalled, UsbSet, UsbForget, Promote, Verdict,
       Visit, TimerDue, sharedVars
  <2> QED
    BY <1>1, <2>1, MachinesKept, ListChanges
<1>2. CASE Build \/ Spawn \/ Poll \/ Perm
  <2>1. Me(Disp) \in Object
    BY <1>0, <1>2 DEF Build, Spawn, Poll, Perm, At, Working
  <2>2. \/ UNCHANGED vms
        \/ vms' = [vms EXCEPT ![vm[Me(Disp)].id] = None]
        \/ vms' = [vms EXCEPT ![vm[Me(Disp)].id] = Me(Disp)]
    BY <1>2 DEF Build, Spawn, Poll, Perm, Fail, Started, ListedNow
  <2>3. Machines' /\ \A k \in Object : vm'[k].id = vm[k].id
    BY <1>2, MachinesKept
  <2> QED
    BY <1>0, <2>1, <2>2, <2>3, ListChanges
<1>3. CASE \/ \E t \in Thread : StopAll(t) \/ Boot(t)
           \/ ThreadBegin \/ Drop \/ RoundEnd \/ Timers \/ ReapEnd \/ \E w \in watch : Reap(w)
           \/ \E p \in Process : ProcessExits(p)
  <2>1. UNCHANGED vm
    BY <1>3 DEF StopAll, StopNext, StopClear, StopDown, Boot, ThreadBegin, Drop, RoundEnd,
       Timers, ReapEnd, Reap, ProcessExits
  <2>2. Drop => Me(Exec) \in Object
    BY <1>0 DEF Drop, At, Working
  <2>3. \/ UNCHANGED vms \/ vms' = [v \in Vmid |-> None]
        \/ \E v \in Vmid : vms' = [vms EXCEPT ![v] = None]
    BY <1>0, <1>3, <2>2 DEF StopAll, StopNext, StopClear, StopDown, Boot, ThreadBegin, Drop,
       RoundEnd, Timers, ReapEnd, Reap, ProcessExits, sharedVars
  <2> QED
    BY <1>u, <2>1, <2>3, ListChanges
<1>4. ASSUME NEW v \in Vmid, StartNew(v) PROVE Machines' /\ Lists'
  <2> DEFINE o == CHOOSE k \in Object : Free(k)
  <2>1. o \in Object /\ o \notin Listed /\ UNCHANGED vms /\ vm' = [vm EXCEPT ![o] = New(v)]
    BY <1>4 DEF StartNew, Free, sharedVars
  <2> HIDE DEF o
  <2>2. New(v) \in Machine
    BY HydraAssumption DEF New, Machine, State
  <2>3. Machines' /\ \A k \in Object \ {o} : vm'[k] = vm[k]
    BY <1>0, <2>1, <2>2 DEF Machines
  <2> QED
    BY <1>0, <2>1, <2>3 DEF Lists, Listed
<1>5. CASE \/ HibernateHook \/ Shutdown \/ HibernateNext
           \/ \E o \in Object : \/ StartAgain(o) \/ StopHook(o) \/ SoftHook(o)
                                \/ \E s \in {"running", "sleeping"} : SleepHook(o, s)
                                \/ \E d \in Device : UsbAdd(o, d) \/ UsbRemove(o, d)
  <2>1. UNCHANGED <<vm, vms>>
    BY <1>5 DEF HibernateHook, Shutdown, HibernateNext, StartAgain, StopHook, SoftHook,
       SleepHook, UsbAdd, UsbRemove, Requested, sharedVars
  <2> QED
    BY <1>u, <2>1, ListChanges
<1> QED
  BY <1>0, <1>1, <1>2, <1>3, <1>4, <1>5 DEF Next, Hook, Dispatch, Start, Execute

\* The end of _stop() takes its devices from the VM and may stop it, and records one race at most.
LEMMA EndChanges ==
    ASSUME HydraTypes, NEW t \in Thread, StopEnd(t)
    PROVE  /\ Me(t) \in Object /\ UNCHANGED <<vms, alive>>
           /\ \A o \in Object : /\ vm'[o].proc = vm[o].proc /\ vm'[o].usb \subseteq vm[o].usb
                               /\ \/ vm'[o].state = vm[o].state
                                  \/ o = Me(t) /\ vm'[o].state = "stopped"
           /\ vm'[Me(t)].usb \cap th[t].usb = {}
<1> DEFINE o == Me(t)
           m == IF Raises(t) THEN [vm[o] EXCEPT !.usb = @ \ th[t].usb]
                ELSE [vm[o] EXCEPT !.usb = {}, !.state = "stopped"]
<1>1. o \in Object /\ vm \in [Object -> Machine] /\ UNCHANGED <<vms, alive>>
  BY DEF StopEnd, HydraTypes, Machines, Threads, Thread, DispWork, ExecWork, Working, At, Me,
     processVars
<1>2. vm' = [vm EXCEPT ![o] = m]
  BY <1>1 DEF StopEnd
<1>3. /\ m.proc = vm[o].proc /\ m.usb \subseteq vm[o].usb /\ m.usb \cap th[t].usb = {}
      /\ m.state \in {vm[o].state, "stopped"}
  BY <1>1 DEF Machine
<1> QED
  BY <1>1, <1>2, <1>3

LEMMA EndHistory ==
    ASSUME NEW t \in Thread, StopEnd(t)
    PROVE  history \subseteq history' /\ history' \subseteq history \cup Race
BY DEF StopEnd, Raced

\* A race that was recorded stays so.
LEMMA HistoryGrows ==
    ASSUME Next
    PROVE  history \subseteq history' /\ history' \subseteq history \cup Race
<1>1. CASE \E t \in Thread : Boot(t)
  <2>1. PICK t \in Thread : Boot(t)
    BY <1>1
  <2>2. \/ history' = Raced("unready", t = Exec /\ ~running')
        \/ history' = Raced("overlap", t = Exec /\ Starting)
    BY <2>1 DEF Boot, BeginStopAll
  <2> QED
    BY <2>2 DEF Raced
<1>2. CASE Build \/ Spawn \/ Perm \/ UsbSet \/ Signalled \/ Promote
  BY <1>2 DEF Build, Spawn, Perm, UsbSet, Signalled, Promote, Fail, Raced
<1>3. CASE Shutdown \/ ThreadBegin
  BY <1>3 DEF Shutdown, ThreadBegin, BeginStopAll, Raced
<1>4. CASE (\E v \in Vmid : StartNew(v)) \/ \E o \in Object : StartAgain(o)
  BY <1>4 DEF StartNew, StartAgain, Raced
<1>5. ASSUME UNCHANGED history
      PROVE  history \subseteq history' /\ history' \subseteq history \cup Race
  BY <1>5
<1>8. CASE \E t \in Thread : StopEnd(t)
  BY <1>8, EndHistory
<1>6. CASE \/ \E t \in Thread : Kill(t) \/ StopAll(t)
           \/ Poll \/ UsbForget \/ SoftTimer \/ Verdict \/ HibernateHook \/ HibernateNext
           \/ Drop \/ RoundEnd \/ Timers \/ ReapEnd
           \/ \E o \in Object : Visit(o) \/ TimerDue(o)
           \/ (\E w \in watch : Reap(w)) \/ \E p \in Process : ProcessExits(p)
           \/ \E o \in Object : \/ StopHook(o) \/ SoftHook(o)
                                \/ \E s \in {"running", "sleeping"} : SleepHook(o, s)
                                \/ \E d \in Device : UsbAdd(o, d) \/ UsbRemove(o, d)
  <2>1. UNCHANGED history
    BY <1>6 DEF Kill, StopAll, StopNext, StopClear, StopDown, Poll, UsbForget,
       SoftTimer, Verdict, HibernateHook, HibernateNext, Drop, RoundEnd, Timers, ReapEnd, Visit,
       TimerDue, Reap, ProcessExits, StopHook, SoftHook, SleepHook, UsbAdd, UsbRemove, Requested
  <2> QED
    BY <1>5, <2>1
<1>7. Disp \in Thread /\ Exec \in Thread
  BY DEF Thread
<1> QED
  BY <1>1, <1>2, <1>3, <1>4, <1>6, <1>7, <1>8 DEF Next, Hook, Dispatch, Start, Execute, Stop

\* Every step keeps the types of what is claimed and of the processes,
LEMMA ClaimsTyped ==
    ASSUME HydraTypes, Next
    PROVE  Claims' /\ Processes' /\ history' \subseteq Race
<1>0. /\ Claims /\ Processes /\ history \subseteq Race
      /\ Disp \in Thread /\ Exec \in Thread
      /\ \A o \in Object : vm[o].id \in Vmid
      /\ th[Disp].at \in Working => Me(Disp) \in Object
      /\ \A t \in Thread : At(t, "kill") \/ At(t, "end") => Me(t) \in Object
  BY DEF HydraTypes, Machines, Machine, Threads, Thread, DispWork, ExecWork, Working, At, Me
<1>h. history' \subseteq Race
  BY <1>0, HistoryGrows
<1>1. CASE \E t \in Thread : Stop(t) \/ StopAll(t) \/ Boot(t)
  <2>1. PICK t \in Thread : Stop(t) \/ StopAll(t) \/ Boot(t)
    BY <1>1
  <2>2. /\ Kill(t) => taps' \subseteq taps /\ UNCHANGED <<owner, pages, running>>
        /\ StopEnd(t) => /\ pages' \subseteq pages /\ owner' = Forgotten(t)
                         /\ UNCHANGED <<taps, running>>
        /\ StopAll(t) \/ Boot(t) =>
              /\ UNCHANGED <<pages, taps>> /\ running' \in BOOLEAN
              /\ owner' = owner \/ owner' = [d \in Device |-> None]
    BY <1>0 DEF Kill, StopEnd, StopAll, StopNext, StopClear, StopDown, Boot, sharedVars, Claims
  <2>3. Forgotten(t) \in [Device -> Vmid \cup {None}]
    BY <1>0 DEF Forgotten, Claims
  <2>4. Claims'
    BY <1>0, <2>1, <2>2, <2>3 DEF Stop, Claims
  <2>5. alive' \subseteq alive /\ watch' = watch
    BY <2>1 DEF Stop, Kill, StopEnd, StopAll, StopNext, StopClear, StopDown, Boot, processVars
  <2> QED
    BY <1>0, <1>h, <2>4, <2>5 DEF Processes
<1>2. CASE Build \/ Spawn \/ Poll \/ Perm
  <2>1. Me(Disp) \in Object /\ vm[Me(Disp)].id \in Vmid
    BY <1>0, <1>2 DEF Build, Spawn, Poll, Perm, At, Working
  <2>2. Claims'
    BY <1>0, <1>2, <2>1 DEF Build, Spawn, Poll, Perm, Claims
  <2>4. Processes'
    <3> DEFINE unused == Process \ (alive \cup {vm[k].proc : k \in Object}
                                          \cup {w[1] : w \in watch})
               q == CHOOSE p \in unused : TRUE
    <3>1. unused # {} => q \in Process
      OBVIOUS
    <3>2. \/ UNCHANGED processVars
          \/ /\ unused # {} /\ alive' = alive \cup {q} /\ watch' = watch \cup {<<q, Me(Disp)>>}
      BY <1>2 DEF Build, Spawn, Poll, Perm, processVars
    <3> HIDE DEF unused, q
    <3> QED
      BY <1>0, <2>1, <3>1, <3>2 DEF Processes, processVars
  <2> QED
    BY <1>h, <2>2, <2>4
<1>3. CASE UsbSet \/ UsbForget
  <2>1. Me(Disp) \in Object /\ vm[Me(Disp)].id \in Vmid
    BY <1>0, <1>3 DEF UsbSet, UsbForget, At, Working
  <2>2. owner' \in [Device -> Vmid \cup {None}]
    BY <1>0, <1>3, <2>1 DEF UsbSet, UsbForget, OwnedBy, Forgotten, Claims
  <2>3. UNCHANGED <<pages, taps, running, alive, watch>>
    BY <1>3 DEF UsbSet, UsbForget, processVars
  <2> QED
    BY <1>0, <1>h, <2>2, <2>3 DEF Claims, Processes
<1>4. CASE \/ SoftTimer \/ Signalled \/ Promote \/ Verdict
           \/ HibernateHook \/ Shutdown \/ HibernateNext
           \/ ThreadBegin \/ Drop \/ RoundEnd \/ Timers \/ ReapEnd
           \/ \E o \in Object : Visit(o) \/ TimerDue(o)
           \/ \E v \in Vmid : StartNew(v)
           \/ \E o \in Object : \/ StartAgain(o) \/ StopHook(o) \/ SoftHook(o)
                                \/ \E s \in {"running", "sleeping"} : SleepHook(o, s)
                                \/ \E d \in Device : UsbAdd(o, d) \/ UsbRemove(o, d)
  <2>1. UNCHANGED <<owner, pages, taps, running, alive, watch>>
    BY <1>4 DEF SoftTimer, Signalled, Promote, Verdict, HibernateHook, Shutdown, HibernateNext,
       ThreadBegin, Drop, RoundEnd, Timers, ReapEnd, Visit, TimerDue, StartNew, StartAgain,
       StopHook, SoftHook, SleepHook, UsbAdd, UsbRemove, Requested, sharedVars, processVars
  <2> QED
    BY <1>0, <1>h, <2>1 DEF Claims, Processes
<1>5. CASE (\E w \in watch : Reap(w)) \/ \E p \in Process : ProcessExits(p)
  <2>1. /\ alive' \subseteq alive /\ watch' \subseteq watch
        /\ UNCHANGED <<owner, pages, taps, running, history>>
    BY <1>5 DEF Reap, ProcessExits, sharedVars
  <2> QED
    BY <1>0, <1>h, <2>1 DEF Claims, Processes
<1> QED
  BY <1>0, <1>1, <1>2, <1>3, <1>4, <1>5 DEF Next, Hook, Dispatch, Start, Execute

-----------------------------------------------------------------------------
(* Types.                                                                  *)

\* those of the threads,
LEMMA ThreadsTyped ==
    ASSUME HydraTypes, Next
    PROVE  Threads'
<1>0. Threads /\ Disp \in Thread /\ Exec \in Thread
  BY DEF HydraTypes, Thread
<1>1. CASE Hook
  BY <1>1, HookWorks, RequestWorks DEF Hook
<1>2. CASE Dispatch
  BY <1>0, <1>2, StopWorks, DispWorks, MoreWorks DEF Dispatch, Start, Stop, StopAll
<1>3. CASE Execute
  BY <1>0, <1>3, StopWorks, ExecWorks, MoreWorks DEF Execute, Stop, StopAll
<1>4. CASE \E p \in Process : ProcessExits(p)
  BY <1>0, <1>4 DEF ProcessExits, Threads
<1> QED
  BY <1>1, <1>2, <1>3, <1>4 DEF Next

\* and all of them.
LEMMA TypesStep ==
    ASSUME HydraTypes, [Next]_vars
    PROVE  HydraTypes'
<1>1. CASE Next
  BY <1>1, ListsTyped, ClaimsTyped, ThreadsTyped DEF HydraTypes
<1>2. CASE UNCHANGED vars
  BY <1>2 DEF vars, sharedVars, processVars, HydraTypes, Machines, Lists, Claims, Processes,
     Threads
<1> QED
  BY <1>1, <1>2

\* Every variable keeps its type; above all, a VM is listed under its own id, although the executer
\* removes by id what it has listed before, and an object may be made for an id meanwhile.
THEOREM HydraTyping ==
    Spec => []TypeOK
<1>1. HydraTypes /\ [Next]_vars => HydraTypes'
  BY TypesStep
<1> QED
  BY <1>1, HydraInit, TypesImply, PTL DEF Spec

-----------------------------------------------------------------------------
(* No VM that runs is lost.                                                *)

\* The process of this VM was run, and _start() has yet to list it.
Poised(o) == th[Disp].at \in {"poll", "perm"} /\ Me(Disp) = o

\* The VM that is started, or will be when HydraServer.stop() has ended.
NewVM == IF th[Disp].at \in StartPlace THEN Me(Disp) ELSE th[Disp].new

\* A VM that runs is listed, or about to be.
LiveListed == \A o \in Object : Live(o) => o \in Listed \/ Poised(o)

\* A listed VM is taken for stopped only when it does not run.
StoppedIdle == \A o \in Object : vm[o].state = "stopped" /\ Live(o) => Poised(o)

\* The VM that is started is new: nobody else has it in hand, and none is listed under its id.
NewApart ==
    Starting => /\ NewVM \in Object /\ NewVM \notin Listed /\ vms[vm[NewVM].id] = None
                /\ Me(Exec) # NewVM /\ NewVM \notin th[Exec].todo
                /\ vm[NewVM].state = "stopped"
                /\ Live(NewVM) => Poised(NewVM)
                /\ th[Disp].at \in StartPlace => th[Disp].call = "new"

\* HydraServer.stop() has each listed VM that runs still ahead of it,
Sweeps(t) ==
    /\ th[t].at \in {"clear", "down"} => th[t].todo = {}
    /\ \A o \in Listed : Live(o) => o \in th[t].todo \/ (At(t, "kill") /\ Me(t) = o)

\* whichever thread is at it.
AllSwept == \A t \in Thread : th[t].call = "all" /\ ~At(t, "ended") => Sweeps(t)

\* What the executer visits in its round is the one listed under its id or none is, and none of
\* that id is started: it may be removed by id.
VisitsApart ==
    \A o \in Object : Visiting(o) => /\ vms[vm[o].id] \in {None, o}
                                     /\ Starting => vm[NewVM].id # vm[o].id

\* _stop() has killed the process before it ends.
EndsIdle == \A t \in Thread : At(t, "end") => ~Live(Me(t))

\* No VM is lost.  While the executer shuts Hydra down no VM is started.
InOrder ==
    /\ LiveListed /\ StoppedIdle /\ NewApart /\ AllSwept /\ VisitsApart /\ EndsIdle
    /\ ShuttingDown => ~Starting

-----------------------------------------------------------------------------
(* The steps that only take away.                                          *)

\* No VM gets a process or becomes stopped while it runs, and one that is stopped becomes something
\* else only by the thread that has it.
VmPart(t) ==
    \A o \in Object :
        /\ vm'[o].id = vm[o].id
        /\ Live(o)' => Live(o)
        /\ vm'[o].state = "stopped" => vm[o].state = "stopped" \/ ~Live(o)'
        /\ vm[o].state = "stopped" => \/ vm'[o].state = "stopped"
                                      \/ t = Exec /\ o = Me(Exec)
                                      \/ t = Disp /\ ~Starting'

\* VMs are removed from the list, but none that runs.
ListPart ==
    /\ \A v \in Vmid : vms'[v] \in {vms[v], None}
    /\ \A o \in Listed : o \in Listed' \/ ~Live(o)

\* The dispatcher moves, and goes on starting the VM it is starting at most.
DispPart ==
    /\ th'[Exec] = th[Exec]
    /\ th[Disp].at \notin {"poll", "perm"} /\ th'[Disp].at \notin {"poll", "perm"}
    /\ Starting' => /\ Starting /\ NewVM' = NewVM
                    /\ th'[Disp].at \in StartPlace => th'[Disp].call = "new"

\* The executer moves: it begins to shut Hydra down while no VM is started, and takes up VMs that
\* are listed.
ExecPart ==
    /\ th'[Disp] = th[Disp]
    /\ th'[Exec].call = "all" => th[Exec].call = "all" \/ ~Starting
    /\ \A o \in Object :
         /\ Visiting(o)' => Visiting(o) \/ o \in Listed
         /\ Me(Exec)' = o => \/ o \in Listed \/ o = Me(Exec) \/ o \in th[Exec].todo
                             \/ vm[o].state # "stopped"

\* _stop() and HydraServer.stop() keep what they must do in view.
AllPart(t) ==
    /\ At(t, "end")' => ~Live(Me(t))'
    /\ (th[t].call = "all" /\ ~At(t, "ended"))' => Sweeps(t)'

\* A step of thread t that only takes away.
Moves(t) ==
    /\ VmPart(t) /\ ListPart
    /\ t = Disp => DispPart
    /\ t = Exec => ExecPart
    /\ AllPart(t)

\* Such a step keeps InOrder.
LEMMA MovesKeep ==
    ASSUME HydraTypes, HydraTypes', InOrder, NEW t \in Thread, Moves(t)
    PROVE  InOrder'
<1>0. /\ Thread = {Disp, Exec} /\ Disp # Exec
      /\ \A o \in Object : vm[o].id \in Vmid /\ vm'[o].id = vm[o].id /\ (Live(o)' => Live(o))
      /\ Listed' \subseteq Listed
      /\ \A o \in Listed : o \in Object /\ vms[vm[o].id] = o
      /\ \A o \in Object : None # o
  BY HydraAssumption DEF HydraTypes, Machines, Machine, Lists, Listed, Thread, Moves, VmPart,
     ListPart
<1>1. LiveListed' /\ StoppedIdle'
  <2>1. \A o \in Object : Poised(o) => Poised(o)'
    BY <1>0 DEF Moves, DispPart, ExecPart, Poised, Me
  <2> QED
    BY <1>0, <2>1 DEF InOrder, LiveListed, StoppedIdle, Moves, VmPart, ListPart
<1>2. Starting' => Starting /\ NewVM' = NewVM
  BY <1>0 DEF Moves, DispPart, ExecPart, Starting, NewVM, Me
<1>3. NewApart'
  <2> SUFFICES ASSUME Starting' PROVE NewApart'
    BY DEF NewApart
  <2> DEFINE n == NewVM
  <2>1. Starting /\ NewVM' = n /\ n \in Object /\ n \notin Listed /\ vms[vm[n].id] = None
        /\ Me(Exec) # n /\ n \notin th[Exec].todo /\ vm[n].state = "stopped"
    BY <1>2 DEF InOrder, NewApart
  <2>2. n \notin Listed' /\ vms'[vm'[n].id] = None
    BY <1>0, <2>1 DEF Moves, ListPart
  <2>3. Me(Exec)' # n /\ n \notin th'[Exec].todo
    BY <1>0, <2>1 DEF Moves, DispPart, ExecPart, Visiting, Me
  <2>4. vm'[n].state = "stopped"
    BY <1>0, <2>1 DEF Moves, VmPart
  <2>5. Live(n)' => Poised(n)'
    BY <1>0, <2>1, <1>1, <2>2 DEF LiveListed
  <2>6. th'[Disp].at \in StartPlace => th'[Disp].call = "new"
    BY <1>0, <2>1 DEF Moves, DispPart, ExecPart, InOrder, NewApart
  <2> QED
    BY <2>1, <2>2, <2>3, <2>4, <2>5, <2>6 DEF NewApart
<1>4. AllSwept' /\ EndsIdle'
  <2> SUFFICES ASSUME NEW u \in Thread
               PROVE  /\ th'[u].call = "all" /\ ~At(u, "ended")' => Sweeps(u)'
                      /\ At(u, "end")' => ~Live(Me(u))'
    BY DEF AllSwept, EndsIdle
  <2>1. CASE u = t
    BY <2>1 DEF Moves, AllPart
  <2>2. CASE u # t
    <3>1. th'[u] = th[u]
      BY <1>0, <2>2 DEF Moves, DispPart, ExecPart
    <3>2. At(u, "end") => Me(u) \in Object
      BY <1>0 DEF HydraTypes, Threads, DispWork, ExecWork, Working, At, Me
    <3> QED
      BY <1>0, <3>1, <3>2 DEF InOrder, AllSwept, EndsIdle, Sweeps, At, Me
  <2> QED
    BY <2>1, <2>2
<1>5. VisitsApart'
  <2> SUFFICES ASSUME NEW o \in Object, Visiting(o)'
               PROVE  /\ vms'[vm'[o].id] \in {None, o}
                      /\ Starting' => vm'[NewVM'].id # vm'[o].id
    BY DEF VisitsApart
  <2>1. Visiting(o) \/ o \in Listed
    BY <1>0 DEF Moves, DispPart, ExecPart, Visiting, Me, At
  <2>2. vms[vm[o].id] \in {None, o} /\ (Starting => vm[NewVM].id # vm[o].id)
    BY <1>0, <2>1 DEF InOrder, VisitsApart, NewApart
  <2> QED
    BY <1>0, <1>2, <2>2 DEF Moves, ListPart, InOrder, NewApart
<1>6. ShuttingDown' => ~Starting'
  BY <1>0, <1>2 DEF InOrder, Moves, DispPart, ExecPart, ShuttingDown
<1> QED
  BY <1>1, <1>3, <1>4, <1>5, <1>6 DEF InOrder

-----------------------------------------------------------------------------
(* What each step does to the VMs, to the list and to what is to be stopped. *)

\* The steps that change a VM object and give it no process: _stop() kills it, and the others know
\* its state.
LEMMA MachineMoves ==
    ASSUME HydraTypes, InOrder, NEW t \in Thread
    PROVE  /\ UNCHANGED <<vm, alive>> => VmPart(t)
           /\ Stop(t) => VmPart(t)
           /\ SoftTimer \/ Signalled \/ UsbSet \/ UsbForget \/ Build => VmPart(Disp)
           /\ Spawn /\ UNCHANGED alive => VmPart(Disp)
           /\ Promote \/ Verdict \/ (\E o \in Object : Visit(o) \/ TimerDue(o)) => VmPart(Exec)
<1>0. /\ Machines /\ Processes /\ None \notin alive /\ Disp # Exec
      /\ \A u \in Thread : At(u, "kill") \/ At(u, "end") => Me(u) \in Object
      /\ th[Disp].at \in Working => Me(Disp) \in Object
      /\ th[Exec].at \in Working => Me(Exec) \in Object
  BY HydraAssumption DEF HydraTypes, Processes, Threads, Thread, DispWork, ExecWork, Working, At,
     Me
<1>1. UNCHANGED <<vm, alive>> => VmPart(t)
  BY DEF VmPart, Live
<1>2. ASSUME Kill(t) PROVE VmPart(t)
  <2>1. \A k \in Object : vm'[k].id = vm[k].id
    BY <1>2, MachinesKept DEF Stop
  <2>2. Me(t) \in Object
    BY <1>0, <1>2 DEF Kill
  <2> QED
    BY <1>0, <1>2, <2>1, <2>2 DEF Kill, VmPart, Live, Machines, Machine
<1>3. ASSUME StopEnd(t) PROVE VmPart(t)
  <2>1. \A k \in Object : vm'[k].id = vm[k].id
    BY <1>3, MachinesKept DEF Stop
  <2>2. Me(t) \in Object /\ ~Live(Me(t)) /\ alive' = alive
    BY <1>0, <1>3 DEF StopEnd, InOrder, EndsIdle, processVars
  <2> QED
    BY <1>3, <2>1, <2>2, EndChanges DEF VmPart, Live
<1>4. ASSUME SoftTimer \/ UsbSet \/ UsbForget PROVE VmPart(Disp)
  <2>1. \A k \in Object : vm'[k].id = vm[k].id
    BY <1>4, MachinesKept
  <2>2. Me(Disp) \in Object /\ alive' = alive
    BY <1>0, <1>4 DEF SoftTimer, UsbSet, UsbForget, At, Working, processVars
  <2> QED
    BY <1>0, <1>4, <2>1, <2>2 DEF SoftTimer, UsbSet, UsbForget, DroppedBy, VmPart, Live,
       Machines, Machine
<1>5. ASSUME Signalled PROVE VmPart(Disp)
  <2>1. \A k \in Object : vm'[k].id = vm[k].id
    BY <1>5, MachinesKept
  <2>2. Me(Disp) \in Object /\ alive' = alive /\ th[Disp].next # "stopped"
    BY <1>0, <1>5 DEF Signalled, At, Working, processVars, HydraTypes, Threads, DispWork
  <2>3. ~Starting'
    BY <1>5 DEF Signalled, HydraTypes, Threads, Thread, Work, DispWork, Starting, StartPlace, At,
       Rest, Done, Resting, Goto, Stopping
  <2> QED
    BY <1>0, <1>5, <2>1, <2>2, <2>3 DEF Signalled, Assign, VmPart, Live, Machines, Machine
<1>6. ASSUME Build PROVE VmPart(Disp)
  <2>1. \A k \in Object : vm'[k].id = vm[k].id
    BY <1>6, MachinesKept
  <2>2. Me(Disp) \in Object /\ alive' = alive
    BY <1>0, <1>6 DEF Build, At, Working, processVars
  <2>3. \A k \in Object : k # Me(Disp) => vm'[k] = vm[k]
    BY <1>0, <1>6, <2>2 DEF Build, Machines, Machine
  <2>4. vm'[Me(Disp)].state = "stopped" /\ vm'[Me(Disp)].proc = None
    BY <1>0, <1>6, <2>2 DEF Build, Machines, Machine
  <2> QED
    BY <1>0, <2>1, <2>2, <2>3, <2>4 DEF VmPart, Live
<1>7. ASSUME Spawn, UNCHANGED alive PROVE VmPart(Disp)
  <2>1. \A k \in Object : vm'[k].id = vm[k].id
    BY <1>7, MachinesKept
  <2>2. Me(Disp) \in Object
    BY <1>0, <1>7 DEF Spawn, At, Working
  <2> DEFINE unused == Process \ (alive \cup {vm[k].proc : k \in Object} \cup {w[1] : w \in watch})
             q == CHOOSE p \in unused : TRUE
  <2>3. unused # {} => q \in unused /\ q \notin alive
    OBVIOUS
  <2>4. \E made \in BOOLEAN : vm' = [vm EXCEPT ![Me(Disp)].wait = 0, ![Me(Disp)].adapters = made]
    <3> HIDE DEF q
    <3>1. \E made \in BOOLEAN :
            \/ unused # {} /\ alive' = alive \cup {q}
            \/ vm' = [vm EXCEPT ![Me(Disp)].wait = 0, ![Me(Disp)].adapters = made]
      BY <1>7 DEF Spawn, q
    <3> QED
      BY <1>7, <2>3, <3>1
  <2> QED
    BY <1>0, <1>7, <2>1, <2>2, <2>4 DEF VmPart, Live, Machines, Machine
<1>8. ASSUME Promote \/ Verdict PROVE VmPart(Exec)
  <2>1. \A k \in Object : vm'[k].id = vm[k].id
    BY <1>8, MachinesKept
  <2>2. Me(Exec) \in Object /\ alive' = alive
    BY <1>0, <1>8 DEF Promote, Verdict, At, Working, processVars
  <2>3. Verdict => th[Exec].next # "stopped"
    BY DEF Verdict, At, HydraTypes, Threads, ExecWork
  <2> QED
    BY <1>0, <1>8, <2>1, <2>2, <2>3 DEF Promote, Verdict, Assign, VmPart, Live, Machines, Machine
<1>9. ASSUME NEW o \in Object, Visit(o) \/ TimerDue(o) PROVE VmPart(Exec)
  <2>1. \A k \in Object : vm'[k].id = vm[k].id
    BY <1>9, MachinesKept
  <2>2. alive' = alive
    BY <1>9 DEF Visit, TimerDue, processVars
  <2>3. vm' = vm \/ vm' = [vm EXCEPT ![o].wait = @ + 1] \/ vm' = [vm EXCEPT ![o].timer = FALSE]
    BY <1>9 DEF Visit, TimerDue, Waited
  <2>4. \A k \in Object : vm'[k].proc = vm[k].proc /\ vm'[k].state = vm[k].state
    <3>1. CASE vm' = [vm EXCEPT ![o].wait = @ + 1]
      BY <1>0, <3>1 DEF Machines, Machine
    <3>2. CASE vm' = [vm EXCEPT ![o].timer = FALSE]
      BY <1>0, <3>2 DEF Machines, Machine
    <3> QED
      BY <2>3, <3>1, <3>2
  <2> QED
    BY <2>1, <2>2, <2>4 DEF VmPart, Live
<1> QED
  BY <1>1, <1>2, <1>3, <1>4, <1>5, <1>6, <1>7, <1>8, <1>9 DEF Stop

\* When HydraServer.stop() has been through its VMs, none runs.
LEMMA NoneRuns ==
    ASSUME HydraTypes, InOrder, NEW t \in Thread, At(t, "clear") \/ At(t, "down")
    PROVE  \A o \in Object : ~Live(o)
<1>1. th[t].call = "all"
  BY DEF HydraTypes, Threads, Thread, DispWork, ExecWork, Stopping, At
<1>2. Sweeps(t) /\ th[t].todo = {} /\ ~At(t, "kill")
  BY <1>1 DEF InOrder, AllSwept, Sweeps, At
<1>3. \A o \in Object : ~Poised(o)
  BY <1>1 DEF InOrder, ShuttingDown, Starting, StartPlace, Poised, At, Thread
<1> QED
  BY <1>2, <1>3 DEF InOrder, LiveListed, Sweeps

\* A VM that is removed from the list does not run: the executer removes what it has stopped,
\* HydraServer.stop() after all of them, and a start that fails before its process was run.
LEMMA ListMoves ==
    ASSUME HydraTypes, InOrder
    PROVE  /\ UNCHANGED vms => ListPart
           /\ \A t \in Thread : StopAll(t) => ListPart
           /\ Drop => ListPart
           /\ Build => ListPart
           /\ Spawn => ListPart
<1>0. /\ vms \in [Vmid -> Object \cup {None}]
      /\ \A o \in Object : vm[o].id \in Vmid /\ o # None
      /\ \A o \in Listed : o \in Object /\ vms[vm[o].id] = o
  BY HydraAssumption DEF HydraTypes, Machines, Machine, Lists, Listed
<1>1. UNCHANGED vms => ListPart
  BY DEF ListPart, Listed
<1>2. ASSUME NEW t \in Thread, StopAll(t) PROVE ListPart
  <2>1. CASE UNCHANGED vms
    BY <1>1, <2>1
  <2>2. CASE vms' = [v \in Vmid |-> None] /\ (At(t, "clear") \/ At(t, "down"))
    <3>1. \A o \in Object : ~Live(o)
      BY <2>2, NoneRuns
    <3> QED
      BY <1>0, <2>2, <3>1 DEF ListPart
  <2> QED
    BY <1>2, <2>1, <2>2 DEF StopAll, StopNext, StopClear, StopDown, sharedVars
<1>3. ASSUME Drop PROVE ListPart
  <2> DEFINE o == Me(Exec)
  <2>1. CASE UNCHANGED vms
    BY <1>1, <2>1
  <2>2. CASE vm[o].state = "stopped" /\ vms' = [vms EXCEPT ![vm[o].id] = None]
    <3>1. o \in Object /\ th[Exec].call = "visit"
      BY <1>3 DEF Drop, At, HydraTypes, Threads, ExecWork, Working, Me
    <3>2. vms[vm[o].id] \in {None, o}
      BY <1>3, <3>1 DEF Drop, InOrder, VisitsApart, Visiting, At
    <3>3. ~Live(o)
      BY <2>2, <3>1 DEF InOrder, StoppedIdle, NewApart, NewVM, Poised, Starting, StartPlace
    <3> QED
      BY <1>0, <2>2, <3>1, <3>2, <3>3 DEF ListPart, Listed
  <2> QED
    BY <1>3, <2>1, <2>2 DEF Drop
<1>4. ASSUME Build \/ Spawn PROVE ListPart
  <2>1. /\ Me(Disp) \in Object /\ vms[vm[Me(Disp)].id] = None
    BY <1>4 DEF Build, Spawn, At, InOrder, NewApart, NewVM, Starting, StartPlace
  <2>2. UNCHANGED vms \/ vms' = [vms EXCEPT ![vm[Me(Disp)].id] = None]
    BY <1>4 DEF Build, Spawn, Fail
  <2>3. UNCHANGED vms
    BY <1>0, <2>1, <2>2
  <2> QED
    BY <1>1, <2>3
<1> QED
  BY <1>1, <1>2, <1>3, <1>4

\* A stop of one VM, or of all, leaves no VM behind that runs.
LEMMA SweepMoves ==
    ASSUME HydraTypes, InOrder, NEW t \in Thread
    PROVE  /\ Stop(t) => AllPart(t)
           /\ StopAll(t) => AllPart(t)
           /\ \A n, o : BeginStopAll(t, n, o) /\ UNCHANGED <<vm, vms, alive>> => AllPart(t)
<1>0. /\ th \in [Thread -> Work] /\ Machines /\ None \notin alive
      /\ At(t, "kill") \/ At(t, "end") => Me(t) \in Object
      /\ At(t, "clear") \/ At(t, "down") \/ At(t, "all") => th[t].call = "all"
  BY HydraAssumption DEF HydraTypes, Processes, Threads, Thread, DispWork, ExecWork, Working, At,
     Me, Stopping
<1>s. th[t].call = "all" /\ ~At(t, "ended") => Sweeps(t)
  BY DEF InOrder, AllSwept
<1>l. UNCHANGED vms => Listed' = Listed
  BY DEF Listed
<1>1. ASSUME Kill(t) PROVE AllPart(t)
  <2>1. Me(t) \in Object /\ UNCHANGED vms
    BY <1>0, <1>1 DEF Kill
  <2>2. /\ At(t, "end")' /\ Me(t)' = Me(t) /\ th'[t].call = th[t].call /\ th'[t].todo = th[t].todo
    BY <1>0, <1>1 DEF Kill, At, Me, Work
  <2>3. /\ ~Live(Me(t))'
        /\ \A o \in Object : Live(o)' => Live(o) /\ o # Me(t)
    BY <1>0, <1>1, <2>1, <2>2 DEF Kill, Live, Machines, Machine
  <2>4. \A o \in Listed : Live(o)' => o \in Object
    BY DEF Listed, HydraTypes, Lists
  <2> QED
    BY <1>s, <1>l, <1>1, <2>1, <2>2, <2>3, <2>4 DEF Kill, AllPart, Sweeps, At
<1>2. ASSUME StopEnd(t) PROVE AllPart(t)
  <2>1. Me(t) \in Object /\ UNCHANGED <<vms, alive>> /\ At(t, "end")
    BY <1>0, <1>2 DEF StopEnd, processVars
  <2>2. /\ ~At(t, "end")'
        /\ \/ th'[t].call # "all" \/ At(t, "ended")'
           \/ th[t].call = "all" /\ th'[t].at = "all" /\ th'[t].todo = th[t].todo
    <3>1. Return(t) => /\ th'[t].at \in {"drop", "all", "idle", "timers"}
                       /\ \/ th'[t].call # "all"
                          \/ th[t].call = "all" /\ th'[t] = [th[t] EXCEPT !.at = "all"]
      <4>1. ASSUME Return(t)
            PROVE  th'[t] = CASE th[t].call = "visit" -> [th[t] EXCEPT !.at = "drop"]
                              [] th[t].call = "all" -> [th[t] EXCEPT !.at = "all"]
                              [] OTHER -> Done(t)
        BY <1>0, <4>1 DEF Return
      <4>2. Done(t).at \in {"idle", "timers"} /\ Done(t).call = "hook"
        BY DEF Done, Resting
      <4>3. ASSUME Return(t), th[t].call = "visit"
            PROVE  th'[t].at = "drop" /\ th'[t].call = "visit"
        BY <1>0, <4>1, <4>3 DEF Work
      <4>4. ASSUME Return(t), th[t].call = "all" PROVE th'[t] = [th[t] EXCEPT !.at = "all"]
        BY <4>1, <4>4
      <4>6. [th[t] EXCEPT !.at = "all"].at = "all"
        BY <1>0 DEF Work
      <4>5. ASSUME Return(t), th[t].call \notin {"visit", "all"} PROVE th'[t] = Done(t)
        BY <4>1, <4>5
      <4> QED
        BY <4>2, <4>3, <4>4, <4>5, <4>6
    <3>2. Raise(t) => \/ th'[t].at = "ended"
                      \/ th'[t].at = "dead" /\ th[t].call = "timer" /\ th'[t].call = th[t].call
                      \/ th'[t] = Done(t)
      BY <1>0 DEF Raise, Rest, Goto, Work
    <3>3. Done(t).at # "end" /\ Done(t).call = "hook"
      BY DEF Done, Resting
    <3> QED
      BY <1>0, <1>2, <3>1, <3>2, <3>3 DEF StopEnd, At, Work
  <2>3. \A o \in Object : Live(o)' => Live(o)
    BY <1>2, EndChanges DEF Live
  <2>4. \A o \in Listed : o \in Object
    BY DEF Listed, HydraTypes, Lists
  <2> QED
    <3>1. CASE th'[t].call # "all" \/ At(t, "ended")'
      BY <2>2, <3>1 DEF AllPart
    <3>2. CASE th[t].call = "all" /\ th'[t].at = "all" /\ th'[t].todo = th[t].todo
      <4>1. \A o \in Listed : Live(o) => o \in th[t].todo
        BY <1>s, <2>1, <3>2 DEF Sweeps, At
      <4>2. Listed' = Listed
        BY <1>l, <2>1
      <4> QED
        BY <2>2, <2>3, <2>4, <3>2, <4>1, <4>2 DEF AllPart, Sweeps, At
    <3> QED
      BY <2>2, <3>1, <3>2
<1>3. ASSUME StopNext(t) PROVE AllPart(t)
  <2>1. UNCHANGED <<vm, vms, alive>> /\ th[t].call = "all" /\ Sweeps(t) /\ ~At(t, "kill")
    BY <1>0, <1>3, <1>s DEF StopNext, sharedVars, processVars, At
  <2>2. CASE \E o \in th[t].todo :
               th' = [th EXCEPT ![t].todo = @ \ {o}, ![t].vm = o,
                                ![t].at = IF Stops(o) THEN "kill" ELSE "all"]
    <3>1. PICK o \in th[t].todo :
               th' = [th EXCEPT ![t].todo = @ \ {o}, ![t].vm = o,
                                ![t].at = IF Stops(o) THEN "kill" ELSE "all"]
      BY <2>2
    <3>2. /\ th'[t].todo = th[t].todo \ {o} /\ th'[t].vm = o
          /\ th'[t].at = IF Stops(o) THEN "kill" ELSE "all"
      BY <1>0, <3>1 DEF Work
    <3>3. o \in Object
      BY <1>0, <3>1 DEF Work
    <3>4. ~Stops(o) => ~Live(o)
      BY <1>3, <2>1, <3>3 DEF StopNext, Stops, InOrder, StoppedIdle, Poised, ShuttingDown,
         Starting, StartPlace, At, Thread
    <3>5. \A k \in Listed : Live(k) => k \in th[t].todo
      BY <2>1 DEF Sweeps
    <3>6. Listed' = Listed /\ \A k \in Object : Live(k)' <=> Live(k)
      BY <1>l, <2>1 DEF Live
    <3>7. \A k \in Listed : k \in Object
      BY DEF Listed, HydraTypes, Lists
    <3> QED
      BY <3>2, <3>4, <3>5, <3>6, <3>7 DEF AllPart, Sweeps, At, Me
  <2>3. CASE th[t].todo = {} /\ Goto(t, "clear")
    <3>1. th'[t].todo = {} /\ th'[t].at = "clear"
      BY <1>0, <2>3 DEF Goto, Work
    <3> QED
      <4>1. Listed' = Listed /\ \A o \in Listed : ~Live(o)'
        BY <1>l, <2>1, <2>3 DEF Sweeps, Live
      <4> QED
        BY <3>1, <4>1 DEF AllPart, Sweeps, At
  <2> QED
    BY <1>3, <2>2, <2>3 DEF StopNext
<1>4. ASSUME StopClear(t) PROVE AllPart(t)
  <2>1. UNCHANGED <<vm, alive>> /\ Sweeps(t) /\ th[t].todo = {}
    BY <1>0, <1>4, <1>s DEF StopClear, processVars, Sweeps, At
  <2>2. th'[t].todo = {} /\ th'[t].at = "down"
    BY <1>0, <1>4, <2>1 DEF StopClear, Goto, Work
  <2>3. Listed' = {}
    BY <1>4 DEF StopClear, Listed
  <2> QED
    BY <2>2, <2>3 DEF AllPart, Sweeps, At
<1>5. ASSUME StopDown(t) PROVE AllPart(t)
  <2>1. \/ th'[t] = Building(th[t].new) \/ th'[t] = Done(t) \/ th'[t].at = "ended"
    BY <1>0, <1>5 DEF StopDown, Work
  <2>2. /\ Building(th[t].new).at = "build" /\ Building(th[t].new).call = "new"
        /\ Done(t).at # "end" /\ Done(t).call = "hook"
    BY DEF Building, Done, Resting
  <2> QED
    BY <2>1, <2>2 DEF AllPart, At
<1>6. ASSUME NEW n, NEW o, BeginStopAll(t, n, o), UNCHANGED <<vm, vms, alive>> PROVE AllPart(t)
  <2>1. th'[t].at = "all" /\ th'[t].todo = Listed
    BY <1>0, <1>6 DEF BeginStopAll, Resting, Work
  <2> QED
    <3>1. Listed' = Listed
      BY <1>l, <1>6
    <3> QED
      BY <2>1, <3>1 DEF AllPart, Sweeps, At
<1> QED
  <2>1. (Stop(t) => AllPart(t)) /\ (StopAll(t) => AllPart(t))
    BY <1>1, <1>2, <1>3, <1>4, <1>5 DEF Stop, StopAll
  <2> QED
    BY <1>6, <2>1

-----------------------------------------------------------------------------
(* What the steps of the dispatcher do.                                    *)

\* The dispatcher moves and starts no VM.
Calm ==
    /\ th'[Exec] = th[Exec]
    /\ th[Disp].at \notin StartPlace /\ th'[Disp].at \notin StartPlace
    /\ th'[Disp].new \in {th[Disp].new, None}

\* Thread t does not come to the end of a _stop(), nor into HydraServer.stop().
Ordinary(t) == th'[t].at # "end" /\ (th'[t].call = "all" => th'[t].at = "ended")

\* Then the parts of Moves about it hold.
LEMMA CalmMoves ==
    /\ Calm => DispPart
    /\ \A t \in Thread : Ordinary(t) => AllPart(t)
BY DEF Calm, DispPart, Starting, StartPlace, NewVM, Ordinary, AllPart, At

\* So it is for the requests,
LEMMA RequestsCalm ==
    ASSUME HydraTypes
    PROVE  /\ \A o \in Object : StopHook(o) \/ SoftHook(o) => Calm /\ Ordinary(Disp)
           /\ \A o \in Object, s \in {"running", "sleeping"} :
                SleepHook(o, s) => Calm /\ Ordinary(Disp)
           /\ \A o \in Object, d \in Device :
                UsbAdd(o, d) \/ UsbRemove(o, d) => Calm /\ Ordinary(Disp)
           /\ HibernateHook => Calm /\ Ordinary(Disp)
           /\ Shutdown => Calm
<1>0. /\ th \in [Thread -> Work] /\ Disp \in Thread /\ Exec \in Thread /\ Disp # Exec
      /\ th[Disp] \in Work
  BY HydraAssumption DEF HydraTypes, Threads, Thread
<1>1. At(Disp, "idle") => /\ th[Disp].at \notin StartPlace /\ th[Disp].new = None
                          /\ th[Disp].call = "hook"
  BY DEF HydraTypes, Threads, DispWork, At, StartPlace
<1>3. ASSUME NEW o \in Object, StopHook(o) \/ SoftHook(o) PROVE Calm /\ Ordinary(Disp)
  <2>1. /\ At(Disp, "idle")
        /\ \/ th' = [th EXCEPT ![Disp].at = "kill", ![Disp].vm = o, ![Disp].call = "hook"]
           \/ th' = [th EXCEPT ![Disp].at = "soft", ![Disp].vm = o]
    BY <1>3 DEF StopHook, SoftHook, Asked, Begin, BeginStop
  <2> QED
    BY <1>0, <1>1, <2>1 DEF Calm, Ordinary, Work, StartPlace
<1>4. ASSUME NEW o \in Object, NEW s \in {"running", "sleeping"}, SleepHook(o, s)
      PROVE  Calm /\ Ordinary(Disp)
  BY <1>0, <1>1, <1>4 DEF SleepHook, Asked, Calm, Ordinary, Work, StartPlace
<1>5. ASSUME NEW o \in Object, NEW d \in Device, UsbAdd(o, d) \/ UsbRemove(o, d)
      PROVE  Calm /\ Ordinary(Disp)
  BY <1>0, <1>1, <1>5 DEF UsbAdd, UsbRemove, Asked, Calm, Ordinary, Work, StartPlace
<1>6. ASSUME HibernateHook PROVE Calm /\ Ordinary(Disp)
  BY <1>0, <1>1, <1>6 DEF HibernateHook, Calm, Ordinary, Resting, StartPlace
<1>7. ASSUME Shutdown PROVE Calm
  BY <1>0, <1>1, <1>7 DEF Shutdown, BeginStopAll, Calm, Resting, StartPlace
<1> QED
  BY <1>3, <1>4, <1>5, <1>6, <1>7

\* and for the steps of the dispatcher that end them.
LEMMA WorkCalm ==
    ASSUME HydraTypes
    PROVE  /\ SoftTimer \/ UsbSet \/ UsbForget \/ Signalled \/ HibernateNext
                => Calm /\ Ordinary(Disp)
           /\ Stop(Disp) \/ StopNext(Disp) \/ StopClear(Disp) => Calm
           /\ StopDown(Disp) => DispPart
<1>0. /\ th \in [Thread -> Work] /\ Disp \in Thread /\ Exec \in Thread /\ Disp # Exec
      /\ th[Disp] \in Work /\ DispWork(th[Disp])
  BY HydraAssumption DEF HydraTypes, Threads, Thread
<1>d. Done(Disp) = Resting
  BY DEF Done, Resting
<1>r. Rest(Disp) => /\ th'[Exec] = th[Exec]
                    /\ th'[Disp].at = "idle" /\ th'[Disp].new = None /\ th'[Disp].call = "hook"
  BY <1>0, <1>d DEF Rest, Resting
<1>1. ASSUME SoftTimer \/ UsbSet \/ UsbForget PROVE Calm /\ Ordinary(Disp)
  BY <1>0, <1>r, <1>1 DEF SoftTimer, UsbSet, UsbForget, At, Calm, Ordinary, StartPlace
<1>2. ASSUME Signalled PROVE Calm /\ Ordinary(Disp)
  <2>1. CASE Rest(Disp)
    BY <1>r, <1>2, <2>1 DEF Signalled, At, Calm, Ordinary, StartPlace
  <2>2. CASE Goto(Disp, "each") /\ th[Disp].call = "each"
    BY <1>0, <1>2, <2>2 DEF Signalled, At, Goto, Calm, Ordinary, StartPlace, Work
  <2> QED
    BY <1>2, <2>1, <2>2 DEF Signalled
<1>3. ASSUME HibernateNext PROVE Calm /\ Ordinary(Disp)
  <2>1. CASE Rest(Disp)
    BY <1>r, <1>3, <2>1 DEF HibernateNext, At, Calm, Ordinary, StartPlace
  <2>2. CASE \E o \in th[Disp].todo :
               th' = [th EXCEPT ![Disp].todo = @ \ {o}, ![Disp].vm = o,
                             ![Disp].at = IF vm[o].state = "running" THEN "signal" ELSE "each"]
    <3>1. PICK o \in th[Disp].todo :
               th' = [th EXCEPT ![Disp].todo = @ \ {o}, ![Disp].vm = o,
                             ![Disp].at = IF vm[o].state = "running" THEN "signal" ELSE "each"]
      BY <2>2
    <3>2. th[Disp].at = "each" /\ th[Disp].call = "each"
      BY <1>0, <1>3 DEF HibernateNext, At, DispWork
    <3> QED
      BY <1>0, <3>1, <3>2 DEF Calm, Ordinary, StartPlace, Work
  <2> QED
    BY <1>3, <2>1, <2>2 DEF HibernateNext
<1>4. ASSUME Kill(Disp) PROVE Calm
  BY <1>0, <1>4 DEF Kill, At, Calm, StartPlace, Work
<1>5. ASSUME StopEnd(Disp) PROVE Calm
  <2>1. At(Disp, "end") /\ (Return(Disp) \/ Raise(Disp))
    BY <1>5 DEF StopEnd
  <2>2. \/ Rest(Disp)
        \/ th' = [th EXCEPT ![Disp] = Resting]
        \/ \E p \in {"drop", "all", "dead", "ended"} :
             th' = [th EXCEPT ![Disp] = [th[Disp] EXCEPT !.at = p]]
    <3>1. CASE Return(Disp)
      <4>1. th' = [th EXCEPT ![Disp] =
                       CASE th[Disp].call = "visit" -> [th[Disp] EXCEPT !.at = "drop"]
                         [] th[Disp].call = "all" -> [th[Disp] EXCEPT !.at = "all"]
                         [] OTHER -> Done(Disp)]
        BY <1>0, <3>1 DEF Return
      <4> QED
        BY <1>d, <4>1
    <3>2. CASE Raise(Disp)
      BY <1>0, <3>2 DEF Raise, Goto
    <3> QED
      BY <2>1, <3>1, <3>2
  <2> QED
    BY <1>0, <1>r, <2>1, <2>2 DEF At, Calm, StartPlace, Work, Resting
<1>6. ASSUME StopNext(Disp) PROVE Calm
  <2>1. CASE Goto(Disp, "clear")
    BY <1>0, <1>6, <2>1 DEF StopNext, Goto, At, Calm, StartPlace, Work
  <2>2. CASE \E o \in th[Disp].todo :
               th' = [th EXCEPT ![Disp].todo = @ \ {o}, ![Disp].vm = o,
                                ![Disp].at = IF Stops(o) THEN "kill" ELSE "all"]
    <3>1. PICK o \in th[Disp].todo :
               th' = [th EXCEPT ![Disp].todo = @ \ {o}, ![Disp].vm = o,
                                ![Disp].at = IF Stops(o) THEN "kill" ELSE "all"]
      BY <2>2
    <3> QED
      BY <1>0, <1>6, <3>1 DEF StopNext, At, Calm, StartPlace, Work
  <2> QED
    BY <1>6, <2>1, <2>2 DEF StopNext
<1>7. ASSUME StopClear(Disp) PROVE Calm
  BY <1>0, <1>7 DEF StopClear, Goto, At, Calm, StartPlace, Work
<1>8. ASSUME StopDown(Disp) PROVE DispPart
  <2>1. CASE th[Disp].new # None
    <3>1. th' = [th EXCEPT ![Disp] = Building(th[Disp].new)]
      <4>1. th[Disp].next # "ended"
        BY <1>0, <2>1 DEF DispWork
      <4> QED
        BY <1>0, <1>8, <2>1, <4>1 DEF StopDown
    <3> QED
      BY <1>0, <1>8, <2>1, <3>1 DEF StopDown, At, DispPart, Building, Resting, Starting,
         StartPlace, NewVM, Me
  <2>2. CASE th[Disp].new = None
    <3>1. th'[Exec] = th[Exec] /\ th'[Disp].at \in {"ended", "idle"} /\ th'[Disp].new = None
      BY <1>0, <1>d, <1>8, <2>2 DEF StopDown, Work, Resting
    <3>2. Calm
      BY <1>8, <3>1 DEF StopDown, At, Calm, StartPlace
    <3> QED
      BY <3>2, CalmMoves
  <2> QED
    BY <2>1, <2>2
<1> QED
  BY <1>1, <1>2, <1>3, <1>4, <1>5, <1>6, <1>7, <1>8 DEF Stop

-----------------------------------------------------------------------------
(* The races.                                                              *)

\* The races after which a VM may be lost.
Losing == {"again", "overlap", "unready"}

\* If none has happened after a step, the step was none of them.
LEMMA Undisturbed ==
    ASSUME Losing \subseteq Race, ~Disturbed', NEW r \in Losing, NEW b \in BOOLEAN,
           Raced(r, b) \subseteq history'
    PROVE  ~b
BY DEF Losing, Disturbed, Raced

-----------------------------------------------------------------------------
(* What the steps of the executer do.                                      *)

\* The executer never reaches for a VM that is being started, unless by one of the races.
LEMMA ExecMoves ==
    ASSUME HydraTypes, Losing \subseteq Race, ~Disturbed'
    PROVE  /\ Stop(Exec) \/ StopAll(Exec) => ExecPart
           /\ Boot(Exec) \/ ThreadBegin => ExecPart
           /\ Promote \/ Drop \/ RoundEnd \/ Timers \/ Verdict \/ ReapEnd => ExecPart
           /\ \A o \in Object : Visit(o) \/ TimerDue(o) => ExecPart
           /\ \A w \in watch : Reap(w) => ExecPart
<1>0. /\ th \in [Thread -> Work] /\ Disp \in Thread /\ Exec \in Thread /\ Disp # Exec
      /\ th[Exec] \in Work /\ ExecWork(th[Exec])
      /\ \A o \in Object : o # None
  BY HydraAssumption DEF HydraTypes, Threads, Thread
<1>d. Done(Exec) = [Resting EXCEPT !.at = "timers"]
  BY <1>0 DEF Done
<1>k. ASSUME th'[Disp] = th[Disp], th'[Exec].todo \subseteq th[Exec].todo,
             th'[Exec].vm \in {th[Exec].vm, None},
             th'[Exec].call = "all" => th[Exec].call = "all",
             th'[Exec].call = "visit" /\ th'[Exec].at # "round"
                => th[Exec].call = "visit" /\ th[Exec].at # "round"
      PROVE  ExecPart
  BY <1>0, <1>k DEF ExecPart, Visiting, Me, At
<1>r. Rest(Exec) \/ th' = [th EXCEPT ![Exec] = Done(Exec)] => ExecPart
  BY <1>0, <1>d, <1>k DEF Rest, Resting
<1>g. ASSUME NEW p \in ExecPlace, Goto(Exec, p),
             p = "round" \/ th[Exec].call # "visit" \/ ~At(Exec, "round")
      PROVE  ExecPart
  <2>1. th' = [th EXCEPT ![Exec].at = p]
    BY <1>g DEF Goto
  <2>2. th'[Disp] = th[Disp] /\ th'[Exec] = [th[Exec] EXCEPT !.at = p]
    BY <1>0, <2>1
  <2> QED
    BY <1>0, <1>g, <1>k, <2>2 DEF Work, At
<1>a. ASSUME NEW n, BeginStopAll(Exec, n, None) PROVE ExecPart
  <2>1. /\ th'[Disp] = th[Disp]
        /\ th'[Exec].todo = Listed /\ th'[Exec].vm = None /\ th'[Exec].call = "all"
    BY <1>0, <1>a DEF BeginStopAll, Resting
  <2>2. ~Starting
    <3>1. Raced("overlap", Exec = Exec /\ Starting) \subseteq history'
      BY <1>a DEF BeginStopAll
    <3>2. "overlap" \in Losing /\ (Exec = Exec /\ Starting) \in BOOLEAN
      BY DEF Losing, Starting
    <3> QED
      BY <3>1, <3>2, Undisturbed
  <2> QED
    BY <1>0, <2>1, <2>2 DEF ExecPart, Visiting, Me
<1>1. ASSUME Kill(Exec) PROVE ExecPart
  BY <1>0, <1>1, <1>k DEF Kill, At, Work
<1>2. ASSUME StopEnd(Exec) PROVE ExecPart
  <2>1. At(Exec, "end") /\ (Return(Exec) \/ Raise(Exec))
    BY <1>2 DEF StopEnd
  <2>2. \/ Rest(Exec)
        \/ \E p \in {"drop", "all", "dead"} : Goto(Exec, p)
    <3>1. CASE Return(Exec)
      <4>1. th' = [th EXCEPT ![Exec] =
                       CASE th[Exec].call = "visit" -> [th[Exec] EXCEPT !.at = "drop"]
                         [] th[Exec].call = "all" -> [th[Exec] EXCEPT !.at = "all"]
                         [] OTHER -> Done(Exec)]
        BY <1>0, <3>1 DEF Return
      <4> QED
        BY <1>0, <4>1 DEF Rest, Goto, Work
    <3>2. CASE Raise(Exec)
      BY <1>0, <3>2 DEF Raise, ExecWork
    <3> QED
      BY <2>1, <3>1, <3>2
  <2> QED
    BY <1>r, <1>g, <2>1, <2>2 DEF At, ExecPlace
<1>3. ASSUME StopAll(Exec) PROVE ExecPart
  <2>1. CASE StopNext(Exec)
    <3>1. CASE Goto(Exec, "clear")
      BY <1>g, <2>1, <3>1 DEF StopNext, At, ExecPlace
    <3>2. CASE \E o \in th[Exec].todo :
               th' = [th EXCEPT ![Exec].todo = @ \ {o}, ![Exec].vm = o,
                                ![Exec].at = IF Stops(o) THEN "kill" ELSE "all"]
      <4>1. PICK o \in th[Exec].todo :
               th' = [th EXCEPT ![Exec].todo = @ \ {o}, ![Exec].vm = o,
                                ![Exec].at = IF Stops(o) THEN "kill" ELSE "all"]
        BY <3>2
      <4>2. th'[Disp] = th[Disp] /\ th'[Exec].todo = th[Exec].todo \ {o} /\ th'[Exec].vm = o
            /\ th'[Exec].call = th[Exec].call
        BY <1>0, <4>1 DEF Work
      <4>3. th[Exec].call = "all"
        BY <1>0, <2>1 DEF StopNext, At, ExecWork, Stopping
      <4> QED
        BY <1>0, <4>2, <4>3 DEF ExecPart, Visiting, Me
    <3> QED
      BY <2>1, <3>1, <3>2 DEF StopNext
  <2>2. CASE StopClear(Exec)
    BY <1>g, <2>2 DEF StopClear, At, ExecPlace
  <2>3. CASE StopDown(Exec)
    <3>1. th[Exec].new = None /\ th[Exec].next # "ended"
      BY <1>0 DEF ExecWork
    <3> QED
      BY <1>0, <1>r, <2>3, <3>1 DEF StopDown
  <2> QED
    BY <1>3, <2>1, <2>2, <2>3 DEF StopAll
<1>4. ASSUME Boot(Exec) PROVE ExecPart
  <2>1. CASE th' = [th EXCEPT ![Exec] = Done(Exec)]
    BY <1>r, <2>1
  <2>2. CASE \E n : BeginStopAll(Exec, n, Me(Exec))
    <3>1. Me(Exec) = None
      BY <1>0, <1>4 DEF Boot, At, ExecWork, Me
    <3> QED
      BY <1>a, <2>2, <3>1
  <2> QED
    BY <1>0, <1>4, <2>1, <2>2 DEF Boot
<1>5. ASSUME ThreadBegin PROVE ExecPart
  <2>1. CASE \/ Goto(Exec, "timers") \/ Goto(Exec, "boot")
    BY <1>g, <1>5, <2>1 DEF ThreadBegin, At, ExecPlace
  <2>2. CASE BeginStopAll(Exec, None, None)
    BY <1>a, <2>2
  <2>3. CASE th' = [th EXCEPT ![Exec].at = "round", ![Exec].todo = Listed]
    BY <1>0, <2>3, <1>5 DEF ThreadBegin, At, ExecWork, Quiet, ExecPart, Visiting, Me, Work
  <2> QED
    BY <1>5, <2>1, <2>2, <2>3 DEF ThreadBegin
<1>6. ASSUME Promote \/ RoundEnd \/ Timers \/ ReapEnd PROVE ExecPart
  BY <1>0, <1>g, <1>r, <1>6 DEF Promote, RoundEnd, Timers, ReapEnd, At, ExecPlace, ExecWork,
     Quiet
<1>7. ASSUME Drop PROVE ExecPart
  BY <1>g, <1>r, <1>7 DEF Drop, At, ExecPlace
<1>8. ASSUME Verdict PROVE ExecPart
  <2>1. th' = [th EXCEPT ![Exec] = [Resting EXCEPT !.at = "reaped"]]
    BY <1>8 DEF Verdict
  <2> QED
    BY <1>0, <1>k, <2>1 DEF Resting
<1>9. ASSUME NEW o \in Object, Visit(o) PROVE ExecPart
  <2>1. PICK p : th' = [th EXCEPT ![Exec].at = p, ![Exec].vm = o, ![Exec].call = "visit",
                                  ![Exec].todo = @ \ {o}]
    BY <1>9 DEF Visit
  <2>2. th'[Disp] = th[Disp] /\ th'[Exec].todo = th[Exec].todo \ {o} /\ th'[Exec].vm = o
        /\ th'[Exec].call = "visit" /\ o \in th[Exec].todo
    BY <1>0, <1>9, <2>1 DEF Work, Visit
  <2> QED
    BY <1>0, <2>2 DEF ExecPart, Visiting, Me
<1>10. ASSUME NEW o \in Object, TimerDue(o) PROVE ExecPart
  <2>1. CASE UNCHANGED th
    BY <1>k, <2>1
  <2>2. CASE BeginStop(Exec, o, "timer") /\ vm[o].state # "stopped"
    BY <1>0, <2>2 DEF BeginStop, ExecPart, Visiting, Me, Work
  <2> QED
    BY <1>10, <2>1, <2>2 DEF TimerDue
<1>11. ASSUME NEW w \in watch, Reap(w) PROVE ExecPart
  <2>0. At(Exec, "reap") \/ At(Exec, "reaped")
    BY <1>11 DEF Reap
  <2>1. CASE th' = [th EXCEPT ![Exec].at = "reaped"]
    BY <1>0, <1>g, <2>0, <2>1 DEF Goto, At, ExecPlace
  <2>2. CASE /\ vm[w[2]].state # "stopped"
             /\ \E n : th' = [th EXCEPT ![Exec].at = "exited", ![Exec].vm = w[2], ![Exec].next = n]
    BY <1>0, <2>0, <2>2 DEF At, ExecWork, Quiet, ExecPart, Visiting, Me, Work
  <2> QED
    BY <1>11, <2>1, <2>2 DEF Reap
<1> QED
  BY <1>1, <1>2, <1>3, <1>4, <1>5, <1>6, <1>7, <1>8, <1>9, <1>10, <1>11 DEF Stop

\* Only by the first step of a round or a start that fails it comes into HydraServer.stop().
LEMMA ExecOrdinary ==
    ASSUME HydraTypes
    PROVE  /\ Promote \/ Drop \/ RoundEnd \/ Timers \/ Verdict \/ ReapEnd => Ordinary(Exec)
           /\ \A o \in Object : Visit(o) \/ TimerDue(o) => Ordinary(Exec)
           /\ \A w \in watch : Reap(w) => Ordinary(Exec)
           /\ ThreadBegin => Ordinary(Exec) \/ BeginStopAll(Exec, None, None)
           /\ Boot(Exec) => Ordinary(Exec) \/ \E n : BeginStopAll(Exec, n, Me(Exec))
<1>0. /\ th \in [Thread -> Work] /\ Exec \in Thread /\ th[Exec] \in Work /\ ExecWork(th[Exec])
  BY DEF HydraTypes, Threads, Thread
<1>d. Done(Exec).at = "timers" /\ Done(Exec).call = "hook"
  BY HydraAssumption DEF Done, Resting
<1>r. Rest(Exec) \/ th' = [th EXCEPT ![Exec] = Done(Exec)] => Ordinary(Exec)
  BY <1>0, <1>d DEF Rest, Ordinary
<1>g. ASSUME NEW p \in ExecPlace \ {"end"}, Goto(Exec, p), th[Exec].call # "all"
      PROVE  Ordinary(Exec)
  BY <1>0, <1>g DEF Goto, Ordinary, Work
<1>c. th[Exec].at \in {"idle", "round", "promote", "drop", "timers", "reap", "reaped", "exited"}
        => th[Exec].call # "all"
  BY <1>0 DEF ExecWork, Stopping
<1>1. ASSUME Promote \/ RoundEnd \/ Timers \/ ReapEnd \/ Drop PROVE Ordinary(Exec)
  BY <1>c, <1>r, <1>g, <1>1 DEF Promote, RoundEnd, Timers, ReapEnd, Drop, At, ExecPlace
<1>2. ASSUME Verdict PROVE Ordinary(Exec)
  BY <1>0, <1>2 DEF Verdict, Ordinary, Resting
<1>3. ASSUME NEW o \in Object, Visit(o) PROVE Ordinary(Exec)
  <2>1. PICK p \in {"kill", "round", "promote", "drop"} :
          th' = [th EXCEPT ![Exec].at = p, ![Exec].vm = o, ![Exec].call = "visit",
                           ![Exec].todo = @ \ {o}]
    BY <1>3 DEF Visit
  <2> QED
    BY <1>0, <2>1 DEF Ordinary, Work
<1>4. ASSUME NEW o \in Object, TimerDue(o) PROVE Ordinary(Exec)
  BY <1>0, <1>c, <1>4 DEF TimerDue, BeginStop, Ordinary, At, Work
<1>5. ASSUME NEW w \in watch, Reap(w) PROVE Ordinary(Exec)
  BY <1>0, <1>c, <1>5 DEF Reap, Ordinary, At, Work
<1>6. ASSUME ThreadBegin PROVE Ordinary(Exec) \/ BeginStopAll(Exec, None, None)
  <2>1. CASE Goto(Exec, "timers") \/ Goto(Exec, "boot")
    BY <1>c, <1>g, <1>6, <2>1 DEF ThreadBegin, At, ExecPlace
  <2>2. CASE th' = [th EXCEPT ![Exec].at = "round", ![Exec].todo = Listed]
    BY <1>0, <1>c, <1>6, <2>2 DEF ThreadBegin, At, Ordinary, Work
  <2> QED
    BY <1>6, <2>1, <2>2 DEF ThreadBegin
<1>7. ASSUME Boot(Exec) PROVE Ordinary(Exec) \/ \E n : BeginStopAll(Exec, n, Me(Exec))
  BY <1>0, <1>r, <1>7, HydraAssumption DEF Boot
<1> QED
  BY <1>1, <1>2, <1>3, <1>4, <1>5, <1>6, <1>7

-----------------------------------------------------------------------------
(* The start of a VM.                                                      *)

\* A VM is made for an id that the executer is done with: InOrder is kept.
LEMMA StartNewKeeps ==
    ASSUME HydraTypes, HydraTypes', InOrder, Losing \subseteq Race, ~Disturbed',
           NEW v \in Vmid, StartNew(v)
    PROVE  InOrder'
<1>0. /\ Thread = {Disp, Exec} /\ Disp # Exec /\ Machines /\ th \in [Thread -> Work]
      /\ \A k \in Object : vm[k].id \in Vmid
      /\ \A k \in Listed : k \in Object /\ vms[vm[k].id] = k
      /\ \A k \in Object : k # None
      /\ vms \in [Vmid -> Object \cup {None}] /\ \A i \in Vmid : vms[i] # None => vm[vms[i]].id = i
      /\ None \notin alive
  BY HydraAssumption DEF HydraTypes, Machines, Machine, Lists, Listed, Thread, Threads, Processes
<1>1. PICK o \in Object :
        /\ Free(o)
        /\ vm' = [vm EXCEPT ![o] = New(v)]
        /\ th' = [th EXCEPT ![Disp].at = IF running THEN "build" ELSE "boot",
                            ![Disp].vm = o, ![Disp].call = "new"]
  <2> DEFINE o == CHOOSE k \in Object : Free(k)
  <2>1. o \in Object /\ Free(o)
    BY DEF StartNew
  <2>2. /\ vm' = [vm EXCEPT ![o] = New(v)]
        /\ th' = [th EXCEPT ![Disp].at = IF running THEN "build" ELSE "boot",
                            ![Disp].vm = o, ![Disp].call = "new"]
    BY DEF StartNew
  <2> QED
    BY <2>1, <2>2
<1>2. /\ o \notin Listed /\ ~Live(o) /\ \A t \in Thread : Me(t) # o /\ o \notin th[t].todo
      /\ At(Disp, "idle") /\ UNCHANGED <<vms, alive>>
      /\ history' = Raced("overlap", ShuttingDown) \cup Raced("again", Uncleaned(v))
  BY <1>1 DEF StartNew, Free, sharedVars, processVars
<1>3. ~ShuttingDown /\ ~Uncleaned(v)
  <2>1. "overlap" \in Losing /\ "again" \in Losing
    BY DEF Losing
  <2>2. /\ Raced("overlap", ShuttingDown) \subseteq history'
        /\ Raced("again", Uncleaned(v)) \subseteq history'
    BY <1>2
  <2>3. ShuttingDown \in BOOLEAN /\ Uncleaned(v) \in BOOLEAN
    BY DEF ShuttingDown, Uncleaned
  <2> QED
    BY <2>1, <2>2, <2>3, Undisturbed
<1>4. /\ th'[Exec] = th[Exec] /\ th'[Disp].at \in {"build", "boot"} /\ th'[Disp].vm = o
      /\ th'[Disp].call = "new"
  BY <1>0, <1>1 DEF Work
<1>5. /\ Listed' = Listed
      /\ \A k \in Object \ {o} : vm'[k] = vm[k]
      /\ vm'[o].id = v /\ vm'[o].state = "stopped" /\ vm'[o].proc = None
  BY <1>0, <1>1, <1>2 DEF Listed, New, Machines
<1>6. (\A k \in Object : Live(k)' => Live(k) /\ k # o) /\ vms' = vms
  <2>1. alive' = alive /\ vms' = vms
    BY <1>2
  <2>2. ~Live(o)'
    BY <1>0, <1>5, <2>1 DEF Live
  <2>3. ASSUME NEW k \in Object, Live(k)', k # o PROVE Live(k)
    BY <1>5, <2>1, <2>3 DEF Live
  <2> QED
    BY <2>1, <2>2, <2>3
<1>7. vms[v] = None
  BY <1>0, <1>3 DEF Uncleaned, Listed
<1>8. Starting' /\ NewVM' = o /\ \A k : ~Poised(k) /\ ~Poised(k)'
  BY <1>2, <1>4 DEF Starting, StartPlace, NewVM, Poised, At, Me
<1>9. LiveListed' /\ StoppedIdle'
  BY <1>5, <1>6, <1>8 DEF InOrder, LiveListed, StoppedIdle
<1>10. NewApart'
  <2>1. Me(Exec)' # o /\ o \notin th'[Exec].todo
    BY <1>0, <1>2, <1>4 DEF Me
  <2>2. ~Live(o)'
    BY <1>6
  <2> QED
    BY <1>2, <1>4, <1>5, <1>6, <1>7, <1>8, <2>1, <2>2 DEF NewApart
<1>11. AllSwept' /\ EndsIdle'
  <2>1. th'[Exec].call # "all"
    BY <1>3, <1>4 DEF ShuttingDown
  <2>2. At(Exec, "end") => ~Live(Me(Exec)) /\ Me(Exec) \in Object
    BY <1>0 DEF InOrder, EndsIdle, HydraTypes, Threads, ExecWork, Working, At, Me
  <2> QED
    BY <1>0, <1>2, <1>4, <1>6, <2>1, <2>2 DEF AllSwept, EndsIdle, At, Me
<1>12. VisitsApart'
  <2> SUFFICES ASSUME NEW k \in Object, Visiting(k)'
               PROVE  vms'[vm'[k].id] \in {None, k} /\ vm'[NewVM'].id # vm'[k].id
    BY DEF VisitsApart
  <2>1. Visiting(k) /\ k # o
    BY <1>0, <1>2, <1>4 DEF Visiting, At, Me
  <2>2. vm[k].id # v
    BY <1>3, <2>1 DEF Uncleaned
  <2> QED
    BY <1>2, <1>5, <1>8, <2>1, <2>2 DEF InOrder, VisitsApart
<1>13. ~ShuttingDown'
  BY <1>3, <1>4 DEF ShuttingDown
<1> QED
  BY <1>9, <1>10, <1>11, <1>12, <1>13 DEF InOrder

\* The steps of a start before its process is run only take away.
LEMMA StartMoves ==
    ASSUME HydraTypes, InOrder
    PROVE  /\ Boot(Disp) => DispPart /\ (Ordinary(Disp) \/ \E n : BeginStopAll(Disp, None, n))
           /\ Build => DispPart /\ Ordinary(Disp)
           /\ Spawn /\ UNCHANGED alive => DispPart /\ Ordinary(Disp)
<1>0. /\ th \in [Thread -> Work] /\ Disp \in Thread /\ Exec \in Thread /\ Disp # Exec
      /\ th[Disp] \in Work /\ DispWork(th[Disp])
  BY HydraAssumption DEF HydraTypes, Threads, Thread
<1>r. Rest(Disp) => /\ th'[Exec] = th[Exec]
                    /\ th'[Disp].at = "idle" /\ th'[Disp].new = None /\ th'[Disp].call = "hook"
  BY <1>0 DEF Rest, Done, Resting
<1>1. ASSUME Boot(Disp) PROVE DispPart /\ (Ordinary(Disp) \/ \E n : BeginStopAll(Disp, None, n))
  <2>1. At(Disp, "boot")
    BY <1>1 DEF Boot
  <2>2. CASE th' = [th EXCEPT ![Disp] = Building(th[Disp].vm)]
    BY <1>0, <2>1, <2>2 DEF DispPart, Ordinary, Building, Resting, Starting, StartPlace, NewVM,
       Me, At
  <2>3. CASE BeginStopAll(Disp, None, Me(Disp))
    <3>1. /\ th'[Exec] = th[Exec] /\ th'[Disp].at = "all" /\ th'[Disp].new = Me(Disp)
      BY <1>0, <2>3 DEF BeginStopAll, Resting
    <3> QED
      BY <2>1, <2>3, <3>1 DEF DispPart, Starting, StartPlace, NewVM, Me, At
  <2> QED
    BY <1>0, <1>1, <2>2, <2>3 DEF Boot
<1>2. ASSUME Build PROVE DispPart /\ Ordinary(Disp)
  <2>1. At(Disp, "build") /\ th[Disp].call = "new"
    BY <1>2 DEF Build, InOrder, NewApart, Starting, StartPlace, At
  <2>2. CASE Goto(Disp, "spawn")
    BY <1>0, <2>1, <2>2 DEF Goto, DispPart, Ordinary, Starting, StartPlace, NewVM, Me, At, Work
  <2>3. CASE Rest(Disp)
    BY <1>r, <2>1, <2>3 DEF DispPart, Ordinary, Starting, StartPlace, At
  <2> QED
    BY <1>2, <2>2, <2>3 DEF Build, Fail
<1>3. ASSUME Spawn, UNCHANGED alive PROVE DispPart /\ Ordinary(Disp)
  <2>1. At(Disp, "spawn")
    BY <1>3 DEF Spawn
  <2> DEFINE unused == Process \ (alive \cup {vm[k].proc : k \in Object} \cup {w[1] : w \in watch})
             q == CHOOSE p \in unused : TRUE
  <2>2. unused # {} => q \in unused /\ q \notin alive
    OBVIOUS
  <2>3. Rest(Disp)
    <3> HIDE DEF q
    <3>1. (unused # {} /\ alive' = alive \cup {q}) \/ Rest(Disp)
      BY <1>3 DEF Spawn, Fail, q
    <3> QED
      BY <1>3, <2>2, <3>1
  <2> QED
    BY <1>r, <2>1, <2>3 DEF DispPart, Ordinary, Starting, StartPlace, At
<1> QED
  BY <1>1, <1>2, <1>3

\* The process is run: the VM is poised.
LEMMA RunKeeps ==
    ASSUME HydraTypes, HydraTypes', InOrder, Spawn, ~UNCHANGED alive
    PROVE  InOrder'
<1>0. /\ Thread = {Disp, Exec} /\ Disp # Exec /\ Machines /\ th \in [Thread -> Work]
      /\ \A k \in Object : vm[k].id \in Vmid /\ vm'[k].id = vm[k].id
  BY HydraAssumption, MachinesKept DEF HydraTypes, Machines, Machine, Thread, Threads
<1>1. PICK o \in Object, p \in Process, made \in BOOLEAN :
        /\ At(Disp, "spawn") /\ o = Me(Disp) /\ o = NewVM
        /\ vm' = [vm EXCEPT ![o].proc = p, ![o].wait = 0, ![o].adapters = made]
        /\ alive' = alive \cup {p} /\ \A k \in Object : vm[k].proc # p
        /\ th' = [th EXCEPT ![Disp].at = "poll"]
        /\ UNCHANGED vms
  <2> DEFINE unused == Process \ (alive \cup {vm[k].proc : k \in Object} \cup {w[1] : w \in watch})
             q == CHOOSE p \in unused : TRUE
  <2>1. unused # {} => q \in Process /\ \A k \in Object : vm[k].proc # q
    OBVIOUS
  <2>2. PICK made \in BOOLEAN :
          /\ unused # {}
          /\ vm' = [vm EXCEPT ![Me(Disp)].proc = q, ![Me(Disp)].wait = 0,
                              ![Me(Disp)].adapters = made]
          /\ alive' = alive \cup {q}
          /\ Goto(Disp, "poll") /\ UNCHANGED vms
    <3> HIDE DEF q
    <3> QED
      BY DEF Spawn, processVars, q
  <2>3. At(Disp, "spawn") /\ Me(Disp) \in Object /\ Me(Disp) = NewVM
    BY DEF Spawn, InOrder, NewApart, Starting, StartPlace, NewVM, At
  <2> QED
    BY <2>1, <2>2, <2>3 DEF Goto
<1>2. /\ th'[Exec] = th[Exec] /\ th'[Disp].at = "poll" /\ th'[Disp].vm = o
      /\ th'[Disp].call = th[Disp].call
  BY <1>0, <1>1 DEF Work, Me
<1>3. /\ o \notin Listed /\ vms[vm[o].id] = None /\ Me(Exec) # o /\ o \notin th[Exec].todo
      /\ vm[o].state = "stopped" /\ th[Disp].call = "new" /\ ~ShuttingDown
      /\ Starting /\ \A k : ~Poised(k)
  BY <1>1 DEF InOrder, NewApart, Starting, StartPlace, At, Poised
<1>4. /\ Listed' = Listed
      /\ \A k \in Object : vm'[k].state = vm[k].state /\ (k # o => vm'[k].proc = vm[k].proc)
  BY <1>0, <1>1 DEF Listed, Machines, Machine
<1>5. \A k \in Object : Live(k)' => Live(k) \/ k = o
  <2> SUFFICES ASSUME NEW k \in Object, Live(k)', k # o PROVE Live(k)
    OBVIOUS
  <2>1. vm'[k].proc = vm[k].proc /\ vm[k].proc # p /\ alive' = alive \cup {p}
    BY <1>1, <1>4
  <2> QED
    BY <2>1 DEF Live
<1>6. Starting' /\ NewVM' = o /\ Poised(o)'
  BY <1>2 DEF Starting, StartPlace, NewVM, Poised, Me
<1>7. LiveListed' /\ StoppedIdle'
  BY <1>3, <1>4, <1>5, <1>6 DEF InOrder, LiveListed, StoppedIdle
<1>8. NewApart'
  <2>1. Me(Exec)' # o /\ o \notin th'[Exec].todo /\ vms'[vm'[o].id] = None
    BY <1>0, <1>1, <1>2, <1>3 DEF Me
  <2> QED
    BY <1>1, <1>2, <1>3, <1>4, <1>6, <2>1 DEF NewApart
<1>9. AllSwept' /\ EndsIdle'
  <2>1. th'[Exec].call # "all"
    BY <1>2, <1>3 DEF ShuttingDown
  <2>2. At(Exec, "end") => ~Live(Me(Exec)) /\ Me(Exec) \in Object /\ Me(Exec) # o
    BY <1>0, <1>3 DEF InOrder, EndsIdle, HydraTypes, Threads, ExecWork, Working, At, Me
  <2>3. At(Exec, "end")' => ~Live(Me(Exec))'
    BY <1>2, <1>5, <2>2 DEF At, Me
  <2> QED
    BY <1>0, <1>2, <1>3, <2>1, <2>3 DEF AllSwept, EndsIdle, At
<1>10. VisitsApart'
  <2> SUFFICES ASSUME NEW k \in Object, Visiting(k)'
               PROVE  vms'[vm'[k].id] \in {None, k} /\ vm'[NewVM'].id # vm'[k].id
    BY DEF VisitsApart
  <2>1. Visiting(k)
    BY <1>2 DEF Visiting, At, Me
  <2>2. vm'[NewVM'].id = vm[NewVM].id
    BY <1>0, <1>1, <1>6
  <2> QED
    BY <1>0, <1>1, <1>3, <2>1, <2>2 DEF InOrder, VisitsApart
<1>11. ~ShuttingDown'
  BY <1>2, <1>3 DEF ShuttingDown
<1> QED
  BY <1>7, <1>8, <1>9, <1>10, <1>11 DEF InOrder

\* The VM is listed, with a state that is not stopped, or its process is looked at again.
LEMMA ListedKeeps ==
    ASSUME HydraTypes, HydraTypes', InOrder, Poll \/ Perm
    PROVE  InOrder'
<1>0. /\ Thread = {Disp, Exec} /\ Disp # Exec /\ Machines /\ th \in [Thread -> Work]
      /\ \A k \in Object : vm[k].id \in Vmid /\ vm'[k].id = vm[k].id /\ k # None
      /\ \A k \in Listed : k \in Object /\ vms[vm[k].id] = k
      /\ vms \in [Vmid -> Object \cup {None}]
  BY HydraAssumption, MachinesKept DEF HydraTypes, Machines, Machine, Thread, Threads, Lists,
     Listed
<1>1. /\ th[Disp].at \in {"poll", "perm"} /\ alive' = alive
      /\ Starting /\ NewVM = Me(Disp) /\ ~ShuttingDown
  BY DEF Poll, Perm, InOrder, Starting, StartPlace, NewVM, At, processVars
<1>2. /\ Me(Disp) \in Object /\ Me(Disp) \notin Listed /\ vms[vm[Me(Disp)].id] = None
      /\ Me(Exec) # Me(Disp) /\ Me(Disp) \notin th[Exec].todo
      /\ vm[Me(Disp)].state = "stopped" /\ th[Disp].call = "new"
  BY <1>1 DEF InOrder, NewApart, StartPlace
<1>3. At(Exec, "end") => ~Live(Me(Exec)) /\ Me(Exec) \in Object
  BY <1>0 DEF InOrder, EndsIdle, HydraTypes, Threads, ExecWork, Working, At, Me
<1>4. CASE Goto(Disp, "perm") /\ UNCHANGED <<vm, vms>>
  <2>1. /\ th'[Exec] = th[Exec] /\ th'[Disp].at = "perm" /\ th'[Disp].vm = th[Disp].vm
        /\ th'[Disp].call = th[Disp].call
    BY <1>0, <1>4 DEF Goto, Work
  <2>2. Listed' = Listed /\ \A k \in Object : Live(k)' => Live(k)
    BY <1>1, <1>4 DEF Listed, Live
  <2>3. Starting' /\ NewVM' = Me(Disp) /\ \A k \in Object : Poised(k) => Poised(k)'
    BY <1>1, <2>1 DEF Starting, StartPlace, NewVM, Poised, Me
  <2>4. LiveListed' /\ StoppedIdle'
    BY <1>4, <2>2, <2>3 DEF InOrder, LiveListed, StoppedIdle
  <2>5. NewApart'
    <3>1. Me(Exec)' # Me(Disp) /\ Poised(Me(Disp))' /\ Me(Disp)' = Me(Disp)
      BY <1>2, <2>1 DEF Me, Poised
    <3> QED
      BY <1>2, <1>4, <2>1, <2>2, <2>3, <3>1 DEF NewApart
  <2>6. AllSwept' /\ EndsIdle'
    <3>1. At(Exec, "end")' => ~Live(Me(Exec))'
      BY <1>3, <2>1, <2>2 DEF At, Me
    <3>2. th'[Exec].call # "all"
      BY <1>1, <2>1 DEF ShuttingDown
    <3> QED
      BY <1>0, <1>2, <2>1, <3>1, <3>2 DEF AllSwept, EndsIdle, At
  <2>7. VisitsApart'
    <3> SUFFICES ASSUME NEW k \in Object, Visiting(k)'
                 PROVE  vms'[vm'[k].id] \in {None, k} /\ vm'[NewVM'].id # vm'[k].id
      BY DEF VisitsApart
    <3>1. Visiting(k)
      BY <2>1 DEF Visiting, At, Me
    <3> QED
      BY <1>1, <1>4, <2>3, <3>1 DEF InOrder, VisitsApart
  <2>8. ~ShuttingDown'
    BY <1>1, <2>1 DEF ShuttingDown
  <2> QED
    BY <2>4, <2>5, <2>6, <2>7, <2>8 DEF InOrder
<1>5. CASE \E s \in {"running", "waiting"} : Started(s)
  <2>1. PICK s \in {"running", "waiting"}, o \in Object :
          /\ o = Me(Disp)
          /\ vm' = [vm EXCEPT ![o].state = s]
          /\ vms' = [vms EXCEPT ![vm[o].id] = o]
          /\ th' = [th EXCEPT ![Disp] = Done(Disp)]
    BY <1>2, <1>5 DEF Started, Assign, ListedNow, Rest
  <2>2. /\ th'[Exec] = th[Exec] /\ th'[Disp].at = "idle" /\ th'[Disp].call = "hook"
        /\ th'[Disp].new = None
    BY <1>0, <2>1 DEF Done, Resting
  <2>3. ~Starting'
    BY <2>2 DEF Starting, StartPlace
  <2>4. /\ o \notin Listed /\ vms[vm[o].id] = None /\ Me(Exec) # o
    BY <1>2, <2>1
  <2>5. o \in Listed' /\ Listed' \subseteq Listed \cup {o} /\ Listed \subseteq Listed'
    BY <1>0, <2>1, <2>4 DEF Listed
  <2>6. /\ \A k \in Object : vm'[k].proc = vm[k].proc /\ (k # o => vm'[k].state = vm[k].state)
        /\ vm'[o].state # "stopped"
    BY <1>0, <2>1 DEF Machines, Machine
  <2>7. \A k \in Object : Live(k)' => Live(k)
    BY <1>1, <2>6 DEF Live
  <2>8. \A k \in Object : Poised(k) => k = o
    BY <2>1 DEF Poised
  <2>9. LiveListed' /\ StoppedIdle'
    BY <2>5, <2>6, <2>7, <2>8 DEF InOrder, LiveListed, StoppedIdle
  <2>10. NewApart'
    BY <2>3 DEF NewApart
  <2>11. AllSwept' /\ EndsIdle'
    <3>1. At(Exec, "end")' => ~Live(Me(Exec))'
      BY <1>3, <2>2, <2>7 DEF At, Me
    <3>2. th'[Exec].call # "all"
      BY <1>1, <2>2 DEF ShuttingDown
    <3> QED
      BY <1>0, <2>2, <3>1, <3>2 DEF AllSwept, EndsIdle, At
  <2>12. VisitsApart'
    <3> SUFFICES ASSUME NEW k \in Object, Visiting(k)' PROVE vms'[vm'[k].id] \in {None, k}
      BY <2>3 DEF VisitsApart
    <3>1. Visiting(k)
      BY <2>2 DEF Visiting, At, Me
    <3>2. vm[o].id # vm[k].id /\ vms[vm[k].id] \in {None, k}
      BY <1>1, <2>1, <3>1 DEF InOrder, VisitsApart
    <3> QED
      BY <1>0, <2>1, <3>2
  <2> QED
    BY <2>3, <2>9, <2>10, <2>11, <2>12 DEF InOrder
<1> QED
  BY <1>4, <1>5 DEF Poll, Perm

-----------------------------------------------------------------------------
(* Every step keeps the invariant.                                         *)

\* A process exits.
LEMMA ExitKeeps ==
    ASSUME HydraTypes, HydraTypes', InOrder,
           UNCHANGED <<vm, vms, th>>, alive' \subseteq alive
    PROVE  InOrder'
<1>1. VmPart(Exec) /\ ListPart
  BY ListMoves DEF VmPart, Live
<1>2. ExecPart
  BY DEF ExecPart, Visiting, Me, At
<1>3. AllPart(Exec)
  <2>1. Listed' = Listed /\ \A o \in Object : Live(o)' => Live(o)
    BY <1>1 DEF Listed, VmPart
  <2>2. \A o \in Listed : o \in Object
    BY DEF HydraTypes, Lists, Listed
  <2>3. At(Exec, "end") => ~Live(Me(Exec)) /\ Me(Exec) \in Object
    BY DEF InOrder, EndsIdle, HydraTypes, Threads, Thread, ExecWork, Working, At, Me
  <2>4. th[Exec].call = "all" /\ ~At(Exec, "ended") => Sweeps(Exec)
    BY DEF InOrder, AllSwept, Thread
  <2> QED
    BY <1>1, <2>1, <2>2, <2>3, <2>4 DEF AllPart, Sweeps, At, Me
<1> QED
  BY <1>1, <1>2, <1>3, MovesKeep, HydraAssumption DEF Moves, Thread

\* A behaviour that is disturbed stays so.
LEMMA RacesStay ==
    ASSUME [Next]_vars
    PROVE  Disturbed => Disturbed'
<1>1. CASE Next
  BY <1>1, HistoryGrows DEF Disturbed
<1>2. CASE UNCHANGED vars
  BY <1>2 DEF vars, Disturbed
<1> QED
  BY <1>1, <1>2

\* Requests,
LEMMA HookKeeps ==
    ASSUME HydraTypes, HydraTypes', InOrder, Losing \subseteq Race, ~Disturbed', Hook
    PROVE  InOrder'
<1>0. Disp \in Thread /\ Disp # Exec
  BY HydraAssumption DEF Thread
<1>1. CASE \E v \in Vmid : StartNew(v)
  BY <1>1, StartNewKeeps
<1>2. CASE \E o \in Object : StartAgain(o)
  <2>1. Raced("again", TRUE) \subseteq history' /\ "again" \in Losing
    BY <1>2 DEF StartAgain, Losing
  <2> QED
    BY <2>1, Undisturbed
<1>3. CASE \/ \E o \in Object : \/ StopHook(o) \/ SoftHook(o)
                                \/ \E s \in {"running", "sleeping"} : SleepHook(o, s)
                                \/ \E d \in Device : UsbAdd(o, d) \/ UsbRemove(o, d)
           \/ HibernateHook
  <2>1. UNCHANGED <<vm, vms, alive>>
    BY <1>3 DEF StopHook, SoftHook, SleepHook, UsbAdd, UsbRemove, HibernateHook, Requested,
       sharedVars, processVars
  <2>2. VmPart(Disp) /\ ListPart
    BY <1>0, <2>1, MachineMoves, ListMoves
  <2>3. Calm /\ Ordinary(Disp)
    BY <1>3, RequestsCalm
  <2> QED
    BY <1>0, <2>2, <2>3, CalmMoves, MovesKeep DEF Moves
<1>4. CASE Shutdown
  <2>1. UNCHANGED <<vm, vms, alive>> /\ BeginStopAll(Disp, "ended", None)
    BY <1>4 DEF Shutdown, sharedVars, processVars
  <2>2. VmPart(Disp) /\ ListPart /\ AllPart(Disp)
    BY <1>0, <2>1, MachineMoves, ListMoves, SweepMoves
  <2>3. Calm
    BY <1>4, RequestsCalm
  <2> QED
    BY <1>0, <2>2, <2>3, CalmMoves, MovesKeep DEF Moves
<1> QED
  BY <1>1, <1>2, <1>3, <1>4 DEF Hook

\* the dispatcher's other steps
LEMMA DispatchKeeps ==
    ASSUME HydraTypes, HydraTypes', InOrder, Dispatch
    PROVE  InOrder'
<1>0. Disp \in Thread /\ Disp # Exec
  BY HydraAssumption DEF Thread
<1>m. ASSUME VmPart(Disp), ListPart, DispPart, AllPart(Disp) PROVE InOrder'
  BY <1>0, <1>m, MovesKeep DEF Moves
<1>1. CASE Boot(Disp)
  <2>1. UNCHANGED <<vm, vms, alive>>
    BY <1>0, <1>1 DEF Boot, processVars
  <2>2. VmPart(Disp) /\ ListPart
    BY <1>0, <2>1, MachineMoves, ListMoves
  <2>3. DispPart /\ (Ordinary(Disp) \/ \E n : BeginStopAll(Disp, None, n))
    BY <1>1, StartMoves
  <2>4. AllPart(Disp)
    BY <1>0, <2>1, <2>3, CalmMoves, SweepMoves
  <2> QED
    BY <1>m, <2>2, <2>3, <2>4
<1>2. CASE Build \/ (Spawn /\ UNCHANGED alive)
  BY <1>0, <1>2, <1>m, MachineMoves, ListMoves, StartMoves, CalmMoves
<1>3. CASE Spawn /\ ~UNCHANGED alive
  BY <1>3, RunKeeps
<1>4. CASE Poll \/ Perm
  BY <1>4, ListedKeeps
<1>5. CASE SoftTimer \/ Signalled \/ HibernateNext \/ UsbSet \/ UsbForget
  <2>1. UNCHANGED vms /\ (HibernateNext => UNCHANGED <<vm, alive>>)
    BY <1>5 DEF SoftTimer, Signalled, HibernateNext, UsbSet, UsbForget, Requested, sharedVars,
       processVars
  <2>2. VmPart(Disp) /\ ListPart
    BY <1>0, <1>5, <2>1, MachineMoves, ListMoves
  <2>3. Calm /\ Ordinary(Disp)
    BY <1>5, WorkCalm
  <2> QED
    BY <1>0, <1>m, <2>2, <2>3, CalmMoves
<1>6. CASE Stop(Disp)
  <2>1. UNCHANGED vms
    BY <1>6 DEF Stop, Kill, StopEnd
  <2> QED
    BY <1>0, <1>6, <1>m, <2>1, MachineMoves, ListMoves, WorkCalm, CalmMoves, SweepMoves
<1>7. CASE StopAll(Disp)
  <2>1. UNCHANGED <<vm, alive>>
    BY <1>7 DEF StopAll, StopNext, StopClear, StopDown, processVars
  <2>2. DispPart
    BY <1>7, WorkCalm, CalmMoves DEF StopAll
  <2> QED
    BY <1>0, <1>7, <1>m, <2>1, <2>2, MachineMoves, ListMoves, SweepMoves
<1> QED
  BY <1>1, <1>2, <1>3, <1>4, <1>5, <1>6, <1>7 DEF Dispatch, Start

\* and the executer's keep InOrder.
LEMMA ExecuteKeeps ==
    ASSUME HydraTypes, HydraTypes', InOrder, Losing \subseteq Race, ~Disturbed', Execute
    PROVE  InOrder'
<1>0. Exec \in Thread /\ Disp # Exec
  BY HydraAssumption DEF Thread
<1>m. ASSUME VmPart(Exec), ListPart, ExecPart, AllPart(Exec) PROVE InOrder'
  BY <1>0, <1>m, MovesKeep DEF Moves
<1>1. CASE ThreadBegin \/ Boot(Exec)
  <2>1. UNCHANGED <<vm, alive, vms>>
    <3>1. CASE ThreadBegin
      BY <3>1 DEF ThreadBegin, sharedVars, processVars
    <3>2. CASE Boot(Exec)
      <4>1. /\ UNCHANGED <<vm, alive>>
            /\ \/ UNCHANGED vms
               \/ running' = FALSE /\ history' = Raced("unready", Exec = Exec /\ ~running')
        BY <1>0, <3>2 DEF Boot, processVars, HydraTypes, Claims
      <4>2. "unready" \in Losing /\ (Exec = Exec /\ ~running') \in BOOLEAN
        BY DEF Losing
      <4> QED
        BY <4>1, <4>2, Undisturbed
    <3> QED
      BY <1>1, <3>1, <3>2
  <2>2. VmPart(Exec) /\ ListPart
    BY <1>0, <2>1, MachineMoves, ListMoves
  <2>3. AllPart(Exec)
    BY <1>0, <1>1, <2>1, ExecOrdinary, CalmMoves, SweepMoves
  <2>4. ExecPart
    BY <1>1, ExecMoves
  <2> QED
    BY <1>m, <2>2, <2>3, <2>4
<1>2. CASE Promote \/ Verdict \/ \E o \in Object : Visit(o) \/ TimerDue(o)
  <2>1. UNCHANGED vms
    BY <1>2 DEF Promote, Verdict, Visit, TimerDue, sharedVars
  <2>2. VmPart(Exec) /\ ListPart
    BY <1>0, <1>2, <2>1, MachineMoves, ListMoves
  <2>3. ExecPart /\ Ordinary(Exec)
    BY <1>2, ExecMoves, ExecOrdinary
  <2> QED
    BY <1>0, <1>m, <2>2, <2>3, CalmMoves
<1>3. CASE Drop \/ RoundEnd \/ Timers \/ ReapEnd \/ \E w \in watch : Reap(w)
  <2>1. UNCHANGED <<vm, alive>> /\ (Drop \/ UNCHANGED vms)
    BY <1>3 DEF Drop, RoundEnd, Timers, ReapEnd, Reap, sharedVars, processVars
  <2>2. VmPart(Exec) /\ ListPart
    BY <1>0, <2>1, MachineMoves, ListMoves
  <2>3. ExecPart /\ Ordinary(Exec)
    BY <1>3, ExecMoves, ExecOrdinary
  <2> QED
    BY <1>0, <1>m, <2>2, <2>3, CalmMoves
<1>4. CASE Stop(Exec)
  <2>1. UNCHANGED vms
    BY <1>4 DEF Stop, Kill, StopEnd
  <2> QED
    BY <1>0, <1>4, <1>m, <2>1, MachineMoves, ListMoves, ExecMoves, SweepMoves
<1>5. CASE StopAll(Exec)
  <2>1. UNCHANGED <<vm, alive>>
    BY <1>5 DEF StopAll, StopNext, StopClear, StopDown, processVars
  <2> QED
    BY <1>0, <1>5, <1>m, <2>1, MachineMoves, ListMoves, ExecMoves, SweepMoves
<1> QED
  BY <1>1, <1>2, <1>3, <1>4, <1>5 DEF Execute

\* The inductive invariant.
KnownInv == HydraTypes /\ (Disturbed \/ InOrder)

\* It holds at first,
LEMMA KnownInit ==
    Init => KnownInv
<1> SUFFICES ASSUME Init PROVE InOrder
  BY HydraInit DEF KnownInv
<1>1. /\ \A t \in Thread : th[t] = Resting
      /\ alive = {}
      /\ Disp \in Thread /\ Exec \in Thread
  BY DEF Init, Thread
<1>2. ~Starting /\ ~ShuttingDown /\ \A o \in Object : ~Live(o) /\ ~Visiting(o)
  BY <1>1 DEF Starting, ShuttingDown, StartPlace, Resting, Live, Visiting
<1> QED
  BY <1>1, <1>2 DEF InOrder, LiveListed, StoppedIdle, NewApart, AllSwept, VisitsApart, EndsIdle,
     At, Resting

\* and every step keeps it.
LEMMA KnownStep ==
    ASSUME Losing \subseteq Race, KnownInv, [Next]_vars
    PROVE  KnownInv'
<1>1. HydraTypes /\ HydraTypes'
  BY TypesStep DEF KnownInv
<1>2. CASE Disturbed'
  BY <1>1, <1>2 DEF KnownInv
<1>3. CASE ~Disturbed'
  <2>1. InOrder
    BY <1>3, RacesStay DEF KnownInv
  <2>2. CASE Next
    <3>1. CASE Hook
      BY <1>1, <1>3, <2>1, <3>1, HookKeeps DEF KnownInv
    <3>2. CASE Dispatch
      BY <1>1, <2>1, <3>2, DispatchKeeps DEF KnownInv
    <3>3. CASE Execute
      BY <1>1, <1>3, <2>1, <3>3, ExecuteKeeps DEF KnownInv
    <3>4. CASE \E p \in Process : ProcessExits(p)
      BY <1>1, <2>1, <3>4, ExitKeeps DEF KnownInv, ProcessExits, sharedVars
    <3> QED
      BY <2>2, <3>1, <3>2, <3>3, <3>4 DEF Next
  <2>3. CASE UNCHANGED vars
    BY <1>1, <2>1, <2>3, ExitKeeps DEF KnownInv, vars, sharedVars, processVars
  <2> QED
    BY <2>2, <2>3
<1> QED
  BY <1>2, <1>3

-----------------------------------------------------------------------------
(* The theorems.                                                           *)

\* The daemon knows every VM that runs (Known): hook() and thread() change _vms while the other of
\* them works on a copy of it, or has a VM in hand that is not in it, and no process is lost but by
\* the three races.
THEOREM VMsKnown ==
    ASSUME {"again", "overlap", "unready"} \subseteq Race
    PROVE  Spec => []Known
<1>1. KnownInv /\ [Next]_vars => KnownInv'
  BY KnownStep DEF Losing
<1>2. KnownInv => Known
  BY DEF KnownInv, InOrder, LiveListed, Poised, Known, Starting, StartPlace
<1> QED
  BY <1>1, <1>2, KnownInit, PTL DEF Spec

\* Hydra goes down at the end of HydraServer.stop(), when it has stopped all VMs.
LEMMA DownStep ==
    ASSUME KnownInv, Next, running, ~running'
    PROVE  Disturbed \/ \A o \in Object : ~Live(o)
<1>1. CASE \E t \in Thread : StopDown(t)
  BY <1>1, NoneRuns DEF KnownInv, StopDown
<1>2. CASE \E t \in Thread : Boot(t)
  BY <1>2 DEF Boot
<1>3. CASE UNCHANGED running
  BY <1>3
<1> QED
  BY <1>1, <1>2, <1>3 DEF Next, Hook, Dispatch, Start, Execute, Stop, StopAll, Thread, Kill,
     StopEnd, StopNext, StopClear, Build, Spawn, Poll, Perm, StartNew, StartAgain, StopHook,
     SoftHook, SleepHook, UsbAdd, UsbRemove, HibernateHook, Shutdown, Requested, SoftTimer,
     Signalled, HibernateNext, UsbSet, UsbForget, ThreadBegin, Promote, Drop, RoundEnd, Timers,
     Verdict, ReapEnd, Visit, TimerDue, Reap, ProcessExits, sharedVars

\* HydraServer.stop() takes the bridge and the directory away when no VM runs, although it worked
\* on a copy of _vms while the other thread went on: no VM is started or listed behind it but by the
\* three races.
THEOREM DownOnlyEmpty ==
    ASSUME {"again", "overlap", "unready"} \subseteq Race
    PROVE  Spec => DownIsEmpty
<1>1. KnownInv /\ [Next]_vars => KnownInv'
  BY KnownStep DEF Losing
<1>2. KnownInv /\ [Next]_vars => [(running /\ ~running') => \/ \A o \in Object : ~Live(o)
                                                            \/ Disturbed]_vars
  BY DownStep
<1> QED
  BY <1>1, <1>2, KnownInit, PTL DEF Spec, DownIsEmpty

-----------------------------------------------------------------------------
(* The devices of the VMs.                                                *)

\* Where a thread has a VM in hand, and what it does to it is still to come.
Busy == (Working \ {"drop"}) \cup {"boot"}

\* This thread has this VM in hand.
On(t, o) == th[t].at \in Busy /\ Me(t) = o

\* Nobody has this VM in hand, which is taken for stopped: nothing happens to it any more.
Inert(o) == vm[o].state = "stopped" /\ \A t \in Thread : ~On(t, o)

\* The dispatcher is giving a device to this VM.
Adding(o) == At(Disp, "usbadd") /\ Me(Disp) = o

\* A device is registered for the listed VM that holds it.
Registered == \A o \in Listed : \A d \in vm[o].usb : owner[d] = vm[o].id

\* What is being given to a VM that has none yet is held by none that counts.
AddsAlone ==
    At(Disp, "usbadd") =>
        /\ vm[Me(Disp)].usb = {}
        /\ \A o \in Object : o # Me(Disp) /\ vm[o].usb \cap th[Disp].usb # {} =>
             o \notin Listed /\ Inert(o)

\* A listed VM shares no device with another that counts.
HeldOnce ==
    \A k \in Listed, o \in Object :
        o # k /\ vm[o].usb \cap vm[k].usb # {} => o \notin Listed /\ Inert(o)

\* A VM that is started, or will be, has no device yet.
NewEmpty ==
    /\ th[Disp].at \in StartPlace /\ (th[Disp].call = "new" \/ At(Disp, "boot")) =>
         vm[Me(Disp)].usb = {}
    /\ th[Disp].new # None => vm[th[Disp].new].usb = {}

\* What is taken for stopped and still holds a device is in nobody's hand.
StoppedLeft == \A o \in Object : vm[o].state = "stopped" /\ vm[o].usb # {} => Inert(o)

\* The executer does not have a stopped VM in hand that a device is being given to,
AddsApart == \A o \in Object : vm[o].state = "stopped" /\ Adding(o) => ~On(Exec, o)

\* and what a device is being given to is listed, or was stopped meanwhile.
AddsListed == \A o \in Object : Adding(o) => o \in Listed \/ vm[o].state = "stopped"

\* HydraServer.stop() has each listed VM that holds a device still ahead of it,
Empties(t) ==
    \A o \in Listed : \/ o \in th[t].todo
                      \/ th[t].at \in {"kill", "end"} /\ Me(t) = o
                      \/ vm[o].usb = {} /\ ~Adding(o)
                      \/ vm[o].state = "stopped"

\* whichever thread is at it.
AllEmptied == \A t \in Thread : th[t].call = "all" /\ ~At(t, "ended") => Empties(t)

\* What is not listed holds no device or is done with.
LeftInert == \A o \in Object : o \in Listed \/ vm[o].usb = {} \/ Inert(o)

\* The invariant of the devices.
UsbInv ==
    /\ Registered /\ AddsAlone /\ HeldOnce /\ NewEmpty
    /\ Disturbed \/ (StoppedLeft /\ AddsApart /\ AddsListed /\ AllEmptied /\ LeftInert)

\* No VM gets a device; one becomes stopped only when it has none left and is let go, and is
\* something else again only by the thread that has it.
UsbMachines(t) ==
    \A o \in Object :
        /\ vm'[o].id = vm[o].id /\ vm'[o].usb \subseteq vm[o].usb
        /\ vm[o].state = "stopped" => vm'[o].state = "stopped" \/ On(t, o)
        /\ vm'[o].state = "stopped" => \/ vm[o].state = "stopped"
                                       \/ vm'[o].usb = {} /\ (t = Exec => ~On(Exec, o)')
                                       \/ Disturbed'

\* What a VM keeps stays registered as it was.
UsbOwners == \A k \in Listed \cap Listed' : \A d \in vm'[k].usb : owner'[d] = owner[d]

\* Only a VM without a device is listed, and one that may hold a device is not taken off.
UsbLists(t) ==
    /\ \A o \in Listed' : o \in Listed \/ (t = Disp /\ vm[o].usb = {})
    /\ Disturbed' \/ \A o \in Listed : \/ o \in Listed' \/ vm[o].state = "stopped"
                                       \/ vm[o].usb = {} /\ ~Adding(o)

\* A thread takes a VM in hand that is not stopped, or has no device; HydraServer.stop() begins
\* with a copy of all that are listed.
UsbThreads(t) ==
    /\ \A u \in Thread \ {t} : th'[u] = th[u]
    /\ \A o \in Object : On(t, o)' =>
         On(t, o) \/ vm[o].state # "stopped" \/ (t = Disp /\ vm[o].usb = {})
    /\ t = Disp => ~At(Disp, "usbadd")' /\ NewEmpty'
    /\ Disturbed' \/ ((th[t].call = "all" /\ ~At(t, "ended"))' => Empties(t)')

\* A step with these four properties keeps the invariant.
LEMMA UsbMovesKeep ==
    ASSUME HydraTypes, HydraTypes', UsbInv, Disturbed => Disturbed', NEW t \in Thread,
           UsbMachines(t), UsbOwners, UsbLists(t), UsbThreads(t)
    PROVE  UsbInv'
<1>0. /\ Thread = {Disp, Exec} /\ Disp # Exec
      /\ \A o \in Listed : o \in Object
      /\ \A o \in Listed' : o \in Object
      /\ \A o \in Object : vm'[o].id = vm[o].id /\ vm'[o].usb \subseteq vm[o].usb
  BY HydraAssumption DEF HydraTypes, Lists, Listed, Thread, UsbMachines
<1>1. Registered'
  <2> SUFFICES ASSUME NEW o \in Listed', NEW d \in vm'[o].usb PROVE owner'[d] = vm'[o].id
    BY DEF Registered
  <2>1. o \in Listed
    BY <1>0 DEF UsbLists
  <2> QED
    BY <1>0, <2>1 DEF UsbOwners, UsbInv, Registered
<1>2. ASSUME NEW o \in Object, o \notin Listed, Inert(o), vm[o].usb # {}
      PROVE  o \notin Listed' /\ Inert(o)'
  <2>1. o \notin Listed' /\ vm'[o].state = "stopped"
    BY <1>2 DEF UsbLists, UsbMachines, Inert
  <2>2. ~On(t, o)'
    BY <1>2 DEF UsbThreads, Inert
  <2>3. ASSUME NEW u \in Thread \ {t} PROVE ~On(u, o)'
    BY <1>2 DEF UsbThreads, Inert, On, Me
  <2> QED
    BY <2>1, <2>2, <2>3 DEF Inert
<1>3. HeldOnce'
  <2> SUFFICES ASSUME NEW k \in Listed', NEW o \in Object, o # k, vm'[o].usb \cap vm'[k].usb # {}
               PROVE  o \notin Listed' /\ Inert(o)'
    BY DEF HeldOnce
  <2>1. k \in Object /\ vm[o].usb \cap vm[k].usb # {}
    BY <1>0
  <2>2. k \in Listed
    BY <2>1 DEF UsbLists
  <2>3. o \notin Listed /\ Inert(o)
    BY <2>1, <2>2 DEF UsbInv, HeldOnce
  <2> QED
    BY <1>2, <2>1, <2>3
<1>4. t = Exec => \A o \in Object : Adding(o)' <=> Adding(o)
  BY <1>0 DEF UsbThreads, Adding, At, Me
<1>5. t = Disp => \A o : ~Adding(o)'
  BY DEF UsbThreads, Adding
<1>6. AddsAlone'
  <2> SUFFICES ASSUME At(Disp, "usbadd")' PROVE AddsAlone'
    BY DEF AddsAlone
  <2>1. th'[Disp] = th[Disp]
    BY <1>0 DEF UsbThreads
  <2>2. Me(Disp) \in Object /\ Me(Disp)' = Me(Disp) /\ At(Disp, "usbadd") /\ th'[Disp].usb =
          th[Disp].usb
    BY <2>1 DEF HydraTypes, Threads, DispWork, Working, At, Me
  <2>3. vm'[Me(Disp)].usb = {}
    BY <1>0, <2>2 DEF UsbInv, AddsAlone
  <2>4. ASSUME NEW o \in Object, o # Me(Disp), vm'[o].usb \cap th[Disp].usb # {}
        PROVE  o \notin Listed' /\ Inert(o)'
    <3>1. vm[o].usb \cap th[Disp].usb # {}
      BY <1>0, <2>4
    <3>2. o \notin Listed /\ Inert(o)
      BY <2>2, <2>4, <3>1 DEF UsbInv, AddsAlone
    <3> QED
      BY <1>2, <3>1, <3>2
  <2> QED
    BY <2>2, <2>3, <2>4 DEF AddsAlone
<1>7. NewEmpty'
  <2>1. CASE t = Disp
    BY <2>1 DEF UsbThreads
  <2>2. CASE t # Disp
    <3>1. th'[Disp] = th[Disp]
      BY <1>0, <2>2 DEF UsbThreads
    <3>2. /\ th[Disp].at \in StartPlace => Me(Disp) \in Object
          /\ th[Disp].new # None => th[Disp].new \in Object
      BY <1>0 DEF HydraTypes, Threads, Work, DispWork, Working, StartPlace, Me
    <3> QED
      BY <1>0, <3>1, <3>2 DEF UsbInv, NewEmpty, At, Me
  <2> QED
    BY <2>1, <2>2
<1>8. ASSUME ~Disturbed'
      PROVE StoppedLeft' /\ AddsApart' /\ AddsListed' /\ AllEmptied' /\ LeftInert'
  <2>0. StoppedLeft /\ AddsApart /\ AddsListed /\ AllEmptied /\ LeftInert
    BY <1>8 DEF UsbInv
  <2>1. ASSUME NEW o \in Object, vm[o].state = "stopped", vm[o].usb # {}
        PROVE  vm'[o].state = "stopped" /\ Inert(o)'
    <3>1. Inert(o)
      BY <2>0, <2>1 DEF StoppedLeft
    <3>2. vm'[o].state = "stopped"
      BY <2>1, <3>1 DEF UsbMachines, Inert
    <3>3. ~On(t, o)'
      BY <2>1, <3>1 DEF UsbThreads, Inert
    <3>4. ASSUME NEW u \in Thread \ {t} PROVE ~On(u, o)'
      BY <3>1 DEF UsbThreads, Inert, On, Me
    <3> QED
      BY <3>2, <3>3, <3>4 DEF Inert
  <2>2. StoppedLeft'
    <3> SUFFICES ASSUME NEW o \in Object, vm'[o].state = "stopped", vm'[o].usb # {} PROVE Inert(o)'
      BY DEF StoppedLeft
    <3>1. vm[o].state = "stopped" /\ vm[o].usb # {}
      BY <1>0, <1>8 DEF UsbMachines
    <3> QED
      BY <2>1, <3>1
  <2>3. AddsApart'
    <3> SUFFICES ASSUME NEW o \in Object, vm'[o].state = "stopped", Adding(o)', On(Exec, o)'
    PROVE FALSE
      BY DEF AddsApart
    <3>1. t = Exec /\ Adding(o)
      BY <1>0, <1>4, <1>5
    <3>2. vm[o].state = "stopped"
      BY <1>8, <3>1 DEF UsbMachines
    <3> QED
      BY <1>0, <2>0, <3>1, <3>2 DEF UsbThreads, AddsApart
  <2>4. AddsListed'
    <3> SUFFICES ASSUME NEW o \in Object, Adding(o)', o \notin Listed'
    PROVE vm'[o].state = "stopped"
      BY DEF AddsListed
    <3>1. t = Exec /\ Adding(o)
      BY <1>0, <1>4, <1>5
    <3>2. vm[o].state = "stopped"
      BY <1>8, <2>0, <3>1 DEF AddsListed, UsbLists
    <3> QED
      BY <2>0, <3>1, <3>2 DEF UsbMachines, AddsApart
  <2>5. AllEmptied'
    <3> SUFFICES ASSUME NEW u \in Thread, (th[u].call = "all" /\ ~At(u, "ended"))' PROVE Empties(u)'
      BY DEF AllEmptied
    <3>1. CASE u = t
      BY <1>8, <3>1 DEF UsbThreads
    <3>2. CASE u # t
      <4>1. th'[u] = th[u]
        BY <3>2 DEF UsbThreads
      <4>2. Empties(u)
        BY <2>0, <4>1 DEF AllEmptied, At
      <4> SUFFICES ASSUME NEW o \in Listed'
                   PROVE  \/ o \in th'[u].todo
                          \/ th'[u].at \in {"kill", "end"} /\ Me(u)' = o
                          \/ vm'[o].usb = {} /\ ~Adding(o)'
                          \/ vm'[o].state = "stopped"
        BY DEF Empties
      <4>3. o \in Object
        BY <1>0
      <4>4. CASE o \notin Listed
        BY <1>0, <1>5, <4>3, <4>4 DEF UsbLists
      <4>5. CASE o \in Listed /\ (o \in th[u].todo \/ (th[u].at \in {"kill", "end"} /\ Me(u) = o))
        BY <4>1, <4>5 DEF Me
      <4>6. CASE vm[o].usb = {} /\ ~Adding(o)
        BY <1>0, <1>4, <1>5, <4>3, <4>6
      <4>7. CASE vm[o].state = "stopped" /\ (vm[o].usb # {} \/ Adding(o))
        <5>1. CASE vm[o].usb # {}
          BY <2>1, <4>3, <4>7, <5>1
        <5>2. CASE vm[o].usb = {} /\ Adding(o)
          <6>1. CASE t = Disp
            BY <1>0, <1>5, <4>3, <5>2, <6>1
          <6>2. CASE t = Exec
            BY <2>0, <4>3, <4>7, <5>2, <6>2 DEF UsbMachines, AddsApart
          <6> QED
            BY <1>0, <6>1, <6>2
        <5> QED
          BY <4>7, <5>1, <5>2
      <4> QED
        BY <4>2, <4>4, <4>5, <4>6, <4>7 DEF Empties
    <3> QED
      BY <3>1, <3>2
  <2>6. LeftInert'
    <3> SUFFICES ASSUME NEW o \in Object, o \notin Listed', vm'[o].usb # {} PROVE Inert(o)'
      BY DEF LeftInert
    <3>1. vm[o].usb # {}
      BY <1>0
    <3>2. CASE o \in Listed
      BY <1>8, <2>1, <3>1, <3>2 DEF UsbLists
    <3>3. CASE o \notin Listed
      BY <1>2, <2>0, <3>1, <3>3 DEF LeftInert
    <3> QED
      BY <3>2, <3>3
  <2> QED
    BY <2>2, <2>3, <2>4, <2>5, <2>6
<1> QED
  BY <1>1, <1>3, <1>6, <1>7, <1>8 DEF UsbInv
\* The steps that give no device do not,
LEMMA UsbVms ==
    ASSUME HydraTypes, UsbInv, Disturbed \/ InOrder, Disturbed => Disturbed', NEW t \in Thread
    PROVE  /\ UNCHANGED vm => UsbMachines(t)
           /\ Stop(t) => UsbMachines(t)
           /\ SoftTimer \/ Signalled \/ UsbForget \/ Build \/ Spawn \/ Poll \/ Perm =>
                UsbMachines(Disp)
           /\ Promote \/ Verdict => UsbMachines(Exec)
           /\ \A o \in Object : Visit(o) \/ TimerDue(o) => UsbMachines(Exec)
<1>0. /\ vm \in [Object -> Machine] /\ th \in [Thread -> Work]
      /\ Disp \in Thread /\ Exec \in Thread /\ Disp # Exec
      /\ \A u \in Thread : th[u].at \in Working => th[u].vm \in Object
      /\ \A u \in Thread : th[u].at \in Busy => On(u, Me(u))
  BY HydraAssumption DEF HydraTypes, Machines, Threads, Thread, DispWork, ExecWork, On, Me
<1>1. UNCHANGED vm => UsbMachines(t)
  BY DEF UsbMachines
<1>2. ASSUME Kill(t) PROVE UsbMachines(t)
  <2>1. Me(t) \in Object
    BY <1>0, <1>2 DEF Kill, At, Me, Working
  <2>2. vm' = [vm EXCEPT ![Me(t)].proc = None, ![Me(t)].adapters = FALSE, ![Me(t)].timer = FALSE]
    BY <1>2 DEF Kill
  <2>3. vm' = [vm EXCEPT ![Me(t)] = [vm[Me(t)] EXCEPT !.proc = None, !.adapters = FALSE, !.timer =
          FALSE]]
    BY <1>0, <2>1, <2>2
  <2> QED
    BY <1>0, <2>1, <2>3 DEF UsbMachines, Machine
<1>3. ASSUME StopEnd(t) PROVE UsbMachines(t)
  <2>1. Me(t) \in Object /\ On(t, Me(t))
    BY <1>0, <1>3 DEF StopEnd, At, Me, Working, Busy
  <2>2. CASE Raises(t)
    <3>1. vm' = [vm EXCEPT ![Me(t)] = [vm[Me(t)] EXCEPT !.usb = @ \ th[t].usb]]
      BY <1>0, <1>3, <2>1, <2>2 DEF StopEnd
    <3> QED
      BY <1>0, <2>1, <3>1 DEF UsbMachines, Machine
  <2>3. CASE ~Raises(t)
    <3>1. vm' = [vm EXCEPT ![Me(t)] = [vm[Me(t)] EXCEPT !.usb = {}, !.state = "stopped"]]
      BY <1>0, <1>3, <2>1, <2>3 DEF StopEnd
    <3>2. ASSUME t = Exec PROVE th'[Exec].at \notin Busy
      <4>1. Return(Exec)
        BY <1>3, <2>3, <3>2 DEF StopEnd
      <4>2. Done(Exec).at = "timers"
        BY <1>0 DEF Done, Resting
      <4> QED
        BY <1>0, <4>1, <4>2 DEF Return, Busy, Working, Work
    <3> QED
      BY <1>0, <2>1, <3>1, <3>2 DEF UsbMachines, Machine, On
  <2> QED
    BY <2>2, <2>3
<1>4. ASSUME SoftTimer \/ UsbForget \/ Spawn PROVE UsbMachines(Disp)
  <2>1. Me(Disp) \in Object
    BY <1>0, <1>4 DEF SoftTimer, UsbForget, Spawn, At, Me, Working
  <2>3. CASE SoftTimer
    BY <1>0, <2>1, <2>3 DEF SoftTimer, UsbMachines, Machine
  <2>4. CASE UsbForget
    BY <1>0, <2>1, <2>4 DEF UsbForget, DroppedBy, UsbMachines, Machine
  <2>5. CASE Spawn
    <3>1. PICK q, made :
             \/ vm' = [vm EXCEPT ![Me(Disp)].proc = q, ![Me(Disp)].wait = 0, ![Me(Disp)].adapters =
                  made]
             \/ vm' = [vm EXCEPT ![Me(Disp)].wait = 0, ![Me(Disp)].adapters = made]
      BY <2>5 DEF Spawn
    <3>2. \A o \in Object : /\ vm'[o].id = vm[o].id /\ vm'[o].usb = vm[o].usb
                            /\ vm'[o].state = vm[o].state
      <4>1. CASE vm' = [vm EXCEPT ![Me(Disp)] = [vm[Me(Disp)] EXCEPT !.proc = q, !.wait = 0,
                                                                    !.adapters = made]]
        BY <1>0, <2>1, <4>1 DEF Machine
      <4>2. CASE vm' = [vm EXCEPT ![Me(Disp)] = [vm[Me(Disp)] EXCEPT !.wait = 0,
                                                                    !.adapters = made]]
        BY <1>0, <2>1, <4>2 DEF Machine
      <4> QED
        BY <1>0, <2>1, <3>1, <4>1, <4>2
    <3> QED
      BY <3>2 DEF UsbMachines
  <2> QED
    BY <1>4, <2>3, <2>4, <2>5
<1>5. ASSUME NEW u \in Thread, NEW s \in State \ {"stopped"}, th[u].at \in Busy \ {"boot"},
             Assign(Me(u), s)
      PROVE  UsbMachines(u)
  <2>1. Me(u) \in Object /\ On(u, Me(u))
    BY <1>0, <1>5 DEF Busy, Me
  <2>2. vm' = [vm EXCEPT ![Me(u)] = [vm[Me(u)] EXCEPT !.state = s]]
    BY <1>0, <1>5, <2>1 DEF Assign
  <2> QED
    BY <1>0, <1>5, <2>1, <2>2 DEF UsbMachines, Machine
<1>6. Signalled => UsbMachines(Disp)
  BY <1>0, <1>5 DEF Signalled, At, Busy, Working, State, HydraTypes, Threads, DispWork
<1>7. Poll \/ Perm => UsbMachines(Disp)
  <2>1. Poll \/ Perm => UNCHANGED vm \/ \E s \in {"waiting", "running"} : Assign(Me(Disp), s)
    BY DEF Poll, Perm, Started
  <2>2. Poll \/ Perm => th[Disp].at \in Busy \ {"boot"}
    BY DEF Poll, Perm, At, Busy, Working
  <2>3. UNCHANGED vm => UsbMachines(Disp)
    BY DEF UsbMachines
  <2> QED
    BY <1>0, <1>5, <2>1, <2>2, <2>3 DEF State
<1>8. Promote \/ Verdict => UsbMachines(Exec)
  BY <1>0, <1>5 DEF Promote, Verdict, At, Busy, Working, State, HydraTypes, Threads, ExecWork
<1>9. ASSUME NEW o \in Object, Visit(o) \/ TimerDue(o) PROVE UsbMachines(Exec)
  <2>1. \/ UNCHANGED vm
        \/ vm' = [vm EXCEPT ![o] = [vm[o] EXCEPT !.wait = @ + 1]]
        \/ vm' = [vm EXCEPT ![o] = [vm[o] EXCEPT !.timer = FALSE]]
    BY <1>0, <1>9 DEF Visit, Waited, TimerDue
  <2> QED
    BY <1>0, <2>1 DEF UsbMachines, Machine
<1>10. ASSUME Build PROVE UsbMachines(Disp)
  <2> DEFINE o == Me(Disp)
  <2>1. o \in Object
    BY <1>0, <1>10 DEF Build, At, Me, Working
  <2>2. \A k \in Object : /\ vm'[k].id = vm[k].id /\ vm'[k].usb = vm[k].usb
                          /\ vm'[k].state = IF k = o THEN "stopped" ELSE vm[k].state
    <3>1. CASE vm' = [vm EXCEPT ![o] = [vm[o] EXCEPT !.state = "stopped", !.proc = None]]
      BY <1>0, <2>1, <3>1 DEF Machine
    <3>2. CASE vm' = [vm EXCEPT ![o] = [vm[o] EXCEPT !.state = "stopped", !.proc = None,
                                                     !.adapters = TRUE]]
      BY <1>0, <2>1, <3>2 DEF Machine
    <3> QED
      BY <1>0, <1>10, <2>1, <3>1, <3>2 DEF Build
  <2>3. vm[o].usb = {} \/ Disturbed'
    <3>1. CASE InOrder
      BY <1>10, <3>1 DEF Build, At, InOrder, NewApart, Starting, StartPlace, UsbInv, NewEmpty
    <3> QED
      BY <3>1
  <2> QED
    BY <1>0, <2>2, <2>3 DEF UsbMachines
<1> QED
  BY <1>1, <1>2, <1>3, <1>4, <1>6, <1>7, <1>8, <1>9, <1>10 DEF Stop

\* what is given back is not claimed by another that is listed,
LEMMA UsbClaims ==
    ASSUME HydraTypes, UsbInv, NEW t \in Thread
    PROVE  /\ UNCHANGED owner => UsbOwners
           /\ Stop(t) \/ StopAll(t) \/ UsbForget => UsbOwners
<1>1. UNCHANGED owner => UsbOwners
  BY DEF UsbOwners
<1>2. StopClear(t) => UsbOwners
  BY HydraAssumption DEF StopClear, UsbOwners, Listed
<1>3. ASSUME NEW u \in Thread, StopEnd(u) \/ (u = Disp /\ UsbForget) PROVE UsbOwners
  <2>1. Me(u) \in Object /\ On(u, Me(u)) /\ owner' = Forgotten(u) /\
          owner \in [Device -> Vmid \cup {None}]
        /\ vm \in [Object -> Machine]
    BY <1>3, HydraAssumption DEF StopEnd, UsbForget, At, Me, On, Busy, Working, HydraTypes,
       Threads, DispWork,
       ExecWork, Claims, Machines, Thread
  <2>2. vm'[Me(u)].usb \cap th[u].usb = {}
    <3>1. CASE UsbForget /\ u = Disp
      BY <2>1, <3>1 DEF UsbForget, DroppedBy, Machine
    <3>2. CASE StopEnd(u)
      BY <3>2, EndChanges
    <3> QED
      BY <1>3, <3>1, <3>2
  <2>3. \A k \in Object : vm'[k].usb \subseteq vm[k].usb
    <3>1. CASE UsbForget /\ u = Disp
      BY <2>1, <3>1 DEF UsbForget, DroppedBy, Machine
    <3>2. CASE StopEnd(u)
      BY <3>2, EndChanges
    <3> QED
      BY <1>3, <3>1, <3>2
  <2> SUFFICES ASSUME NEW k \in Listed, NEW d \in vm'[k].usb, Mine(u), d \in th[u].usb PROVE FALSE
    <3>1. \A k \in Object : vm'[k].usb \subseteq Device
      BY <2>1, <2>3 DEF Machine
    <3>2. \A k \in Listed : k \in Object
      BY DEF HydraTypes, Lists, Listed
    <3> QED
      BY <2>1, <3>1, <3>2 DEF UsbOwners, Forgotten
  <2>4. k \in Object
    BY DEF HydraTypes, Lists, Listed
  <2>5. k # Me(u)
    BY <2>2
  <2>6. d \in vm[Me(u)].usb \cap vm[k].usb
    BY <2>3, <2>4 DEF Mine
  <2> QED
    BY <1>3, <2>1, <2>4, <2>5, <2>6 DEF UsbInv, HeldOnce, Inert
<1> QED
  BY <1>1, <1>2, <1>3, HydraAssumption DEF Stop, Kill, StopAll, StopNext, StopDown, sharedVars,
     Thread

\* and VMs are listed and taken off without their devices.
LEMMA UsbListing ==
    ASSUME HydraTypes, UsbInv, Disturbed \/ InOrder, Disturbed => Disturbed', NEW t \in Thread
    PROVE  /\ UNCHANGED vms => UsbLists(t)
           /\ StopAll(t) => UsbLists(t)
           /\ Build \/ Spawn \/ Poll \/ Perm => UsbLists(Disp)
           /\ Drop => UsbLists(Exec)
<1>0. /\ vms \in [Vmid -> Object \cup {None}]
      /\ \A o \in Object : vm[o].id \in Vmid /\ o # None
      /\ \A o \in Listed : o \in Object /\ vms[vm[o].id] = o
  BY HydraAssumption DEF HydraTypes, Machines, Machine, Lists, Listed
<1>1. UNCHANGED vms => \A u \in Thread : UsbLists(u)
  BY DEF UsbLists, Listed
<1>2. ASSUME StopAll(t) PROVE UsbLists(t)
  <2>1. CASE UNCHANGED vms
    BY <1>1, <2>1
  <2>2. CASE vms' = [v \in Vmid |-> None] /\ (At(t, "clear") \/ At(t, "down"))
    <3>1. Listed' = {}
      BY <2>2 DEF Listed
    <3>2. th[t].call = "all" /\ ~At(t, "ended")
      BY <2>2, HydraAssumption DEF HydraTypes, Threads, DispWork, ExecWork, Stopping, At, Thread
    <3>3. ASSUME InOrder, ~Disturbed PROVE \A o \in Listed : \/ vm[o].state = "stopped"
                                                             \/ vm[o].usb = {} /\ ~Adding(o)
      <4>1. th[t].todo = {} /\ Empties(t)
        BY <2>2, <3>2, <3>3 DEF InOrder, AllSwept, Sweeps, At, UsbInv, AllEmptied
      <4> QED
        BY <2>2, <4>1 DEF Empties, At
    <3> QED
      BY <3>1, <3>3 DEF UsbLists
  <2> QED
    BY <1>2, <2>1, <2>2 DEF StopAll, StopNext, StopClear, StopDown, sharedVars
<1>3. ASSUME Drop PROVE UsbLists(Exec)
  <2> DEFINE o == Me(Exec)
  <2>1. CASE UNCHANGED vms
    BY <1>1, <2>1, HydraAssumption DEF Thread
  <2>2. CASE vm[o].state = "stopped" /\ vms' = [vms EXCEPT ![vm[o].id] = None]
    <3>1. o \in Object /\ th[Exec].call = "visit"
      BY <1>3 DEF Drop, At, HydraTypes, Threads, ExecWork, Working, Me
    <3>2. Disturbed' \/ vms[vm[o].id] \in {None, o}
      BY <1>3, <3>1 DEF Drop, InOrder, VisitsApart, Visiting, At
    <3>3. Listed' \subseteq Listed
      BY <1>0, <2>2, <3>1 DEF Listed
    <3>4. Disturbed' \/ \A k \in Listed : k \in Listed' \/ k = o
      BY <1>0, <2>2, <3>1, <3>2 DEF Listed
    <3> QED
      BY <2>2, <3>3, <3>4 DEF UsbLists
  <2> QED
    BY <1>3, <2>1, <2>2 DEF Drop
<1>4. ASSUME Build \/ Spawn \/ Poll \/ Perm PROVE UsbLists(Disp)
  <2> DEFINE o == Me(Disp)
  <2>1. o \in Object /\ th[Disp].at \in StartPlace
    BY <1>4 DEF Build, Spawn, Poll, Perm, At, HydraTypes, Threads, DispWork, Working, StartPlace, Me
  <2>2. CASE UNCHANGED vms
    BY <1>1, <2>2, HydraAssumption DEF Thread
  <2>3. CASE /\ th[Disp].call = "new"
             /\ \/ vms' = [vms EXCEPT ![vm[o].id] = None]
                \/ vms' = [vms EXCEPT ![vm[o].id] = o]
    <3>1. vm[o].usb = {}
      BY <2>1, <2>3 DEF UsbInv, NewEmpty
    <3>2. Disturbed' \/ vms[vm[o].id] = None
      BY <2>1 DEF InOrder, NewApart, NewVM, Starting
    <3>3. \A k \in Listed' : k \in Listed \/ k = o
      BY <1>0, <2>1, <2>3 DEF Listed
    <3>4. Disturbed' \/ Listed \subseteq Listed'
      BY <1>0, <2>1, <2>3, <3>2 DEF Listed
    <3> QED
      BY <3>1, <3>3, <3>4 DEF UsbLists
  <2> QED
    BY <1>4, <2>2, <2>3 DEF Build, Spawn, Poll, Perm, Fail, Started, ListedNow
<1> QED
  BY <1>1, <1>2, <1>3, <1>4
\* A new VM stays without devices when the dispatcher does something else.
LEMMA CalmEmpty ==
    ASSUME HydraTypes, NewEmpty, Calm, \A k \in Object : vm'[k].usb \subseteq vm[k].usb
    PROVE  NewEmpty'
<1>0. th[Disp].new \in Object \cup {None}
  BY DEF HydraTypes, Threads, Thread, Work
<1>1. \/ th'[Disp].new = None
      \/ th'[Disp].new = th[Disp].new /\ th[Disp].new # None /\ th[Disp].new \in Object
  BY <1>0 DEF Calm
<1> QED
  BY <1>1 DEF Calm, NewEmpty, At, StartPlace

\* Stopping a VM, or all of them,
LEMMA UsbStops ==
    ASSUME HydraTypes, UsbInv, NEW t \in Thread, Stop(t) \/ StopAll(t)
    PROVE  UsbThreads(t)
<1>0. /\ vm \in [Object -> Machine] /\ th \in [Thread -> Work]
      /\ Disp \in Thread /\ Exec \in Thread /\ Disp # Exec /\ Thread = {Disp, Exec}
      /\ th[t].at \in {"kill", "end"} => th[t].vm \in Object
      /\ th[t].at \in Stopping => th[t].call = "all"
      /\ th[t].new # None => th[t].new \in Object /\ th[t].next # "ended"
      /\ t = Exec => th[t].new = None /\ th[t].next # "ended"
      /\ \A k \in Listed : k \in Object
      /\ \A k \in Object : k # None
  BY HydraAssumption DEF HydraTypes, Machines, Threads, Thread, DispWork, ExecWork, Work,
     Stopping, Working, Lists, Listed
<1>d. Done(t).at \in {"idle", "timers"} /\ Done(t).call = "hook" /\ Done(t).vm = None
  BY DEF Done, Resting
<1>e. Disturbed' \/ (th[t].call = "all" /\ ~At(t, "ended") => Empties(t))
  <2>1. history \subseteq history'
    BY EndHistory DEF Stop, StopAll, Kill, StopNext, StopClear, StopDown
  <2> QED
    BY <2>1 DEF UsbInv, AllEmptied, Disturbed
<1>c. t = Disp /\ ~StopDown(t) => Calm
  BY WorkCalm DEF StopAll
<1>n. ASSUME t = Disp, ~StopDown(t) PROVE NewEmpty'
  <2>1. \A k \in Object : vm'[k].usb \subseteq vm[k].usb
    <3>1. CASE UNCHANGED vm
      BY <3>1
    <3>2. CASE Kill(t) /\ Me(t) \in Object
      BY <1>0, <3>2 DEF Kill, Machine
    <3>3. CASE StopEnd(t) /\ Me(t) \in Object
      BY <3>3, EndChanges
    <3> QED
      BY <1>0, <3>1, <3>2, <3>3 DEF Stop, StopAll, StopNext, StopClear, StopDown, Kill, StopEnd,
         At, Me
  <2> QED
    BY <1>c, <1>n, <2>1, CalmEmpty DEF UsbInv
<1>1. ASSUME Kill(t) PROVE UsbThreads(t)
  <2>1. th' = [th EXCEPT ![t] = [th[t] EXCEPT !.at = "end", !.usb = vm[Me(t)].usb]] /\
          Me(t) \in Object
    BY <1>0, <1>1 DEF Kill, At, Me
  <2>2. /\ th'[t].at = "end" /\ th'[t].vm = th[t].vm /\ th'[t].call = th[t].call
        /\ th'[t].todo = th[t].todo /\ th[t].at = "kill"
        /\ \A u \in Thread \ {t} : th'[u] = th[u]
    BY <1>0, <1>1, <2>1 DEF Kill, At, Work
  <2>3. /\ \A k \in Object : vm'[k].usb = vm[k].usb /\ vm'[k].state = vm[k].state
        /\ Listed' = Listed
    BY <1>0, <1>1, <2>1 DEF Kill, Machine, Listed
  <2>4. ASSUME th[t].call = "all", Empties(t) PROVE Empties(t)'
    <3>1. \A k : Adding(k)' => Adding(k)
      BY <1>0, <2>2 DEF Adding, At, Me
    <3> QED
      BY <1>0, <2>2, <2>3, <2>4, <3>1 DEF Empties, Me
  <2>5. ~StopDown(t)
    BY <2>2 DEF StopDown, At
  <2> QED
    BY <1>e, <1>n, <2>2, <2>4, <2>5 DEF UsbThreads, On, Me, Busy, Working, At
<1>2. ASSUME StopEnd(t) PROVE UsbThreads(t)
  <2>1. /\ th[t].at = "end" /\ Me(t) \in Object
        /\ (Return(t) /\ ~Raises(t)) \/ Raise(t)
    BY <1>0, <1>2 DEF StopEnd, At, Me
  <2>2. /\ \A u \in Thread \ {t} : th'[u] = th[u]
        /\ th'[t].at \in {"drop", "all", "idle", "timers", "dead", "ended"}
        /\ \/ th'[t].call # "all" \/ th'[t].at = "ended"
           \/ ~Raises(t) /\ th[t].call = "all" /\ th'[t].todo = th[t].todo
    <3>1. CASE Return(t) /\ ~Raises(t)
      <4>1. th' = [th EXCEPT ![t] = CASE th[t].call = "visit" -> [th[t] EXCEPT !.at = "drop"]
                                      [] th[t].call = "all" -> [th[t] EXCEPT !.at = "all"]
                                      [] OTHER -> Done(t)]
        BY <1>0, <3>1 DEF Return
      <4>2. \/ th[t].call = "visit" /\ th' = [th EXCEPT ![t] = [th[t] EXCEPT !.at = "drop"]]
            \/ th[t].call = "all" /\ th' = [th EXCEPT ![t] = [th[t] EXCEPT !.at = "all"]]
            \/ th' = [th EXCEPT ![t] = Done(t)]
        BY <4>1
      <4> QED
        BY <1>0, <1>d, <3>1, <4>2 DEF Work
    <3>2. CASE Raise(t)
      <4>1. \/ th[t].call = "timer" /\ th' = [th EXCEPT ![t] = [th[t] EXCEPT !.at = "dead"]]
            \/ th' = [th EXCEPT ![t] = [th[t] EXCEPT !.at = "ended"]]
            \/ th' = [th EXCEPT ![t] = Done(t)]
        BY <1>0, <3>2 DEF Raise, Goto, Rest
      <4> QED
        BY <1>0, <1>d, <4>1 DEF Work
    <3> QED
      BY <2>1, <3>1, <3>2
  <2>3. ASSUME ~Raises(t), th[t].call = "all", Empties(t), th'[t].todo = th[t].todo
        PROVE Empties(t)'
    <3>1. \A k : Adding(k)' => Adding(k)
      BY <1>0, <2>2 DEF Adding, At, Me
    <3>4. Listed' = Listed
      BY <1>2 DEF StopEnd, Listed
    <3>2. vm' = [vm EXCEPT ![Me(t)] = [vm[Me(t)] EXCEPT !.usb = {}, !.state = "stopped"]]
      BY <1>0, <1>2, <2>1, <2>3 DEF StopEnd
    <3>3. /\ vm'[Me(t)].state = "stopped"
          /\ \A k \in Object \ {Me(t)} : vm'[k] = vm[k]
      BY <1>0, <2>1, <3>2 DEF Machine
    <3> QED
      BY <1>0, <2>1, <2>3, <3>1, <3>3, <3>4 DEF Empties
  <2>4. ~StopDown(t)
    BY <2>1 DEF StopDown, At
  <2> QED
    BY <1>e, <1>n, <2>1, <2>2, <2>3, <2>4 DEF UsbThreads, On, Busy, Working, At
<1>3. ASSUME StopNext(t) PROVE UsbThreads(t)
  <2>1. th[t].at = "all" /\ th[t].call = "all" /\ UNCHANGED vm /\ Listed' = Listed /\ ~StopDown(t)
    BY <1>0, <1>3 DEF StopNext, StopDown, At, Stopping, sharedVars, Listed
  <2>2. CASE \E o \in th[t].todo :
               th' = [th EXCEPT ![t].todo = @ \ {o}, ![t].vm = o,
                                ![t].at = IF Stops(o) THEN "kill" ELSE "all"]
    <3>1. PICK o \in th[t].todo :
               th' = [th EXCEPT ![t].todo = @ \ {o}, ![t].vm = o,
                                ![t].at = IF Stops(o) THEN "kill" ELSE "all"]
      BY <2>2
    <3>2. /\ th'[t].todo = th[t].todo \ {o} /\ th'[t].vm = o
          /\ th'[t].at = IF vm[o].state # "stopped" THEN "kill" ELSE "all"
          /\ \A u \in Thread \ {t} : th'[u] = th[u]
      BY <1>0, <3>1 DEF Work, Stops
    <3>3. \A k : Adding(k)' => Adding(k)
      BY <1>0, <3>2 DEF Adding, At, Me
    <3>4. Empties(t) => Empties(t)'
      BY <2>1, <3>2, <3>3 DEF Empties, Me
    <3> QED
      BY <1>e, <1>n, <2>1, <3>2, <3>4 DEF UsbThreads, On, Busy, Working, At, Me
  <2>3. CASE th[t].todo = {} /\ Goto(t, "clear")
    <3>1. /\ th'[t].todo = {} /\ th'[t].vm = th[t].vm /\ th'[t].at = "clear"
          /\ \A u \in Thread \ {t} : th'[u] = th[u]
      BY <1>0, <2>3 DEF Goto, Work
    <3>3. \A k : Adding(k)' => Adding(k)
      BY <1>0, <3>1 DEF Adding, At, Me
    <3>4. Empties(t) => Empties(t)'
      BY <2>1, <2>3, <3>1, <3>3 DEF Empties, Me
    <3> QED
      BY <1>e, <1>n, <2>1, <3>1, <3>4 DEF UsbThreads, On, Busy, Working, At, Me
  <2> QED
    BY <1>3, <2>2, <2>3 DEF StopNext
<1>4. ASSUME StopClear(t) PROVE UsbThreads(t)
  <2>1. /\ th[t].at = "clear" /\ th'[t].at = "down" /\ th'[t].vm = th[t].vm
        /\ \A u \in Thread \ {t} : th'[u] = th[u]
    BY <1>0, <1>4 DEF StopClear, Goto, At, Work
  <2>2. Listed' = {}
    BY <1>4 DEF StopClear, Listed
  <2>3. ~StopDown(t)
    BY <2>1 DEF StopDown, At
  <2> QED
    BY <1>n, <2>1, <2>2, <2>3 DEF UsbThreads, Empties, On, Busy, Working, At
<1>5. ASSUME StopDown(t) PROVE UsbThreads(t)
  <2>1. th[t].at = "down" /\ UNCHANGED vm
    BY <1>5 DEF StopDown, At
  <2>2. /\ \A u \in Thread \ {t} : th'[u] = th[u]
        /\ \/ t = Disp /\ th[t].new # None /\ th'[t] = Building(th[t].new)
           \/ th[t].new = None /\ th'[t].at = "ended" /\ th'[t].new = None
           \/ th'[t] = Done(t)
    <3>1. CASE th[t].new # None
      BY <1>0, <1>5, <3>1 DEF StopDown
    <3>2. CASE th[t].new = None /\ th[t].next = "ended"
      BY <1>0, <1>5, <3>2 DEF StopDown, Work
    <3>3. CASE th[t].new = None /\ th[t].next # "ended"
      BY <1>0, <1>5, <3>3 DEF StopDown
    <3> QED
      BY <3>1, <3>2, <3>3
  <2>3. CASE t = Disp /\ th[t].new # None /\ th'[t] = Building(th[t].new)
    <3>1. /\ th'[t].at = "build" /\ th'[t].vm = th[t].new /\ th'[t].call = "new" /\ th'[t].new =
               None
      BY <2>3 DEF Building, Resting
    <3>2. vm[th[t].new].usb = {}
      BY <2>3 DEF UsbInv, NewEmpty
    <3> QED
      BY <2>1, <2>2, <2>3, <3>1, <3>2 DEF UsbThreads, On, NewEmpty, At, Me
  <2>4. CASE th'[t].at = "ended" /\ th'[t].new = None
    BY <2>2, <2>4 DEF UsbThreads, On, Busy, Working, NewEmpty, StartPlace, At
  <2>5. CASE th'[t] = Done(t)
    <3>1. Done(t).new = None
      BY DEF Done, Resting
    <3> QED
      BY <1>d, <2>2, <2>5, <3>1 DEF UsbThreads, On, Busy, Working, NewEmpty, StartPlace, At
  <2> QED
    BY <2>2, <2>3, <2>4, <2>5
<1> QED
  BY <1>1, <1>2, <1>3, <1>4, <1>5 DEF Stop, StopAll
\* the other steps of the executer,
LEMMA UsbExecutes ==
    ASSUME HydraTypes
    PROVE  /\ Promote \/ Drop \/ RoundEnd \/ Timers \/ Verdict \/ ReapEnd => UsbThreads(Exec)
           /\ \A o \in Object : Visit(o) \/ TimerDue(o) => UsbThreads(Exec)
           /\ \A w \in watch : Reap(w) => UsbThreads(Exec)
           /\ ThreadBegin \/ Boot(Exec) => UsbThreads(Exec)
<1>0. /\ th \in [Thread -> Work] /\ Exec \in Thread /\ Thread = {Disp, Exec} /\ Disp # Exec
      /\ \A k \in Listed : k \in Object
      /\ \A k \in Object : k # None
  BY HydraAssumption DEF HydraTypes, Threads, Thread, Lists, Listed
<1>d. Done(Exec).at = "timers"
  BY <1>0 DEF Done, Resting
<1>i. th[Exec].at = "idle" => th[Exec].vm = None
  BY DEF HydraTypes, Threads, ExecWork, Quiet
<1>k. Busy = {"build", "spawn", "poll", "perm", "kill", "end", "soft", "signal", "usbadd", "usbdel",
              "promote", "exited", "boot"}
  BY DEF Busy, Working
<1>u. ASSUME NEW w, th' = [th EXCEPT ![Exec] = w], Ordinary(Exec),
             w.at \in Busy => \E o \in Object : w.vm = o /\ vm[o].state # "stopped"
      PROVE  UsbThreads(Exec)
  BY <1>0, <1>u DEF UsbThreads, Ordinary, On, At, Me
<1>r. Rest(Exec) /\ Ordinary(Exec) => UsbThreads(Exec)
  BY <1>d, <1>k, <1>u DEF Rest
<1>g. ASSUME NEW p \in ExecPlace \ {"kill"}, p \notin Busy, Goto(Exec, p), Ordinary(Exec)
      PROVE  UsbThreads(Exec)
  <2>1. th' = [th EXCEPT ![Exec] = [th[Exec] EXCEPT !.at = p]] /\ [th[Exec] EXCEPT !.at = p].at = p
    BY <1>0, <1>g DEF Goto, Work
  <2> QED
    BY <1>g, <1>u, <2>1
<1>1. ASSUME Promote \/ RoundEnd \/ Timers \/ ReapEnd PROVE UsbThreads(Exec)
  BY <1>1, <1>g, <1>r, <1>k, ExecOrdinary DEF Promote, RoundEnd, Timers, ReapEnd, ExecPlace
<1>2. ASSUME Drop PROVE UsbThreads(Exec)
  <2>1. CASE vm[Me(Exec)].state # "stopped" /\ Goto(Exec, "kill")
    <3>1. /\ th' = [th EXCEPT ![Exec] = [th[Exec] EXCEPT !.at = "kill"]]
          /\ [th[Exec] EXCEPT !.at = "kill"].vm = Me(Exec) /\ Me(Exec) \in Object
      BY <1>0, <1>2, <2>1 DEF Goto, Work, Me, Drop, At, HydraTypes, Threads, ExecWork, Working
    <3> QED
      BY <1>2, <1>u, <2>1, <3>1, ExecOrdinary
  <2>2. CASE Rest(Exec) \/ Goto(Exec, "round")
    BY <1>2, <1>g, <1>r, <1>k, <2>2, ExecOrdinary DEF ExecPlace
  <2> QED
    BY <1>2, <2>1, <2>2 DEF Drop
<1>3. ASSUME Verdict PROVE UsbThreads(Exec)
  <2>1. th' = [th EXCEPT ![Exec] = [Resting EXCEPT !.at = "reaped"]]
    BY <1>3 DEF Verdict
  <2>2. Ordinary(Exec)
    BY <1>3, ExecOrdinary
  <2>3. [Resting EXCEPT !.at = "reaped"].at \notin Busy
    BY <1>k DEF Resting
  <2> QED
    BY <1>u, <2>1, <2>2, <2>3
<1>4. ASSUME NEW o \in Object, Visit(o) PROVE UsbThreads(Exec)
  <2>1. PICK p \in {"kill", "round", "promote", "drop"} :
          /\ th' = [th EXCEPT ![Exec].at = p, ![Exec].vm = o, ![Exec].call = "visit",
                              ![Exec].todo = @ \ {o}]
          /\ p \in {"kill", "promote"} => vm[o].state # "stopped"
    BY <1>4 DEF Visit
  <2>2. PICK w : th' = [th EXCEPT ![Exec] = w] /\ w.at = p /\ w.vm = o
    <3>1. th' = [th EXCEPT ![Exec] = [th[Exec] EXCEPT !.at = p, !.vm = o, !.call = "visit",
                                                      !.todo = @ \ {o}]]
      BY <1>0, <2>1
    <3>2. /\ [th[Exec] EXCEPT !.at = p, !.vm = o, !.call = "visit", !.todo = @ \ {o}].at = p
          /\ [th[Exec] EXCEPT !.at = p, !.vm = o, !.call = "visit", !.todo = @ \ {o}].vm = o
      BY <1>0 DEF Work
    <3> QED
      BY <3>1, <3>2
  <2>3. w.at \in Busy => \E k \in Object : w.vm = k /\ vm[k].state # "stopped"
    BY <1>4, <1>k, <2>1, <2>2
  <2>4. Ordinary(Exec)
    BY <1>4, ExecOrdinary
  <2>5. th' = [th EXCEPT ![Exec] = w]
    BY <2>2
  <2> QED
    BY <1>u, <2>3, <2>4, <2>5
<1>5. ASSUME NEW o \in Object, TimerDue(o) PROVE UsbThreads(Exec)
  <2>1. CASE UNCHANGED th
    BY <1>0, <1>5, <2>1, ExecOrdinary DEF UsbThreads, Ordinary, On, At, Me
  <2>2. CASE vm[o].state # "stopped" /\ BeginStop(Exec, o, "timer")
    <3> DEFINE w == [th[Exec] EXCEPT !.at = "kill", !.vm = o, !.call = "timer"]
    <3>1. th' = [th EXCEPT ![Exec] = w] /\ w.vm = o
      BY <1>0, <2>2 DEF BeginStop, Work
    <3> HIDE DEF w
    <3> QED
      BY <1>5, <1>u, <2>2, <3>1, ExecOrdinary
  <2> QED
    BY <1>5, <2>1, <2>2 DEF TimerDue
<1>6. ASSUME NEW p \in watch, Reap(p) PROVE UsbThreads(Exec)
  <2>0. p[2] \in Object
    BY DEF HydraTypes, Processes
  <2>1. CASE th' = [th EXCEPT ![Exec].at = "reaped"]
    <3>1. Goto(Exec, "reaped") /\ Ordinary(Exec)
      BY <1>6, <2>1, ExecOrdinary DEF Goto
    <3> QED
      BY <1>g, <1>k, <3>1 DEF ExecPlace
  <2>2. CASE /\ vm[p[2]].state # "stopped"
             /\ th' = [th EXCEPT ![Exec].at = "exited", ![Exec].vm = p[2],
                         ![Exec].next = IF vm[p[2]].state = "waiting" THEN "failed" ELSE "done"]
    <3> DEFINE w == [th[Exec] EXCEPT !.at = "exited", !.vm = p[2],
                       !.next = IF vm[p[2]].state = "waiting" THEN "failed" ELSE "done"]
    <3>1. th' = [th EXCEPT ![Exec] = w] /\ w.vm = p[2]
      BY <1>0, <2>2 DEF Work
    <3> HIDE DEF w
    <3> QED
      BY <1>6, <1>u, <2>0, <2>2, <3>1, ExecOrdinary
  <2> QED
    BY <1>6, <2>1, <2>2 DEF Reap
<1>b. ASSUME NEW n, NEW o, BeginStopAll(Exec, n, o), UNCHANGED vm, Listed' = Listed
      PROVE  UsbThreads(Exec)
  <2>1. /\ th'[Exec].at = "all" /\ th'[Exec].todo = Listed
        /\ \A u \in Thread \ {Exec} : th'[u] = th[u]
    BY <1>0, <1>b DEF BeginStopAll, Resting
  <2> QED
    BY <1>0, <1>b, <1>k, <2>1 DEF UsbThreads, On, Empties, At
<1>7. ASSUME ThreadBegin PROVE UsbThreads(Exec)
  <2>1. CASE Goto(Exec, "timers") /\ Ordinary(Exec)
    BY <1>g, <1>k, <2>1 DEF ExecPlace
  <2>2. CASE Goto(Exec, "boot") /\ Ordinary(Exec)
    <3>1. /\ th'[Exec].vm = None
          /\ \A u \in Thread \ {Exec} : th'[u] = th[u]
      BY <1>0, <1>i, <1>7, <2>2 DEF ThreadBegin, At, Goto, Work
    <3> QED
      BY <1>0, <2>2, <3>1 DEF UsbThreads, Ordinary, On, At, Me
  <2>3. CASE th' = [th EXCEPT ![Exec].at = "round", ![Exec].todo = Listed] /\ Ordinary(Exec)
    <3>1. /\ th'[Exec].at = "round"
          /\ \A u \in Thread \ {Exec} : th'[u] = th[u]
      BY <1>0, <2>3 DEF Work
    <3> QED
      BY <1>0, <1>k, <2>3, <3>1 DEF UsbThreads, Ordinary, On, At, Me
  <2>4. CASE BeginStopAll(Exec, None, None)
    BY <1>b, <1>7, <2>4 DEF ThreadBegin, sharedVars, Listed
  <2>5. CASE /\ Ordinary(Exec) /\ ~BeginStopAll(Exec, None, None)
    BY <1>7, <2>1, <2>2, <2>3, <2>5 DEF ThreadBegin
  <2> QED
    BY <1>7, <2>4, <2>5, ExecOrdinary
<1>8. ASSUME Boot(Exec) PROVE UsbThreads(Exec)
  <2>1. CASE th' = [th EXCEPT ![Exec] = Done(Exec)]
    <3>1. Ordinary(Exec)
      <4>1. Done(Exec).call = "hook"
        BY DEF Done, Resting
      <4> QED
        BY <1>0, <1>d, <2>1, <4>1 DEF Ordinary
    <3> QED
      BY <1>d, <1>k, <1>u, <2>1, <3>1
  <2>2. CASE \E n, o : BeginStopAll(Exec, n, o) /\ UNCHANGED vms
    BY <1>b, <1>8, <2>2 DEF Boot, Listed
  <2> QED
    BY <1>0, <1>8, <2>1, <2>2 DEF Boot
<1> QED
  BY <1>1, <1>2, <1>3, <1>4, <1>5, <1>6, <1>7, <1>8

\* those of the dispatcher,
LEMMA UsbDispatches ==
    ASSUME HydraTypes, UsbInv
    PROVE  /\ SoftTimer \/ UsbForget \/ Signalled \/ HibernateNext => UsbThreads(Disp)
           /\ Build \/ Spawn \/ Poll \/ Perm => UsbThreads(Disp)
           /\ Boot(Disp) => UsbThreads(Disp)
<1>0. /\ th \in [Thread -> Work] /\ vm \in [Object -> Machine]
      /\ Disp \in Thread /\ Thread = {Disp, Exec} /\ Disp # Exec
      /\ \A k \in Listed : k \in Object
      /\ \A k \in Object : k # None
  BY HydraAssumption DEF HydraTypes, Machines, Threads, Thread, Lists, Listed
<1>d. Done(Disp).at = "idle" /\ Done(Disp).call = "hook" /\ Done(Disp).new = None
  BY DEF Done, Resting
<1>k. Busy = {"build", "spawn", "poll", "perm", "kill", "end", "soft", "signal", "usbadd", "usbdel",
              "promote", "exited", "boot"}
  BY DEF Busy, Working
<1>r. Rest(Disp) => UsbThreads(Disp)
  BY <1>0, <1>d, <1>k DEF Rest, UsbThreads, On, At, NewEmpty, StartPlace
<1>u. ASSUME NEW w, th' = [th EXCEPT ![Disp] = w], Calm, Ordinary(Disp), w.at # "usbadd",
             \A k \in Object : vm'[k].usb \subseteq vm[k].usb,
             w.at \in Busy => \E o \in Object : w.vm = o /\ (On(Disp, o) \/ vm[o].state # "stopped")
      PROVE  UsbThreads(Disp)
  BY <1>0, <1>u, CalmEmpty DEF UsbInv, UsbThreads, Ordinary, On, At, Me
<1>1. ASSUME SoftTimer \/ UsbForget PROVE UsbThreads(Disp)
  BY <1>r, <1>1 DEF SoftTimer, UsbForget
<1>2. ASSUME Signalled PROVE UsbThreads(Disp)
  <2>1. CASE Goto(Disp, "each")
    <3> DEFINE w == [th[Disp] EXCEPT !.at = "each"]
    <3>1. th' = [th EXCEPT ![Disp] = w] /\ w.at = "each"
      BY <1>0, <2>1 DEF Goto, Work
    <3>2. \A k \in Object : vm'[k].usb = vm[k].usb
      BY <1>0, <1>2 DEF Signalled, Assign, Machine
    <3> HIDE DEF w
    <3> QED
      BY <1>2, <1>k, <1>u, <3>1, <3>2, WorkCalm
  <2> QED
    BY <1>r, <1>2, <2>1 DEF Signalled
<1>3. ASSUME HibernateNext PROVE UsbThreads(Disp)
  <2>1. CASE \E o \in th[Disp].todo :
               th' = [th EXCEPT ![Disp].todo = @ \ {o}, ![Disp].vm = o,
                             ![Disp].at = IF vm[o].state = "running" THEN "signal" ELSE "each"]
    <3>1. PICK o \in th[Disp].todo :
               th' = [th EXCEPT ![Disp].todo = @ \ {o}, ![Disp].vm = o,
                             ![Disp].at = IF vm[o].state = "running" THEN "signal" ELSE "each"]
      BY <2>1
    <3> DEFINE w == [th[Disp] EXCEPT !.todo = @ \ {o}, !.vm = o,
                             !.at = IF vm[o].state = "running" THEN "signal" ELSE "each"]
    <3>2. th' = [th EXCEPT ![Disp] = w]
      BY <1>0, <3>1
    <3>3. w.at = (IF vm[o].state = "running" THEN "signal" ELSE "each") /\ w.vm = o /\ o \in Object
      BY <1>0 DEF Work
    <3> HIDE DEF w
    <3>4. UNCHANGED vm
      BY <1>3 DEF HibernateNext, Requested
    <3>5. w.at \in Busy => \E k \in Object : w.vm = k /\ (On(Disp, k) \/ vm[k].state # "stopped")
      BY <1>k, <3>3
    <3>6. w.at # "usbadd" /\ Calm /\ Ordinary(Disp)
      BY <1>3, <3>3, WorkCalm
    <3> QED
      BY <1>u, <3>2, <3>4, <3>5, <3>6
  <2> QED
    BY <1>r, <1>3, <2>1 DEF HibernateNext
<1>4. ASSUME Build \/ Spawn \/ Poll \/ Perm PROVE UsbThreads(Disp)
  <2>1. CASE Rest(Disp)
    BY <1>r, <2>1
  <2>2. CASE \E p \in {"spawn", "poll", "perm"} : Goto(Disp, p)
    <3>1. PICK p \in {"spawn", "poll", "perm"} : Goto(Disp, p)
      BY <2>2
    <3>2. /\ th'[Disp].at = p /\ th'[Disp].vm = th[Disp].vm /\ th'[Disp].call = th[Disp].call
          /\ th'[Disp].new = th[Disp].new
          /\ \A u \in Thread \ {Disp} : th'[u] = th[u]
      BY <1>0, <3>1 DEF Goto, Work
    <3>3. /\ th[Disp].at \in StartPlace \ {"boot"} /\ Me(Disp) \in Object /\ th[Disp].new = None
          /\ th[Disp].call \in {"new", "again"}
      BY <1>4 DEF Build, Spawn, Poll, Perm, At, StartPlace, HydraTypes, Threads, DispWork,
         Working, Me
    <3>4. vm'[Me(Disp)].usb = vm[Me(Disp)].usb
      <4>1. CASE Build
        BY <1>0, <3>3, <4>1 DEF Build, Machine
      <4>2. CASE Spawn
        <5>1. PICK q, made :
             \/ vm' = [vm EXCEPT ![Me(Disp)].proc = q, ![Me(Disp)].wait = 0, ![Me(Disp)].adapters =
                  made]
             \/ vm' = [vm EXCEPT ![Me(Disp)].wait = 0, ![Me(Disp)].adapters = made]
          BY <4>2 DEF Spawn
        <5>2. CASE vm' = [vm EXCEPT ![Me(Disp)] = [vm[Me(Disp)] EXCEPT !.proc = q, !.wait = 0,
                                                                      !.adapters = made]]
          BY <1>0, <3>3, <5>2 DEF Machine
        <5>3. CASE vm' = [vm EXCEPT ![Me(Disp)] = [vm[Me(Disp)] EXCEPT !.wait = 0,
                                                                      !.adapters = made]]
          BY <1>0, <3>3, <5>3 DEF Machine
        <5> QED
          BY <1>0, <3>3, <5>1, <5>2, <5>3
      <4>3. CASE Poll \/ Perm
        BY <1>0, <3>3, <4>3 DEF Poll, Perm, Started, Assign, Machine
      <4> QED
        BY <1>4, <4>1, <4>2, <4>3
    <3>5. th[Disp].call = "new" => vm[Me(Disp)].usb = {}
      BY <3>3 DEF UsbInv, NewEmpty
    <3>6. NewEmpty' /\ ~At(Disp, "usbadd")'
      BY <1>0, <3>1, <3>2, <3>3, <3>4, <3>5 DEF NewEmpty, At, Me
    <3>7. \A o \in Object : On(Disp, o)' => On(Disp, o)
      BY <3>2, <3>3, <1>k DEF On, Me, StartPlace
    <3> QED
      BY <3>2, <3>3, <3>6, <3>7 DEF UsbThreads
  <2> QED
    BY <1>4, <2>1, <2>2 DEF Build, Spawn, Poll, Perm, Fail, Started
<1>5. ASSUME Boot(Disp) PROVE UsbThreads(Disp)
  <2>1. Me(Disp) \in Object /\ On(Disp, Me(Disp)) /\ vm[Me(Disp)].usb = {} /\ UNCHANGED vm
        /\ th[Disp].new = None
    BY <1>5 DEF Boot, At, StartPlace, HydraTypes, Threads, DispWork, Working, Me, On, Busy,
       UsbInv, NewEmpty
  <2>2. CASE th' = [th EXCEPT ![Disp] = Building(Me(Disp))]
    <3>1. /\ th'[Disp].at = "build" /\ th'[Disp].vm = Me(Disp) /\ th'[Disp].call = "new"
          /\ th'[Disp].new = None
          /\ \A u \in Thread \ {Disp} : th'[u] = th[u]
      BY <1>0, <2>2 DEF Building, Resting
    <3> QED
      BY <2>1, <3>1 DEF UsbThreads, On, NewEmpty, At, Me
  <2>3. CASE BeginStopAll(Disp, None, Me(Disp)) /\ UNCHANGED vms
    <3>1. /\ th'[Disp].at = "all" /\ th'[Disp].new = Me(Disp) /\ th'[Disp].todo = Listed
          /\ \A u \in Thread \ {Disp} : th'[u] = th[u]
      BY <1>0, <2>3 DEF BeginStopAll, Resting
    <3>2. Listed' = Listed
      BY <2>3 DEF Listed
    <3>3. NewEmpty'
      BY <2>1, <3>1 DEF NewEmpty, StartPlace, At
    <3> QED
      BY <1>k, <2>1, <3>1, <3>2, <3>3 DEF UsbThreads, On, Empties, At
  <2> QED
    BY <1>0, <1>5, <2>2, <2>3 DEF Boot, Me
<1> QED
  BY <1>1, <1>2, <1>3, <1>4, <1>5

\* and its requests take VMs in hand as they should.
LEMMA UsbRequests ==
    ASSUME HydraTypes, UsbInv
    PROVE  /\ \A o \in Object : StartAgain(o) \/ StopHook(o) \/ SoftHook(o) => UsbThreads(Disp)
           /\ \A o \in Object, s \in {"running", "sleeping"} : SleepHook(o, s) => UsbThreads(Disp)
           /\ \A o \in Object, d \in Device : UsbRemove(o, d) => UsbThreads(Disp)
           /\ HibernateHook \/ Shutdown => UsbThreads(Disp)
<1>0. /\ th \in [Thread -> Work]
      /\ Disp \in Thread /\ Thread = {Disp, Exec} /\ Disp # Exec
      /\ \A k \in Listed : k \in Object
      /\ \A k \in Object : k # None
  BY HydraAssumption DEF HydraTypes, Threads, Thread, Lists, Listed
<1>k. Busy = {"build", "spawn", "poll", "perm", "kill", "end", "soft", "signal", "usbadd", "usbdel",
              "promote", "exited", "boot"}
  BY DEF Busy, Working
<1>u. ASSUME th'[Disp].at # "usbadd", \A u \in Thread \ {Disp} : th'[u] = th[u], UNCHANGED vm,
             Ordinary(Disp), Calm,
             th'[Disp].at \in Busy => \E o \in Object : th'[Disp].vm = o /\ vm[o].state # "stopped"
      PROVE  UsbThreads(Disp)
  BY <1>0, <1>u, CalmEmpty DEF UsbInv, UsbThreads, Ordinary, On, At, Me
<1>1. ASSUME NEW o \in Object, StartAgain(o) PROVE UsbThreads(Disp)
  <2>1. /\ th'[Disp].at = "build" /\ th'[Disp].vm = o /\ th'[Disp].call = "again" /\
             th'[Disp].new = None
        /\ \A u \in Thread \ {Disp} : th'[u] = th[u]
    BY <1>0, <1>1 DEF StartAgain, At, Work, HydraTypes, Threads, DispWork, Stopping
  <2> QED
    BY <1>0, <1>1, <2>1 DEF StartAgain, UsbThreads, On, NewEmpty, At, Me
<1>2. ASSUME NEW o \in Object, StopHook(o) \/ SoftHook(o) PROVE UsbThreads(Disp)
  <2>1. /\ th'[Disp].at \in {"kill", "soft"} /\ th'[Disp].vm = o
        /\ \A u \in Thread \ {Disp} : th'[u] = th[u]
    BY <1>0, <1>2 DEF StopHook, SoftHook, Begin, BeginStop, Work
  <2> QED
    BY <1>u, <1>2, <2>1, RequestsCalm DEF StopHook, SoftHook, Requested
<1>3. ASSUME NEW o \in Object, NEW s \in {"running", "sleeping"}, SleepHook(o, s)
      PROVE UsbThreads(Disp)
  <2>1. /\ th'[Disp].at = "signal" /\ th'[Disp].vm = o
        /\ \A u \in Thread \ {Disp} : th'[u] = th[u]
    BY <1>0, <1>3 DEF SleepHook, Work
  <2>2. Ordinary(Disp) /\ Calm /\ UNCHANGED vm /\ vm[o].state # "stopped"
    BY <1>3, RequestsCalm DEF SleepHook, Requested
  <2> QED
    BY <1>u, <2>1, <2>2
<1>4. ASSUME NEW o \in Object, NEW d \in Device, UsbRemove(o, d) PROVE UsbThreads(Disp)
  <2>1. /\ th'[Disp].at = "usbdel" /\ th'[Disp].vm = o
        /\ \A u \in Thread \ {Disp} : th'[u] = th[u]
    BY <1>0, <1>4 DEF UsbRemove, Work
  <2>2. Ordinary(Disp) /\ Calm /\ UNCHANGED vm /\ vm[o].state # "stopped"
    BY <1>4, RequestsCalm DEF UsbRemove, Requested
  <2> QED
    BY <1>u, <2>1, <2>2
<1>5. ASSUME HibernateHook PROVE UsbThreads(Disp)
  <2>1. /\ th'[Disp].at = "each"
        /\ \A u \in Thread \ {Disp} : th'[u] = th[u]
    BY <1>0, <1>5 DEF HibernateHook, Resting
  <2> QED
    BY <1>u, <1>5, <1>k, <2>1, RequestsCalm DEF HibernateHook, Requested
<1>6. ASSUME Shutdown PROVE UsbThreads(Disp)
  <2>1. /\ th'[Disp].at = "all" /\ th'[Disp].new = None /\ th'[Disp].todo = Listed
        /\ \A u \in Thread \ {Disp} : th'[u] = th[u]
    BY <1>0, <1>6 DEF Shutdown, BeginStopAll, Resting
  <2>2. Listed' = Listed
    BY <1>6 DEF Shutdown, sharedVars, Listed
  <2> QED
    BY <1>k, <2>1, <2>2 DEF UsbThreads, On, NewEmpty, StartPlace, Empties, At
<1> QED
  BY <1>1, <1>2, <1>3, <1>4, <1>5, <1>6

\* HYDRA_USB_ADD finds the device registered for none: who still holds it is done with.
LEMMA UsbGiven ==
    ASSUME HydraTypes, HydraTypes', UsbInv, InOrder, ~Disturbed, NEW o \in Object, NEW d \in Device,
           UsbAdd(o, d)
    PROVE  UsbInv'
<1>0. /\ th \in [Thread -> Work] /\ Thread = {Disp, Exec} /\ Disp # Exec
      /\ \A k \in Listed : k \in Object
      /\ \A k \in Object : vm[k].id # None
      /\ o \in Listed /\ Live(o) /\ vm[o].state # "stopped" /\ vm[o].usb = {} /\ owner[d] = None
      /\ UNCHANGED <<vm, vms, owner>> /\ At(Disp, "idle")
  BY HydraAssumption DEF HydraTypes, Machines, Machine, Threads, Thread, Lists, Listed, UsbAdd,
     Asked,
     Requested, sharedVars
<1>1. /\ th'[Disp].at = "usbadd" /\ th'[Disp].vm = o /\ th'[Disp].usb = {d}
      /\ th'[Disp].call # "all" /\ th'[Disp].new = None
      /\ th'[Exec] = th[Exec]
  BY <1>0 DEF UsbAdd, Work, HydraTypes, Threads, DispWork, Stopping, At
<1>2. /\ Listed' = Listed
      /\ \A k \in Object : Adding(k)' <=> k = o
      /\ \A k \in Object \ {o} : Inert(k) => Inert(k)'
  BY <1>0, <1>1 DEF Listed, Adding, At, Me, Inert, On
<1>3. /\ StoppedLeft /\ AllEmptied /\ LeftInert /\ Registered /\ HeldOnce
  BY DEF UsbInv
<1>4. Registered' /\ NewEmpty'
  BY <1>0, <1>1, <1>2, <1>3 DEF Registered, NewEmpty, StartPlace, At
<1>5. AddsAlone'
  <2>1. ASSUME NEW k \in Object, k # o, d \in vm[k].usb PROVE k \notin Listed /\ Inert(k)
    BY <1>0, <1>3, <2>1 DEF Registered, LeftInert
  <2> QED
    BY <1>0, <1>1, <1>2, <2>1 DEF AddsAlone, Me
<1>6. HeldOnce' /\ LeftInert' /\ StoppedLeft'
  BY <1>0, <1>2, <1>3 DEF HeldOnce, LeftInert, StoppedLeft
<1>7. AddsApart' /\ AddsListed'
  BY <1>0, <1>2 DEF AddsApart, AddsListed
<1>8. AllEmptied'
  <2>1. th[Exec].call = "all" /\ ~At(Exec, "ended") => Sweeps(Exec) /\ Empties(Exec)
    BY <1>0, <1>3 DEF AllEmptied, InOrder, AllSwept
  <2>2. th[Exec].call = "all" /\ ~At(Exec, "ended") => Empties(Exec)'
    BY <1>0, <1>1, <1>2, <2>1 DEF Empties, Sweeps, At, Me, Adding
  <2> QED
    BY <1>0, <1>1, <2>2 DEF AllEmptied, At
<1> QED
  BY <1>4, <1>5, <1>6, <1>7, <1>8 DEF UsbInv

\* It is registered and held in one step, by a VM the executer may have stopped meanwhile.
LEMMA UsbTaken ==
    ASSUME HydraTypes, HydraTypes', UsbInv, Disturbed => Disturbed', UsbSet
    PROVE  UsbInv'
<1> DEFINE o == Me(Disp)
           ds == th[Disp].usb
<1>1. /\ th \in [Thread -> Work] /\ Thread = {Disp, Exec} /\ Disp # Exec /\
           vm \in [Object -> Machine]
      /\ \A k \in Listed : k \in Object
      /\ o \in Object /\ Adding(o) /\ ds \subseteq Device
  <2>1. th \in [Thread -> Work] /\ Thread = {Disp, Exec} /\ vm \in [Object -> Machine] /\ Adding(o)
    BY DEF HydraTypes, Machines, Threads, Thread, UsbSet, Adding
  <2>2. \A k \in Listed : k \in Object
    BY DEF HydraTypes, Lists, Listed
  <2>3. o \in Object
    BY DEF HydraTypes, Threads, UsbSet, At, DispWork, Working, Me
  <2> QED
    BY <2>1, <2>2, <2>3, HydraAssumption DEF Work
<1>2. th' = [th EXCEPT ![Disp] = Done(Disp)]
  BY <1>1 DEF UsbSet, Rest
<1>3. /\ th'[Disp].at = "idle" /\ th'[Disp].call = "hook" /\ th'[Disp].new = None
      /\ th'[Exec] = th[Exec]
  BY <1>1, <1>2 DEF Done, Resting
<1>4. PICK k, es : k = o /\ es = ds
  OBVIOUS
<1>5. vm[k].usb = {} /\ \A j \in Object : j # k /\ vm[j].usb \cap es # {} =>
        j \notin Listed /\ Inert(j)
  BY <1>1, <1>4 DEF UsbInv, AddsAlone, Adding
<1>6. vm' = [vm EXCEPT ![k] = [vm[k] EXCEPT !.usb = es]]
  <2>1. vm' = [vm EXCEPT ![k].usb = @ \cup es]
    BY <1>4 DEF UsbSet
  <2> QED
    BY <1>1, <1>4, <1>5, <2>1
<1>7. /\ vm'[k].usb = es /\ vm'[k].id = vm[k].id /\ vm'[k].state = vm[k].state
      /\ \A j \in Object \ {k} : vm'[j] = vm[j]
  BY <1>1, <1>4, <1>6 DEF Machine
<1>8. \A d \in Device : owner'[d] = IF d \in es THEN vm[k].id ELSE owner[d]
  BY <1>4 DEF UsbSet, OwnedBy
<1>9. Listed' = Listed /\ k \in Object /\ Adding(k) /\ es \subseteq Device
  BY <1>1, <1>4 DEF UsbSet, Listed
<1> HIDE DEF o, ds
<1>10. /\ \A j \in Object : ~Adding(j)' /\ (Adding(j) => j = k)
       /\ \A j \in Object : Inert(j) => Inert(j)'
       /\ vm[k].state = "stopped" /\ ~On(Exec, k) => Inert(k)'
  BY <1>1, <1>3, <1>7, <1>9 DEF Adding, Inert, On, At, Me, Busy, Working
<1>11. Registered'
  <2> SUFFICES ASSUME NEW j \in Listed, NEW d \in vm'[j].usb PROVE owner'[d] = vm'[j].id
    BY <1>9 DEF Registered
  <2>1. CASE j = k
    BY <1>7, <1>8, <1>9, <2>1
  <2>2. CASE j # k
    <3>1. d \in vm[j].usb /\ owner[d] = vm[j].id /\ d \in Device
      BY <1>1, <1>7, <2>2 DEF UsbInv, Registered, Machine
    <3>2. d \notin es
      BY <1>1, <1>5, <2>2, <3>1
    <3> QED
      BY <1>1, <1>7, <1>8, <2>2, <3>1, <3>2
  <2> QED
    BY <2>1, <2>2
<1>12. AddsAlone' /\ NewEmpty'
  BY <1>3 DEF AddsAlone, NewEmpty, StartPlace, At
<1>13. HeldOnce'
  <2> SUFFICES ASSUME NEW i \in Listed, NEW j \in Object, j # i, vm'[j].usb \cap vm'[i].usb # {}
               PROVE  j \notin Listed /\ Inert(j)
    BY <1>9, <1>10 DEF HeldOnce
  <2>1. CASE i = k
    BY <1>5, <1>7, <2>1
  <2>2. CASE i # k /\ j = k
    BY <1>1, <1>5, <1>7, <2>2
  <2>3. CASE i # k /\ j # k
    BY <1>1, <1>7, <2>3 DEF UsbInv, HeldOnce
  <2> QED
    BY <2>1, <2>2, <2>3
<1>14. ASSUME ~Disturbed'
       PROVE  StoppedLeft' /\ AddsApart' /\ AddsListed' /\ AllEmptied' /\ LeftInert'
  <2>1. StoppedLeft /\ AddsApart /\ AddsListed /\ AllEmptied /\ LeftInert
    BY <1>14 DEF UsbInv
  <2>2. vm[k].state = "stopped" => Inert(k)'
    BY <1>9, <1>10, <2>1 DEF AddsApart
  <2>3. StoppedLeft'
    BY <1>7, <1>10, <2>1, <2>2 DEF StoppedLeft
  <2>4. AddsApart' /\ AddsListed'
    BY <1>10 DEF AddsApart, AddsListed
  <2>5. LeftInert'
    BY <1>7, <1>9, <1>10, <2>1, <2>2 DEF LeftInert, AddsListed
  <2>6. Empties(Exec) => Empties(Exec)'
    BY <1>1, <1>3, <1>7, <1>9, <1>10 DEF Empties, Me
  <2>7. AllEmptied'
    BY <1>1, <1>3, <2>1, <2>6 DEF AllEmptied, At
  <2> QED
    BY <2>3, <2>4, <2>5, <2>7
<1> QED
  BY <1>11, <1>12, <1>13, <1>14 DEF UsbInv

\* The object of a new VM is nobody else's.
LEMMA UsbNew ==
    ASSUME HydraTypes, HydraTypes', UsbInv, ~Disturbed, NEW v \in Vmid, StartNew(v)
    PROVE  UsbInv'
<1>1. PICK o \in Object : Free(o) /\ vm' = [vm EXCEPT ![o] = New(v)]
                          /\ th' = [th EXCEPT ![Disp].at = IF running THEN "build" ELSE "boot",
                                              ![Disp].vm = o, ![Disp].call = "new"]
  BY DEF StartNew
<1>2. /\ th \in [Thread -> Work] /\ Thread = {Disp, Exec} /\ Disp # Exec /\
           vm \in [Object -> Machine]
      /\ \A k \in Listed : k \in Object
      /\ o \notin Listed /\ Listed' = Listed
  <2>1. UNCHANGED vms
    BY DEF StartNew, sharedVars
  <2> QED
    BY <1>1, <2>1, HydraAssumption DEF HydraTypes, Machines, Threads, Thread, Lists, Listed, Free
<1>3. /\ th'[Disp].at \in {"build", "boot"} /\ th'[Disp].vm = o /\ th'[Disp].call = "new"
      /\ th'[Disp].new = None /\ th'[Exec] = th[Exec]
  <2>1. th[Disp].new = None
    BY DEF StartNew, At, HydraTypes, Threads, DispWork, Stopping
  <2> QED
    BY <1>1, <1>2, <2>1 DEF Work
<1>4. vm'[o].usb = {} /\ \A k \in Object \ {o} : vm'[k] = vm[k]
  BY <1>1, <1>2 DEF New
<1>5. /\ \A k \in Object : ~Adding(k)'
      /\ \A k \in Object \ {o} : Inert(k) => Inert(k)'
  BY <1>2, <1>3, <1>4 DEF Adding, At, Me, Inert, On
<1>6. Registered /\ HeldOnce /\ StoppedLeft /\ AllEmptied /\ LeftInert /\ UNCHANGED owner
  BY DEF UsbInv, StartNew, sharedVars
<1>7. Registered' /\ AddsAlone' /\ NewEmpty'
  BY <1>2, <1>3, <1>4, <1>6 DEF Registered, AddsAlone, NewEmpty, At, Me
<1>8. HeldOnce' /\ StoppedLeft' /\ LeftInert'
  BY <1>2, <1>4, <1>5, <1>6 DEF HeldOnce, StoppedLeft, LeftInert
<1>9. AddsApart' /\ AddsListed'
  BY <1>5 DEF AddsApart, AddsListed
<1>10. Empties(Exec) => Empties(Exec)'
  BY <1>2, <1>3, <1>4, <1>5 DEF Empties, Me
<1>11. AllEmptied'
  BY <1>2, <1>3, <1>6, <1>10 DEF AllEmptied, At
<1> QED
  BY <1>7, <1>8, <1>9, <1>11 DEF UsbInv

\* The invariant holds at first,
LEMMA UsbInit ==
    Init => UsbInv
<1> SUFFICES ASSUME Init PROVE UsbInv
  OBVIOUS
<1>1. /\ \A o \in Object : vm[o].usb = {}
      /\ \A t \in Thread : th[t] = Resting
      /\ Disp \in Thread /\ Exec \in Thread
      /\ Listed = {}
  BY DEF Init, New, Listed, Thread
<1>2. \A t \in Thread : th[t].at = "idle" /\ th[t].call = "hook" /\ th[t].new = None
  BY <1>1 DEF Resting
<1> QED
  BY <1>1, <1>2 DEF UsbInv, Registered, AddsAlone, HeldOnce, NewEmpty, StoppedLeft, AddsApart,
     AddsListed,
     AllEmptied, LeftInert, StartPlace, At, Adding

\* and every step keeps it.
LEMMA UsbStep ==
    ASSUME Losing \subseteq Race, KnownInv, UsbInv, [Next]_vars
    PROVE  UsbInv'
<1>0. /\ HydraTypes /\ HydraTypes' /\ (Disturbed => Disturbed') /\ (Disturbed \/ InOrder)
      /\ Disp \in Thread /\ Exec \in Thread
  BY TypesStep, RacesStay DEF KnownInv, Thread
<1>k. ASSUME NEW t \in Thread, UsbMachines(t), UsbOwners, UsbLists(t), UsbThreads(t) PROVE UsbInv'
  BY <1>0, <1>k, UsbMovesKeep
<1>v. UNCHANGED vm => \A t \in Thread : UsbMachines(t)
  BY <1>0, UsbVms
<1>w. UNCHANGED owner => UsbOwners
  BY <1>0, UsbClaims
<1>l. UNCHANGED vms => \A t \in Thread : UsbLists(t)
  BY <1>0, UsbListing
<1>1. ASSUME NEW t \in Thread, Stop(t) PROVE UsbInv'
  <2>1. UNCHANGED vms
    BY <1>1 DEF Stop, Kill, StopEnd
  <2> QED
    BY <1>0, <1>1, <1>k, <1>l, <2>1, UsbVms, UsbClaims, UsbStops
<1>2. ASSUME NEW t \in Thread, StopAll(t) PROVE UsbInv'
  <2>1. UNCHANGED vm
    BY <1>2 DEF StopAll, StopNext, StopClear, StopDown
  <2> QED
    BY <1>0, <1>2, <1>k, <1>v, <2>1, UsbClaims, UsbListing, UsbStops
<1>3. ASSUME NEW t \in Thread, Boot(t) PROVE UsbInv'
  <2>1. UNCHANGED <<vm, owner>>
    BY <1>3 DEF Boot
  <2>2. UsbLists(t)
    <3>1. CASE UNCHANGED vms
      BY <1>l, <3>1
    <3>2. CASE vms' = [v \in Vmid |-> None] /\ history' = Raced("unready", TRUE)
      <4>1. Listed' = {}
        BY <3>2 DEF Listed
      <4>2. Disturbed'
        BY <3>2 DEF Raced, Disturbed, Losing
      <4> QED
        BY <4>1, <4>2 DEF UsbLists
    <3> QED
      BY <1>3, <3>1, <3>2 DEF Boot
  <2>3. UsbThreads(t)
    BY <1>0, <1>3, UsbExecutes, UsbDispatches DEF Thread
  <2> QED
    BY <1>k, <1>v, <1>w, <2>1, <2>2, <2>3
<1>4. CASE Hook
  <2>0. ~Disturbed /\ InOrder
    BY <1>0, <1>4 DEF Hook
  <2>1. ASSUME NEW v \in Vmid, StartNew(v) PROVE UsbInv'
    BY <1>0, <2>0, <2>1, UsbNew
  <2>2. ASSUME NEW o \in Object, NEW d \in Device, UsbAdd(o, d) PROVE UsbInv'
    BY <1>0, <2>0, <2>2, UsbGiven
  <2>3. ASSUME UNCHANGED <<vm, vms, owner>>, UsbThreads(Disp) PROVE UsbInv'
    BY <1>0, <1>k, <1>v, <1>w, <1>l, <2>3
  <2>4. ASSUME NEW o \in Object, StartAgain(o) \/ StopHook(o) \/ SoftHook(o) PROVE UsbInv'
    BY <1>0, <2>3, <2>4, UsbRequests DEF StartAgain, StopHook, SoftHook, Requested, sharedVars
  <2>5. ASSUME NEW o \in Object, NEW s \in {"running", "sleeping"}, SleepHook(o, s) PROVE UsbInv'
    BY <1>0, <2>3, <2>5, UsbRequests DEF SleepHook, Requested, sharedVars
  <2>6. ASSUME NEW o \in Object, NEW d \in Device, UsbRemove(o, d) PROVE UsbInv'
    BY <1>0, <2>3, <2>6, UsbRequests DEF UsbRemove, Requested, sharedVars
  <2>7. ASSUME HibernateHook \/ Shutdown PROVE UsbInv'
    BY <1>0, <2>3, <2>7, UsbRequests DEF HibernateHook, Shutdown, Requested, sharedVars
  <2> QED
    BY <1>4, <2>1, <2>2, <2>4, <2>5, <2>6, <2>7 DEF Hook
<1>5. CASE Dispatch
  <2>1. CASE UsbSet
    BY <1>0, <2>1, UsbTaken
  <2>2. CASE SoftTimer \/ Signalled
    BY <1>0, <1>k, <1>w, <1>l, <2>2, UsbVms, UsbDispatches DEF SoftTimer, Signalled, sharedVars
  <2>3. CASE HibernateNext
    BY <1>0, <1>k, <1>v, <1>w, <1>l, <2>3, UsbDispatches DEF HibernateNext, Requested, sharedVars
  <2>4. CASE UsbForget
    BY <1>0, <1>k, <1>l, <2>4, UsbVms, UsbClaims, UsbDispatches DEF UsbForget
  <2>5. CASE Build \/ Spawn \/ Poll \/ Perm
    <3>1. UNCHANGED owner
      BY <2>5 DEF Build, Spawn, Poll, Perm
    <3> QED
      BY <1>0, <1>k, <1>w, <2>5, <3>1, UsbVms, UsbListing, UsbDispatches
  <2> QED
    BY <1>0, <1>1, <1>2, <1>3, <1>5, <2>1, <2>2, <2>3, <2>4, <2>5 DEF Dispatch, Start
<1>6. CASE Execute
  <2>1. CASE Promote \/ Verdict
    BY <1>0, <1>k, <1>w, <1>l, <2>1, UsbVms, UsbExecutes DEF Promote, Verdict, sharedVars
  <2>2. CASE Drop
    BY <1>0, <1>k, <1>v, <1>w, <2>2, UsbListing, UsbExecutes DEF Drop
  <2>3. CASE RoundEnd \/ Timers \/ ReapEnd \/ ThreadBegin
    BY <1>0, <1>k, <1>v, <1>w, <1>l, <2>3, UsbExecutes DEF RoundEnd, Timers, ReapEnd, ThreadBegin,
       sharedVars
  <2>4. ASSUME NEW o \in Object, Visit(o) \/ TimerDue(o) PROVE UsbInv'
    BY <1>0, <1>k, <1>w, <1>l, <2>4, UsbVms, UsbExecutes DEF Visit, TimerDue, sharedVars
  <2>5. ASSUME NEW w \in watch, Reap(w) PROVE UsbInv'
    BY <1>0, <1>k, <1>v, <1>w, <1>l, <2>5, UsbExecutes DEF Reap, sharedVars
  <2> QED
    BY <1>0, <1>1, <1>2, <1>3, <1>6, <2>1, <2>2, <2>3, <2>4, <2>5 DEF Execute
<1>7. CASE UNCHANGED <<vm, vms, owner, th>>
  <2>1. UsbThreads(Exec)
    <3>1. \A o \in Object : On(Exec, o)' = On(Exec, o)
      BY <1>7 DEF On, Me
    <3>2. th[Exec].call = "all" /\ ~At(Exec, "ended") => Disturbed \/ Empties(Exec)
      BY <1>0 DEF UsbInv, AllEmptied
    <3>3. Empties(Exec) => Empties(Exec)'
      BY <1>7 DEF Empties, Listed, Adding, At, Me
    <3> QED
      BY <1>0, <1>7, <3>1, <3>2, <3>3, HydraAssumption DEF UsbThreads, At
  <2> QED
    BY <1>0, <1>7, <1>k, <1>v, <1>w, <1>l, <2>1
<1> QED
  BY <1>4, <1>5, <1>6, <1>7 DEF Next, ProcessExits, vars, sharedVars

\* What runs or is held is accounted for (Accounted): every VM that runs is listed or being started,
\* and a device a listed VM holds is registered for it, although _usb_clean() works on a copy of the
\* devices, stop() clears _usb while VMs hold some, and a VM may be stopped by the one thread while
\* the other gives it a device.
THEOREM AllAccounted ==
    ASSUME {"again", "overlap", "unready"} \subseteq Race
    PROVE  Spec => []Accounted
<1>1. KnownInv /\ UsbInv /\ [Next]_vars => KnownInv' /\ UsbInv'
  BY KnownStep, UsbStep DEF Losing
<1>2. Init => KnownInv /\ UsbInv
  BY KnownInit, UsbInit
<1>3. KnownInv => Known
  BY DEF KnownInv, InOrder, LiveListed, Poised, Known, Starting, StartPlace
<1>4. UsbInv => UsbRegistered
  BY DEF UsbInv, Registered, UsbRegistered
<1> QED
  BY <1>1, <1>2, <1>3, <1>4, PTL DEF Spec, Accounted

-----------------------------------------------------------------------------
(* What the VMs claim.                                                     *)

\* The dispatcher starts this VM and has claimed for it.
Claiming(o) == th[Disp].at \in {"spawn", "poll", "perm"} /\ Me(Disp) = o

\* Memory is reserved for a listed VM that is not stopped, or for the one being started.
Reserved ==
    \A v \in pages : \/ vms[v] # None /\ vm[vms[v]].state # "stopped"
                     \/ \E o \in Object : Claiming(o) /\ vm[o].id = v

\* Interfaces exist for a listed VM that has adapters, or for the one being started.
Tapped ==
    \A v \in taps : \/ vms[v] # None /\ vm[vms[v]].adapters
                    \/ \E o \in Object : Poised(o) /\ vm[o].id = v /\ vm[o].adapters

\* A device is registered for the listed VM that holds it, or for none.
Owned == \A d \in Device : owner[d] # None => \E o \in Listed : vm[o].id = owner[d] /\ d \in vm[o].usb

\* A listed VM that is stopped claims nothing more,
StoppedBare == \A o \in Listed : vm[o].state = "stopped" => ~vm[o].adapters /\ vm[o].usb = {}

\* and at the end of _stop() no more than the devices that are to be given back.
EndsBare ==
    \A t \in Thread : At(t, "end") => ~vm[Me(t)].adapters /\ vm[Me(t)].usb \subseteq th[t].usb

\* One device at most.
Single(ds) == \A d, e \in ds : d = e

\* A VM holds one at most, and so does a thread.
OneDevice == (\A o \in Object : Single(vm[o].usb)) /\ \A t \in Thread : Single(th[t].usb)

\* HydraServer.stop() has each VM that claims memory or interfaces still ahead of it,
Gives(t) ==
    \A v \in pages \cup taps : \E o \in Listed :
        /\ vm[o].id = v
        /\ o \in th[t].todo \/ (th[t].at \in {"kill", "end"} /\ Me(t) = o)

\* whichever thread is at it; nothing is listed when it has emptied the list.
AllGiven ==
    \A t \in Thread : /\ th[t].call = "all" /\ ~At(t, "ended") => Gives(t)
                      /\ At(t, "down") => Listed = {}

\* The invariant of the claims,
ClaimsHeld == Reserved /\ Tapped /\ Owned /\ StoppedBare /\ EndsBare /\ OneDevice /\ AllGiven

\* unless a VM may be lost, a start failed half-way, a device came too late, or memory could
\* not be given back.
Clean == ~Disturbed /\ history \cap {"failed", "late", "kept"} = {}

\* The races that matter to it.
Costing == {"again", "overlap", "unready", "failed", "late", "kept"}

\* If none of them has happened after a step, the step was none of them.
LEMMA Uncosted ==
    ASSUME Costing \subseteq Race, Clean', NEW r \in Costing, NEW b \in BOOLEAN,
           Raced(r, b) \subseteq history'
    PROVE  ~b
BY DEF Costing, Clean, Disturbed, Raced

\* No VM changes its claims, and none becomes stopped.
Spares ==
    \A o \in Object :
        /\ vm'[o].id = vm[o].id /\ vm'[o].adapters = vm[o].adapters /\ vm'[o].usb = vm[o].usb
        /\ vm'[o].state = "stopped" => vm[o].state = "stopped"

\* A step that leaves the claims alone keeps the invariant, when the thread still has in view what
\* it is to give back.
LEMMA SparingKeeps ==
    ASSUME HydraTypes, HydraTypes', ClaimsHeld, NEW t \in Thread, Spares,
           UNCHANGED <<vms, owner, pages, taps>>,
           \A u \in Thread \ {t} : th'[u] = th[u],
           \A o \in Object : (Claiming(o) => Claiming(o)') /\ (Poised(o) => Poised(o)'),
           th'[t].at # "end", Single(th'[t].usb),
           th'[t].call = "all" /\ th'[t].at # "ended" => th'[t].at # "down" /\ Gives(t)'
    PROVE  ClaimsHeld'
<1>0. /\ Thread = {Disp, Exec} /\ Listed' = Listed
      /\ \A o \in Listed : o \in Object
      /\ \A v \in Vmid : vms[v] # None => vms[v] \in Object
      /\ pages \subseteq Vmid /\ taps \subseteq Vmid
      /\ \A u \in Thread : At(u, "end") => Me(u) \in Object
  BY DEF HydraTypes, Lists, Listed, Thread, Claims, Threads, DispWork, ExecWork, Working, At, Me
<1>1. Reserved'
  BY <1>0 DEF ClaimsHeld, Reserved, Spares
<1>2. Tapped'
  BY <1>0 DEF ClaimsHeld, Tapped, Spares
<1>3. Owned' /\ StoppedBare'
  BY <1>0 DEF ClaimsHeld, Owned, StoppedBare, Spares
<1>4. EndsBare'
  BY <1>0 DEF ClaimsHeld, EndsBare, Spares, At, Me
<1>5. OneDevice'
  BY DEF ClaimsHeld, OneDevice, Single, Spares
<1>6. AllGiven'
  <2> SUFFICES ASSUME NEW u \in Thread
               PROVE  /\ (th[u].call = "all" /\ ~At(u, "ended"))' => Gives(u)'
                      /\ At(u, "down")' => Listed' = {}
    BY DEF AllGiven
  <2>1. CASE u = t
    <3>1. th'[t].at = "down" => th'[t].call = "all"
      BY <1>0 DEF HydraTypes, Threads, DispWork, ExecWork, Stopping
    <3> QED
      BY <2>1, <3>1 DEF At
  <2>2. CASE u # t
    <3>1. th'[u] = th[u]
      BY <2>2
    <3>2. Gives(u) => Gives(u)'
      BY <1>0, <3>1 DEF Gives, Spares, Me
    <3> QED
      BY <1>0, <3>1, <3>2 DEF ClaimsHeld, AllGiven, At
  <2> QED
    BY <2>1, <2>2
<1> QED
  BY <1>1, <1>2, <1>3, <1>4, <1>5, <1>6 DEF ClaimsHeld

\* So does one that is not in HydraServer.stop() and starts no VM.
LEMMA OrdinaryKeeps ==
    ASSUME HydraTypes, HydraTypes', ClaimsHeld, NEW t \in Thread, Spares,
           UNCHANGED <<vms, owner, pages, taps>>,
           \A u \in Thread \ {t} : th'[u] = th[u],
           t = Disp => th[Disp].at \notin {"spawn", "poll", "perm"},
           Ordinary(t), Single(th'[t].usb)
    PROVE  ClaimsHeld'
<1>1. \A o \in Object : (Claiming(o) => Claiming(o)') /\ (Poised(o) => Poised(o)')
  BY HydraAssumption DEF Claiming, Poised, Me, Thread
<1> QED
  BY <1>1, SparingKeeps DEF Ordinary

\* HydraServer.stop() begins with a copy of all VMs that are listed: each that claims is.
LEMMA BeginningKeeps ==
    ASSUME HydraTypes, HydraTypes', ClaimsHeld, Costing \subseteq Race, Clean', NEW t \in Thread,
           NEW n, NEW new, BeginStopAll(t, n, new), UNCHANGED <<vm, vms, owner, pages, taps>>,
           t = Disp => th[Disp].at \in {"idle", "boot"}
    PROVE  ClaimsHeld'
<1>0. /\ th \in [Thread -> Work] /\ Thread = {Disp, Exec} /\ Disp # Exec /\ Listed' = Listed
      /\ \A v \in Vmid : vms[v] # None => vms[v] \in Object /\ vms[v] \in Listed /\ vm[vms[v]].id = v
      /\ pages \subseteq Vmid /\ taps \subseteq Vmid
  BY HydraAssumption DEF HydraTypes, Threads, Thread, Lists, Listed, Claims
<1>1. /\ th'[t].at = "all" /\ th'[t].todo = Listed /\ th'[t].usb = {}
      /\ \A u \in Thread \ {t} : th'[u] = th[u]
  BY <1>0 DEF BeginStopAll, Resting
<1>2. \A o \in Object : ~Claiming(o) /\ ~Poised(o)
  <2>1. CASE t = Disp
    BY <2>1 DEF Claiming, Poised
  <2>2. CASE t = Exec
    <3>1. Raced("overlap", t = Exec /\ Starting) \subseteq history' /\ "overlap" \in Costing
          /\ (t = Exec /\ Starting) \in BOOLEAN
      BY DEF BeginStopAll, Costing, Starting
    <3>2. ~(t = Exec /\ Starting)
      BY <3>1, Uncosted
    <3> QED
      BY <2>2, <3>2 DEF Starting, StartPlace, Claiming, Poised
  <2> QED
    BY <1>0, <2>1, <2>2
<1>3. Gives(t)'
  BY <1>0, <1>1, <1>2 DEF Gives, ClaimsHeld, Reserved, Tapped
<1>4. Spares
  BY DEF Spares
<1>5. Single(th'[t].usb) /\ th'[t].at \notin {"end", "down"}
  BY <1>1 DEF Single
<1> QED
  BY <1>1, <1>2, <1>3, <1>4, <1>5, SparingKeeps

\* The steps that leave the claims of the VMs alone.
LEMMA SparingSteps ==
    ASSUME HydraTypes
    PROVE  /\ UNCHANGED vm => Spares
           /\ SoftTimer \/ Signalled \/ Promote \/ Verdict => Spares
           /\ \A o \in Object : Visit(o) \/ TimerDue(o) => Spares
<1>0. /\ vm \in [Object -> Machine]
      /\ th[Disp].at \in {"soft", "signal"} => Me(Disp) \in Object
      /\ th[Exec].at \in {"promote", "exited"} => Me(Exec) \in Object
      /\ th[Disp].at = "signal" => th[Disp].next # "stopped"
      /\ th[Exec].at = "exited" => th[Exec].next # "stopped"
  BY DEF HydraTypes, Machines, Threads, DispWork, ExecWork, Working, Me
<1>1. UNCHANGED vm => Spares
  BY DEF Spares
<1>a. ASSUME NEW o \in Object, NEW s, s # "stopped", Assign(o, s) PROVE Spares
  BY <1>0, <1>a DEF Assign, Spares, Machine
<1>2. ASSUME SoftTimer PROVE Spares
  BY <1>0, <1>2 DEF SoftTimer, At, Spares, Machine
<1>3. ASSUME Signalled PROVE Spares
  BY <1>0, <1>3, <1>a DEF Signalled, At
<1>4. ASSUME Promote \/ Verdict PROVE Spares
  BY <1>0, <1>4, <1>a DEF Promote, Verdict, At
<1>5. ASSUME NEW o \in Object, Visit(o) PROVE Spares
  <2>1. vm' = vm \/ vm' = [vm EXCEPT ![o].wait = @ + 1]
    BY <1>5 DEF Visit, Waited
  <2> QED
    BY <1>0, <2>1 DEF Spares, Machine
<1>6. ASSUME NEW o \in Object, TimerDue(o) PROVE Spares
  BY <1>0, <1>6 DEF TimerDue, Spares, Machine
<1> QED
  BY <1>1, <1>2, <1>3, <1>4, <1>5, <1>6

\* The requests,
LEMMA RequestsHold ==
    ASSUME HydraTypes, HydraTypes', ClaimsHeld, Costing \subseteq Race, Clean'
    PROVE  /\ \A o \in Object : StartAgain(o) \/ StopHook(o) \/ SoftHook(o) => ClaimsHeld'
           /\ \A o \in Object, s \in {"running", "sleeping"} : SleepHook(o, s) => ClaimsHeld'
           /\ \A o \in Object, d \in Device : UsbAdd(o, d) \/ UsbRemove(o, d) => ClaimsHeld'
           /\ HibernateHook \/ Shutdown => ClaimsHeld'
<1>0. /\ th \in [Thread -> Work] /\ Disp \in Thread /\ Single(th[Disp].usb)
  BY DEF HydraTypes, Threads, Thread, ClaimsHeld, OneDevice
<1>u. ASSUME Requested, At(Disp, "idle"), \A u \in Thread \ {Disp} : th'[u] = th[u],
             Ordinary(Disp), Single(th'[Disp].usb)
      PROVE  ClaimsHeld'
  BY <1>0, <1>u, SparingSteps, OrdinaryKeeps DEF Requested, sharedVars, At
<1>1. ASSUME NEW o \in Object, StartAgain(o) PROVE ClaimsHeld'
  <2>1. Raced("again", TRUE) \subseteq history' /\ "again" \in Costing
    BY <1>1 DEF StartAgain, Costing
  <2> QED
    BY <2>1, Uncosted
<1>2. ASSUME NEW o \in Object, StopHook(o) \/ SoftHook(o) PROVE ClaimsHeld'
  <2>1. /\ th'[Disp].usb = th[Disp].usb
        /\ \A u \in Thread \ {Disp} : th'[u] = th[u]
    BY <1>0, <1>2 DEF StopHook, SoftHook, Begin, BeginStop, Work
  <2> QED
    BY <1>0, <1>u, <1>2, <2>1, RequestsCalm DEF StopHook, SoftHook, Asked
<1>3. ASSUME NEW o \in Object, NEW s \in {"running", "sleeping"}, SleepHook(o, s)
      PROVE  ClaimsHeld'
  <2>1. /\ th'[Disp].usb = th[Disp].usb
        /\ \A u \in Thread \ {Disp} : th'[u] = th[u]
    BY <1>0, <1>3 DEF SleepHook, Work
  <2>2. Ordinary(Disp)
    BY <1>3, RequestsCalm
  <2> QED
    BY <1>0, <1>u, <1>3, <2>1, <2>2 DEF SleepHook, Asked
<1>4. ASSUME NEW o \in Object, NEW d \in Device, UsbAdd(o, d) \/ UsbRemove(o, d)
      PROVE  ClaimsHeld'
  <2>1. /\ th'[Disp].usb = {d}
        /\ \A u \in Thread \ {Disp} : th'[u] = th[u]
    BY <1>0, <1>4 DEF UsbAdd, UsbRemove, Work
  <2>2. Ordinary(Disp) /\ Single(th'[Disp].usb)
    BY <1>4, <2>1, RequestsCalm DEF Single
  <2> QED
    BY <1>u, <1>4, <2>1, <2>2 DEF UsbAdd, UsbRemove, Asked
<1>5. ASSUME HibernateHook PROVE ClaimsHeld'
  <2>1. /\ th'[Disp].usb = {}
        /\ \A u \in Thread \ {Disp} : th'[u] = th[u]
    BY <1>0, <1>5 DEF HibernateHook, Resting
  <2>2. Ordinary(Disp) /\ Single(th'[Disp].usb)
    BY <1>5, <2>1, RequestsCalm DEF Single
  <2> QED
    BY <1>u, <1>5, <2>1, <2>2 DEF HibernateHook
<1>6. ASSUME Shutdown PROVE ClaimsHeld'
  BY <1>0, <1>6, BeginningKeeps DEF Shutdown, At, sharedVars
<1> QED
  BY <1>1, <1>2, <1>3, <1>4, <1>5, <1>6

\* a new VM, which claims nothing yet,
LEMMA NewHolds ==
    ASSUME HydraTypes, HydraTypes', ClaimsHeld, NEW v \in Vmid, StartNew(v)
    PROVE  ClaimsHeld'
<1>1. PICK o \in Object : /\ Free(o)
                          /\ vm' = [vm EXCEPT ![o] = New(v)]
                          /\ th' = [th EXCEPT ![Disp].at = IF running THEN "build" ELSE "boot",
                                              ![Disp].vm = o, ![Disp].call = "new"]
  BY DEF StartNew
<1>2. /\ th \in [Thread -> Work] /\ Thread = {Disp, Exec} /\ Disp # Exec
      /\ vm \in [Object -> Machine] /\ pages \subseteq Vmid /\ taps \subseteq Vmid
      /\ \A k \in Listed : k \in Object /\ k # o
      /\ \A w \in Vmid : vms[w] # None => vms[w] \in Listed
      /\ Listed' = Listed /\ Me(Exec) # o
      /\ UNCHANGED <<vms, owner, pages, taps>> /\ At(Disp, "idle")
  <2>1. UNCHANGED <<vms, owner, pages, taps>> /\ At(Disp, "idle")
    BY DEF StartNew, sharedVars
  <2> QED
    BY <1>1, <2>1, HydraAssumption DEF HydraTypes, Machines, Threads, Thread, Lists, Listed, Free,
       Claims
<1>3. /\ th'[Disp].at \in {"build", "boot"} /\ th'[Disp].call = "new"
      /\ th'[Disp].usb = th[Disp].usb /\ th'[Exec] = th[Exec]
  BY <1>1, <1>2 DEF Work
<1>4. vm'[o].usb = {} /\ \A k \in Object \ {o} : vm'[k] = vm[k]
  BY <1>1, <1>2 DEF New
<1>5. \A k \in Object : ~Claiming(k) /\ ~Poised(k)
  BY <1>2 DEF Claiming, Poised, At
<1>6. Reserved' /\ Tapped'
  BY <1>2, <1>4, <1>5 DEF ClaimsHeld, Reserved, Tapped
<1>7. Owned' /\ StoppedBare'
  BY <1>2, <1>4 DEF ClaimsHeld, Owned, StoppedBare
<1>8. EndsBare'
  <2>1. At(Exec, "end") => Me(Exec) \in Object \ {o}
    BY <1>2 DEF HydraTypes, Threads, ExecWork, Working, At, Me
  <2> QED
    BY <1>2, <1>3, <1>4, <2>1 DEF ClaimsHeld, EndsBare, At, Me
<1>9. OneDevice'
  BY <1>2, <1>3, <1>4 DEF ClaimsHeld, OneDevice, Single
<1>10. Gives(Exec) => Gives(Exec)'
  BY <1>2, <1>3, <1>4 DEF Gives, Me
<1>11. AllGiven'
  BY <1>2, <1>3, <1>10 DEF ClaimsHeld, AllGiven, At
<1> QED
  BY <1>6, <1>7, <1>8, <1>9, <1>11 DEF ClaimsHeld

\* _stop() removes the interfaces of the VM by its id, which is not started anew meanwhile,
LEMMA KillHolds ==
    ASSUME HydraTypes, HydraTypes', InOrder, ClaimsHeld, NEW t \in Thread, Kill(t)
    PROVE  ClaimsHeld'
<1>1. PICK o \in Object :
        /\ o = Me(t) /\ At(t, "kill")
        /\ taps' = IF vm[o].adapters THEN taps \ {vm[o].id} ELSE taps
        /\ vm' = [vm EXCEPT ![o] = [vm[o] EXCEPT !.proc = None, !.adapters = FALSE,
                                                 !.timer = FALSE]]
        /\ th' = [th EXCEPT ![t] = [th[t] EXCEPT !.at = "end", !.usb = vm[o].usb]]
        /\ UNCHANGED <<vms, owner, pages>>
  <2>1. Me(t) \in Object /\ vm \in [Object -> Machine] /\ th \in [Thread -> Work]
    BY DEF HydraTypes, Machines, Threads, Thread, DispWork, ExecWork, Working, Kill, At, Me
  <2> QED
    BY <2>1 DEF Kill
<1>2. /\ th \in [Thread -> Work] /\ Thread = {Disp, Exec} /\ Disp # Exec
      /\ vm \in [Object -> Machine] /\ pages \subseteq Vmid /\ taps \subseteq Vmid
      /\ \A k \in Listed : k \in Object
      /\ \A v \in Vmid : vms[v] # None => vms[v] \in Object /\ vm[vms[v]].id = v
      /\ Listed' = Listed
  BY <1>1, HydraAssumption DEF HydraTypes, Machines, Threads, Thread, Lists, Listed, Claims
<1>3. /\ th'[t].at = "end" /\ th'[t].usb = vm[o].usb /\ th'[t].vm = o
      /\ th'[t].call = th[t].call /\ th'[t].todo = th[t].todo
      /\ \A u \in Thread \ {t} : th'[u] = th[u]
  BY <1>1, <1>2 DEF Work, Me
<1>4. /\ \A k \in Object : vm'[k].id = vm[k].id /\ vm'[k].usb = vm[k].usb /\ vm'[k].state = vm[k].state
      /\ \A k \in Object \ {o} : vm'[k] = vm[k]
      /\ ~vm'[o].adapters /\ taps' \subseteq taps
  BY <1>1, <1>2 DEF Machine
<1>5. \A k \in Object : (Claiming(k) => Claiming(k)') /\ (Poised(k) => Poised(k)' /\ k # o)
  <2>1. CASE t = Disp
    BY <1>1, <2>1 DEF Claiming, Poised, At
  <2>2. CASE t = Exec
    <3>1. th'[Disp] = th[Disp]
      BY <1>2, <1>3, <2>2
    <3>2. \A k : Poised(k) => k # o
      BY <1>1, <2>2 DEF InOrder, NewApart, NewVM, Starting, StartPlace, Poised
    <3> QED
      BY <3>1, <3>2 DEF Claiming, Poised, Me
  <2> QED
    BY <1>2, <2>1, <2>2
<1>6. Reserved'
  BY <1>1, <1>2, <1>4, <1>5 DEF ClaimsHeld, Reserved
<1>7. Tapped'
  <2> SUFFICES ASSUME NEW v \in taps'
               PROVE  \/ vms'[v] # None /\ vm'[vms'[v]].adapters
                      \/ \E k \in Object : Poised(k)' /\ vm'[k].id = v /\ vm'[k].adapters
    BY DEF Tapped
  <2>1. CASE vms[v] # None /\ vm[vms[v]].adapters
    BY <1>1, <1>2, <1>4, <2>1
  <2>2. CASE \E k \in Object : Poised(k) /\ vm[k].id = v /\ vm[k].adapters
    BY <1>4, <1>5, <2>2
  <2> QED
    BY <1>4, <2>1, <2>2 DEF ClaimsHeld, Tapped
<1>8. Owned' /\ StoppedBare'
  BY <1>1, <1>2, <1>4 DEF ClaimsHeld, Owned, StoppedBare
<1>9. EndsBare'
  <2> SUFFICES ASSUME NEW u \in Thread, th'[u].at = "end"
               PROVE  ~vm'[th'[u].vm].adapters /\ vm'[th'[u].vm].usb \subseteq th'[u].usb
    BY DEF EndsBare, At, Me
  <2>1. CASE u = t
    BY <1>3, <1>4, <2>1
  <2>2. CASE u # t
    <3>1. th[u].at = "end" /\ th[u].vm \in Object /\ th'[u] = th[u]
      BY <1>2, <1>3, <2>2 DEF HydraTypes, Threads, DispWork, ExecWork, Working
    <3> QED
      BY <1>4, <3>1 DEF ClaimsHeld, EndsBare, At, Me
  <2> QED
    BY <2>1, <2>2
<1>10. OneDevice'
  BY <1>3, <1>4 DEF ClaimsHeld, OneDevice, Single
<1>11. AllGiven'
  <2>1. ASSUME NEW u \in Thread, Gives(u) PROVE Gives(u)'
    BY <1>1, <1>2, <1>3, <1>4, <2>1 DEF Gives, At, Me
  <2> QED
    BY <1>1, <1>2, <1>3, <2>1 DEF ClaimsHeld, AllGiven, At
<1> QED
  BY <1>6, <1>7, <1>8, <1>9, <1>10, <1>11 DEF ClaimsHeld

\* del self._usb[k], manager._usb[k]: what stays registered is held, whether that raises or not.
LEMMA Forgetting ==
    ASSUME HydraTypes, ClaimsHeld, NEW t \in Thread, Me(t) \in Object, owner' = Forgotten(t),
           Listed' = Listed,
           \A k \in Object : vm'[k].id = vm[k].id /\ (k # Me(t) => vm'[k].usb = vm[k].usb),
           vm[Me(t)].usb \ th[t].usb \subseteq vm'[Me(t)].usb
    PROVE  Owned'
<1> SUFFICES ASSUME NEW d \in Device, owner'[d] # None
             PROVE  \E k \in Listed : vm'[k].id = owner'[d] /\ d \in vm'[k].usb
  BY DEF Owned
<1>0. owner \in [Device -> Vmid \cup {None}] /\ \A k \in Listed : k \in Object
  BY DEF HydraTypes, Claims, Lists, Listed
<1>1. owner'[d] = owner[d] /\ (Mine(t) => d \notin th[t].usb)
  BY <1>0 DEF Forgotten
<1>2. PICK k \in Listed : vm[k].id = owner[d] /\ d \in vm[k].usb
  BY <1>1 DEF ClaimsHeld, Owned
<1>3. k = Me(t) => d \notin th[t].usb
  <2> SUFFICES ASSUME k = Me(t), d \in th[t].usb PROVE FALSE
    OBVIOUS
  <2>1. PICK e \in th[t].usb : e \notin vm[k].usb
    BY <1>1 DEF Mine
  <2>2. d = e
    BY DEF ClaimsHeld, OneDevice, Single
  <2> QED
    BY <1>2, <2>1, <2>2
<1>4. vm'[k].id = vm[k].id /\ d \in vm'[k].usb
  BY <1>0, <1>2, <1>3
<1> QED
  BY <1>1, <1>2, <1>4

\* Where a thread goes from the end of _stop().
LEMMA EndGoes ==
    ASSUME HydraTypes, NEW t \in Thread, StopEnd(t)
    PROVE  /\ \A u \in Thread \ {t} : th'[u] = th[u]
           /\ th'[t].at \notin {"end", "down"} /\ th'[t].usb \in {th[t].usb, {}}
           /\ \/ th'[t].call # "all" \/ th'[t].at = "ended"
              \/ ~Raises(t) /\ th[t].call = "all" /\ th'[t].todo = th[t].todo
<1>0. th \in [Thread -> Work] /\ (t = Exec => th[t].next # "ended")
  BY DEF HydraTypes, Threads, ExecWork
<1>d. Done(t).at \in {"idle", "timers"} /\ Done(t).call = "hook" /\ Done(t).usb = {}
  BY DEF Done, Resting
<1>1. CASE Return(t) /\ ~Raises(t)
  <2>1. th' = [th EXCEPT ![t] = CASE th[t].call = "visit" -> [th[t] EXCEPT !.at = "drop"]
                                  [] th[t].call = "all" -> [th[t] EXCEPT !.at = "all"]
                                  [] OTHER -> Done(t)]
    BY <1>0, <1>1 DEF Return
  <2>2. \/ th[t].call = "visit" /\ th' = [th EXCEPT ![t] = [th[t] EXCEPT !.at = "drop"]]
        \/ th[t].call = "all" /\ th' = [th EXCEPT ![t] = [th[t] EXCEPT !.at = "all"]]
        \/ th' = [th EXCEPT ![t] = Done(t)]
    BY <2>1
  <2> QED
    BY <1>0, <1>1, <1>d, <2>2 DEF Work
<1>2. CASE Raise(t)
  <2>1. \/ th[t].call = "timer" /\ th' = [th EXCEPT ![t] = [th[t] EXCEPT !.at = "dead"]]
        \/ th' = [th EXCEPT ![t] = [th[t] EXCEPT !.at = "ended"]]
        \/ th' = [th EXCEPT ![t] = Done(t)]
    BY <1>0, <1>2 DEF Raise, Goto, Rest
  <2> QED
    BY <1>0, <1>d, <2>1 DEF Work
<1> QED
  BY <1>1, <1>2 DEF StopEnd

\* gives its devices and its memory back by its id, which no other VM claims,
LEMMA StopEndHolds ==
    ASSUME Costing \subseteq Race, Clean', HydraTypes, HydraTypes', InOrder, ClaimsHeld,
           NEW t \in Thread, StopEnd(t)
    PROVE  ClaimsHeld'
<1>1. PICK o \in Object : o = Me(t) /\ At(t, "end")
  BY DEF StopEnd, HydraTypes, Threads, Thread, DispWork, ExecWork, Working, At, Me
<1>2. /\ th \in [Thread -> Work] /\ Thread = {Disp, Exec} /\ Disp # Exec
      /\ vm \in [Object -> Machine] /\ pages \subseteq Vmid /\ taps \subseteq Vmid
      /\ \A k \in Listed : k \in Object /\ vms[vm[k].id] = k
      /\ \A v \in Vmid : vms[v] # None => vms[v] \in Object /\ vms[v] \in Listed /\ vm[vms[v]].id = v
      /\ Listed' = Listed /\ UNCHANGED <<vms, taps>>
  BY HydraAssumption DEF HydraTypes, Machines, Threads, Thread, Lists, Listed, Claims, StopEnd
<1>3. /\ \A u \in Thread \ {t} : th'[u] = th[u]
      /\ th'[t].at \notin {"end", "down"} /\ th'[t].usb \in {th[t].usb, {}}
      /\ \/ th'[t].call # "all" \/ th'[t].at = "ended"
         \/ ~Raises(t) /\ th[t].call = "all" /\ th'[t].todo = th[t].todo
  BY EndGoes
<1>4. PICK m :
        /\ vm' = [vm EXCEPT ![o] = m]
        /\ m.id = vm[o].id /\ m.adapters = vm[o].adapters
        /\ \/ ~Raises(t) /\ pages' = pages \ {vm[o].id} /\ m.usb = {}
           \/ /\ Raises(t) /\ pages' = pages
              /\ m.state = vm[o].state /\ m.usb = vm[o].usb \ th[t].usb
  <2>0. vm[o] \in Machine
    BY <1>2
  <2>1. CASE ~Raises(t)
    <3> DEFINE n == [vm[o] EXCEPT !.usb = {}, !.state = "stopped"]
    <3>0. ~(Raced("kept", TRUE) \subseteq history')
      BY Uncosted DEF Costing
    <3>1. vm' = [vm EXCEPT ![o] = n] /\ pages' = pages \ {vm[o].id}
      BY <1>1, <1>2, <2>1, <3>0 DEF StopEnd
    <3>2. n.id = vm[o].id /\ n.adapters = vm[o].adapters /\ n.usb = {}
      BY <2>0 DEF Machine
    <3> QED
      BY <2>1, <3>1, <3>2
  <2>2. CASE Raises(t)
    <3> DEFINE n == [vm[o] EXCEPT !.usb = @ \ th[t].usb]
    <3>1. vm' = [vm EXCEPT ![o] = n] /\ pages' = pages
      BY <1>1, <1>2, <2>2 DEF StopEnd
    <3>2. /\ n.id = vm[o].id /\ n.adapters = vm[o].adapters /\ n.state = vm[o].state
          /\ n.usb = vm[o].usb \ th[t].usb
      BY <2>0 DEF Machine
    <3> QED
      BY <2>2, <3>1, <3>2
  <2> QED
    BY <2>1, <2>2
<1>5. /\ \A k \in Object : /\ vm'[k].id = vm[k].id /\ vm'[k].adapters = vm[k].adapters
                           /\ vm'[k].usb \subseteq vm[k].usb
      /\ \A k \in Object \ {o} : vm'[k] = vm[k]
      /\ pages' \subseteq pages
  BY <1>2, <1>4
<1>6. \/ ~Raises(t) /\ pages' = pages \ {vm[o].id} /\ vm'[o].usb = {}
      \/ Raises(t) /\ pages' = pages /\ vm'[o].state = vm[o].state
           /\ vm'[o].usb = vm[o].usb \ th[t].usb
  BY <1>2, <1>4
<1>7. ~vm[o].adapters /\ vm[o].usb \subseteq th[t].usb
  BY <1>1 DEF ClaimsHeld, EndsBare
<1>8. /\ \A k \in Object : (Claiming(k) => Claiming(k)') /\ (Poised(k) => Poised(k)')
      /\ th[t].call = "all" => \A k \in Object : ~Poised(k)
  <2>1. CASE t = Disp
    BY <1>1, <2>1 DEF Claiming, Poised, At
  <2>2. CASE t = Exec
    <3>1. th'[Disp] = th[Disp]
      BY <1>2, <1>3, <2>2
    <3>2. th[t].call = "all" => ~Starting
      BY <2>2 DEF InOrder, ShuttingDown
    <3> QED
      BY <3>1, <3>2 DEF Claiming, Poised, Me, Starting, StartPlace
  <2> QED
    BY <1>2, <2>1, <2>2
<1>9. Reserved'
  <2> SUFFICES ASSUME NEW v \in pages'
               PROVE  \/ vms[v] # None /\ vm'[vms[v]].state # "stopped"
                      \/ \E k \in Object : Claiming(k)' /\ vm'[k].id = v
    BY <1>2 DEF Reserved
  <2>1. CASE vms[v] # None /\ vm[vms[v]].state # "stopped"
    BY <1>2, <1>5, <1>6, <2>1
  <2>2. CASE \E k \in Object : Claiming(k) /\ vm[k].id = v
    BY <1>5, <1>8, <2>2
  <2> QED
    BY <1>5, <2>1, <2>2 DEF ClaimsHeld, Reserved
<1>10. Tapped'
  BY <1>2, <1>5, <1>8 DEF ClaimsHeld, Tapped
<1>11. Owned'
  <2>1. owner' = Forgotten(t)
    BY DEF StopEnd
  <2>2. vm[o].usb \ th[t].usb \subseteq vm'[o].usb
    BY <1>6, <1>7
  <2> QED
    BY <1>1, <1>2, <1>5, <2>1, <2>2, Forgetting
<1>12. StoppedBare'
  <2>1. vm'[o].usb = {}
    BY <1>6, <1>7
  <2> QED
    BY <1>2, <1>5, <1>7, <2>1 DEF ClaimsHeld, StoppedBare
<1>13. EndsBare'
  <2> SUFFICES ASSUME NEW u \in Thread, th'[u].at = "end"
               PROVE  ~vm'[th'[u].vm].adapters /\ vm'[th'[u].vm].usb \subseteq th'[u].usb
    BY DEF EndsBare, At, Me
  <2>1. th[u].at = "end" /\ th'[u] = th[u]
    BY <1>3
  <2>2. th[u].vm \in Object
    BY <1>2, <2>1 DEF HydraTypes, Threads, DispWork, ExecWork, Working
  <2> QED
    BY <1>5, <2>1, <2>2 DEF ClaimsHeld, EndsBare, At, Me
<1>14. OneDevice'
  <2>1. \A k \in Object : Single(vm'[k].usb)
    BY <1>5 DEF ClaimsHeld, OneDevice, Single
  <2>2. \A u \in Thread : Single(th'[u].usb)
    BY <1>3 DEF ClaimsHeld, OneDevice, Single
  <2> QED
    BY <2>1, <2>2 DEF OneDevice
<1>15. AllGiven'
  <2>1. ASSUME ~Raises(t), th[t].call = "all", th'[t].todo = th[t].todo, Gives(t) PROVE Gives(t)'
    <3> SUFFICES ASSUME NEW v \in pages' \cup taps
                 PROVE  \E k \in Listed : vm'[k].id = v /\ k \in th'[t].todo
      BY <1>2 DEF Gives
    <3>1. PICK k \in Listed : vm[k].id = v /\ (k \in th[t].todo \/ k = o)
      BY <1>1, <1>5, <2>1 DEF Gives
    <3>2. CASE k # o
      BY <1>2, <1>5, <2>1, <3>1, <3>2
    <3>3. CASE k = o
      <4>1. v \in taps /\ vms[v] = o
        BY <1>2, <1>6, <2>1, <3>1, <3>3
      <4> QED
        BY <1>7, <1>8, <2>1, <4>1 DEF ClaimsHeld, Tapped
    <3> QED
      BY <3>2, <3>3
  <2>2. ASSUME NEW u \in Thread \ {t}, Gives(u) PROVE Gives(u)'
    BY <1>2, <1>3, <1>5, <2>2 DEF Gives, Me
  <2> QED
    BY <1>1, <1>2, <1>3, <2>1, <2>2 DEF ClaimsHeld, AllGiven, At
<1> QED
  BY <1>9, <1>10, <1>11, <1>12, <1>13, <1>14, <1>15 DEF ClaimsHeld

\* A VM that is listed and stopped has given back what belongs to its id.
LEMMA StoppedGave ==
    ASSUME HydraTypes, InOrder, ClaimsHeld, NEW o \in Listed, vm[o].state = "stopped"
    PROVE  vm[o].id \notin pages \cup taps
<1>1. vms[vm[o].id] = o
  BY DEF HydraTypes, Lists, Listed
<1>2. \A k \in Object : Claiming(k) \/ Poised(k) => vm[k].id # vm[o].id
  BY <1>1, HydraAssumption DEF InOrder, NewApart, NewVM, Starting, StartPlace, Claiming, Poised,
     Listed
<1> QED
  BY <1>1, <1>2 DEF ClaimsHeld, Reserved, Tapped, StoppedBare

\* The steps of HydraServer.stop().
LEMMA StopAllHolds ==
    ASSUME HydraTypes, HydraTypes', InOrder, ClaimsHeld, NEW t \in Thread, StopAll(t)
    PROVE  ClaimsHeld'
<1>0. /\ th \in [Thread -> Work] /\ Thread = {Disp, Exec} /\ Disp # Exec
      /\ \A k \in Listed : k \in Object /\ vms[vm[k].id] = k
      /\ vms \in [Vmid -> Object \cup {None}]
      /\ th[t].at \in Stopping => th[t].call = "all"
      /\ Single(th[t].usb) /\ UNCHANGED <<vm, pages, taps>> /\ Spares
  <2>1. /\ th \in [Thread -> Work] /\ Thread = {Disp, Exec} /\ Disp # Exec
        /\ \A k \in Listed : k \in Object /\ vms[vm[k].id] = k
        /\ vms \in [Vmid -> Object \cup {None}]
    BY HydraAssumption DEF HydraTypes, Threads, Thread, Lists, Listed
  <2>2. th[t].at \in Stopping => th[t].call = "all"
    BY <2>1 DEF HydraTypes, Threads, DispWork, ExecWork
  <2>3. UNCHANGED <<vm, pages, taps>>
    BY DEF StopAll, StopNext, StopClear, StopDown, sharedVars
  <2> QED
    BY <2>1, <2>2, <2>3, SparingSteps DEF ClaimsHeld, OneDevice
<1>1. CASE StopNext(t)
  <2>1. th[t].at = "all" /\ Gives(t) /\ UNCHANGED <<vms, owner>> /\ Listed' = Listed
    <3>1. th[t].at = "all" /\ UNCHANGED <<vms, owner>>
      BY <1>1 DEF StopNext, At, sharedVars
    <3>2. Gives(t)
      BY <1>0, <3>1 DEF Stopping, ClaimsHeld, AllGiven, At
    <3> QED
      BY <3>1, <3>2 DEF Listed
  <2>2. \A o \in Object : (Claiming(o) => Claiming(o)') /\ (Poised(o) => Poised(o)')
    <3>1. CASE t = Disp
      BY <2>1, <3>1 DEF Claiming, Poised
    <3>2. CASE t = Exec
      BY <1>0, <1>1, <3>2 DEF StopNext, Goto, Claiming, Poised, Me
    <3> QED
      BY <1>0, <3>1, <3>2
  <2>3. CASE \E o \in th[t].todo :
               th' = [th EXCEPT ![t].todo = @ \ {o}, ![t].vm = o,
                                ![t].at = IF Stops(o) THEN "kill" ELSE "all"]
    <3>1. PICK o \in th[t].todo :
               th' = [th EXCEPT ![t].todo = @ \ {o}, ![t].vm = o,
                                ![t].at = IF Stops(o) THEN "kill" ELSE "all"]
      BY <2>3
    <3>2. /\ th'[t].todo = th[t].todo \ {o} /\ th'[t].vm = o /\ th'[t].usb = th[t].usb
          /\ th'[t].at = IF vm[o].state # "stopped" THEN "kill" ELSE "all"
          /\ \A u \in Thread \ {t} : th'[u] = th[u]
      BY <1>0, <3>1 DEF Work, Stops
    <3>3. Gives(t)'
      <4> SUFFICES ASSUME NEW v \in pages \cup taps
                   PROVE  \E k \in Listed : /\ vm[k].id = v
                                            /\ k \in th'[t].todo \/ (th'[t].at = "kill" /\ k = o)
        BY <1>0, <2>1, <3>2 DEF Gives, Me
      <4>1. PICK k \in Listed : vm[k].id = v /\ k \in th[t].todo
        BY <2>1 DEF Gives
      <4>2. vm[k].state # "stopped"
        BY <4>1, StoppedGave
      <4> QED
        BY <3>2, <4>1, <4>2
    <3> QED
      BY <1>0, <2>1, <2>2, <3>2, <3>3, SparingKeeps
  <2>4. CASE th[t].todo = {} /\ Goto(t, "clear")
    <3>1. /\ th'[t].at = "clear" /\ th'[t].usb = th[t].usb
          /\ \A u \in Thread \ {t} : th'[u] = th[u]
      BY <1>0, <2>4 DEF Goto, Work
    <3>2. Gives(t)'
      <4>1. pages \cup taps = {}
        BY <2>1, <2>4 DEF Gives
      <4> QED
        BY <1>0, <4>1 DEF Gives
    <3> QED
      BY <1>0, <2>1, <2>2, <3>1, <3>2, SparingKeeps
  <2> QED
    BY <1>1, <2>3, <2>4 DEF StopNext
<1>2. CASE StopClear(t)
  <2>1. pages \cup taps = {}
    <3>1. th[t].at = "clear" /\ th[t].call = "all" /\ Gives(t)
      BY <1>0, <1>2 DEF StopClear, At, Stopping, ClaimsHeld, AllGiven
    <3>2. th[t].todo = {}
      BY <3>1 DEF InOrder, AllSwept, Sweeps, At
    <3> QED
      BY <3>1, <3>2 DEF Gives
  <2>2. Listed' = {} /\ \A d \in Device : owner'[d] = None
    BY <1>2 DEF StopClear, Listed
  <2>3. /\ th'[t].at = "down" /\ th'[t].usb = th[t].usb
        /\ \A u \in Thread \ {t} : th'[u] = th[u]
    BY <1>0, <1>2 DEF StopClear, Goto, Work
  <2>4. Reserved' /\ Tapped' /\ Owned' /\ StoppedBare'
    BY <1>0, <2>1, <2>2 DEF Reserved, Tapped, Owned, StoppedBare
  <2>5. EndsBare' /\ OneDevice'
    BY <1>0, <2>3 DEF ClaimsHeld, EndsBare, OneDevice, At, Me
  <2>6. AllGiven'
    BY <1>0, <2>1, <2>2 DEF AllGiven, Gives
  <2> QED
    BY <2>4, <2>5, <2>6 DEF ClaimsHeld
<1>3. CASE StopDown(t)
  <2>1. th[t].at = "down" /\ Listed = {} /\ UNCHANGED owner
    BY <1>3 DEF StopDown, At, ClaimsHeld, AllGiven
  <2>2. UNCHANGED vms
    BY <1>0, <1>3, <2>1 DEF StopDown, Listed
  <2>3. /\ \A u \in Thread \ {t} : th'[u] = th[u]
        /\ \/ th'[t].at \in {"build", "idle", "timers"} /\ th'[t].call # "all" /\ th'[t].usb = {}
           \/ th'[t].at = "ended" /\ th'[t].usb = th[t].usb
    <3>1. CASE th[t].new # None
      BY <1>0, <1>3, <3>1 DEF StopDown, Building, Resting
    <3>2. CASE th[t].new = None /\ th[t].next = "ended"
      BY <1>0, <1>3, <3>2 DEF StopDown, Work
    <3>3. CASE th[t].new = None /\ th[t].next # "ended"
      BY <1>0, <1>3, <3>3 DEF StopDown, Done, Resting
    <3> QED
      BY <3>1, <3>2, <3>3
  <2>4. Ordinary(t) /\ Single(th'[t].usb)
    BY <1>0, <2>3 DEF Ordinary, Single
  <2> QED
    BY <1>0, <2>1, <2>2, <2>3, <2>4, OrdinaryKeeps
<1> QED
  BY <1>1, <1>2, <1>3 DEF StopAll

\* A device is taken away from a VM.
LEMMA ForgetHolds ==
    ASSUME HydraTypes, HydraTypes', ClaimsHeld, UsbForget
    PROVE  ClaimsHeld'
<1>1. PICK o \in Object : o = Me(Disp)
  BY DEF UsbForget, HydraTypes, Threads, DispWork, Working, At, Me
<1>2. /\ th \in [Thread -> Work] /\ Thread = {Disp, Exec} /\ Disp # Exec
      /\ vm \in [Object -> Machine] /\ pages \subseteq Vmid /\ taps \subseteq Vmid
      /\ \A k \in Listed : k \in Object
      /\ \A v \in Vmid : vms[v] # None => vms[v] \in Object
      /\ UNCHANGED <<vms, pages, taps>> /\ At(Disp, "usbdel") /\ Listed' = Listed
  BY HydraAssumption DEF HydraTypes, Machines, Threads, Thread, Lists, Listed, Claims, UsbForget
<1>3. /\ \A k \in Object : /\ vm'[k].id = vm[k].id /\ vm'[k].adapters = vm[k].adapters
                           /\ vm'[k].state = vm[k].state /\ vm'[k].usb \subseteq vm[k].usb
      /\ \A k \in Object \ {o} : vm'[k] = vm[k]
      /\ vm'[o].usb = vm[o].usb \ th[Disp].usb
  <2>1. vm' = [vm EXCEPT ![o].usb = @ \ th[Disp].usb]
    BY <1>1 DEF UsbForget, DroppedBy
  <2> QED
    BY <1>2, <2>1 DEF Machine
<1>4. th'[Exec] = th[Exec] /\ th'[Disp].at = "idle" /\ th'[Disp].usb = {} /\ th'[Disp].call = "hook"
  BY <1>2 DEF UsbForget, Rest, Done, Resting
<1>5. \A k \in Object : ~Claiming(k) /\ ~Poised(k)
  BY <1>2 DEF Claiming, Poised, At
<1>6. Reserved' /\ Tapped'
  BY <1>2, <1>3, <1>5 DEF ClaimsHeld, Reserved, Tapped
<1>7. Owned'
  <2>1. owner' = Forgotten(Disp) /\ Me(Disp) \in Object /\ Disp \in Thread
    BY <1>1, <1>2 DEF UsbForget
  <2>2. vm[Me(Disp)].usb \ th[Disp].usb \subseteq vm'[Me(Disp)].usb
    BY <1>1, <1>3
  <2>3. \A k \in Object : vm'[k].id = vm[k].id /\ (k # Me(Disp) => vm'[k].usb = vm[k].usb)
    BY <1>1, <1>3
  <2> QED
    BY <1>2, <2>1, <2>2, <2>3, Forgetting
<1>8. StoppedBare'
  BY <1>2, <1>3 DEF ClaimsHeld, StoppedBare
<1>9. EndsBare'
  <2>1. At(Exec, "end") => Me(Exec) \in Object
    BY DEF HydraTypes, Threads, ExecWork, Working, At, Me
  <2> QED
    BY <1>2, <1>3, <1>4, <2>1 DEF ClaimsHeld, EndsBare, At, Me
<1>10. OneDevice'
  BY <1>2, <1>3, <1>4 DEF ClaimsHeld, OneDevice, Single
<1>11. AllGiven'
  <2>1. Gives(Exec) => Gives(Exec)'
    BY <1>2, <1>3, <1>4 DEF Gives, Me
  <2> QED
    BY <1>2, <1>4, <2>1 DEF ClaimsHeld, AllGiven, At
<1> QED
  BY <1>6, <1>7, <1>8, <1>9, <1>10, <1>11 DEF ClaimsHeld

\* A device is given to a VM that runs, and is not being stopped: else it comes too late.
LEMMA SetHolds ==
    ASSUME HydraTypes, HydraTypes', InOrder, AddsAlone, ClaimsHeld, Costing \subseteq Race, Clean',
           UsbSet
    PROVE  ClaimsHeld'
<1>1. PICK o \in Object, ds \in SUBSET Device : o = Me(Disp) /\ ds = th[Disp].usb
  BY DEF UsbSet, HydraTypes, Threads, Thread, Work, DispWork, Working, At, Me
<1>2. /\ th \in [Thread -> Work] /\ Thread = {Disp, Exec} /\ Disp # Exec
      /\ vm \in [Object -> Machine] /\ pages \subseteq Vmid /\ taps \subseteq Vmid
      /\ \A k \in Listed : k \in Object
      /\ \A v \in Vmid : vms[v] # None => vms[v] \in Object
      /\ UNCHANGED <<vms, pages, taps>> /\ At(Disp, "usbadd") /\ Listed' = Listed
  BY HydraAssumption DEF HydraTypes, Machines, Threads, Thread, Lists, Listed, Claims, UsbSet
<1>3. Live(o) /\ Me(Exec) # o /\ th[Exec].call # "all"
  <2> DEFINE late == ~Live(Me(Disp)) \/ Me(Exec) = Me(Disp) \/ th[Exec].call = "all"
  <2>1. Raced("late", late) \subseteq history' /\ "late" \in Costing /\ late \in BOOLEAN
    BY DEF UsbSet, Costing, Live
  <2>2. ~late
    BY <2>1, Uncosted
  <2> QED
    BY <1>1, <2>2
<1>4. vm[o].usb = {}
  BY <1>1, <1>2 DEF AddsAlone
<1>5. /\ \A k \in Object : /\ vm'[k].id = vm[k].id /\ vm'[k].adapters = vm[k].adapters
                           /\ vm'[k].state = vm[k].state
      /\ \A k \in Object \ {o} : vm'[k] = vm[k]
      /\ vm'[o].usb = ds
  <2>1. vm' = [vm EXCEPT ![o].usb = @ \cup ds]
    BY <1>1 DEF UsbSet
  <2> QED
    BY <1>2, <1>4, <2>1 DEF Machine
<1>6. th'[Exec] = th[Exec] /\ th'[Disp].at = "idle" /\ th'[Disp].usb = {} /\ th'[Disp].call = "hook"
  BY <1>2 DEF UsbSet, Rest, Done, Resting
<1>7. \A k \in Object : ~Claiming(k) /\ ~Poised(k)
  BY <1>2 DEF Claiming, Poised, At
<1>8. o \in Listed /\ vm[o].state # "stopped"
  BY <1>3, <1>7 DEF InOrder, LiveListed, StoppedIdle
<1>9. Reserved' /\ Tapped'
  BY <1>2, <1>5, <1>7 DEF ClaimsHeld, Reserved, Tapped
<1>10. Owned'
  <2> SUFFICES ASSUME NEW d \in Device, owner'[d] # None
               PROVE  \E k \in Listed : vm'[k].id = owner'[d] /\ d \in vm'[k].usb
    BY <1>2 DEF Owned
  <2>1. owner'[d] = IF d \in ds THEN vm[o].id ELSE owner[d]
    BY <1>1 DEF UsbSet, OwnedBy
  <2>2. CASE d \in ds
    BY <1>5, <1>8, <2>1, <2>2
  <2>3. CASE d \notin ds
    <3>1. PICK k \in Listed : vm[k].id = owner[d] /\ d \in vm[k].usb
      BY <2>1, <2>3 DEF ClaimsHeld, Owned
    <3> QED
      BY <1>2, <1>4, <1>5, <2>1, <2>3, <3>1
  <2> QED
    BY <2>2, <2>3
<1>11. StoppedBare'
  BY <1>2, <1>5, <1>8 DEF ClaimsHeld, StoppedBare
<1>12. EndsBare'
  <2>1. At(Exec, "end") => Me(Exec) \in Object \ {o}
    BY <1>3 DEF HydraTypes, Threads, ExecWork, Working, At, Me
  <2> QED
    BY <1>2, <1>5, <1>6, <2>1 DEF ClaimsHeld, EndsBare, At, Me
<1>13. OneDevice'
  <2>1. Single(ds)
    BY <1>1, <1>2 DEF ClaimsHeld, OneDevice
  <2>2. \A k \in Object : Single(vm'[k].usb)
    BY <1>5, <2>1 DEF ClaimsHeld, OneDevice
  <2> QED
    BY <1>2, <1>6, <2>2 DEF ClaimsHeld, OneDevice, Single
<1>14. AllGiven'
  BY <1>2, <1>3, <1>6 DEF ClaimsHeld, AllGiven, At, HydraTypes, Threads, ExecWork, Stopping
<1> QED
  BY <1>9, <1>10, <1>11, <1>12, <1>13, <1>14 DEF ClaimsHeld

\* The executer takes a stopped VM off the list.
LEMMA DropHolds ==
    ASSUME HydraTypes, HydraTypes', InOrder, ClaimsHeld, Drop
    PROVE  ClaimsHeld'
<1>1. PICK o \in Object : o = Me(Exec)
  BY DEF Drop, HydraTypes, Threads, ExecWork, Working, At, Me
<1>2. /\ th \in [Thread -> Work] /\ Thread = {Disp, Exec} /\ Disp # Exec /\ o # None
      /\ vm \in [Object -> Machine] /\ pages \subseteq Vmid /\ taps \subseteq Vmid
      /\ \A k \in Listed : k \in Object /\ vms[vm[k].id] = k
      /\ \A v \in Vmid : vms[v] # None => vms[v] \in Object /\ vms[v] \in Listed /\ vm[vms[v]].id = v
      /\ vms \in [Vmid -> Object \cup {None}]
  BY HydraAssumption DEF HydraTypes, Machines, Threads, Thread, Lists, Listed, Claims
<1>3. At(Exec, "drop") /\ UNCHANGED <<vm, owner, pages, taps>>
  BY DEF Drop
<1>4. vms[vm[o].id] \in {None, o} /\ th[Exec].call = "visit"
  <2>1. th[Exec].call = "visit"
    BY <1>3 DEF HydraTypes, Threads, ExecWork, At
  <2> QED
    BY <1>1, <1>3, <2>1 DEF InOrder, VisitsApart, Visiting, At
<1>5. th'[Disp] = th[Disp] /\ th'[Exec].usb \in {th[Exec].usb, {}}
  BY <1>2 DEF Drop, Goto, Rest, Done, Resting, Work
<1>6. Ordinary(Exec)
  BY ExecOrdinary
<1>7. Single(th[Exec].usb) /\ Single(th'[Exec].usb)
  BY <1>2, <1>5 DEF ClaimsHeld, OneDevice, Single
<1>8. CASE UNCHANGED vms
  BY <1>2, <1>3, <1>5, <1>6, <1>7, <1>8, SparingSteps, OrdinaryKeeps
<1>9. CASE vms[vm[o].id] = o /\ vm[o].state = "stopped" /\ vms' = [vms EXCEPT ![vm[o].id] = None]
  <2>1. o \in Listed /\ vm[o].id \notin pages \cup taps
    <3>1. vm[o].id \in Vmid
      BY <1>2 DEF Machine
    <3> QED
      BY <1>2, <1>9, <3>1, StoppedGave DEF Listed
  <2>2. /\ \A v \in Vmid : v # vm[o].id => vms'[v] = vms[v]
        /\ Listed' \subseteq Listed /\ \A k \in Listed : k \in Listed' \/ k = o
    BY <1>2, <1>9 DEF Listed
  <2>3. Reserved' /\ Tapped'
    BY <1>2, <1>3, <1>5, <2>1, <2>2 DEF ClaimsHeld, Reserved, Tapped, Claiming, Poised, Me
  <2>4. Owned'
    <3>1. vm[o].usb = {}
      BY <1>9, <2>1 DEF ClaimsHeld, StoppedBare
    <3> QED
      BY <1>3, <2>2, <3>1 DEF ClaimsHeld, Owned
  <2>5. StoppedBare' /\ EndsBare' /\ OneDevice'
    BY <1>2, <1>3, <1>5, <1>6, <1>7, <2>2 DEF ClaimsHeld, StoppedBare, EndsBare, OneDevice,
       Ordinary, At, Me
  <2>6. Gives(Disp) => Gives(Disp)'
    <3> SUFFICES ASSUME Gives(Disp), NEW v \in pages \cup taps
                 PROVE  \E k \in Listed' :
                          /\ vm[k].id = v
                          /\ k \in th[Disp].todo \/ (th[Disp].at \in {"kill", "end"} /\ Me(Disp) = k)
      BY <1>3, <1>5 DEF Gives, Me
    <3>1. PICK k \in Listed :
             /\ vm[k].id = v
             /\ k \in th[Disp].todo \/ (th[Disp].at \in {"kill", "end"} /\ Me(Disp) = k)
      BY DEF Gives
    <3>2. k \in Listed'
      BY <2>1, <2>2, <3>1
    <3> QED
      BY <3>1, <3>2
  <2>7. AllGiven'
    <3>1. th'[Exec].call = "all" => th'[Exec].at = "ended"
      BY <1>6 DEF Ordinary
    <3>2. th'[Exec].at # "down"
      BY <3>1 DEF HydraTypes, Threads, ExecWork, Stopping
    <3> QED
      BY <1>2, <1>5, <2>2, <2>6, <3>1, <3>2 DEF ClaimsHeld, AllGiven, At
  <2> QED
    BY <2>3, <2>4, <2>5, <2>7 DEF ClaimsHeld
<1>10. UNCHANGED vms \/ (vms[vm[o].id] = o /\ vm[o].state = "stopped"
                          /\ vms' = [vms EXCEPT ![vm[o].id] = None])
  <2>1. vms[vm[o].id] = None => [vms EXCEPT ![vm[o].id] = None] = vms
    BY <1>2
  <2> QED
    BY <1>1, <1>4, <2>1 DEF Drop
<1> QED
  BY <1>8, <1>9, <1>10

\* start() of HydraServer, by either thread, claims nothing for a VM.
LEMMA BootHolds ==
    ASSUME HydraTypes, HydraTypes', ClaimsHeld, Costing \subseteq Race, Clean', NEW t \in Thread,
           Boot(t)
    PROVE  ClaimsHeld'
<1>0. /\ th \in [Thread -> Work] /\ At(t, "boot") /\ UNCHANGED <<vm, owner, pages, taps>> /\ Spares
  BY SparingSteps DEF HydraTypes, Threads, Boot
<1>1. CASE BeginStopAll(t, IF t = Exec THEN "clear" ELSE None, Me(t)) /\ UNCHANGED vms
  BY <1>0, <1>1, BeginningKeeps DEF At
<1>2. CASE /\ history' = Raced("unready", t = Exec /\ ~running')
           /\ vms' = IF t = Exec /\ ~running' THEN [v \in Vmid |-> None] ELSE vms
           /\ th' = [th EXCEPT ![t] = IF t = Disp THEN Building(@.vm) ELSE Done(t)]
  <2>1. UNCHANGED vms
    <3>1. Raced("unready", t = Exec /\ ~running') \subseteq history' /\ "unready" \in Costing
          /\ (t = Exec /\ ~running') \in BOOLEAN
      BY <1>2 DEF Costing
    <3>2. ~(t = Exec /\ ~running')
      BY <3>1, Uncosted
    <3> QED
      BY <1>2, <3>2
  <2>2. /\ \A u \in Thread \ {t} : th'[u] = th[u]
        /\ th'[t].at \in {"build", "idle", "timers"} /\ th'[t].call # "all" /\ th'[t].usb = {}
    BY <1>0, <1>2 DEF Building, Done, Resting
  <2>3. Ordinary(t) /\ Single(th'[t].usb)
    BY <2>2 DEF Ordinary, Single
  <2> QED
    BY <1>0, <2>1, <2>2, <2>3, OrdinaryKeeps DEF At
<1> QED
  BY <1>1, <1>2 DEF Boot

\* While a VM is started, it is not listed, none is under its id, and nobody stops all.
LEMMA StartedAlone ==
    ASSUME HydraTypes, InOrder, th[Disp].at \in {"build", "spawn", "poll", "perm"}
    PROVE  /\ Me(Disp) \in Object /\ Me(Disp) \notin Listed /\ vms[vm[Me(Disp)].id] = None
           /\ Me(Exec) # Me(Disp) /\ vm[Me(Disp)].state = "stopped" /\ th[Disp].call = "new"
           /\ th[Exec].call # "all"
BY DEF InOrder, NewApart, NewVM, Starting, StartPlace, ShuttingDown

\* VM._start() reserves memory and makes interfaces for the VM, or fails without.
LEMMA ClaimingHolds ==
    ASSUME HydraTypes, HydraTypes', InOrder, ClaimsHeld, Costing \subseteq Race, Clean',
           Build \/ Spawn
    PROVE  ClaimsHeld'
<1>1. PICK o \in Object :
        /\ o = Me(Disp) /\ o \notin Listed /\ vms[vm[o].id] = None
        /\ Me(Exec) # o /\ vm[o].state = "stopped" /\ th[Disp].call = "new"
        /\ th[Exec].call # "all" /\ th[Disp].at \in {"build", "spawn"}
  <2>1. th[Disp].at \in {"build", "spawn"}
    BY DEF Build, Spawn, At
  <2> QED
    BY <2>1, StartedAlone
<1>2. /\ th \in [Thread -> Work] /\ Thread = {Disp, Exec} /\ Disp # Exec
      /\ vm \in [Object -> Machine] /\ pages \subseteq Vmid /\ taps \subseteq Vmid
      /\ \A k \in Listed : k \in Object /\ k # o
      /\ \A v \in Vmid : vms[v] # None => vms[v] \in Object /\ vms[v] # o
      /\ vms \in [Vmid -> Object \cup {None}] /\ vm[o].id \in Vmid /\ Disp \in Thread
      /\ UNCHANGED owner /\ Single(th[Disp].usb)
  <2>1. /\ th \in [Thread -> Work] /\ Thread = {Disp, Exec} /\ Disp # Exec
        /\ vm \in [Object -> Machine] /\ pages \subseteq Vmid /\ taps \subseteq Vmid
        /\ vms \in [Vmid -> Object \cup {None}] /\ Disp \in Thread
    BY HydraAssumption DEF HydraTypes, Machines, Threads, Thread, Lists, Claims
  <2>2. /\ \A k \in Listed : k \in Object /\ k # o
        /\ \A v \in Vmid : vms[v] # None => vms[v] \in Object /\ vms[v] # o
    BY <1>1, <2>1 DEF Listed
  <2>3. UNCHANGED owner
    BY DEF Build, Spawn
  <2> QED
    BY <2>1, <2>2, <2>3 DEF Machine, ClaimsHeld, OneDevice
<1>r. Rest(Disp) => /\ th'[Exec] = th[Exec] /\ th'[Disp].at = "idle" /\ th'[Disp].usb = {}
                    /\ th'[Disp].call = "hook"
  BY <1>2 DEF Rest, Done, Resting
<1>f. ASSUME NEW claims \in BOOLEAN, Fail(claims) PROVE ~claims /\ UNCHANGED vms
  <2>1. Raced("failed", claims) \subseteq history' /\ "failed" \in Costing
    BY <1>f DEF Fail, Costing
  <2>2. ~claims
    BY <2>1, Uncosted
  <2> QED
    BY <1>1, <1>2, <1>f, <2>2 DEF Fail
<1>k. ASSUME NEW p \in {"spawn", "poll"}, Goto(Disp, p), UNCHANGED vms,
             p = "spawn" => th[Disp].at = "build",
             p = "poll" => th[Disp].at = "spawn",
             \A k \in Object \ {o} : vm'[k] = vm[k],
             vm'[o].id = vm[o].id, vm'[o].usb = vm[o].usb,
             pages' \subseteq pages \cup {vm[o].id},
             taps' \subseteq taps \cup {vm[o].id},
             vm[o].id \in taps' => vm[o].id \in taps \/ (p = "poll" /\ vm'[o].adapters)
      PROVE  ClaimsHeld'
  <2>1. /\ th'[Exec] = th[Exec] /\ th'[Disp].at = p /\ th'[Disp].vm = o
        /\ th'[Disp].call = "new" /\ th'[Disp].usb = th[Disp].usb
    BY <1>1, <1>2, <1>k DEF Goto, Work, Me
  <2>2. Listed' = Listed
    BY <1>k DEF Listed
  <2>3. Claiming(o)' /\ (p = "poll" => Poised(o)')
    BY <2>1 DEF Claiming, Poised, Me
  <2>4. \A k \in Object : ~Poised(k) /\ (Claiming(k) => k = o)
    BY <1>1 DEF Poised, Claiming
  <2>5. Reserved'
    <3> SUFFICES ASSUME NEW v \in pages'
                 PROVE  \/ vms[v] # None /\ vm'[vms[v]].state # "stopped"
                        \/ \E k \in Object : Claiming(k)' /\ vm'[k].id = v
      BY <1>k DEF Reserved
    <3>1. CASE v = vm[o].id
      BY <1>k, <2>3, <3>1
    <3>2. CASE v \in pages
      BY <1>2, <1>k, <2>3, <2>4, <3>2 DEF ClaimsHeld, Reserved
    <3> QED
      BY <1>k, <3>1, <3>2
  <2>6. Tapped'
    <3> SUFFICES ASSUME NEW v \in taps'
                 PROVE  \/ vms[v] # None /\ vm'[vms[v]].adapters
                        \/ \E k \in Object : Poised(k)' /\ vm'[k].id = v /\ vm'[k].adapters
      BY <1>k DEF Tapped
    <3>1. CASE v \in taps
      BY <1>2, <1>k, <2>4, <3>1 DEF ClaimsHeld, Tapped
    <3>2. CASE v = vm[o].id /\ v \notin taps
      BY <1>k, <2>3, <3>2
    <3> QED
      BY <1>k, <3>1, <3>2
  <2>7. Owned' /\ StoppedBare'
    BY <1>2, <1>k, <2>2 DEF ClaimsHeld, Owned, StoppedBare
  <2>8. EndsBare'
    <3>1. At(Exec, "end") => Me(Exec) \in Object \ {o}
      BY <1>1 DEF HydraTypes, Threads, ExecWork, Working, At, Me
    <3> QED
      BY <1>2, <1>k, <2>1, <3>1 DEF ClaimsHeld, EndsBare, At, Me
  <2>9. OneDevice'
    <3>1. \A k \in Object : vm'[k].usb = vm[k].usb
      BY <1>k
    <3> QED
      BY <1>2, <2>1, <3>1 DEF ClaimsHeld, OneDevice
  <2>10. AllGiven'
    <3>1. th'[Exec].at # "down"
      BY <1>1, <2>1 DEF HydraTypes, Threads, ExecWork, Stopping
    <3> QED
      BY <1>1, <1>2, <2>1, <3>1 DEF AllGiven, At
  <2> QED
    BY <2>5, <2>6, <2>7, <2>8, <2>9, <2>10 DEF ClaimsHeld
<1>3. CASE Build
  <2> DEFINE m == [vm[o] EXCEPT !.state = "stopped", !.proc = None]
             n == [m EXCEPT !.adapters = TRUE]
  <2>1. /\ m.id = vm[o].id /\ m.adapters = vm[o].adapters /\ m.usb = vm[o].usb
        /\ m.state = "stopped" /\ n.id = vm[o].id /\ n.usb = vm[o].usb /\ n.adapters
    BY <1>2 DEF Machine
  <2>2. [vm EXCEPT ![o].state = "stopped", ![o].proc = None] = [vm EXCEPT ![o] = m]
    BY <1>2
  <2>3. [[vm EXCEPT ![o] = m] EXCEPT ![o].adapters = TRUE] = [vm EXCEPT ![o] = n]
    BY <1>2
  <2>4. /\ th[Disp].at = "build" /\ UNCHANGED taps
        /\ \/ /\ pages' = pages \cup {vm[o].id} /\ vm' = [vm EXCEPT ![o] = n]
              /\ Goto(Disp, "spawn") /\ UNCHANGED vms
           \/ /\ vm' = [vm EXCEPT ![o] = m]
              /\ Fail(pages' # pages)
    BY <1>1, <1>3, <2>2, <2>3 DEF Build, At
  <2> HIDE DEF m, n
  <2>5. CASE /\ pages' = pages \cup {vm[o].id} /\ vm' = [vm EXCEPT ![o] = n]
             /\ Goto(Disp, "spawn") /\ UNCHANGED vms
    <3>1. vm'[o] = n /\ \A k \in Object \ {o} : vm'[k] = vm[k]
      BY <1>2, <2>5
    <3> QED
      BY <1>k, <2>1, <2>4, <2>5, <3>1
  <2>6. CASE vm' = [vm EXCEPT ![o] = m] /\ Fail(pages' # pages)
    <3>1. pages' = pages /\ UNCHANGED vms /\ Rest(Disp)
      BY <1>f, <2>6 DEF Fail
    <3>2. vm'[o] = m /\ \A k \in Object \ {o} : vm'[k] = vm[k]
      BY <1>2, <2>6
    <3>3. Spares
      BY <1>1, <2>1, <3>2 DEF Spares
    <3>4. Ordinary(Disp) /\ Single(th'[Disp].usb)
      BY <1>r, <3>1 DEF Ordinary, Single
    <3> QED
      BY <1>2, <1>r, <2>4, <3>1, <3>3, <3>4, OrdinaryKeeps
  <2> QED
    BY <2>4, <2>5, <2>6
<1>4. CASE Spawn
  <2> DEFINE unused == Process \ (alive \cup {vm[k].proc : k \in Object} \cup {w[1] : w \in watch})
             p == CHOOSE q \in unused : TRUE
  <2>1. PICK made \in BOOLEAN :
          /\ taps' = IF made THEN taps \cup {vm[o].id} ELSE taps \ {vm[o].id}
          /\ \/ /\ vm' = [vm EXCEPT ![o].proc = p, ![o].wait = 0, ![o].adapters = made]
                /\ Goto(Disp, "poll")
                /\ UNCHANGED vms
             \/ Fail(TRUE)
    BY <1>1, <1>4 DEF Spawn
  <2> HIDE DEF p
  <2>2. /\ vm' = [vm EXCEPT ![o].proc = p, ![o].wait = 0, ![o].adapters = made]
        /\ Goto(Disp, "poll") /\ UNCHANGED vms
    BY <1>f, <2>1
  <2>3. /\ vm'[o].id = vm[o].id /\ vm'[o].usb = vm[o].usb /\ vm'[o].adapters = made
        /\ \A k \in Object \ {o} : vm'[k] = vm[k]
    <3>1. vm' = [vm EXCEPT ![o] = [vm[o] EXCEPT !.proc = p, !.wait = 0, !.adapters = made]]
      BY <1>2, <2>2
    <3> QED
      BY <1>2, <3>1 DEF Machine
  <2>4. th[Disp].at = "spawn" /\ UNCHANGED pages
    BY <1>4 DEF Spawn, At
  <2> QED
    BY <1>k, <2>1, <2>2, <2>3, <2>4
<1> QED
  BY <1>3, <1>4

\* hook() lists the VM, with a state that is not stopped: it has what it claims.
LEMMA ListingHolds ==
    ASSUME HydraTypes, HydraTypes', InOrder, ClaimsHeld, Poll \/ Perm
    PROVE  ClaimsHeld'
<1>1. PICK o \in Object :
        /\ o = Me(Disp) /\ o \notin Listed /\ vms[vm[o].id] = None
        /\ Me(Exec) # o /\ th[Disp].call = "new"
        /\ th[Exec].call # "all" /\ th[Disp].at \in {"poll", "perm"}
  <2>1. th[Disp].at \in {"poll", "perm"}
    BY DEF Poll, Perm, At
  <2> QED
    BY <2>1, StartedAlone
<1>2. /\ th \in [Thread -> Work] /\ Thread = {Disp, Exec} /\ Disp # Exec /\ Disp \in Thread
      /\ vm \in [Object -> Machine] /\ pages \subseteq Vmid /\ taps \subseteq Vmid
      /\ \A k \in Listed : k \in Object /\ k # o
      /\ \A v \in Vmid : vms[v] # None => vms[v] \in Object /\ vms[v] # o
      /\ vms \in [Vmid -> Object \cup {None}] /\ vm[o].id \in Vmid /\ o # None
      /\ UNCHANGED <<owner, pages, taps>> /\ Single(th[Disp].usb)
  BY <1>1, HydraAssumption DEF HydraTypes, Machines, Machine, Threads, Thread, Lists, Listed,
     Claims, Poll, Perm, ClaimsHeld, OneDevice
<1>3. CASE Goto(Disp, "perm") /\ UNCHANGED <<vm, vms>>
  <2>1. /\ th'[Exec] = th[Exec] /\ th'[Disp].at = "perm" /\ th'[Disp].vm = o
        /\ th'[Disp].call = "new" /\ th'[Disp].usb = th[Disp].usb
    BY <1>1, <1>2, <1>3 DEF Goto, Work, Me
  <2>2. \A k \in Object : (Claiming(k) => Claiming(k)') /\ (Poised(k) => Poised(k)')
    BY <1>1, <2>1 DEF Claiming, Poised, Me
  <2> QED
    BY <1>2, <1>3, <2>1, <2>2, SparingSteps, SparingKeeps
<1>4. CASE \E s \in {"running", "waiting"} : Started(s)
  <2>1. PICK s \in {"running", "waiting"} :
          /\ vm' = [vm EXCEPT ![o].state = s]
          /\ vms' = [vms EXCEPT ![vm[o].id] = o]
          /\ th' = [th EXCEPT ![Disp] = Done(Disp)]
    BY <1>1, <1>4 DEF Started, Assign, ListedNow, Rest
  <2>2. /\ th'[Exec] = th[Exec] /\ th'[Disp].at = "idle" /\ th'[Disp].call = "hook"
        /\ th'[Disp].usb = {}
    BY <1>2, <2>1 DEF Done, Resting
  <2>3. o \in Listed' /\ Listed' \subseteq Listed \cup {o} /\ Listed \subseteq Listed'
    BY <1>1, <1>2, <2>1 DEF Listed
  <2>4. /\ \A k \in Object : /\ vm'[k].id = vm[k].id /\ vm'[k].adapters = vm[k].adapters
                             /\ vm'[k].usb = vm[k].usb
                             /\ vm'[k].state = "stopped" => vm[k].state = "stopped"
        /\ vm'[o].state # "stopped"
    BY <1>2, <2>1 DEF Machine
  <2>5. vms'[vm[o].id] = o /\ \A v \in Vmid : v # vm[o].id => vms'[v] = vms[v]
    BY <1>2, <2>1
  <2>6. \A k \in Object : Claiming(k) \/ Poised(k) => k = o
    BY <1>1 DEF Claiming, Poised
  <2>7. Reserved' /\ Tapped'
    BY <1>1, <1>2, <2>4, <2>5, <2>6 DEF ClaimsHeld, Reserved, Tapped
  <2>8. Owned' /\ StoppedBare'
    BY <1>2, <2>3, <2>4 DEF ClaimsHeld, Owned, StoppedBare
  <2>9. EndsBare'
    <3>1. At(Exec, "end") => Me(Exec) \in Object
      BY DEF HydraTypes, Threads, ExecWork, Working, At, Me
    <3> QED
      BY <1>2, <2>2, <2>4, <3>1 DEF ClaimsHeld, EndsBare, At, Me
  <2>10. OneDevice'
    BY <1>2, <2>2, <2>4 DEF ClaimsHeld, OneDevice, Single
  <2>11. AllGiven'
    <3>1. th'[Exec].at # "down"
      BY <1>1, <2>2 DEF HydraTypes, Threads, ExecWork, Stopping
    <3> QED
      BY <1>1, <1>2, <2>2, <3>1 DEF AllGiven, At
  <2> QED
    BY <2>7, <2>8, <2>9, <2>10, <2>11 DEF ClaimsHeld
<1> QED
  BY <1>3, <1>4 DEF Poll, Perm

\* The other steps leave the claims alone: those of the dispatcher,
LEMMA OthersHold ==
    ASSUME HydraTypes, HydraTypes', ClaimsHeld, SoftTimer \/ Signalled \/ HibernateNext
    PROVE  ClaimsHeld'
<1>0. th \in [Thread -> Work] /\ Disp \in Thread /\ Single(th[Disp].usb)
  BY DEF HydraTypes, Threads, Thread, ClaimsHeld, OneDevice
<1>1. UNCHANGED <<vms, owner, pages, taps>> /\ Spares
  BY SparingSteps DEF SoftTimer, Signalled, HibernateNext, Requested, sharedVars
<1>2. Ordinary(Disp) /\ th[Disp].at \notin {"spawn", "poll", "perm"}
  BY WorkCalm DEF SoftTimer, Signalled, HibernateNext, At
<1>3. (\A u \in Thread \ {Disp} : th'[u] = th[u]) /\ th'[Disp].usb \in {th[Disp].usb, {}}
  <2>1. CASE Rest(Disp)
    BY <1>0, <2>1 DEF Rest, Done, Resting
  <2>2. CASE Goto(Disp, "each")
    BY <1>0, <2>2 DEF Goto, Work
  <2>3. CASE \E o \in th[Disp].todo :
               th' = [th EXCEPT ![Disp].todo = @ \ {o}, ![Disp].vm = o,
                             ![Disp].at = IF vm[o].state = "running" THEN "signal" ELSE "each"]
    BY <1>0, <2>3 DEF Work
  <2> QED
    BY <2>1, <2>2, <2>3 DEF SoftTimer, Signalled, HibernateNext
<1>4. Single(th'[Disp].usb)
  BY <1>0, <1>3 DEF Single
<1> QED
  BY <1>0, <1>1, <1>2, <1>3, <1>4, OrdinaryKeeps

\* and those of the executer.
LEMMA RoundsHold ==
    ASSUME HydraTypes, HydraTypes', ClaimsHeld, Costing \subseteq Race, Clean'
    PROVE  /\ Promote \/ RoundEnd \/ Timers \/ Verdict \/ ReapEnd => ClaimsHeld'
           /\ \A o \in Object : Visit(o) \/ TimerDue(o) => ClaimsHeld'
           /\ \A w \in watch : Reap(w) => ClaimsHeld'
           /\ ThreadBegin => ClaimsHeld'
<1>0. /\ th \in [Thread -> Work] /\ Exec \in Thread /\ Exec # Disp /\ Single(th[Exec].usb)
  BY HydraAssumption DEF HydraTypes, Threads, Thread, ClaimsHeld, OneDevice
<1>u. ASSUME Spares, UNCHANGED <<vms, owner, pages, taps>>, Ordinary(Exec),
             \A u \in Thread \ {Exec} : th'[u] = th[u], th'[Exec].usb \in {th[Exec].usb, {}}
      PROVE  ClaimsHeld'
  <2>1. Single(th'[Exec].usb)
    BY <1>0, <1>u DEF Single
  <2> QED
    BY <1>0, <1>u, <2>1, OrdinaryKeeps
<1>1. ASSUME Promote \/ RoundEnd \/ Timers \/ Verdict \/ ReapEnd PROVE ClaimsHeld'
  <2>1. UNCHANGED <<vms, owner, pages, taps>> /\ Spares /\ Ordinary(Exec)
    BY <1>1, SparingSteps, ExecOrdinary DEF Promote, RoundEnd, Timers, Verdict, ReapEnd, sharedVars
  <2>2. (\A u \in Thread \ {Exec} : th'[u] = th[u]) /\ th'[Exec].usb \in {th[Exec].usb, {}}
    BY <1>0, <1>1 DEF Promote, RoundEnd, Timers, Verdict, ReapEnd, Goto, Rest, Done, Resting, Work
  <2> QED
    BY <1>u, <2>1, <2>2
<1>2. ASSUME NEW o \in Object, Visit(o) \/ TimerDue(o) PROVE ClaimsHeld'
  <2>1. UNCHANGED <<vms, owner, pages, taps>> /\ Spares /\ Ordinary(Exec)
    BY <1>2, SparingSteps, ExecOrdinary DEF Visit, TimerDue, sharedVars
  <2>2. (\A u \in Thread \ {Exec} : th'[u] = th[u]) /\ th'[Exec].usb = th[Exec].usb
    <3>1. CASE Visit(o)
      <4>1. PICK p : th' = [th EXCEPT ![Exec].at = p, ![Exec].vm = o, ![Exec].call = "visit",
                                      ![Exec].todo = @ \ {o}]
        BY <3>1 DEF Visit
      <4> QED
        BY <1>0, <4>1 DEF Work
    <3>2. CASE TimerDue(o)
      BY <1>0, <3>2 DEF TimerDue, BeginStop, Work
    <3> QED
      BY <1>2, <3>1, <3>2
  <2> QED
    BY <1>u, <2>1, <2>2
<1>3. ASSUME NEW w \in watch, Reap(w) PROVE ClaimsHeld'
  <2>1. UNCHANGED <<vms, owner, pages, taps>> /\ Spares /\ Ordinary(Exec)
    BY <1>3, SparingSteps, ExecOrdinary DEF Reap, sharedVars
  <2>2. (\A u \in Thread \ {Exec} : th'[u] = th[u]) /\ th'[Exec].usb = th[Exec].usb
    BY <1>0, <1>3 DEF Reap, Work
  <2> QED
    BY <1>u, <2>1, <2>2
<1>4. ASSUME ThreadBegin PROVE ClaimsHeld'
  <2>1. UNCHANGED <<vm, vms, owner, pages, taps>> /\ Spares
    BY <1>4, SparingSteps DEF ThreadBegin, sharedVars
  <2>2. CASE BeginStopAll(Exec, None, None)
    BY <1>0, <2>1, <2>2, BeginningKeeps
  <2>3. CASE Ordinary(Exec) /\ ~BeginStopAll(Exec, None, None)
    <3>1. (\A u \in Thread \ {Exec} : th'[u] = th[u]) /\ th'[Exec].usb = th[Exec].usb
      BY <1>0, <1>4, <2>3 DEF ThreadBegin, Goto, Work
    <3> QED
      BY <1>u, <2>1, <2>3, <3>1
  <2> QED
    BY <1>4, <2>2, <2>3, ExecOrdinary
<1> QED
  BY <1>1, <1>2, <1>3, <1>4

\* The inductive invariant of the claims, beside those of the VMs and of the devices.
ClaimInv == Clean => ClaimsHeld

\* It holds at first,
LEMMA ClaimInit ==
    Init => ClaimInv
<1> SUFFICES ASSUME Init PROVE ClaimsHeld
  BY DEF ClaimInv
<1>1. /\ \A o \in Object : vm[o].usb = {}
      /\ \A t \in Thread : th[t] = Resting
      /\ Listed = {} /\ pages = {} /\ taps = {}
  BY DEF Init, New, Listed
<1>2. \A t \in Thread : th[t].at = "idle" /\ th[t].usb = {}
  BY <1>1 DEF Resting
<1>3. Reserved /\ Tapped /\ Owned /\ StoppedBare
  BY <1>1 DEF Init, Reserved, Tapped, Owned, StoppedBare
<1>4. EndsBare /\ OneDevice
  BY <1>1, <1>2 DEF EndsBare, OneDevice, Single, At
<1>5. AllGiven
  BY <1>1, <1>2 DEF AllGiven, Gives, At
<1> QED
  BY <1>3, <1>4, <1>5 DEF ClaimsHeld

\* and every step keeps it.
LEMMA ClaimStep ==
    ASSUME Costing \subseteq Race, KnownInv, UsbInv, ClaimInv, [Next]_vars
    PROVE  ClaimInv'
<1> SUFFICES ASSUME Clean' PROVE ClaimsHeld'
  BY DEF ClaimInv
<1>0. /\ HydraTypes /\ HydraTypes' /\ InOrder /\ AddsAlone /\ ClaimsHeld
      /\ Disp \in Thread /\ Exec \in Thread
  <2>1. HydraTypes /\ HydraTypes' /\ (Disturbed \/ InOrder) /\ AddsAlone
    BY TypesStep DEF KnownInv, UsbInv
  <2>2. history \subseteq history'
    BY HistoryGrows DEF vars
  <2>3. Clean
    BY <2>2 DEF Clean, Disturbed
  <2> QED
    BY <2>1, <2>3 DEF Clean, ClaimInv, Thread
<1>1. ASSUME NEW t \in Thread, Stop(t) PROVE ClaimsHeld'
  BY <1>0, <1>1, KillHolds, StopEndHolds DEF Stop
<1>2. ASSUME NEW t \in Thread, StopAll(t) \/ Boot(t) PROVE ClaimsHeld'
  BY <1>0, <1>2, StopAllHolds, BootHolds
<1>3. CASE Hook
  <2>1. ASSUME NEW v \in Vmid, StartNew(v) PROVE ClaimsHeld'
    BY <1>0, <2>1, NewHolds
  <2> QED
    BY <1>0, <1>3, <2>1, RequestsHold DEF Hook
<1>4. CASE Dispatch
  <2>1. CASE Build \/ Spawn \/ Poll \/ Perm
    BY <1>0, <2>1, ClaimingHolds, ListingHolds
  <2>2. CASE SoftTimer \/ Signalled \/ HibernateNext
    BY <1>0, <2>2, OthersHold
  <2>3. CASE UsbSet \/ UsbForget
    BY <1>0, <2>3, SetHolds, ForgetHolds
  <2> QED
    BY <1>0, <1>1, <1>2, <1>4, <2>1, <2>2, <2>3 DEF Dispatch, Start
<1>5. CASE Execute
  BY <1>0, <1>1, <1>2, <1>5, RoundsHold, DropHolds DEF Execute
<1>6. CASE UNCHANGED <<vm, vms, owner, pages, taps, th>>
  <2>1. Spares /\ \A o : Claiming(o)' = Claiming(o) /\ Poised(o)' = Poised(o)
    BY <1>6, SparingSteps, <1>0 DEF Claiming, Poised, Me
  <2>2. Gives(Disp)' = Gives(Disp) /\ Gives(Exec)' = Gives(Exec) /\ Listed' = Listed
    BY <1>6 DEF Gives, Listed, Me
  <2>3. Reserved' /\ Tapped' /\ Owned' /\ StoppedBare'
    BY <1>0, <1>6, <2>1, <2>2 DEF ClaimsHeld, Reserved, Tapped, Owned, StoppedBare
  <2>4. EndsBare' /\ OneDevice'
    BY <1>0, <1>6 DEF ClaimsHeld, EndsBare, OneDevice, At, Me
  <2>5. AllGiven'
    BY <1>0, <1>6, <2>2 DEF ClaimsHeld, AllGiven, At, Thread
  <2> QED
    BY <2>3, <2>4, <2>5 DEF ClaimsHeld
<1> QED
  BY <1>3, <1>4, <1>5, <1>6 DEF Next, ProcessExits, vars, sharedVars

\* What a VM claims is given back (Released): when there is none, Hydra is down and both threads are
\* at rest, no memory, no interface and no device is taken, although _stop() gives back by the id of
\* a VM while the other thread starts, stops or removes VMs.  Besides the races that lose a VM, only
\* a start that fails half-way, a device that comes too late, and a number of pages that cannot be
\* written leave something behind.
THEOREM AllReleased ==
    ASSUME {"again", "overlap", "unready", "failed", "late", "kept"} \subseteq Race
    PROVE  Spec => []Released
<1>1. Losing \subseteq Race /\ Costing \subseteq Race
  BY DEF Losing, Costing
<1>2. KnownInv /\ UsbInv /\ ClaimInv /\ [Next]_vars => KnownInv' /\ UsbInv' /\ ClaimInv'
  BY <1>1, KnownStep, UsbStep, ClaimStep
<1>3. Init => KnownInv /\ UsbInv /\ ClaimInv
  BY KnownInit, UsbInit, ClaimInit
<1>4. ASSUME KnownInv, ClaimInv PROVE Released
  <2> SUFFICES ASSUME Listed = {}, At(Disp, "idle"), Clean
               PROVE  pages = {} /\ taps = {} /\ \A d \in Device : owner[d] = None
    BY DEF Released, Clean
  <2>1. ClaimsHeld /\ pages \subseteq Vmid /\ taps \subseteq Vmid
    BY <1>4 DEF ClaimInv, KnownInv, HydraTypes, Claims
  <2>2. \A v \in Vmid : vms[v] = None
    BY DEF Listed
  <2>3. \A o \in Object : ~Claiming(o) /\ ~Poised(o)
    BY DEF Claiming, Poised, At
  <2> QED
    BY <2>1, <2>2, <2>3 DEF ClaimsHeld, Reserved, Tapped, Owned
<1> QED
  BY <1>2, <1>3, <1>4, PTL DEF Spec
=============================================================================
