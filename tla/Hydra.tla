------------------------------- MODULE Hydra -------------------------------
(***************************************************************************)
(* lib/modules/hydra.py: HydraServer and its VMs.  The dispatcher thread   *)
(* handles requests, one at a time; the executer thread visits every VM    *)
(* once a second (HydraServer.thread), runs the timers of soft shutdowns   *)
(* and calls VM.__stop when a watched process has exited (Executer).  They *)
(* share the VMs and what VMs claim without a lock.                        *)
(***************************************************************************)
EXTENDS Naturals

CONSTANTS
    Vmid,        \* ids of VMs
    Object,      \* VM objects (bounds those alive at a time)
    Process,     \* processes (bounds those alive or watched at a time)
    Device,      \* USB devices
    Request,     \* requests considered besides starting a VM, of "stop", "soft",
                 \* "sleep", "hibernate", "usb", "shutdown"
    WaitTime,    \* HYDRA_WAIT_TIME, rounds
    MaxHooks,    \* bounds the requests
    Race,        \* races that a behaviour records: see Raced
    Disp, Exec,  \* the dispatcher and the executer
    None

ASSUME HydraAssumption ==
    /\ Vmid # {}
    /\ WaitTime \in Nat \ {0} /\ MaxHooks \in Nat
    /\ Disp # Exec
    /\ None \notin Vmid \cup Object \cup Process \cup Device
    /\ None # "ended"

Thread == {Disp, Exec}

VARIABLES
    vm,          \* the VM objects
    vms,         \* HydraServer._vms
    owner,       \* HydraServer._usb
    pages,       \* ids memory is reserved for: _pages
    taps,        \* ids network interfaces exist for
    running,     \* HydraServer._running; also the bridge, its services and directory
    alive,       \* processes that run
    watch,       \* processes the executer watches, each with its VM
    th,          \* the threads
    history,     \* the races that have happened
    hooks        \* requests so far

sharedVars == <<vms, owner, pages, taps, running>>
processVars == <<alive, watch>>
vars == <<vm, sharedVars, processVars, th, history, hooks>>

\* "again": a VM was started before the one of its id that has exited was cleaned up;
\* "overlap": a VM was being started while the executer shut Hydra down; "undone": a state
\* was overwritten that says that the process has exited; "failed": a start failed after
\* it had claimed; "late": a device was given to a VM that was cleaned up meanwhile;
\* "unready": Hydra could not be started for the VMs that are listed; "kept": the memory of
\* a VM could not be given back.
Raced(r, happened) == IF happened THEN history \cup ({r} \cap Race) ELSE history

\* The races after which a VM may be lost; no request is considered after one of them.
Disturbed == history \cap {"again", "overlap", "unready"} # {}

New(v) == [id |-> v, state |-> "stopped", proc |-> None, adapters |-> FALSE,
           timer |-> FALSE, usb |-> {}, wait |-> 0]

\* What a thread does: its place, the VM it works on, whose call it is, the VMs and the
\* devices it has listed, what comes next, and the VM that is to be built then.
Resting == [at |-> "idle", vm |-> None, call |-> "hook", todo |-> {}, usb |-> {}, next |-> None,
            new |-> None]

Init ==
    /\ vm = [o \in Object |-> New(CHOOSE v \in Vmid : TRUE)]
    /\ vms = [v \in Vmid |-> None]
    /\ owner = [d \in Device |-> None]
    /\ pages = {} /\ taps = {} /\ running = FALSE
    /\ alive = {} /\ watch = {}
    /\ th = [t \in Thread |-> Resting]
    /\ history = {}
    /\ hooks = 0

Listed == {vms[v] : v \in Vmid} \ {None}

Live(o) == vm[o].proc \in alive     \* VM._running()

Me(t) == th[t].vm

At(t, place) == th[t].at = place

Goto(t, place) == th' = [th EXCEPT ![t].at = place]

Begin(t, place, o) == th' = [th EXCEPT ![t].at = place, ![t].vm = o]

\* A hook ends, and so does the first part of a round of the executer.
Done(t) == [Resting EXCEPT !.at = IF t = Disp THEN "idle" ELSE "timers"]

Rest(t) == th' = [th EXCEPT ![t] = Done(t)]

Assign(o, s) == vm' = [vm EXCEPT ![o].state = s]

StartPlace == {"boot", "build", "spawn", "poll", "perm"}

Starting == th[Disp].at \in StartPlace \/ th[Disp].new # None

ShuttingDown == th[Exec].call = "all"

-----------------------------------------------------------------------------
(* VM._stop() by force, for a hook, a visit of the executer, the timer of  *)
(* a soft shutdown, or HydraServer.stop().                                 *)

BeginStop(t, o, call) ==
    th' = [th EXCEPT ![t].at = "kill", ![t].vm = o, ![t].call = call]

\* The process is killed, _close_adapters() removes the interfaces, the timer is cancelled,
\* and _usb_clean() takes a copy of the devices.
Kill(t) ==
    /\ At(t, "kill")
    /\ LET o == Me(t) IN
         /\ alive' = alive \ {vm[o].proc}
         /\ taps' = IF vm[o].adapters THEN taps \ {vm[o].id} ELSE taps
         /\ vm' = [vm EXCEPT ![o].proc = None, ![o].adapters = FALSE, ![o].timer = FALSE]
         /\ th' = [th EXCEPT ![t].at = "end", ![t].usb = vm[o].usb]
    /\ UNCHANGED <<vms, owner, pages, running, watch, history, hooks>>

\* An exception ends the hook or the round; that of a timer ends the executer (Executer).
Raise(t) ==
    IF th[t].call = "timer" THEN Goto(t, "dead")
    ELSE IF th[t].next = "ended" THEN Goto(t, "ended") ELSE Rest(t)

Return(t) ==
    th' = [th EXCEPT ![t] = CASE @.call = "visit" -> [@ EXCEPT !.at = "drop"]
                              [] @.call = "all" -> [@ EXCEPT !.at = "all"]
                              [] OTHER -> Done(t)]

\* del self._usb[k], manager._usb[k], where each may raise KeyError; then clear().
Mine(t) == th[t].usb \subseteq vm[Me(t)].usb
Forgotten(t) == IF Mine(t) THEN [d \in Device |-> IF d \in th[t].usb THEN None ELSE owner[d]]
                ELSE owner
Raises(t) == ~Mine(t) \/ \E d \in th[t].usb : owner[d] = None

\* The devices and the memory are given back, the latter by id; that the number of pages
\* cannot be written is logged, and the memory stays reserved.
StopEnd(t) ==
    /\ At(t, "end")
    /\ owner' = Forgotten(t)
    /\ LET o == Me(t) IN
       \/ /\ ~Raises(t)
          /\ vm' = [vm EXCEPT ![o].usb = {}, ![o].state = "stopped"]
          /\ Return(t)
          /\ \/ /\ pages' = pages \ {vm[o].id}
                /\ UNCHANGED history
             \/ /\ vm[o].id \in pages
                /\ history' = Raced("kept", TRUE)
                /\ UNCHANGED pages
       \/ /\ Raises(t)
          /\ vm' = [vm EXCEPT ![o].usb = @ \ th[t].usb]
          /\ Raise(t)
          /\ UNCHANGED <<pages, history>>
    /\ UNCHANGED <<vms, taps, running, processVars, hooks>>

Stop(t) == Kill(t) \/ StopEnd(t)

-----------------------------------------------------------------------------
(* HydraServer.stop() and start().                                         *)

\* The dispatcher goes on to start a new VM.
Building(o) == [Resting EXCEPT !.at = "build", !.vm = o, !.call = "new"]

BeginStopAll(t, next, new) ==
    /\ th' = [th EXCEPT ![t] = [Resting EXCEPT !.at = "all", !.call = "all", !.todo = Listed,
                                               !.next = next, !.new = new]]
    /\ history' = Raced("overlap", t = Exec /\ Starting)

\* Mutated: one that sleeps is left alone.
StopsAwake(o) == vm[o].state \notin {"stopped", "sleeping"}

\* Mutated: one whose process has exited is left alone.
StopsLive(o) == vm[o].state \notin {"stopped", "done", "failed"}

Stops(o) == vm[o].state # "stopped"

StopNext(t) ==
    /\ At(t, "all")
    /\ \/ \E o \in th[t].todo :
            th' = [th EXCEPT ![t].todo = @ \ {o}, ![t].vm = o,
                             ![t].at = IF Stops(o) THEN "kill" ELSE "all"]
       \/ th[t].todo = {} /\ Goto(t, "clear")
    /\ UNCHANGED <<vm, sharedVars, processVars, history, hooks>>

StopClear(t) ==
    /\ At(t, "clear")
    /\ vms' = [v \in Vmid |-> None]
    /\ owner' = [d \in Device |-> None]
    /\ Goto(t, "down")
    /\ UNCHANGED <<vm, pages, taps, running, processVars, history, hooks>>

\* A VM that was listed meanwhile is taken off the list when thread() had tried to start().
StopDown(t) ==
    /\ At(t, "down")
    /\ running' = FALSE
    /\ vms' = IF th[t].next = "clear" THEN [v \in Vmid |-> None] ELSE vms
    /\ th' = [th EXCEPT ![t] =
                 CASE @.new # None -> Building(@.new)
                   [] @.next = "ended" -> [@ EXCEPT !.at = "ended"]
                   [] OTHER -> Done(t)]
    /\ UNCHANGED <<vm, owner, pages, taps, processVars, history, hooks>>

StopAll(t) == StopNext(t) \/ StopClear(t) \/ StopDown(t)

\* When a step of start() fails it stops everything, or just returns and leaves _running
\* alone (when a program it needs has wrong permissions); there is no exception.  Either way
\* a VM is started by hook(), while thread() takes all VMs off its list.
Boot(t) ==
    /\ At(t, "boot")
    /\ \/ /\ running' \in {running, TRUE}
          /\ vms' = IF t = Exec /\ ~running' THEN [v \in Vmid |-> None] ELSE vms
          /\ history' = Raced("unready", t = Exec /\ ~running')
          /\ th' = [th EXCEPT ![t] = IF t = Disp THEN Building(@.vm) ELSE Done(t)]
       \/ /\ BeginStopAll(t, IF t = Exec THEN "clear" ELSE None, Me(t))
          /\ UNCHANGED <<vms, running>>
    /\ UNCHANGED <<vm, owner, pages, taps, processVars, hooks>>

-----------------------------------------------------------------------------
(* The dispatcher: HYDRA_START and VM._start().                            *)

Free(o) ==
    /\ o \notin Listed /\ ~Live(o) /\ ~vm[o].timer
    /\ \A w \in watch : w[2] # o
    /\ \A t \in Thread : Me(t) # o /\ o \notin th[t].todo

\* The executer is visiting it, or has yet to do so in this round.
Visiting(o) == \/ o \in th[Exec].todo
               \/ th[Exec].call = "visit" /\ Me(Exec) = o /\ ~At(Exec, "round")

Uncleaned(v) == \E o \in Object : vm[o].id = v /\ (o \in Listed \/ Visiting(o))

\* _get_vm() makes an object unless the one listed under its id has a process.
StartNew(v) ==
    /\ At(Disp, "idle")
    /\ vms[v] # None => ~Live(vms[v])
    /\ \E o \in Object : Free(o)
    /\ LET o == CHOOSE k \in Object : Free(k)
       IN  /\ vm' = [vm EXCEPT ![o] = New(v)]
           /\ th' = [th EXCEPT ![Disp].at = IF running THEN "build" ELSE "boot",
                               ![Disp].vm = o, ![Disp].call = "new"]
    /\ history' = Raced("overlap", ShuttingDown) \cup Raced("again", Uncleaned(v))
    /\ UNCHANGED <<sharedVars, processVars>>

\* By its id, a VM that sleeps is woken; it is started anew when it has no process.
StartAgain(o) ==
    /\ At(Disp, "idle")
    /\ o \in Listed
    /\ vm[o].state = "sleeping" /\ ~Live(o)
    /\ th' = [th EXCEPT ![Disp].at = "build", ![Disp].vm = o, ![Disp].call = "again"]
    /\ history' = Raced("overlap", ShuttingDown) \cup Raced("again", TRUE)
    /\ UNCHANGED <<vm, sharedVars, processVars>>

\* An Error ends the hook: a new VM, or the one listed before under its id, is removed.
Fail(claims) ==
    /\ vms' = IF th[Disp].call = "new" THEN [vms EXCEPT ![vm[Me(Disp)].id] = None] ELSE vms
    /\ history' = Raced("failed", claims)
    /\ Rest(Disp)

Build ==     \* memory is reserved, then drives and adapters are looked at
    /\ At(Disp, "build")
    /\ LET o == Me(Disp)
           reserved == pages \cup {vm[o].id}
           reset == [vm EXCEPT ![o].state = "stopped", ![o].proc = None]
       IN  \/ /\ pages' = reserved
              /\ vm' = [reset EXCEPT ![o].adapters = TRUE]
              /\ Goto(Disp, "spawn")
              /\ UNCHANGED <<vms, history>>
           \/ /\ pages' \in {pages, reserved}
              /\ vm' = reset
              /\ Fail(pages' # pages)
    /\ UNCHANGED <<owner, taps, running, processVars, hooks>>

\* Interfaces are made; when that fails they are removed, and trying again does nothing as
\* _adapters is empty then.  The process is run and watched.  When it cannot be run,
\* _stop() does nothing, as the state is "stopped".
Spawn ==
    /\ At(Disp, "spawn")
    /\ LET o == Me(Disp)
           unused == Process \ (alive \cup {vm[k].proc : k \in Object} \cup {w[1] : w \in watch})
           p == CHOOSE q \in unused : TRUE
       IN \E made \in BOOLEAN :
          /\ taps' = IF made THEN taps \cup {vm[o].id} ELSE taps \ {vm[o].id}
          /\ \/ /\ unused # {}
                /\ vm' = [vm EXCEPT ![o].proc = p, ![o].wait = 0, ![o].adapters = made]
                /\ alive' = alive \cup {p}
                /\ watch' = watch \cup {<<p, o>>}
                /\ Goto(Disp, "poll")
                /\ UNCHANGED <<vms, history>>
             \/ /\ vm' = [vm EXCEPT ![o].wait = 0, ![o].adapters = made]
                /\ Fail(TRUE)
                /\ UNCHANGED processVars
    /\ UNCHANGED <<owner, pages, running, hooks>>

\* Mutated: one that still waits for its sockets is not listed.
ListedWhenRunning(o, state) ==
    IF th[Disp].call = "new" /\ state = "running" THEN [vms EXCEPT ![vm[o].id] = o] ELSE vms

ListedNow(o, state) == IF th[Disp].call = "new" THEN [vms EXCEPT ![vm[o].id] = o] ELSE vms

\* The state is assigned and hook() lists the VM.
Started(state) ==
    /\ Assign(Me(Disp), state)
    /\ vms' = ListedNow(Me(Disp), state)
    /\ Rest(Disp)

Poll ==
    /\ At(Disp, "poll")
    /\ \/ Live(Me(Disp)) /\ Goto(Disp, "perm") /\ UNCHANGED <<vm, vms>>
       \/ ~Live(Me(Disp)) /\ Started("waiting")
    /\ UNCHANGED <<owner, pages, taps, running, processVars, history, hooks>>

Perm ==     \* are the sockets of the process there?
    /\ At(Disp, "perm")
    /\ Started("running") \/ Started("waiting")
    /\ history' = Raced("undone", <<vm[Me(Disp)].proc, Me(Disp)>> \notin watch)
    /\ UNCHANGED <<owner, pages, taps, running, processVars, hooks>>

Start == Boot(Disp) \/ Build \/ Spawn \/ Poll \/ Perm

-----------------------------------------------------------------------------
(* The dispatcher: the other requests.                                     *)

Asked(r, o) == r \in Request /\ At(Disp, "idle") /\ o \in Listed /\ Live(o)

Requested == UNCHANGED <<vm, sharedVars, processVars, history>>

StopHook(o) ==
    /\ Asked("stop", o) /\ vm[o].state # "stopped"
    /\ BeginStop(Disp, o, "hook")
    /\ Requested

SoftHook(o) ==     \* the guest is told, then the timer is made
    /\ Asked("soft", o)
    /\ vm[o].state \notin {"stopped", "waiting", "sleeping"}
    /\ ~vm[o].timer
    /\ Begin(Disp, "soft", o)
    /\ Requested

SoftTimer ==
    /\ At(Disp, "soft")
    /\ vm' = [vm EXCEPT ![Me(Disp)].timer = TRUE]
    /\ Rest(Disp)
    /\ UNCHANGED <<sharedVars, processVars, history, hooks>>

SleepHook(o, s) ==     \* HYDRA_SLEEP, HYDRA_WAKE, and HYDRA_START of one that sleeps
    /\ Asked("sleep", o)
    /\ vm[o].state = (IF s = "sleeping" THEN "running" ELSE "sleeping")
    /\ th' = [th EXCEPT ![Disp].at = "signal", ![Disp].vm = o, ![Disp].next = s]
    /\ Requested

Signalled ==     \* SIGSTOP or SIGCONT was sent
    /\ At(Disp, "signal")
    /\ LET o == Me(Disp)
           s == th[Disp].next
           before == IF s = "sleeping" THEN "running" ELSE "sleeping"
       IN  /\ Assign(o, s)
           /\ history' = Raced("undone", vm[o].state # before)
    /\ IF th[Disp].call = "each" THEN Goto(Disp, "each") ELSE Rest(Disp)
    /\ UNCHANGED <<sharedVars, processVars, hooks>>

HibernateHook ==     \* before a sleep of the system
    /\ "hibernate" \in Request /\ At(Disp, "idle")
    /\ Listed # {}
    /\ th' = [th EXCEPT ![Disp] = [Resting EXCEPT !.at = "each", !.call = "each",
                                                  !.todo = Listed, !.next = "sleeping"]]
    /\ Requested

\* Iterating a dict that has changed its size raises RuntimeError.
HibernateNext ==
    /\ At(Disp, "each") /\ hooks' = hooks
    /\ \/ th[Disp].todo \ Listed # {} /\ Rest(Disp)
       \/ th[Disp].todo = {} /\ Rest(Disp)
       \/ /\ th[Disp].todo \subseteq Listed
          /\ \E o \in th[Disp].todo :
               IF vm[o].state = "running" /\ vm[o].proc = None THEN Rest(Disp)
               ELSE th' = [th EXCEPT ![Disp].todo = @ \ {o}, ![Disp].vm = o,
                             ![Disp].at = IF vm[o].state = "running" THEN "signal" ELSE "each"]
    /\ Requested

UsbAdd(o, d) ==     \* for a second device max(self._usb.keys()) + 1 raises TypeError
    /\ Asked("usb", o) /\ vm[o].state # "stopped"
    /\ vm[o].usb = {} /\ owner[d] = None
    /\ th' = [th EXCEPT ![Disp].at = "usbadd", ![Disp].vm = o, ![Disp].usb = {d}]
    /\ Requested

\* Mutated: registered for the object instead of its id.
OwnedByObject(o, ds) == [d \in Device |-> IF d \in ds THEN o ELSE owner[d]]

OwnedBy(o, ds) == [d \in Device |-> IF d \in ds THEN vm[o].id ELSE owner[d]]

UsbSet ==
    /\ At(Disp, "usbadd")
    /\ LET o == Me(Disp)
           ds == th[Disp].usb
       IN  /\ vm' = [vm EXCEPT ![o].usb = @ \cup ds]
           /\ owner' = OwnedBy(o, ds)
           /\ history' = Raced("late", ~Live(o) \/ Me(Exec) = o \/ th[Exec].call = "all")
    /\ Rest(Disp)
    /\ UNCHANGED <<vms, pages, taps, running, processVars, hooks>>

UsbRemove(o, d) ==     \* HYDRA_USB_DELETE; HYDRA_USB_CLEAN takes a copy first
    /\ Asked("usb", o) /\ vm[o].state # "stopped"
    /\ d \in vm[o].usb
    /\ th' = [th EXCEPT ![Disp].at = "usbdel", ![Disp].vm = o, ![Disp].usb = {d}]
    /\ Requested

DroppedBy(o, ds) == [vm EXCEPT ![o].usb = @ \ ds]

UsbForget ==
    /\ At(Disp, "usbdel")
    /\ owner' = Forgotten(Disp)
    /\ vm' = DroppedBy(Me(Disp), th[Disp].usb)
    /\ Rest(Disp)
    /\ UNCHANGED <<vms, pages, taps, running, processVars, history, hooks>>

Shutdown ==
    /\ "shutdown" \in Request /\ At(Disp, "idle")
    /\ BeginStopAll(Disp, "ended", None)
    /\ UNCHANGED <<vm, sharedVars, processVars>>

Dispatch == \/ Start \/ SoftTimer \/ Signalled \/ HibernateNext \/ UsbSet \/ UsbForget
            \/ Stop(Disp) \/ StopAll(Disp)

Hook ==
    /\ hooks < MaxHooks /\ ~Disturbed
    /\ hooks' = hooks + 1
    /\ \/ \E v \in Vmid : StartNew(v)
       \/ \E o \in Object : \/ StartAgain(o) \/ StopHook(o) \/ SoftHook(o)
                            \/ \E s \in {"running", "sleeping"} : SleepHook(o, s)
                            \/ \E d \in Device : UsbAdd(o, d) \/ UsbRemove(o, d)
       \/ HibernateHook \/ Shutdown

-----------------------------------------------------------------------------
(* The executer: thread(), then the timers, then the processes.            *)

ThreadBegin ==
    /\ At(Exec, "idle")
    /\ \/ /\ ~running /\ Listed = {}
          /\ Goto(Exec, "timers") /\ UNCHANGED history
       \/ /\ ~running /\ Listed # {}
          /\ Goto(Exec, "boot") /\ UNCHANGED history
       \/ /\ running /\ Listed = {}
          /\ BeginStopAll(Exec, None, None)
       \/ /\ running /\ Listed # {}
          /\ th' = [th EXCEPT ![Exec].at = "round", ![Exec].todo = Listed]
          /\ UNCHANGED history
    /\ UNCHANGED <<vm, sharedVars, processVars, hooks>>

\* Mutated: rounds are counted only while the process runs.
WaitedLive(o) == IF vm[o].state = "waiting" /\ Live(o) /\ vm[o].wait < WaitTime
                 THEN [vm EXCEPT ![o].wait = @ + 1] ELSE vm

Waited(o) == IF vm[o].state = "waiting" /\ ~Live(o) /\ vm[o].wait + 1 < WaitTime
             THEN [vm EXCEPT ![o].wait = @ + 1] ELSE vm

Visit(o) ==     \* VM._thread()
    /\ At(Exec, "round")
    /\ o \in th[Exec].todo
    /\ LET s == vm[o].state
           over == vm[o].wait + 1 >= WaitTime
           place == CASE s \in {"done", "failed"} -> {"kill"}
                      [] s = "waiting" /\ Live(o) -> {"round", "promote"}
                      [] s = "waiting" /\ ~Live(o) -> {IF over THEN "kill" ELSE "round"}
                      [] s = "stopped" -> {"drop"}
                      [] OTHER -> {"round"}
       IN  /\ \E p \in place :
                th' = [th EXCEPT ![Exec].at = p, ![Exec].vm = o, ![Exec].call = "visit",
                                 ![Exec].todo = @ \ {o}]
           /\ vm' = Waited(o)
    /\ UNCHANGED <<sharedVars, processVars, history, hooks>>

Promote ==     \* the sockets are there
    /\ At(Exec, "promote")
    /\ Assign(Me(Exec), "running")
    /\ history' = Raced("undone", vm[Me(Exec)].state # "waiting")
    /\ Goto(Exec, "round")
    /\ UNCHANGED <<sharedVars, processVars, hooks>>

\* One that was stopped is stopped again if need be, and removed by id: KeyError when
\* there is none.
Drop ==
    /\ At(Exec, "drop")
    /\ LET o == Me(Exec)
           v == vm[o].id
       IN  \/ /\ vm[o].state # "stopped"
              /\ Goto(Exec, "kill")
              /\ UNCHANGED vms
           \/ /\ vm[o].state = "stopped"
              /\ vms' = [vms EXCEPT ![v] = None]
              /\ IF vms[v] = None THEN Rest(Exec) ELSE Goto(Exec, "round")
    /\ UNCHANGED <<vm, owner, pages, taps, running, processVars, history, hooks>>

RoundEnd ==
    /\ At(Exec, "round")
    /\ th[Exec].todo = {}
    /\ Rest(Exec)
    /\ UNCHANGED <<vm, sharedVars, processVars, history, hooks>>

TimerDue(o) ==
    /\ At(Exec, "timers")
    /\ vm[o].timer
    /\ IF vm[o].state = "stopped" THEN UNCHANGED th ELSE BeginStop(Exec, o, "timer")
    /\ vm' = [vm EXCEPT ![o].timer = FALSE]
    /\ UNCHANGED <<sharedVars, processVars, history, hooks>>

Timers ==
    /\ At(Exec, "timers")
    /\ Goto(Exec, "reap")
    /\ UNCHANGED <<vm, sharedVars, processVars, history, hooks>>

Gone == {w \in watch : w[1] \notin alive}

\* VM.__stop() reads the state ..
Reap(w) ==
    /\ At(Exec, "reap") \/ At(Exec, "reaped")
    /\ w \in Gone
    /\ watch' = watch \ {w}
    /\ LET s == vm[w[2]].state IN
         th' = IF s = "stopped" THEN [th EXCEPT ![Exec].at = "reaped"]
               ELSE [th EXCEPT ![Exec].at = "exited", ![Exec].vm = w[2],
                               ![Exec].next = IF s = "waiting" THEN "failed" ELSE "done"]
    /\ UNCHANGED <<vm, sharedVars, alive, history, hooks>>

\* .. and assigns it.
Verdict ==
    /\ At(Exec, "exited")
    /\ Assign(Me(Exec), th[Exec].next)
    /\ th' = [th EXCEPT ![Exec] = [Resting EXCEPT !.at = "reaped"]]
    /\ UNCHANGED <<sharedVars, processVars, history, hooks>>

\* Not every process that has exited: an entry after a removed one is stepped over.
ReapEnd ==
    /\ (At(Exec, "reap") /\ Gone = {}) \/ At(Exec, "reaped")
    /\ Goto(Exec, "idle")
    /\ UNCHANGED <<vm, sharedVars, processVars, history, hooks>>

Execute == \/ ThreadBegin \/ Boot(Exec) \/ Promote \/ Drop \/ RoundEnd
           \/ Timers \/ Verdict \/ ReapEnd \/ Stop(Exec) \/ StopAll(Exec)
           \/ \E o \in Object : Visit(o) \/ TimerDue(o)
           \/ \E w \in watch : Reap(w)

ProcessExits(p) ==
    /\ p \in alive
    /\ alive' = alive \ {p}
    /\ UNCHANGED <<vm, sharedVars, watch, th, history, hooks>>

Next == Hook \/ Dispatch \/ Execute \/ \E p \in Process : ProcessExits(p)

Spec == Init /\ [][Next]_vars

Fairness == WF_vars(Execute)

FairSpec == Spec /\ Fairness

-----------------------------------------------------------------------------
(* Properties.                                                             *)

Place == {"idle", "kill", "end", "all", "clear", "down", "boot"}

\* Every variable has its type; a VM is listed under its id (hook(), thread()).
TypeOK ==
    /\ vm \in [Object -> [id : Vmid, proc : Process \cup {None}, adapters : BOOLEAN,
                          timer : BOOLEAN, usb : SUBSET Device, wait : Nat,
                          state : {"stopped", "waiting", "running", "sleeping", "done",
                                   "failed"}]]
    /\ vms \in [Vmid -> Object \cup {None}]
    /\ owner \in [Device -> Vmid \cup {None}]
    /\ pages \subseteq Vmid /\ taps \subseteq Vmid /\ running \in BOOLEAN
    /\ alive \subseteq Process /\ watch \subseteq Process \X Object
    /\ th[Disp].at \in Place \cup StartPlace \cup {"soft", "signal", "each", "usbadd", "usbdel",
                                         "ended"}
    /\ th[Exec].at \in Place \cup {"round", "promote", "drop", "timers", "reap",
                                   "reaped", "exited", "dead"}
    /\ \A t \in Thread : /\ th[t].vm \in Object \cup {None}
                         /\ th[t].todo \subseteq Object /\ th[t].usb \subseteq Device
    /\ \A o \in Listed : vms[vm[o].id] = o
    /\ history \subseteq Race

\* The daemon knows every VM that runs: it is listed in _vms, or just being started.  A
\* process it has lost could not be stopped and would share its id, files and interfaces
\* with the next VM of that id.  It is lost when the executer takes a VM for stopped that
\* is being started again, shuts Hydra down around it, or cannot start Hydra: thread() then
\* takes off the list what start() has not stopped.
Known ==
    \A o \in Object :
        Live(o) => \/ o \in Listed
                   \/ Starting /\ Me(Disp) = o
                   \/ Disturbed

\* What a VM claims is given back by _stop(): when there is none, Hydra is down and nobody
\* is at work, no memory and no interface is left, and every device may be added again.
\* Not so when a start failed half-way (its _stop() returns at once), a device came too
\* late, or the number of pages could not be written.
Released ==
    (/\ Listed = {} /\ alive = {} /\ ~running
     /\ At(Disp, "idle") /\ At(Exec, "idle"))
        => \/ pages = {} /\ taps = {} /\ \A d \in Device : owner[d] = None
           \/ Disturbed \/ history \cap {"failed", "late", "kept"} # {}

\* A device a VM holds is registered for it in HydraServer._usb, so that no other VM is
\* given it, in spite of _usb_clean() working on a copy and stop() clearing _usb.
UsbRegistered ==
    \A o \in Listed : \A d \in vm[o].usb :
        \/ owner[d] = vm[o].id
        \/ \E t \in Thread : Me(t) = o

\* What runs or is held is accounted for: the VMs and their devices.
Accounted == Known /\ UsbRegistered

\* HydraServer.stop() takes the bridge and the directory away only when no VM runs,
\* although it works on a copy of _vms while VMs are started and stopped.
DownIsEmpty ==
    [][(running /\ ~running') => \/ \A o \in Object : ~Live(o)
                                 \/ Disturbed]_vars

Exited(v) == vms[v] # None /\ ~Live(vms[v])

\* A VM whose process has exited is removed in the end: thread() learns of it by __stop(),
\* or, when the exit came before the state was assigned and __stop() found "stopped", by
\* counting rounds.  Not so when the state that says so is overwritten, or an exception
\* of a soft shutdown's timer has ended the executer.
ExitCleaned ==
    \A v \in Vmid :
        Exited(v) ~> (~Exited(v) \/ At(Exec, "dead") \/ history \cap {"undone"} # {})
=============================================================================
