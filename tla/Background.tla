------------------------------ MODULE Background ------------------------------
(***************************************************************************)
(* lib/modules/background.py: the picture behind the windows of a session, *)
(* shown by a swaybg process, and the one of the lock screen, made from it *)
(* by a conversion process.                                                *)
(*                                                                         *)
(* The executer changes the picture from time to time (_change) and links  *)
(* a picture that has been converted (_link); the dispatcher changes it on *)
(* request, and on a reload begins anew.  Both run _background(), whose    *)
(* only guard is the flag _lock.                                           *)
(***************************************************************************)
EXTENDS Naturals, FiniteSets, FiniteSetsExt

CONSTANTS
    Picture,     \* pictures in the directory
    Viewer,      \* swaybg processes (bounds those alive at a time)
    Handle,      \* tasks that run _change (bounds those alive at a time)
    Race,        \* races that a behaviour records: see Raced
    Disp, Exec,  \* the two threads
    None

ASSUME BackgroundAssumption ==
    /\ Viewer \subseteq Nat /\ Handle \subseteq Nat /\ Handle # {}
    /\ Disp # Exec
    /\ None \notin Picture \cup Viewer \cup Handle \cup Nat

Thread == {Disp, Exec}

VARIABLES
    enabled,     \* _enabled
    auto,        \* is _auto positive?
    handle,      \* _handle
    tasks,       \* queued tasks that run _change
    lock,        \* _lock
    size,        \* _size: None, or the largest size of a display
    proc,        \* _proc
    viewers,     \* swaybg processes that run
    converting,  \* pictures that a process converts
    cache,       \* pictures that have been converted
    linked,      \* the picture of the lock screen
    run,         \* what each thread does
    history      \* the races that have happened

rotationVars == <<enabled, auto, handle, tasks>>
viewerVars == <<proc, viewers>>
imageVars == <<converting, cache, linked>>
backgroundVars == <<rotationVars, lock, size, viewerVars, imageVars, run, history>>

\* "forked": a reload began a rotation while the executer was about to continue the one
\* before; "met": both threads were amidst _background(), or it was reset during it; "early":
\* the picture was linked before _lock was set for its conversion.
Raced(r, happened) == IF happened THEN history \cup ({r} \cap Race) ELSE history

\* A thread: its place in _background(), the size it has read, the process it replaces, the
\* picture, whether the conversion was started, and what follows: the end of a hook, or that
\* of _change().
Resting == [at |-> "idle", found |-> None, old |-> None, pic |-> None, started |-> FALSE,
            next |-> "idle"]

BackgroundInit ==
    /\ enabled \in BOOLEAN /\ auto \in BOOLEAN
    /\ tasks = IF enabled /\ auto THEN {Min(Handle)} ELSE {}
    /\ handle = IF tasks = {} THEN None ELSE Min(Handle)
    /\ lock = FALSE /\ size = None
    /\ proc = None /\ viewers = {}
    /\ converting = {} /\ cache = {} /\ linked = None
    /\ run = [t \in Thread |-> Resting]
    /\ history = {}

\* After these the flag and the tasks do not fit; nothing is considered then.
Torn == history \cap {"forked", "met", "early"} # {}

At(t, place) == run[t].at = place /\ ~Torn

Goto(t, place) == run' = [run EXCEPT ![t].at = place]

\* Mutated: what a thread worked on stays.
ReturnKeeps(t) == Goto(t, run[t].next)

Return(t) == run' = [run EXCEPT ![t] = [Resting EXCEPT !.at = run[t].next]]

\* An exception ends the hook; that of a task ends the executer (Executer).
Raise(t) ==
    run' = [run EXCEPT ![t] = [Resting EXCEPT !.at = IF t = Exec THEN "dead" ELSE "idle"]]

Amidst(t) == run[t].at \in {"size", "guard", "show", "replace", "convert", "mark"}

Other(t) == CHOOSE o \in Thread : o # t

-----------------------------------------------------------------------------
(* Both threads: _background().                                            *)

\* The displays are asked for their size unless one is known; without a directory, or when
\* Backgrounds are disabled, nothing is done.
Begin(t, found, next) ==
    \E goes \in BOOLEAN :
        run' = [run EXCEPT ![t] =
                   IF goes /\ enabled
                   THEN [Resting EXCEPT !.at = "size", !.next = next,
                                        !.found = IF size = None THEN found ELSE size]
                   ELSE [Resting EXCEPT !.at = next]]

\* The size is kept.  Nothing more is done without a display, or when _lock is set.
Size(t) ==
    /\ At(t, "size")
    /\ LET found == run[t].found IN
         /\ size' = IF found = None THEN size ELSE found
         /\ history' = Raced("met", size # None /\ size # found)
         /\ IF found = None \/ lock THEN Return(t)
            ELSE run' = [run EXCEPT ![t].at = "guard", ![t].found = None]
    /\ UNCHANGED <<rotationVars, lock, viewerVars, imageVars>>

\* _lock is set and a picture is chosen, or none is found.
Guard(t) ==
    /\ At(t, "guard")
    /\ history' = Raced("met", Amidst(Other(t)))
    /\ \/ \E p \in Picture :
            /\ lock' = TRUE
            /\ run' = [run EXCEPT ![t].at = "show", ![t].pic = p]
       \/ lock' = FALSE /\ Return(t)
    /\ UNCHANGED <<rotationVars, size, viewerVars, imageVars>>

Show(t) ==     \* o = self._proc
    /\ At(t, "show")
    /\ run' = [run EXCEPT ![t].at = "replace", ![t].old = proc]
    /\ UNCHANGED <<rotationVars, lock, size, viewerVars, imageVars, history>>

Stopped(t) == viewers \ {run[t].old}

Replace(t) ==     \* the new process is run and the old one stopped, unless that fails
    /\ At(t, "replace")
    /\ LET free == Viewer \ (viewers \cup {proc} \cup {run[o].old : o \in Thread}) IN
       \/ /\ free # {}
          /\ proc' = Min(free)
          /\ viewers' = Stopped(t) \cup {proc'}
       \/ UNCHANGED viewerVars
    /\ run' = [run EXCEPT ![t].at = "convert", ![t].old = None]
    /\ UNCHANGED <<rotationVars, lock, size, imageVars, history>>

\* _set_lockscreen(): without a path for it, or a cache directory, nothing is done; a
\* picture that was converted before is linked; else a process is run and watched, or
\* cannot be run.  Without a size there is a TypeError.
Convert(t) ==
    /\ At(t, "convert")
    /\ LET p == run[t].pic IN
       \/ run' = [run EXCEPT ![t].at = "mark"] /\ UNCHANGED <<lock, imageVars>>
       \/ /\ p \in cache
          /\ linked' = p
          /\ lock' = FALSE
          /\ run' = [run EXCEPT ![t].at = "mark"]
          /\ UNCHANGED <<converting, cache>>
       \/ /\ p \notin cache /\ size # None
          /\ converting' = converting \cup {p}
          /\ run' = [run EXCEPT ![t].at = "mark", ![t].started = TRUE]
          /\ UNCHANGED <<lock, cache, linked>>
       \/ /\ p \notin cache /\ size = None
          /\ Raise(t)
          /\ UNCHANGED <<lock, imageVars>>
    /\ UNCHANGED <<rotationVars, size, viewerVars, history>>

\* Mutated: the guard stays although nothing is converted.
MarkHolds(t) == TRUE

Marked(t) == run[t].started

Mark(t) ==     \* _lock = True if a conversion was started, which may have ended
    /\ At(t, "mark")
    /\ lock' = Marked(t)
    /\ history' = Raced("early", run[t].started /\ converting = {})
    /\ Return(t)
    /\ UNCHANGED <<rotationVars, size, viewerVars, imageVars>>

Change(t) == Size(t) \/ Guard(t) \/ Show(t) \/ Replace(t) \/ Convert(t) \/ Mark(t)

-----------------------------------------------------------------------------
(* The executer.                                                           *)

Fire(h, found) ==     \* _change() begins; its task can no longer be cancelled
    /\ At(Exec, "idle")
    /\ h \in tasks
    /\ tasks' = tasks \ {h}
    /\ Begin(Exec, found, "again")
    /\ UNCHANGED <<enabled, auto, handle, lock, size, viewerVars, imageVars, history>>

Unused == Handle \ (tasks \cup {handle})

Continues == auto /\ enabled

Again ==     \* the end of _change()
    /\ At(Exec, "again")
    /\ \/ /\ Continues /\ Unused # {}
          /\ handle' = Min(Unused)
          /\ tasks' = tasks \cup {handle'}
       \/ ~Continues /\ UNCHANGED <<handle, tasks>>
    /\ run' = [run EXCEPT ![Exec] = Resting]
    /\ UNCHANGED <<enabled, auto, lock, size, viewerVars, imageVars, history>>

\* A conversion ends, well or not: _link() links what it should have made, and opens the
\* guard, also when it cannot be linked.
Link(p) ==
    /\ At(Exec, "idle")
    /\ p \in converting
    /\ converting' = converting \ {p}
    /\ cache' \in {cache, cache \cup {p}}
    /\ linked' \in {linked, p}
    /\ lock' = FALSE
    /\ history' = Raced("met", Amidst(Disp) /\ ~run[Disp].started)
    /\ UNCHANGED <<rotationVars, size, viewerVars, run>>

-----------------------------------------------------------------------------
(* The dispatcher.                                                         *)

Picked(found) ==     \* HOOK_BACKGROUND
    /\ At(Disp, "idle")
    /\ Begin(Disp, found, "idle")
    /\ UNCHANGED <<rotationVars, lock, size, viewerVars, imageVars, history>>

Resized(found) ==     \* HOOK_DISPLAY: the size is forgotten first
    /\ At(Disp, "idle")
    /\ size' = None
    /\ \/ run' = [run EXCEPT ![Disp] = [Resting EXCEPT !.at = "size", !.found = found]]
       \/ UNCHANGED run
    /\ history' = Raced("met", At(Exec, "size"))
    /\ UNCHANGED <<rotationVars, lock, viewerVars, imageVars>>

Cancelled == tasks \ {handle}

\* reload() and setup(): a rotation that the executer is in goes on.
BackgroundReload(on, rotates) ==
    /\ At(Disp, "idle")
    /\ lock' = FALSE /\ size' = None
    /\ enabled' = on
    /\ auto' = IF on THEN rotates ELSE auto
    /\ LET unused == Handle \ tasks IN
       \/ /\ on /\ rotates /\ unused # {}
          /\ handle' = Min(unused)
          /\ tasks' = Cancelled \cup {handle'}
       \/ /\ ~(on /\ rotates)
          /\ handle' = None
          /\ tasks' = Cancelled
    /\ history' = Raced("forked", run[Exec].next = "again" \/ At(Exec, "again"))
                    \cup Raced("met", Amidst(Exec) \/ converting # {})
    /\ UNCHANGED <<viewerVars, imageVars, run>>

BackgroundShutdown ==     \* hook(HOOK_SHUTDOWN)
    /\ At(Disp, "idle")
    /\ viewers' = viewers \ {proc}
    /\ handle' = None
    /\ tasks' = tasks \ {handle}
    /\ Goto(Disp, "down")
    /\ UNCHANGED <<enabled, auto, lock, size, proc, imageVars, history>>

\* What the executer does; a display of any size in Found may be there.
Rotate(Found) ==
    \/ \E h \in Handle, found \in Found : Fire(h, found)
    \/ Again
    \/ \E p \in Picture : Link(p)

-----------------------------------------------------------------------------
(* Properties.                                                             *)

BackgroundTypeOK ==
    /\ {enabled, auto, lock} \subseteq BOOLEAN
    /\ handle \in Handle \cup {None} /\ tasks \subseteq Handle
    /\ size \in Nat \cup {None}
    /\ proc \in Viewer \cup {None} /\ viewers \subseteq Viewer
    /\ converting \cup cache \subseteq Picture /\ linked \in Picture \cup {None}
    /\ run \in [Thread -> [at : {"idle", "size", "guard", "show", "replace", "convert", "mark",
                                 "again", "down", "dead"},
                           found : Nat \cup {None}, old : Viewer \cup {None},
                           pic : Picture \cup {None},
                           started : BOOLEAN, next : {"idle", "again"}]]
    /\ \A t \in Thread : run[t].at = "idle" => run[t] = Resting
    /\ history \subseteq Race

BackgroundRests == \A t \in Thread : run[t].at = "idle"

\* When both threads rest there is one task to change the picture if it should change by
\* itself, and none otherwise; unless a reload met the executer in _change(), where a
\* comment of the code has it guarded.
OneRotation ==
    BackgroundRests /\ "forked" \notin history =>
        /\ tasks \subseteq {handle}
        /\ tasks # {} <=> enabled /\ auto

\* When both threads rest, the guard is closed only while a conversion runs whose end will
\* open it, and the one picture shown is that of the process known; unless the threads met
\* in _background(), or the conversion was faster.
GuardOpens ==
    BackgroundRests /\ history \cap {"met", "early"} = {} =>
        /\ lock => converting # {}
        /\ viewers \subseteq {proc}

\* The rotation and the guard of the conversion, each up to the races it names.
RotationHolds == OneRotation /\ GuardOpens
===============================================================================
