------------------------------- MODULE Desktop -------------------------------
(***************************************************************************)
(* Display and Background on one client.  The dispatcher hands them the    *)
(* messages of the daemon, the last one first (Dispatcher); what Display   *)
(* finds reaches Background as a message by way of the daemon.  The        *)
(* executer changes the background meanwhile.                              *)
(***************************************************************************)
EXTENDS Background, Display, Sequences, SequencesExt

CONSTANTS
    MaxInbox     \* bounds the messages that wait

VARIABLES
    inbox,       \* messages that wait, of "monitor", "display"
    unseen       \* has a change of the outputs gone unnoticed?

vars == <<backgroundVars, displayVars, inbox, unseen>>

systemVars == <<inbox, unseen>>

Init ==
    /\ BackgroundInit /\ DisplayInit
    /\ inbox = <<>> /\ unseen = FALSE

\* displays() tells the largest size, or fails.
Sizes == {Largest(None), None}

Room == Len(inbox) < MaxInbox

-----------------------------------------------------------------------------
(* The dispatcher.                                                         *)

Take(m) ==
    /\ At(Disp, "idle")
    /\ inbox # <<>>
    /\ Last(inbox) = m
    /\ inbox' = Front(inbox)

\* HOOK_MONITOR or HOOK_POWER: a change is forwarded, and comes back by way of the daemon;
\* when the list fails there is a TypeError.  The lid may darken an output without a change
\* of the list.
MonitorMessage ==
    /\ At(Disp, "idle")
    /\ inbox # <<>> /\ Last(inbox) = "monitor"
    /\ \/ /\ \E closed \in BOOLEAN : Check(closed)
          /\ inbox' = IF Differs THEN Append(Front(inbox), "display") ELSE Front(inbox)
          /\ unseen' = (unseen \/ (~Differs /\ output' # output))
       \/ /\ inbox' = Front(inbox)
          /\ unseen' = TRUE
          /\ UNCHANGED displayVars
    /\ UNCHANGED backgroundVars

DisplayMessage ==
    /\ Take("display")
    /\ \E found \in Sizes : Resized(found)
    /\ UNCHANGED <<displayVars, unseen>>

BackgroundMessage ==
    /\ \E found \in Sizes : Picked(found)
    /\ UNCHANGED <<displayVars, systemVars>>

\* Every module reloads; Display.setup() looks at the outputs and tells nobody.
Reload ==
    /\ \E on, rotates \in BOOLEAN : BackgroundReload(on, rotates)
    /\ \/ \E closed \in BOOLEAN : Check(closed)
       \/ UNCHANGED displayVars
    /\ UNCHANGED systemVars

Shutdown ==
    /\ BackgroundShutdown
    /\ UNCHANGED <<displayVars, systemVars>>

Handler ==
    MonitorMessage \/ DisplayMessage \/ BackgroundMessage \/ Reload \/ Shutdown

-----------------------------------------------------------------------------
(* The outputs.                                                            *)

Plugs(o) ==     \* until a change has gone unnoticed
    /\ Room /\ ~Torn /\ ~unseen
    /\ \/ (\E lit \in BOOLEAN : Plug(o, lit)) /\ unseen' = (unseen \/ last[o] # "unknown")
       \/ Unplug(o) /\ unseen' = TRUE
    /\ inbox' = Append(inbox, "monitor")
    /\ UNCHANGED backgroundVars

Next ==
    \/ /\ (\E t \in Thread : Change(t)) \/ Rotate(Sizes)
       /\ UNCHANGED <<displayVars, systemVars>>
    \/ Handler
    \/ \E o \in Output : Plugs(o)

Spec == Init /\ [][Next]_vars

-----------------------------------------------------------------------------
(* Properties.                                                             *)

\* Every field of the modules has a value that the code gives it.
TypeOK ==
    /\ BackgroundTypeOK
    /\ output \in [Output -> {"gone", "off", "on"}]
    /\ last \in [Output -> {"unknown", "off", "on"}]
    /\ unseen \in BOOLEAN
    /\ inbox \in Seq({"monitor", "display"})

\* When nothing waits and both threads rest, a size that is known is that of the largest
\* output that is lit: pictures are converted to it; unless an output has gone, or was
\* switched off for the lid.
SizeFits ==
    BackgroundRests /\ inbox = <<>> /\ ~unseen /\ ~Torn => size \in {None, Largest(None)}

\* What the client shows: one rotation, whose pictures fit the outputs.
BackgroundHolds == RotationHolds /\ SizeFits
===============================================================================
