------------------------------- MODULE Display -------------------------------
(***************************************************************************)
(* lib/modules/display.py: the outputs of a session.  When the daemon says *)
(* that a monitor, the lid or the source of power has changed, the outputs *)
(* are listed and compared with the last list; new ones are enabled, the   *)
(* built-in one follows the lid, and the other modules are told of a       *)
(* change (HOOK_DISPLAY).  An output that is gone stays in the last list.  *)
(***************************************************************************)
EXTENDS Naturals, FiniteSets, FiniteSetsExt

CONSTANTS
    Output,      \* outputs, each the number of its size
    Builtin,     \* DISPLAY_BUILTIN
    Automatic    \* _auto

ASSUME DisplayAssumption ==
    /\ Output \subseteq Nat \ {0} /\ IsFiniteSet(Output) /\ Builtin \in Output
    /\ Automatic \in BOOLEAN

VARIABLES
    output,      \* each output: "gone", "off" or "on"
    last         \* _last: the same, or "unknown"

displayVars == <<output, last>>

DisplayInit ==
    /\ output = [o \in Output |-> IF o = Builtin THEN "on" ELSE "gone"]
    /\ last = [o \in Output |-> IF o = Builtin THEN "on" ELSE "unknown"]

Connected == {o \in Output : output[o] # "gone"}
Lit == {o \in Output : output[o] = "on"}

\* _read(): the new list, what is new in it, and whether it differs from the last one.
Read == [o \in Output |-> IF o \in Connected THEN output[o] ELSE last[o]]
Fresh == {o \in Connected : last[o] = "unknown"}
Differs == \E o \in Connected : last[o] # output[o]

Known == {o \in Output : Read[o] # "unknown"}

\* _check(): the built-in output is lit when no other is known or lit, and not when the lid
\* is closed and another one is known; then the new ones are lit.
ToDarken(closed) ==
    IF Automatic /\ closed /\ Cardinality(Known) > 1 THEN {Builtin} ELSE {}

ToLight(closed) ==
    (IF Lit = {} \/ Cardinality(Known) <= 1 THEN {Builtin} ELSE {})
        \cup (IF Automatic THEN Fresh \ ToDarken(closed) ELSE {})

\* The commands to sway are given in this order, and each of them may fail.
Check(closed) ==
    /\ last' = Read
    /\ \E lit \in SUBSET (Connected \cap ToLight(closed)),
          dark \in SUBSET (Connected \cap ToDarken(closed)) :
        output' = [o \in Output |-> IF o \in dark THEN "off"
                                    ELSE IF o \in lit THEN "on" ELSE output[o]]

\* The largest of the sizes of the outputs that are lit, None without one.
Largest(None) == IF Lit = {} THEN None ELSE Max(Lit)

Plug(o, lit) ==
    /\ output[o] = "gone"
    /\ output' = [output EXCEPT ![o] = IF lit THEN "on" ELSE "off"]
    /\ UNCHANGED last

Unplug(o) ==
    /\ output[o] # "gone" /\ o # Builtin
    /\ output' = [output EXCEPT ![o] = "gone"]
    /\ UNCHANGED last
===============================================================================
