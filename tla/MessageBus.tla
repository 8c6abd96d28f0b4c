----------------------------- MODULE MessageBus -----------------------------
(***************************************************************************)
(* What the message loop of SMD promises to the code that submits messages *)
(* to it, whatever the threads do: a message that was accepted waits, with *)
(* no order among the waiting ones, until the loop takes it; it is taken   *)
(* at most once; and once the loop has closed nothing is taken any more.   *)
(* Nothing here says that an accepted message IS taken: Dispatcher states  *)
(* under which conditions it is.                                           *)
(***************************************************************************)
CONSTANT Msg      \* the messages that may be submitted

VARIABLES pending,   \* accepted and not yet taken
          taken,     \* handed to the hooks, once and for all
          open       \* FALSE from the moment the loop stops taking messages

busVars == <<pending, taken, open>>

Init == /\ pending = {}
        /\ taken = {}
        /\ open = TRUE

\* A message may still be accepted after the loop has closed: it is then
\* never taken.
Accept(m) == /\ m \notin pending \cup taken
             /\ pending' = pending \cup {m}
             /\ UNCHANGED <<taken, open>>

Take(m) == /\ open
           /\ m \in pending
           /\ pending' = pending \ {m}
           /\ taken' = taken \cup {m}
           /\ UNCHANGED open

Close == /\ open
         /\ open' = FALSE
         /\ UNCHANGED <<pending, taken>>

Next == \/ \E m \in Msg : Accept(m) \/ Take(m)
        \/ Close

Spec == Init /\ [][Next]_busVars
=============================================================================
