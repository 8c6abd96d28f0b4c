------------------------------ MODULE MCLockers ------------------------------
(***************************************************************************)
(* The Lockers of the daemon, on two topics that bound what a behaviour    *)
(* does: Lockers that expire while the system does not sleep, or a system  *)
(* that sleeps with the one Locker that bears on it.                       *)
(***************************************************************************)
EXTENDS LockerServer

CONSTANTS ExpiryName, SleepName, SleepLocker, SleepRace

VARIABLE topic

\* What is not of a topic stays as it is at first.
OfTopic ==
    \/ /\ topic = "expiry"
       /\ ability = {} /\ backoff = None /\ inbox = <<>> /\ power = "awake"
       /\ entry.name \in ExpiryName \cup {None}
    \/ /\ topic = "sleep"
       /\ ability # {} /\ told = {} /\ pc[Exec] \notin {"tell", "clear"}
       /\ entry.name \in SleepName \cup {None}
       /\ Listed \subseteq SleepLocker
       /\ history \subseteq SleepRace

MCInit == topic \in {"expiry", "sleep"} /\ Init /\ OfTopic

MCNext == Next /\ UNCHANGED topic /\ OfTopic'

MCSpec == MCInit /\ [][MCNext]_<<topic, vars>>
===============================================================================
