------------------------------ MODULE MCServer ------------------------------
(* Symmetry for the safety runs of Server: connections, descriptors,         *)
(* messages and sending threads are interchangeable.                         *)
EXTENDS Server, TLC
Symmetry == Permutations(Conn) \cup Permutations(Fd) \cup Permutations(Msg)
              \cup Permutations(Sender)
=============================================================================
