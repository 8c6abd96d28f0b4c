------------------------------- MODULE Threads -------------------------------
(***************************************************************************)
(* The two threads that run the modules of a process, the daemon or a      *)
(* client: the dispatcher calls their hooks, the executer their tasks.     *)
(***************************************************************************)
CONSTANTS
    Disp, Exec,  \* the two threads
    None         \* a field that holds nothing

Thread == {Disp, Exec}
===============================================================================
