------------------------------ MODULE MC_Socket ------------------------------
(***************************************************************************)
(* Socket on a small instance: two processes, two file-table entries, two *)
(* descriptor-table entries each and two descriptors per controller, so   *)
(* that an entry freed by one process's close can be taken by the other's *)
(* socket call before DestorySocket runs, both controllers can fill up,   *)
(* and a process can hold a socket twice through dup.                     *)
(***************************************************************************)
EXTENDS Socket

CONSTANTS p1, p2

MC_Procs == {p1, p2}
====
