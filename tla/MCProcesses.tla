----------------------------- MODULE MCProcesses -----------------------------
(* Instances of Processes: requests can be exchanged.                       *)
EXTENDS Processes, TLC

Interchangeable == Permutations(Tasks)
=============================================================================
