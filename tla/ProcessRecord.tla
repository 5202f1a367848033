---------------------------- MODULE ProcessRecord ----------------------------
(***************************************************************************)
(* What can be relied on of the processes of a thread, whoever starts,     *)
(* strikes and forgets them and however often the server dies: a process   *)
(* lives once; what events.jsonl has of it begins with its start, and has  *)
(* its exit only when it is gone; a status that was settled is not taken   *)
(* back; and who is told that it is complete may take it for dead, unless  *)
(* its command line is not the one on record and it was abandoned.         *)
(***************************************************************************)
CONSTANTS
  Procs,
  Disguised   \* processes that may be taken for gone while they live

VARIABLES
  child,      \* the operating system's view
  log,        \* the types of the events about each process
  status,     \* what process/list answers
  complete    \* those whose completion was told

vars == <<child, log, status, complete>>

Lives == {"none", "alive", "zombie", "reaped"}
Events == {"started", "interrupt", "kill", "exited"}
Statuses == {"running", "exited", "abandoned"}

Init ==
  /\ child = [p \in Procs |-> "none"]
  /\ log = [p \in Procs |-> {}]
  /\ status = [p \in Procs |-> "running"]
  /\ complete = {}

\* A child is born once and dies once; it may be reaped at once.
Ages(p) ==
  <<child[p], child'[p]>> \in
    {<<"none", "alive">>, <<"alive", "zombie">>, <<"alive", "reaped">>, <<"zombie", "reaped">>}

Notes(p, e) ==
  /\ log'[p] = log[p] \union {e}
  /\ IF e = "started" THEN child[p] # "none" ELSE "started" \in log[p]
  /\ e = "exited" => child[p] = "reaped"

\* An abandoned process may still be said to have exited, when its actor comes to it.
Settles(p) ==
  \/ status'[p] = "exited" /\ "exited" \in log'[p]
  \/ /\ status[p] = "running" /\ status'[p] = "abandoned"
     /\ child[p] = "reaped" \/ p \in Disguised

\* Whom a completion was told of is gone, or abandoned by mistake.
Completes(p) ==
  child[p] = "reaped" \/ (p \in Disguised /\ status'[p] = "abandoned")

\* The death of the server is that of several children: each process goes its own way.
Next ==
  /\ child' \in [Procs -> Lives] /\ log' \in [Procs -> SUBSET Events]
  /\ status' \in [Procs -> Statuses] /\ complete' \in SUBSET Procs
  /\ \A p \in Procs :
       /\ child'[p] = child[p] \/ Ages(p)
       /\ log'[p] = log[p] \/ \E e \in Events : Notes(p, e)
       /\ status'[p] = status[p] \/ Settles(p)
       /\ p \in complete => p \in complete'
       /\ p \in complete' \ complete => Completes(p)

Spec == Init /\ [][Next]_vars
=============================================================================
