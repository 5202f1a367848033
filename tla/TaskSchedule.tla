----------------------------- MODULE TaskSchedule -----------------------------
(***************************************************************************)
(* What agent_spawn promises about its tasks: each is run once at most,    *)
(* after all it depends on have completed and within the limit on the      *)
(* tasks and those other subagents that were active at the spawn and are   *)
(* still; what is said of it is settled once, as done after its turn has   *)
(* completed, and as failed only if the turn was stopped, the task was     *)
(* refused, or one that it depends on has failed.                          *)
(*                                                                         *)
(* It promises nothing of other subagents that start a turn later: they    *)
(* take no slot.                                                           *)
(***************************************************************************)
EXTENDS Naturals, FiniteSets

CONSTANTS
  Tasks, Deps,     \* tasks, and what each depends on
  Externals,       \* subagents of other spawns
  MaxConcurrent    \* of the tasks and of those counted; 0: no limit

VARIABLES
  turn,            \* the turn of each task
  others,          \* those that were counted at the spawn and are active ever since
  status           \* what is said of each task

vars == <<turn, others, status>>

Statuses == {"pending", "running", "done", "failed"}

Init ==
  /\ turn = [t \in Tasks |-> "none"]
  /\ others \in SUBSET Externals
  /\ status = [t \in Tasks |-> "pending"]

Busy == {t \in Tasks : turn[t] \in {"active", "lost"}}
RoomLeft == MaxConcurrent = 0 \/ Cardinality(Busy) + Cardinality(others) < MaxConcurrent

\* The turn starts; or it is on record, and nothing runs it.
Start(t) ==
  /\ status[t] = "pending" /\ turn[t] = "none"
  /\ \A d \in Deps[t] : turn[d] = "completed"
  /\ RoomLeft
  /\ \/ /\ turn' = [turn EXCEPT ![t] = "active"]
        /\ status' = [status EXCEPT ![t] = "running"]
     \/ turn' = [turn EXCEPT ![t] = "lost"] /\ status' = status
  /\ others' = others

End(t) ==
  /\ turn[t] = "active"
  /\ \E how \in {"completed", "stopped"} : turn' = [turn EXCEPT ![t] = how]
  /\ UNCHANGED <<others, status>>

EndOther(e) ==
  /\ e \in others
  /\ others' = others \ {e}
  /\ UNCHANGED <<turn, status>>

\* The task was refused when it could start, or what it waits for has failed.
InVain(t) ==
  /\ status[t] = "pending" /\ turn[t] = "none"
  /\ (\A d \in Deps[t] : status[d] = "done") \/ (\E d \in Deps[t] : status'[d] = "failed")

Tell ==
  /\ status' \in [Tasks -> Statuses]
  /\ \A t \in Tasks :
       \/ status'[t] = status[t]
       \/ status'[t] = "done" /\ status[t] = "running" /\ turn[t] = "completed"
       \/ status'[t] = "failed" /\ ((status[t] = "running" /\ turn[t] = "stopped") \/ InVain(t))
  /\ UNCHANGED <<turn, others>>

Next ==
  \/ \E t \in Tasks : Start(t) \/ End(t)
  \/ \E e \in Externals : EndOther(e)
  \/ Tell

Spec == Init /\ [][Next]_vars
=============================================================================
