---------------------------- MODULE FirstDecision ----------------------------
(***************************************************************************)
(* What the approvals of a thread promise to the tool calls that wait for  *)
(* them: an approval is requested once, the first decision settles it for  *)
(* good, and the call acts on that decision.                               *)
(***************************************************************************)
CONSTANT Calls        \* tool calls, each with an approval of its own

VARIABLES
  status,   \* the approval of each call
  outcome   \* what has become of each call that had to wait

vars == <<status, outcome>>

Decisions == {"approved", "denied"}

Init ==
  /\ status = [k \in Calls |-> "none"]
  /\ outcome = [k \in Calls |-> "open"]

Request(k) ==
  /\ status[k] = "none"
  /\ status' = [status EXCEPT ![k] = "pending"]
  /\ UNCHANGED outcome

Decide(k, d) ==
  /\ status[k] = "pending"
  /\ status' = [status EXCEPT ![k] = d]
  /\ UNCHANGED outcome

\* The call follows the decision; or it ends before, and stays open.
Follow(k) ==
  /\ outcome[k] = "open"
  /\ \/ status[k] = "approved" /\ outcome' = [outcome EXCEPT ![k] = "ran"]
     \/ status[k] = "denied" /\ outcome' = [outcome EXCEPT ![k] = "denied"]
  /\ UNCHANGED status

Next ==
  \E k \in Calls :
    \/ Request(k)
    \/ \E d \in Decisions : Decide(k, d)
    \/ Follow(k)

Spec == Init /\ [][Next]_vars
=============================================================================
