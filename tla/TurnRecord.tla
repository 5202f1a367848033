----------------------------- MODULE TurnRecord -----------------------------
(***************************************************************************)
(* What a thread promises to its users about its turns: one is active at a *)
(* time and ends once, the end that is announced is the end that stays,    *)
(* and a turn whose interrupt was accepted ends as Interrupted.  The       *)
(* server may lose the announcement, or the whole log, never break these.  *)
(***************************************************************************)
CONSTANT Turns

VARIABLES
  status,     \* of each turn: none, active, or how it ended
  accepted,   \* the turns whose interrupt was answered Ok
  announced,  \* the status in turn/completed of each turn
  lost        \* the log cannot be read any more

vars == <<status, accepted, announced, lost>>

Ends == {"completed", "failed", "interrupted"}

Init ==
  /\ status = [t \in Turns |-> "none"]
  /\ accepted = {}
  /\ announced = [t \in Turns |-> "none"]
  /\ lost = FALSE

Begin(t) ==
  /\ status[t] = "none" /\ \A u \in Turns : status[u] # "active"
  /\ status' = [status EXCEPT ![t] = "active"]
  /\ UNCHANGED <<accepted, announced, lost>>

Accept(t) ==
  /\ status[t] \in {"active", "interrupted"}
  /\ accepted' = accepted \union {t}
  /\ UNCHANGED <<status, announced, lost>>

\* The end is announced; or the server dies, or fails, before it is.
End(t, s) ==
  /\ status[t] = "active"
  /\ t \in accepted => s = "interrupted"
  /\ status' = [status EXCEPT ![t] = s]
  /\ announced' \in {announced, [announced EXCEPT ![t] = s]}
  /\ UNCHANGED <<accepted, lost>>

Lose ==
  /\ lost' = TRUE
  /\ status' = [t \in Turns |-> "none"]
  /\ UNCHANGED <<accepted, announced>>

Next ==
  /\ ~lost
  /\ \/ \E t \in Turns : Begin(t) \/ Accept(t) \/ \E s \in Ends : End(t, s)
     \/ Lose

Spec == Init /\ [][Next]_vars
=============================================================================
