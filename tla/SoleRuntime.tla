----------------------------- MODULE SoleRuntime -----------------------------
(***************************************************************************)
(* What the server promises about the runtimes of a thread: one lives at a *)
(* time, all who ask for the thread share it, and another takes its place  *)
(* only when nobody uses it any more.  It is withdrawn only after a turn   *)
(* of it could not be completed, and is not shared again.                  *)
(***************************************************************************)
CONSTANTS
  Tasks,      \* who may use the thread
  Runtimes    \* names for its runtimes

VARIABLES
  live,       \* the runtimes that live
  users,      \* the tasks that use one
  shared,     \* whether others find it
  condemned   \* whether a turn of it could not be completed

vars == <<live, users, shared, condemned>>

Init == live = {} /\ users = {} /\ shared = FALSE /\ condemned = FALSE

Load(t) ==
  /\ live = {}
  /\ \E r \in Runtimes : live' = {r}
  /\ users' = {t}
  /\ UNCHANGED <<shared, condemned>>

Share ==
  /\ users # {} /\ ~condemned
  /\ shared' = TRUE
  /\ UNCHANGED <<live, users, condemned>>

Join(t) ==
  /\ shared
  /\ users' = users \union {t}
  /\ UNCHANGED <<live, shared, condemned>>

Condemn ==
  /\ users # {}
  /\ condemned' = TRUE
  /\ UNCHANGED <<live, users, shared>>

\* With its last reference the runtime is gone.
LastGone ==
  IF users' = {} /\ ~shared' THEN live' = {} /\ condemned' = FALSE
                             ELSE UNCHANGED <<live, condemned>>

Leave(t) ==
  /\ t \in users
  /\ users' = users \ {t} /\ shared' = shared
  /\ LastGone

\* Who withdraws the runtime may use it on.
Withdraw(t) ==
  /\ shared /\ condemned /\ t \in users
  /\ users' \in {users, users \ {t}} /\ shared' = FALSE
  /\ LastGone

Next == Share \/ Condemn \/ \E t \in Tasks : Load(t) \/ Join(t) \/ Leave(t) \/ Withdraw(t)

Spec == Init /\ [][Next]_vars
=============================================================================
