----------------------------- MODULE MCEventLog -----------------------------
(* Small instances of EventLog: handles and payloads are interchangeable.  *)
EXTENDS EventLog, TLC

Interchangeable == Permutations(Handles) \union Permutations(Kinds)
=============================================================================
