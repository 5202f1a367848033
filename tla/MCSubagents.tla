----------------------------- MODULE MCSubagents -----------------------------
(* Instances of Subagents: b waits for a, and a has the asks; c is free.    *)
EXTENDS Subagents, TLC

CONSTANTS a, b, c, x, k, other

OneWaits == [t \in Tasks |-> IF t = b THEN {a} ELSE {}]
AskedByA == [q \in Asks |-> a]
=============================================================================
