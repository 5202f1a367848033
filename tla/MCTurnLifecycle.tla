-------------------------- MODULE MCTurnLifecycle --------------------------
(* Instances of TurnLifecycle: who may ask for what.                       *)
EXTENDS TurnLifecycle, TLC

CONSTANTS c1, c2

\* The turns are alike; the clients are not.
Interchangeable == Permutations(Turns)

Archiving(c) == {"start", "interrupt", "archived", "resume"}

\* One client starts and interrupts turns, the other starts them and pauses.
Pausing(c) == IF c = c1 THEN {"start", "interrupt"} ELSE {"start", "paused", "resume"}

\* Nothing is asked of a thread whose log cannot be replayed.
Replayable == readable
=============================================================================
