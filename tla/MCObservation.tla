---------------------------- MODULE MCObservation ----------------------------
(* Instances of Observation: a client that leaves out the steps.            *)
EXTENDS Observation

NoSteps == [c \in Clients |-> {"note", "set", "clear"}]
=============================================================================
