----------------------------- MODULE MCApprovals -----------------------------
(* Instances of Approvals: what the calls want.                             *)
EXTENDS Approvals

CONSTANTS k1, k2, plain, strict

Alike == [k \in {k1, k2} |-> plain]
Alone == [k \in {k1} |-> strict]
=============================================================================
