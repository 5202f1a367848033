---------------------------- MODULE AppendOnlyLog ----------------------------
(***************************************************************************)
(* What the event log of a thread promises to its users: events are only   *)
(* ever added, the n-th event carries number n, an acknowledged event is   *)
(* never taken back, and a client is given a prefix of the log.            *)
(***************************************************************************)
EXTENDS Integers, Sequences

CONSTANT Kinds      \* event payloads

VARIABLES
  log,        \* the events a replay gives
  acked,      \* the events reported as written
  delivered   \* the events a client has been given

vars == <<log, acked, delivered>>

Event(n, k) == [t |-> "rec", seq |-> n, kind |-> k]

Init ==
  /\ log = <<>>
  /\ acked = {}
  /\ delivered = <<>>

\* An event becomes visible; its writer may die before hearing of it.
Add(k) ==
  /\ log' = Append(log, Event(Len(log) + 1, k))
  /\ UNCHANGED <<acked, delivered>>

\* The writer hears that an event is durable.
Acknowledge(n) ==
  /\ acked' = acked \union {log[n]}
  /\ UNCHANGED <<log, delivered>>

\* A client catches up.
Deliver ==
  /\ delivered' = log
  /\ UNCHANGED <<log, acked>>

\* A loss of power takes events off the end, never an acknowledged one, and
\* takes the clients with it.
Lose(n) ==
  /\ \A r \in acked : r.seq <= n
  /\ log' = SubSeq(log, 1, n)
  /\ delivered' = <<>>
  /\ UNCHANGED acked

Next ==
  \/ \E k \in Kinds : Add(k)
  \/ \E n \in 1..Len(log) : Acknowledge(n)
  \/ Deliver
  \/ \E n \in 0..Len(log) : Lose(n)

Spec == Init /\ [][Next]_vars
=============================================================================
