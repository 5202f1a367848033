------------------------------ MODULE EventFeed ------------------------------
(***************************************************************************)
(* What thread/subscribe promises to those who follow a thread by asking   *)
(* again with the since_seq of the last answer: every event of the kinds   *)
(* they want, once, in the order of the log, in pages; and no answer takes *)
(* them back, or past an event they have not been given.                   *)
(***************************************************************************)
EXTENDS Naturals, Sequences, FiniteSets

CONSTANTS
  Event,      \* what may be in the log
  Clients,
  Wanted,     \* the kinds that each client asks for
  PageSize    \* how many events an answer has at most

VARIABLES
  log,        \* the events of the thread
  cursor,     \* since_seq of each client
  got         \* the places of the events it has been given

vars == <<log, cursor, got>>

Init ==
  /\ log = <<>>
  /\ cursor = [c \in Clients |-> 0]
  /\ got = [c \in Clients |-> {}]

Happen ==
  /\ \E e \in Event : log' = Append(log, e)
  /\ UNCHANGED <<cursor, got>>

\* The wanted events from the client's place to n.
News(c, n) == {i \in cursor[c] + 1..n : log[i].kind \in Wanted[c]}

Give(c) ==
  /\ \E n \in cursor[c]..Len(log) :
       /\ Cardinality(News(c, n)) <= PageSize
       /\ got' = [got EXCEPT ![c] = @ \union News(c, n)]
       /\ cursor' = [cursor EXCEPT ![c] = n]
  /\ UNCHANGED log

Next == Happen \/ \E c \in Clients : Give(c)

Spec == Init /\ [][Next]_vars
=============================================================================
