--------------------------- MODULE ApprovalsProofs ---------------------------
(***************************************************************************)
(* Proofs about Approvals, for any number of calls, clients, rules and     *)
(* faults: the inductive invariant, what follows from it, and that the log *)
(* of approvals is a register settled by the first decision.               *)
(***************************************************************************)
EXTENDS Approvals, TLAPS

-----------------------------------------------------------------------------
(* What an append does to what the log says.                               *)

\* Decisions are the places of the log that hold one.
LEMMA PlacesInLog ==
  ASSUME events \in Seq(EventTypes), NEW k
  PROVE  DecidedAt(k) \subseteq 1..Len(events)
  BY DEF DecidedAt

\* Two first decisions are the same.
LEMMA FirstUnique ==
  ASSUME events \in Seq(EventTypes), NEW k, NEW d, NEW e, First(k, d), First(k, e)
  PROVE  d = e
<1>1. PICK i \in DecidedAt(k) : events[i].decision = d /\ \A j \in DecidedAt(k) : i <= j
  BY DEF First
<1>2. PICK i2 \in DecidedAt(k) : events[i2].decision = e /\ \A j \in DecidedAt(k) : i2 <= j
  BY DEF First
<1>3. i \in 1..Len(events) /\ i2 \in 1..Len(events)
  BY <1>1, <1>2, PlacesInLog
<1>4. i = i2
  BY <1>1, <1>2, <1>3
<1> QED
  BY <1>1, <1>2, <1>4

\* A request appended makes its approval requested, and decides nothing.
LEMMA RequestLogged ==
  ASSUME events \in Seq(EventTypes), NEW k \in Calls, Log(Requested(k))
  PROVE  /\ events' \in Seq(EventTypes)
         /\ \A j \in Calls : IsRequested(j)' <=> IsRequested(j) \/ j = k
         /\ \A j \in Calls : DecidedAt(j)' = DecidedAt(j)
         /\ \A i \in 1..Len(events) : events'[i] = events[i]
         /\ Len(events') = Len(events) + 1
         /\ events'[Len(events) + 1] = Requested(k)
<1>1. Requested(k) \in EventTypes
  BY DEF Requested, EventTypes
<1>2. /\ events' \in Seq(EventTypes)
      /\ Len(events') = Len(events) + 1
      /\ \A i \in 1..Len(events) : events'[i] = events[i]
      /\ events'[Len(events) + 1] = Requested(k)
      /\ DOMAIN events = 1..Len(events)
      /\ DOMAIN events' = 1..(Len(events) + 1)
      /\ Len(events) \in Nat
  BY <1>1 DEF Log
<1>3. \A j \in Calls : IsRequested(j)' <=> IsRequested(j) \/ j = k
  <2> TAKE j \in Calls
  <2>1. Requested(k) = Requested(j) <=> j = k
    BY DEF Requested
  <2>2. IsRequested(j)' <=> \E i \in 1..(Len(events) + 1) : events'[i] = Requested(j)
    BY <1>2 DEF IsRequested, Requested
  <2>3. IsRequested(j) <=> \E i \in 1..Len(events) : events[i] = Requested(j)
    BY <1>2 DEF IsRequested
  <2> QED
    BY <1>2, <2>1, <2>2, <2>3
<1>4. \A j \in Calls : DecidedAt(j)' = DecidedAt(j)
  <2> TAKE j \in Calls
  <2>1. DecidedAt(j)' = {i \in 1..(Len(events) + 1) : events'[i].type = "decided" /\ events'[i].of = j}
    BY <1>2 DEF DecidedAt
  <2>2. DecidedAt(j) = {i \in 1..Len(events) : events[i].type = "decided" /\ events[i].of = j}
    BY <1>2 DEF DecidedAt
  <2>3. events'[Len(events) + 1].type # "decided"
    BY <1>2 DEF Requested
  <2> QED
    BY <1>2, <2>1, <2>2, <2>3
<1> QED
  BY <1>2, <1>3, <1>4

\* A decision appended is one more place for its approval, and requests nothing.
LEMMA DecisionLogged ==
  ASSUME events \in Seq(EventTypes), NEW k \in Calls, NEW d \in Decisions, NEW r \in BOOLEAN,
         Log(Decided(k, d, r))
  PROVE  /\ events' \in Seq(EventTypes)
         /\ \A j \in Calls : IsRequested(j)' <=> IsRequested(j)
         /\ \A j \in Calls : j # k => DecidedAt(j)' = DecidedAt(j)
         /\ DecidedAt(k)' = DecidedAt(k) \union {Len(events) + 1}
         /\ \A i \in 1..Len(events) : events'[i] = events[i]
         /\ Len(events') = Len(events) + 1
         /\ events'[Len(events) + 1] = Decided(k, d, r)
<1>1. Decided(k, d, r) \in EventTypes
  BY DEF Decided, EventTypes
<1>2. /\ events' \in Seq(EventTypes)
      /\ Len(events') = Len(events) + 1
      /\ \A i \in 1..Len(events) : events'[i] = events[i]
      /\ events'[Len(events) + 1] = Decided(k, d, r)
      /\ DOMAIN events = 1..Len(events)
      /\ DOMAIN events' = 1..(Len(events) + 1)
      /\ Len(events) \in Nat
  BY <1>1 DEF Log
<1>3. \A j \in Calls : IsRequested(j)' <=> IsRequested(j)
  <2> TAKE j \in Calls
  <2>1. Decided(k, d, r) # Requested(j)
    BY DEF Requested, Decided
  <2>2. IsRequested(j)' <=> \E i \in 1..(Len(events) + 1) : events'[i] = Requested(j)
    BY <1>2 DEF IsRequested, Requested
  <2>3. IsRequested(j) <=> \E i \in 1..Len(events) : events[i] = Requested(j)
    BY <1>2 DEF IsRequested
  <2> QED
    BY <1>2, <2>1, <2>2, <2>3
<1>4. \A j \in Calls : DecidedAt(j)' = {i \in 1..(Len(events) + 1) : events'[i].type = "decided" /\ events'[i].of = j}
  BY <1>2 DEF DecidedAt
<1>5. \A j \in Calls : DecidedAt(j) = {i \in 1..Len(events) : events[i].type = "decided" /\ events[i].of = j}
  BY <1>2 DEF DecidedAt
<1>6. events'[Len(events) + 1].type = "decided" /\ events'[Len(events) + 1].of = k
  BY <1>2 DEF Decided
<1>7. ASSUME NEW j \in Calls, j # k PROVE DecidedAt(j)' = DecidedAt(j)
  <2>1. \A i \in 1..(Len(events) + 1) :
          events'[i].type = "decided" /\ events'[i].of = j => i \in 1..Len(events)
    BY <1>2, <1>6, <1>7
  <2>2. DecidedAt(j)' = {i \in 1..(Len(events) + 1) : events'[i].type = "decided" /\ events'[i].of = j}
    BY <1>4
  <2>3. DecidedAt(j) = {i \in 1..Len(events) : events[i].type = "decided" /\ events[i].of = j}
    BY <1>5
  <2>4. 1..Len(events) \subseteq 1..(Len(events) + 1)
    BY <1>2
  <2> QED
    BY <1>2, <2>1, <2>2, <2>3, <2>4
<1>8. DecidedAt(k)' = DecidedAt(k) \union {Len(events) + 1}
  BY <1>2, <1>4, <1>5, <1>6
<1> QED
  BY <1>2, <1>3, <1>7, <1>8

\* The first decision on an approval that has one stays the first.
LEMMA FirstStays ==
  ASSUME events \in Seq(EventTypes), NEW k \in Calls, NEW d \in Decisions, NEW r \in BOOLEAN,
         Log(Decided(k, d, r)), NEW j \in Calls, DecidedAt(j) # {}, NEW e
  PROVE  First(j, e)' <=> First(j, e)
<1> USE DecisionLogged, PlacesInLog
<1>1. CASE j # k
  <2>1. DecidedAt(j)' = DecidedAt(j)
    BY <1>1
  <2>2. \A i \in DecidedAt(j) : events'[i] = events[i]
    OBVIOUS
  <2> QED
    BY <2>1, <2>2 DEF First
<1>2. CASE j = k
  <2>1. DecidedAt(j)' = DecidedAt(j) \union {Len(events) + 1}
    BY <1>2
  <2>2. \A i \in DecidedAt(j) : i \in 1..Len(events) /\ events'[i] = events[i]
    OBVIOUS
  <2>3. Len(events) \in Nat
    OBVIOUS
  <2>4. First(j, e) => First(j, e)'
    BY <2>1, <2>2, <2>3 DEF First
  <2>5. First(j, e)' => First(j, e)
    <3> SUFFICES ASSUME First(j, e)' PROVE First(j, e)
      OBVIOUS
    <3>1. PICK i \in DecidedAt(j)' : events'[i].decision = e /\ \A m \in DecidedAt(j)' : i <= m
      BY DEF First
    <3>2. PICK m \in DecidedAt(j) : m <= Len(events)
      BY <2>2
    <3>3. i # Len(events) + 1
      BY <3>1, <3>2, <2>1, <2>2, <2>3
    <3>4. i \in DecidedAt(j)
      BY <3>1, <3>3, <2>1
    <3> QED
      BY <3>1, <3>4, <2>1, <2>2 DEF First
  <2> QED
    BY <2>4, <2>5
<1> QED
  BY <1>1, <1>2

\* The decision appended to an approval that has none is its first.
LEMMA FirstSet ==
  ASSUME events \in Seq(EventTypes), NEW k \in Calls, NEW d \in Decisions, NEW r \in BOOLEAN,
         Log(Decided(k, d, r)), DecidedAt(k) = {}
  PROVE  First(k, d)'
<1>1. DecidedAt(k)' = {Len(events) + 1}
  BY DecisionLogged
<1>2. events'[Len(events) + 1].decision = d
  BY DecisionLogged DEF Decided
<1>3. Len(events) + 1 \in Nat
  OBVIOUS
<1> QED
  BY <1>1, <1>2, <1>3 DEF First

\* Some decision on k is d.
HasDecision(k, d) == \E i \in DecidedAt(k) : events[i].decision = d

\* What every later log still says: who is requested, which decision came first, which
\* decisions there are; and that each of them follows its request.
LogGrows ==
  /\ events' \in Seq(EventTypes)
  /\ RequestedFirst'
  /\ \A j \in Calls : IsRequested(j) => IsRequested(j)'
  /\ \A j \in Calls, e \in Decisions : First(j, e) => First(j, e)'
  /\ \A j \in Calls, e \in Decisions : HasDecision(j, e) => HasDecision(j, e)'

\* A new request is appended (Request).
LEMMA RequestKeeps ==
  ASSUME events \in Seq(EventTypes), RequestedFirst, NEW k \in Calls, Log(Requested(k))
  PROVE  /\ LogGrows
         /\ \A j \in Calls : /\ IsRequested(j)' <=> IsRequested(j) \/ j = k
                             /\ DecidedAt(j)' = DecidedAt(j)
                             /\ \A e : First(j, e)' <=> First(j, e)
<1> USE RequestLogged, PlacesInLog
<1>1. \A j \in Calls : \A i \in DecidedAt(j) : events'[i] = events[i]
  OBVIOUS
<1>2. \A j \in Calls : \A e : First(j, e)' <=> First(j, e)
  BY <1>1 DEF First
<1>3. \A j \in Calls, e \in Decisions : HasDecision(j, e) => HasDecision(j, e)'
  BY <1>1 DEF HasDecision
<1>4. RequestedFirst'
  <2> SUFFICES ASSUME NEW i \in DOMAIN events', events'[i].type = "decided"
               PROVE  \E j \in 1..i : events'[j] = Requested(events'[i].of)
    BY DEF RequestedFirst, Requested
  <2>1. i \in 1..(Len(events) + 1) /\ Len(events) \in Nat
    OBVIOUS
  <2>2. i # Len(events) + 1
    BY DEF Requested
  <2>3. i \in DOMAIN events /\ events'[i] = events[i]
    BY <2>1, <2>2
  <2>4. PICK j \in 1..i : events[j] = Requested(events[i].of)
    BY <2>3 DEF RequestedFirst
  <2>5. events'[j] = events[j]
    BY <2>1, <2>2
  <2> QED
    BY <2>3, <2>4, <2>5
<1> QED
  BY <1>2, <1>3, <1>4 DEF LogGrows

\* A decision on what was requested is appended (AutoDecide, RecordDecision, DenyLeft).
LEMMA DecisionKeeps ==
  ASSUME events \in Seq(EventTypes), RequestedFirst, NEW k \in Calls, NEW d \in Decisions,
         NEW r \in BOOLEAN, Log(Decided(k, d, r)), IsRequested(k)
  PROVE  /\ LogGrows
         /\ \A j \in Calls : IsRequested(j)' <=> IsRequested(j)
         /\ \A j \in Calls : Pending(j)' <=> Pending(j) /\ j # k
         /\ HasDecision(k, d)'
<1> USE DecisionLogged, PlacesInLog
<1>1. \A j \in Calls : DecidedAt(j) \subseteq DecidedAt(j)'
  OBVIOUS
<1>2. \A j \in Calls : \A i \in DecidedAt(j) : events'[i] = events[i]
  OBVIOUS
<1>3. \A j \in Calls, e \in Decisions : First(j, e) => First(j, e)'
  <2> SUFFICES ASSUME NEW j \in Calls, NEW e \in Decisions, First(j, e) PROVE First(j, e)'
    OBVIOUS
  <2>1. DecidedAt(j) # {}
    BY DEF First
  <2> QED
    BY <2>1, FirstStays
<1>4. \A j \in Calls, e \in Decisions : HasDecision(j, e) => HasDecision(j, e)'
  BY <1>1, <1>2 DEF HasDecision
<1>5. HasDecision(k, d)'
  BY DEF HasDecision, Decided
<1>6. \A j \in Calls : Pending(j)' <=> Pending(j) /\ j # k
  BY DEF Pending
<1>7. RequestedFirst'
  <2> SUFFICES ASSUME NEW i \in DOMAIN events', events'[i].type = "decided"
               PROVE  \E j \in 1..i : events'[j] = Requested(events'[i].of)
    BY DEF RequestedFirst, Requested
  <2>1. i \in 1..(Len(events) + 1) /\ Len(events) \in Nat /\ DOMAIN events = 1..Len(events)
    OBVIOUS
  <2>2. CASE i = Len(events) + 1
    <3>1. PICK j \in DOMAIN events : events[j] = Requested(k)
      BY DEF IsRequested
    <3>2. events'[j] = Requested(k) /\ j \in 1..i
      BY <2>1, <2>2, <3>1
    <3>3. events'[i].of = k
      BY <2>2 DEF Decided
    <3> QED
      BY <3>2, <3>3
  <2>3. CASE i # Len(events) + 1
    <3>1. i \in DOMAIN events /\ events'[i] = events[i]
      BY <2>1, <2>3
    <3>2. PICK j \in 1..i : events[j] = Requested(events[i].of)
      BY <3>1 DEF RequestedFirst
    <3>3. events'[j] = events[j]
      BY <2>1, <2>3
    <3> QED
      BY <3>1, <3>2, <3>3
  <2> QED
    BY <2>2, <2>3
<1> QED
  BY <1>3, <1>4, <1>5, <1>6, <1>7 DEF LogGrows

-----------------------------------------------------------------------------
(* The invariant.                                                          *)

\* Nothing is logged, and nobody has begun (Init).
LEMMA InitInv == Init => IInv
<1> SUFFICES ASSUME Init PROVE IInv
  OBVIOUS
<1>1. TypeOK
  BY MaxFaultsAssumption DEF Init, TypeOK, Labels, Nothing
<1>2. \A k : ~IsRequested(k) /\ DecidedAt(k) = {}
  <2>1. DOMAIN events = {}
    BY DEF Init
  <2> QED
    BY <2>1 DEF IsRequested, DecidedAt
<1>3. RequestedFirst
  BY DEF Init, RequestedFirst
<1> QED
  BY <1>1, <1>2, <1>3 DEF Init, IInv, CallsRequest, VerdictFits, DecidersRead, FollowsFirst,
     OutcomeIsLogged, Outcome, NoneLeftPending, NoneMissed, Idle

\* What a step that appends nothing leaves as it was.
SameLog ==
  \A j \in Calls : /\ IsRequested(j)' <=> IsRequested(j)
                   /\ DecidedAt(j)' = DecidedAt(j)
                   /\ Pending(j)' <=> Pending(j)
                   /\ \A e : First(j, e)' <=> First(j, e)
                   /\ \A e : HasDecision(j, e)' <=> HasDecision(j, e)

\* A step that leaves the log alone changes nothing that it says.
LEMMA SameLogHolds ==
  ASSUME IInv, UNCHANGED events
  PROVE  SameLog /\ RequestedFirst'
  BY DEF SameLog, IInv, RequestedFirst, IsRequested, DecidedAt, Pending, First, HasDecision

\* OutcomeIsLogged in terms of HasDecision, before and after a step.
LEMMA OutcomeLogged ==
  /\ OutcomeIsLogged => \A k \in Calls : /\ call[k] = "ran" => HasDecision(k, "approved")
                                         /\ call[k] = "denied" => HasDecision(k, "denied")
  /\ (\A k \in Calls : /\ call'[k] = "ran" => HasDecision(k, "approved")'
                       /\ call'[k] = "denied" => HasDecision(k, "denied")') => OutcomeIsLogged'
<1>1. /\ Decisions = {"approved", "denied"}
      /\ Outcome("approved") = "ran" /\ Outcome("denied") = "denied"
  BY DEF Outcome, Decisions
<1> QED
  BY <1>1 DEF OutcomeIsLogged, HasDecision

\* The gate has settled on a verdict for a call that nobody knows of yet.
LEMMA GateInv ==
  ASSUME IInv, NEW k \in Calls, NEW p \in Policies, Gate(k, p)
  PROVE  IInv'
<1>1. SameLog /\ RequestedFirst'
  BY SameLogHolds DEF Gate
<1>2. TypeOK'
  BY DEF IInv, Gate, Goto, TypeOK, Labels, InProgress
<1>3. \A j \in Calls : j # k => call'[j] = call[j] /\ verdict'[j] = verdict[j]
  BY DEF IInv, Gate, Goto, TypeOK
<1>4. call[k] = "idle" /\ call'[k] = "request" /\ UNCHANGED <<open, left, deciding>>
  BY DEF IInv, Gate, Goto, TypeOK
<1>5. CallsRequest'
  BY <1>1, <1>3, <1>4 DEF IInv, CallsRequest, SameLog
<1>6. VerdictFits'
  BY <1>3, <1>4 DEF IInv, VerdictFits
<1>7. DecidersRead'
  BY <1>1, <1>4, <1>2 DEF IInv, DecidersRead, SameLog, Idle, TypeOK, EventTypes
<1>8. FollowsFirst'
  BY <1>1, <1>3, <1>4 DEF IInv, FollowsFirst, SameLog
<1>9. OutcomeIsLogged'
  <2>1. \A j \in Calls : /\ call'[j] = "ran" => HasDecision(j, "approved")'
                         /\ call'[j] = "denied" => HasDecision(j, "denied")'
    BY <1>1, <1>3, <1>4, OutcomeLogged DEF IInv, SameLog
  <2> QED
    BY <2>1, OutcomeLogged
<1>10. NoneLeftPending' /\ NoneMissed'
  BY <1>1, <1>3, <1>4 DEF IInv, NoneLeftPending, NoneMissed, SameLog
<1> QED
  BY <1>1, <1>2, <1>5, <1>6, <1>7, <1>8, <1>9, <1>10 DEF IInv

\* Steps of a call that only move it on: SeeDecision, Retry, Abandon.
LEMMA MoveInv ==
  ASSUME IInv, NEW k \in Calls, SeeDecision(k) \/ Retry(k) \/ Abandon(k)
  PROVE  IInv'
<1>1. UNCHANGED <<events, open, left, verdict, deciding, faults>>
  BY DEF SeeDecision, Retry, Abandon
<1>2. SameLog /\ RequestedFirst'
  BY <1>1, SameLogHolds
<1>3. TypeOK'
  BY <1>1 DEF IInv, SeeDecision, Retry, Abandon, Goto, TypeOK, Labels, InProgress
<1>4. \A j \in Calls : j # k => call'[j] = call[j]
  BY DEF IInv, SeeDecision, Retry, Abandon, Goto, TypeOK
<1>5. /\ call[k] \in InProgress
      /\ \/ call'[k] = "retry" /\ call[k] = "waiting" /\ First(k, "approved")
         \/ call'[k] = "denied" /\ call[k] = "waiting" /\ First(k, "denied")
         \/ call'[k] = "ran" /\ call[k] = "retry"
         \/ call'[k] = "lost"
  BY DEF IInv, SeeDecision, Retry, Abandon, Goto, TypeOK, InProgress, Answer, Decisions
<1>6. CallsRequest'
  BY <1>2, <1>4, <1>5 DEF IInv, CallsRequest, SameLog
<1>7. VerdictFits'
  BY <1>1, <1>4, <1>5 DEF IInv, VerdictFits
<1>8. DecidersRead'
  BY <1>1, <1>2, <1>3 DEF IInv, DecidersRead, SameLog, Idle, TypeOK, EventTypes
<1>9. FollowsFirst'
  BY <1>1, <1>2, <1>4, <1>5 DEF IInv, FollowsFirst, VerdictFits, SameLog
<1>10. OutcomeIsLogged'
  <2>1. call'[k] = "ran" => HasDecision(k, "approved")
    BY <1>5 DEF IInv, FollowsFirst, VerdictFits, First, HasDecision
  <2>2. call'[k] = "denied" => HasDecision(k, "denied")
    BY <1>5 DEF First, HasDecision
  <2>3. \A j \in Calls : /\ call'[j] = "ran" => HasDecision(j, "approved")'
                         /\ call'[j] = "denied" => HasDecision(j, "denied")'
    BY <1>2, <1>4, <2>1, <2>2, OutcomeLogged DEF IInv, SameLog
  <2> QED
    BY <2>3, OutcomeLogged
<1>11. NoneLeftPending' /\ NoneMissed'
  BY <1>1, <1>2, <1>4, <1>5 DEF IInv, NoneLeftPending, NoneMissed, SameLog
<1> QED
  BY <1>2, <1>3, <1>6, <1>7, <1>8, <1>9, <1>10, <1>11 DEF IInv

\* The gate logs its request before anyone decides (Request).
LEMMA RequestInv ==
  ASSUME IInv, NEW k \in Calls, Request(k)
  PROVE  IInv'
<1> USE DEF IInv
<1>1. UNCHANGED <<open, left, verdict, deciding, faults>> /\ open = "ready"
  BY DEF Request
<1>2. /\ LogGrows
      /\ \A j \in Calls : /\ IsRequested(j)' <=> IsRequested(j) \/ j = k
                          /\ DecidedAt(j)' = DecidedAt(j)
                          /\ \A e : First(j, e)' <=> First(j, e)
  BY RequestKeeps DEF Request, TypeOK
<1>3. TypeOK'
  BY <1>1, <1>2 DEF Request, Goto, TypeOK, Labels, InProgress, LogGrows
<1>4. \A j \in Calls : j # k => call'[j] = call[j]
  BY DEF Request, Goto, TypeOK
<1>5. /\ call[k] = "request"
      /\ \/ call'[k] = "waiting" /\ verdict[k] = "ask"
         \/ call'[k] = "auto" /\ verdict[k] \in Decisions
  BY DEF Request, Goto, TypeOK
<1>6. CallsRequest' /\ VerdictFits' /\ DecidersRead'
  <2>1. CallsRequest'
    BY <1>2, <1>4, <1>5 DEF CallsRequest
  <2>2. VerdictFits'
    BY <1>1, <1>4, <1>5 DEF VerdictFits
  <2>3. DecidersRead'
    BY <1>1, <1>2 DEF DecidersRead, Idle, TypeOK, EventTypes
  <2> QED
    BY <2>1, <2>2, <2>3
<1>7. FollowsFirst'
  BY <1>1, <1>2, <1>4, <1>5 DEF FollowsFirst
<1>8. OutcomeIsLogged'
  <2>1. \A j \in Calls : /\ call'[j] = "ran" => HasDecision(j, "approved")'
                         /\ call'[j] = "denied" => HasDecision(j, "denied")'
    BY <1>2, <1>4, <1>5, OutcomeLogged DEF LogGrows, Decisions
  <2> QED
    BY <2>1, OutcomeLogged
<1>9. NoneLeftPending' /\ NoneMissed'
  BY <1>1, <1>2, <1>4, <1>5 DEF NoneLeftPending, NoneMissed, Pending
<1> QED
  BY <1>2, <1>3, <1>6, <1>7, <1>8, <1>9 DEF LogGrows

\* The gate logs the decision it took itself, first or not (AutoDecide).
LEMMA AutoDecideInv ==
  ASSUME IInv, NEW k \in Calls, AutoDecide(k)
  PROVE  IInv'
<1> USE DEF IInv
<1>1. UNCHANGED <<open, left, verdict, deciding, faults>> /\ open = "ready"
  BY DEF AutoDecide
<1>2. PICK d \in Decisions : call[k] = "auto" /\ verdict[k] = d /\ IsRequested(k)
  BY DEF AutoDecide, VerdictFits, CallsRequest
<1>3. /\ LogGrows
      /\ \A j \in Calls : IsRequested(j)' <=> IsRequested(j)
      /\ \A j \in Calls : Pending(j)' <=> Pending(j) /\ j # k
      /\ HasDecision(k, d)'
  BY <1>2, DecisionKeeps DEF AutoDecide, OwnDecision, TypeOK
<1>4. \A j \in Calls : j # k => call'[j] = call[j]
  BY DEF AutoDecide, Goto, TypeOK
<1>5. call'[k] = Outcome(d) /\ call'[k] \in {"ran", "denied"}
  BY <1>2 DEF AutoDecide, Goto, TypeOK, Outcome, Decisions
<1>6. TypeOK'
  BY <1>1, <1>3, <1>5 DEF AutoDecide, Goto, TypeOK, Labels, LogGrows
<1>7. CallsRequest' /\ VerdictFits' /\ DecidersRead'
  <2>1. CallsRequest'
    BY <1>2, <1>3, <1>4, <1>5 DEF CallsRequest
  <2>2. VerdictFits'
    BY <1>1, <1>4, <1>5 DEF VerdictFits
  <2>3. DecidersRead'
    BY <1>1, <1>3 DEF DecidersRead, Idle, TypeOK, EventTypes
  <2> QED
    BY <2>1, <2>2, <2>3
<1>8. FollowsFirst'
  BY <1>1, <1>2, <1>3, <1>4, <1>5 DEF FollowsFirst, LogGrows, Decisions
<1>9. OutcomeIsLogged'
  <2>1. \A j \in Calls : /\ call'[j] = "ran" => HasDecision(j, "approved")'
                         /\ call'[j] = "denied" => HasDecision(j, "denied")'
    BY <1>2, <1>3, <1>4, <1>5, OutcomeLogged DEF LogGrows, Decisions, Outcome
  <2> QED
    BY <2>1, OutcomeLogged
<1>10. NoneLeftPending' /\ NoneMissed'
  BY <1>1, <1>3, <1>4, <1>5 DEF NoneLeftPending, NoneMissed
<1> QED
  BY <1>3, <1>6, <1>7, <1>8, <1>9, <1>10 DEF LogGrows

\* A step of a client or of the recovery appends a decision on what was requested.
LEMMA OtherDecisionInv ==
  ASSUME IInv, NEW k \in Calls, NEW d \in Decisions, NEW r \in BOOLEAN, IsRequested(k),
         Log(Decided(k, d, r)), UNCHANGED <<open, call, verdict, faults>>,
         left' \in {left, left \ {k}}, open # "recovering" => left' = left,
         NEW c, deciding' \in {deciding, [deciding EXCEPT ![c] = Nothing]}
  PROVE  IInv'
<1> USE DEF IInv
<1>1. /\ LogGrows
      /\ \A j \in Calls : IsRequested(j)' <=> IsRequested(j)
      /\ \A j \in Calls : Pending(j)' <=> Pending(j) /\ j # k
  BY DecisionKeeps DEF TypeOK
<1>2. TypeOK'
  BY <1>1 DEF TypeOK, LogGrows
<1>3. \A c2 \in Clients : deciding'[c2] = deciding[c2] \/ deciding'[c2] = Nothing
  BY DEF TypeOK
<1>4. CallsRequest' /\ VerdictFits'
  BY <1>1 DEF CallsRequest, VerdictFits
<1>5. DecidersRead'
  BY <1>1, <1>3 DEF DecidersRead, Idle, TypeOK, EventTypes
<1>6. FollowsFirst'
  BY <1>1 DEF FollowsFirst, LogGrows, Decisions
<1>7. OutcomeIsLogged'
  <2>1. \A j \in Calls : /\ call'[j] = "ran" => HasDecision(j, "approved")'
                         /\ call'[j] = "denied" => HasDecision(j, "denied")'
    BY <1>1, OutcomeLogged DEF LogGrows, Decisions
  <2> QED
    BY <2>1, OutcomeLogged
<1>8. NoneLeftPending' /\ NoneMissed'
  BY <1>1 DEF NoneLeftPending, NoneMissed
<1> QED
  BY <1>1, <1>2, <1>4, <1>5, <1>6, <1>7, <1>8 DEF LogGrows

\* approval/decide appends what it has read to be pending earlier (RecordDecision).
LEMMA RecordDecisionInv ==
  ASSUME IInv, NEW c \in Clients, RecordDecision(c)
  PROVE  IInv'
<1>1. PICK k \in Calls, d \in Decisions, r \in BOOLEAN :
        deciding[c] = Decided(k, d, r) /\ IsRequested(k)
  BY DEF IInv, DecidersRead, RecordDecision
<1>2. /\ Log(Decided(k, d, r))
      /\ UNCHANGED <<open, call, verdict, faults>>
      /\ left' \in {left, left \ {k}} /\ (open # "recovering" => left' = left)
      /\ deciding' \in {deciding, [deciding EXCEPT ![c] = Nothing]}
  BY <1>1 DEF RecordDecision
<1> QED
  BY <1>1, <1>2, OtherDecisionInv

\* Recovery denies an approval that was pending when it began (DenyLeft).
LEMMA DenyLeftInv ==
  ASSUME IInv, NEW k \in Calls, DenyLeft(k)
  PROVE  IInv'
<1>1. IsRequested(k) /\ "denied" \in Decisions /\ FALSE \in BOOLEAN
  BY DEF IInv, DecidersRead, DenyLeft, Decisions
<1>2. /\ Log(Decided(k, "denied", FALSE))
      /\ UNCHANGED <<open, call, verdict, faults>>
      /\ left' = left \ {k} /\ open = "recovering"
      /\ deciding' = deciding
  BY DEF DenyLeft
<1> QED
  BY <1>1, <1>2, OtherDecisionInv

\* Steps that neither append nor touch a call: clients that begin or give up, and the
\* stages of a load.
LEMMA LoadInv ==
  ASSUME IInv,
         \/ \E c \in Clients, k \in Calls, d \in Decisions, r \in Remembers : ReadPending(c, k, d, r)
         \/ \E c \in Clients : DecideFails(c)
         \/ Load \/ Recovered \/ LoadFails
  PROVE  IInv'
<1>1. UNCHANGED <<events, call, verdict>>
  BY DEF ReadPending, DecideFails, Load, Recovered, LoadFails
<1>2. SameLog /\ RequestedFirst'
  BY <1>1, SameLogHolds
<1>3. TypeOK'
  BY <1>1, MaxFaultsAssumption, RemembersAssumption
     DEF IInv, ReadPending, DecideFails, Load, Recovered, LoadFails, TypeOK, MayLoad,
         PendingOnLoad, HandedOn, Decided, EventTypes
<1>4. CallsRequest' /\ VerdictFits'
  BY <1>1, <1>2 DEF IInv, CallsRequest, VerdictFits, SameLog
<1>5. DecidersRead'
  <2>1. ASSUME NEW c \in Clients
        PROVE  (Idle(c) \/ \E k \in Calls, d \in Decisions, r \in BOOLEAN :
                              deciding[c] = Decided(k, d, r) /\ IsRequested(k))'
    <3>1. CASE deciding'[c] = deciding[c]
      BY <1>2, <3>1 DEF IInv, DecidersRead, Idle, SameLog
    <3>2. CASE deciding'[c] = Nothing
      BY <3>2 DEF Idle
    <3>3. CASE \E k \in Calls, d \in Decisions, r \in Remembers : ReadPending(c, k, d, r)
      <4>1. PICK k \in Calls, d \in Decisions, r \in Remembers : ReadPending(c, k, d, r)
        BY <3>3
      <4>2. deciding'[c] = Decided(k, d, r) /\ IsRequested(k)
        BY <4>1 DEF IInv, TypeOK, ReadPending, MayDecide, Pending
      <4> QED
        BY <1>2, <4>2, RemembersAssumption DEF SameLog
    <3>4. \/ deciding'[c] = deciding[c] \/ deciding'[c] = Nothing
          \/ \E k \in Calls, d \in Decisions, r \in Remembers : ReadPending(c, k, d, r)
      BY DEF IInv, TypeOK, ReadPending, DecideFails, Load, Recovered, LoadFails
    <3> QED
      BY <3>1, <3>2, <3>3, <3>4
  <2>2. \A k \in left' : IsRequested(k)'
    BY <1>2, <1>3 DEF IInv, DecidersRead, SameLog, ReadPending, DecideFails, Load, Recovered,
       LoadFails, PendingOnLoad, Pending, HandedOn, TypeOK
  <2> QED
    BY <2>1, <2>2 DEF DecidersRead
<1>6. FollowsFirst'
  BY <1>1, <1>2 DEF IInv, FollowsFirst, SameLog
<1>7. OutcomeIsLogged'
  <2>1. \A j \in Calls : /\ call'[j] = "ran" => HasDecision(j, "approved")'
                         /\ call'[j] = "denied" => HasDecision(j, "denied")'
    BY <1>1, <1>2, OutcomeLogged DEF IInv, SameLog
  <2> QED
    BY <2>1, OutcomeLogged
<1>8. NoneLeftPending'
  BY <1>1, <1>2 DEF IInv, NoneLeftPending, NoneMissed, SameLog, ReadPending, DecideFails, Load,
     Recovered, LoadFails
<1>9. NoneMissed'
  BY <1>1, <1>2 DEF IInv, NoneMissed, SameLog, ReadPending, DecideFails, Load,
     Recovered, LoadFails, PendingOnLoad
<1> QED
  BY <1>2, <1>3, <1>4, <1>5, <1>6, <1>7, <1>8, <1>9 DEF IInv

\* The death of the server takes the runtime, the calls and the clients with it, and
\* leaves the log.
LEMMA CrashInv ==
  ASSUME IInv, Crash
  PROVE  IInv'
<1>1. /\ UNCHANGED <<events, verdict>> /\ open' = "closed" /\ left' = {}
      /\ deciding' = [c \in Clients |-> Nothing]
      /\ faults < MaxFaults /\ faults' = faults + 1
  BY DEF Crash, HandedOn
<1>2. SameLog /\ RequestedFirst'
  BY <1>1, SameLogHolds
<1>3. \A k \in Calls : call'[k] = "dead" \/ (call'[k] = call[k] /\ call[k] \notin InProgress)
  BY DEF Crash
<1>4. TypeOK'
  BY <1>1, MaxFaultsAssumption DEF IInv, TypeOK, Crash, Labels
<1>5. CallsRequest' /\ VerdictFits'
  BY <1>1, <1>2, <1>3 DEF IInv, CallsRequest, VerdictFits, SameLog, InProgress
<1>6. DecidersRead'
  BY <1>1 DEF DecidersRead, Idle
<1>7. FollowsFirst'
  BY <1>1, <1>2, <1>3 DEF IInv, FollowsFirst, SameLog
<1>8. OutcomeIsLogged'
  <2>1. \A j \in Calls : /\ call'[j] = "ran" => HasDecision(j, "approved")'
                         /\ call'[j] = "denied" => HasDecision(j, "denied")'
    BY <1>2, <1>3, OutcomeLogged DEF IInv, SameLog
  <2> QED
    BY <2>1, OutcomeLogged
<1>9. NoneLeftPending' /\ NoneMissed'
  BY <1>1 DEF NoneLeftPending, NoneMissed
<1> QED
  BY <1>2, <1>4, <1>5, <1>6, <1>7, <1>8, <1>9 DEF IInv

\* A step that changes nothing keeps the invariant.
LEMMA StutterInv ==
  ASSUME IInv, UNCHANGED vars
  PROVE  IInv'
  BY DEF vars, IInv, TypeOK, RequestedFirst, CallsRequest, VerdictFits, DecidersRead,
     FollowsFirst, OutcomeIsLogged, NoneLeftPending, NoneMissed, IsRequested, DecidedAt, Pending,
     First, Idle

\* Every step keeps the invariant.
LEMMA StepInv == IInv /\ [Next]_vars => IInv'
<1> SUFFICES ASSUME IInv, [Next]_vars PROVE IInv'
  OBVIOUS
<1>1. CASE \E k \in Calls : CallStep(k)
  BY <1>1, GateInv, RequestInv, AutoDecideInv, MoveInv DEF CallStep, Proceed
<1>2. CASE \E c \in Clients : ClientStep(c)
  BY <1>2, LoadInv, RecordDecisionInv DEF ClientStep
<1>3. CASE Load \/ Recovery \/ LoadFails
  BY <1>3, LoadInv, DenyLeftInv DEF Recovery
<1>4. CASE Crash
  BY <1>4, CrashInv
<1>5. CASE UNCHANGED vars
  BY <1>5, StutterInv
<1> QED
  BY <1>1, <1>2, <1>3, <1>4, <1>5 DEF Next

\* The inductive invariant holds for any number of calls, clients and faults.
THEOREM Invariance == Spec => []IInv
  BY InitInv, StepInv, PTL DEF Spec

\* Every variable keeps to its type, and only a recovery has approvals left to deny.
THEOREM TypeCorrect == Spec => []TypeOK
<1>1. IInv => TypeOK
  BY DEF IInv
<1> QED
  BY <1>1, Invariance, PTL

\* No decision is logged before the request it is about, whoever appends it
\* (gate_approval, handle_approval_decide or the recovery of get_or_load_thread).
THEOREM RequestBeforeDecision == Spec => []RequestedFirst
<1>1. IInv => RequestedFirst
  BY DEF IInv
<1> QED
  BY <1>1, Invariance, PTL

\* A call that waited (wait_for_approval_outcome) acts on the first decision, however
\* many follow.
THEOREM FirstDecisionRules == Spec => []FollowsFirst
<1>1. IInv => FollowsFirst
  BY DEF IInv
<1> QED
  BY <1>1, Invariance, PTL

\* What a call does is a decision in the log, also when the policy or a remembered
\* decision took it (gate_approval).
THEOREM OutcomesLogged == Spec => []OutcomeIsLogged
<1>1. IInv => OutcomeIsLogged
  BY DEF IInv
<1> QED
  BY <1>1, Invariance, PTL

\* A loaded thread has no approval pending whose call died with an earlier server
\* (the recovery of get_or_load_thread), whatever happens while it is denied.
THEOREM NothingLeftPending == Spec => []NoneLeftPending
<1>1. IInv => NoneLeftPending
  BY DEF IInv
<1> QED
  BY <1>1, Invariance, PTL

-----------------------------------------------------------------------------
(* The log of approvals is a register settled by the first decision.       *)

\* The status of an approval, from what the log says of it.
LEMMA StatusIs ==
  ASSUME events \in Seq(EventTypes), NEW k \in Calls
  PROVE  /\ ~IsRequested(k) => Status(k) = "none"
         /\ Pending(k) => Status(k) = "pending"
         /\ \A d \in Decisions : IsRequested(k) /\ First(k, d) => Status(k) = d
<1>1. ASSUME NEW d \in Decisions, First(k, d)
      PROVE  DecidedAt(k) # {} /\ (First(k, "approved") <=> d = "approved")
  BY <1>1, FirstUnique DEF First
<1> QED
  BY <1>1 DEF Status, Pending, Decisions

\* The mapping is defined on every call; the abstract decisions are the detailed ones.
LEMMA Mapped ==
  /\ Promise!Decisions = Decisions
  /\ \A k \in Calls : Promise!Request(k) \/ Promise!Follow(k) \/
                      (\E d \in Decisions : Promise!Decide(k, d)) => Promise!Next
  BY DEF Promise!Decisions, Decisions, Promise!Next

\* The initial states map to initial states.
LEMMA InitMapped == Init => Promise!Init
<1>1. ASSUME Init, NEW k \in Calls PROVE Status(k) = "none" /\ Settled(k) = "open"
  BY <1>1 DEF Init, Status, IsRequested, Settled
<1> QED
  BY <1>1 DEF Promise!Init

\* A step that changes no status and no outcome is a stutter.
LEMMA Stutters ==
  ASSUME \A k \in Calls : Status(k)' = Status(k) /\ Settled(k)' = Settled(k)
  PROVE  UNCHANGED Promise!vars
  BY DEF Promise!vars

\* A decision appended settles the approval if it is the first, and is a stutter if not.
LEMMA DecisionMapped ==
  ASSUME IInv, NEW k \in Calls, NEW d \in Decisions, NEW r \in BOOLEAN, IsRequested(k),
         Log(Decided(k, d, r)), \A j \in Calls : Settled(j)' = Settled(j)
  PROVE  Promise!Next \/ UNCHANGED Promise!vars
<1> USE DEF IInv
<1>1. events \in Seq(EventTypes)
  BY DEF TypeOK
<1>2. /\ \A j \in Calls : IsRequested(j)' <=> IsRequested(j)
      /\ \A j \in Calls : j # k => DecidedAt(j)' = DecidedAt(j)
      /\ DecidedAt(k)' # {}
  BY <1>1, DecisionLogged
<1>3. \A j \in Calls : \A e : DecidedAt(j) # {} => (First(j, e)' <=> First(j, e))
  BY <1>1, FirstStays
<1>4. \A j \in Calls : j # k => Status(j)' = Status(j)
  BY <1>2, <1>3 DEF Status
<1>5. CASE DecidedAt(k) # {}
  <2>1. Status(k)' = Status(k)
    BY <1>2, <1>3, <1>5 DEF Status
  <2> QED
    BY <1>4, <2>1, Stutters
<1>6. CASE DecidedAt(k) = {}
  <2>1. Status(k) = "pending"
    BY <1>6 DEF Status
  <2>2. First(k, d)' /\ events' \in Seq(EventTypes)
    BY <1>1, <1>6, FirstSet, DecisionLogged
  <2>3. Status(k)' = d
    <3>1. First(k, "approved")' => d = "approved"
      <4>1. ASSUME NEW x, NEW y, First(k, x)', First(k, y)' PROVE x = y
        BY <1>6, <1>1, <4>1, DecisionLogged DEF First
      <4> QED
        BY <2>2, <4>1
    <3> QED
      BY <1>2, <2>2, <3>1 DEF Status, Decisions
  <2>4. Promise!Decide(k, d)
    BY <1>4, <2>1, <2>3 DEF Promise!Decide
  <2> QED
    BY <2>4, Mapped
<1> QED
  BY <1>5, <1>6

\* A step that appends nothing leaves the status of every approval.
LEMMA SameStatus ==
  ASSUME UNCHANGED events
  PROVE  \A k \in Calls : Status(k)' = Status(k)
  BY DEF Status, IsRequested, DecidedAt, First

\* A call whose outcome is settled by the decision it sees follows it.
LEMMA FollowMapped ==
  ASSUME IInv, NEW k \in Calls, SeeDecision(k) \/ Retry(k) \/ Abandon(k)
  PROVE  Promise!Next \/ UNCHANGED Promise!vars
<1> USE DEF IInv
<1>1. UNCHANGED <<events, verdict>>
  BY DEF SeeDecision, Retry, Abandon
<1>2. \A j \in Calls : j # k => Settled(j)' = Settled(j)
  BY <1>1 DEF SeeDecision, Retry, Abandon, Goto, TypeOK, Settled
<1>3. \A j \in Calls : Status(j)' = Status(j)
  BY <1>1, SameStatus
<1>4. Settled(k) = "open"
  BY DEF SeeDecision, Retry, Abandon, Settled, InProgress
<1>5. CASE Settled(k)' = "open"
  BY <1>2, <1>3, <1>4, <1>5, Stutters
<1>6. CASE Settled(k)' = "ran"
  <2>1. call[k] = "retry" /\ IsRequested(k) /\ First(k, "approved")
    BY <1>6, <1>1 DEF SeeDecision, Retry, Abandon, Goto, TypeOK, Settled, CallsRequest,
       FollowsFirst, VerdictFits
  <2>2. Status(k) = "approved"
    BY <2>1, StatusIs DEF TypeOK, Decisions
  <2>3. Promise!Follow(k)
    BY <1>2, <1>3, <1>4, <1>6, <2>2 DEF Promise!Follow
  <2> QED
    BY <2>3, Mapped
<1>7. CASE Settled(k)' = "denied"
  <2>1. call[k] = "waiting" /\ IsRequested(k) /\ First(k, "denied")
    BY <1>7, <1>1 DEF SeeDecision, Retry, Abandon, Goto, TypeOK, Settled, CallsRequest,
       Answer, Decisions
  <2>2. Status(k) = "denied"
    BY <2>1, StatusIs DEF TypeOK, Decisions
  <2>3. Promise!Follow(k)
    BY <1>2, <1>3, <1>4, <1>7, <2>2 DEF Promise!Follow
  <2> QED
    BY <2>3, Mapped
<1> QED
  BY <1>5, <1>6, <1>7 DEF Settled

\* The other steps of a call: the gate settles nothing, a request is a request, and a
\* decision that the gate took itself settles the approval unless someone was first.
LEMMA GateMapped ==
  ASSUME IInv, NEW k \in Calls,
         Request(k) \/ AutoDecide(k) \/ \E p \in Policies : Gate(k, p)
  PROVE  Promise!Next \/ UNCHANGED Promise!vars
<1> USE DEF IInv
<1>1. \A j \in Calls : Settled(j)' = Settled(j)
  <2>1. \A j \in Calls : j # k => call'[j] = call[j] /\ verdict'[j] = verdict[j]
    BY DEF Request, AutoDecide, Gate, Goto, TypeOK
  <2>2. CASE Request(k) \/ \E p \in Policies : Gate(k, p)
    <3>1. call[k] \in {"idle", "request"} /\ call'[k] \in {"request", "waiting", "auto"}
      BY <2>2 DEF Request, Gate, Goto, TypeOK
    <3> QED
      BY <2>1, <3>1 DEF Settled
  <2>3. CASE AutoDecide(k)
    <3>1. verdict[k] # "ask" /\ verdict' = verdict
      BY <2>3 DEF AutoDecide, VerdictFits, Decisions
    <3> QED
      BY <2>1, <3>1 DEF Settled
  <2> QED
    BY <2>2, <2>3
<1>2. CASE \E p \in Policies : Gate(k, p)
  <2>1. UNCHANGED events
    BY <1>2 DEF Gate
  <2> QED
    BY <1>1, <2>1, SameStatus, Stutters
<1>3. CASE Request(k)
  <2>1. /\ \A j \in Calls : /\ IsRequested(j)' <=> IsRequested(j) \/ j = k
                            /\ DecidedAt(j)' = DecidedAt(j)
                            /\ \A e : First(j, e)' <=> First(j, e)
        /\ ~IsRequested(k)
    BY <1>3, RequestKeeps DEF Request, TypeOK, CallsRequest
  <2>2. \A j \in Calls : j # k => Status(j)' = Status(j)
    BY <2>1 DEF Status
  <2>3. DecidedAt(k) = {}
    BY <2>1 DEF RequestedFirst, DecidedAt, IsRequested, TypeOK
  <2>4. Status(k) = "none" /\ Status(k)' = "pending"
    BY <2>1, <2>3 DEF Status
  <2>5. Promise!Request(k)
    BY <1>1, <2>2, <2>4 DEF Promise!Request
  <2> QED
    BY <2>5, Mapped
<1>4. CASE AutoDecide(k)
  <2>1. PICK d \in Decisions : verdict[k] = d /\ IsRequested(k)
    BY <1>4 DEF AutoDecide, VerdictFits, CallsRequest
  <2>2. Log(Decided(k, d, FALSE))
    BY <1>4, <2>1 DEF AutoDecide, OwnDecision
  <2> QED
    BY <1>1, <2>1, <2>2, DecisionMapped
<1> QED
  BY <1>2, <1>3, <1>4

\* Clients, loads and crashes settle no outcome; what they append is a decision.
LEMMA OthersMapped ==
  ASSUME IInv,
         \/ \E c \in Clients : ClientStep(c)
         \/ Load \/ Recovery \/ LoadFails \/ Crash \/ UNCHANGED vars
  PROVE  Promise!Next \/ UNCHANGED Promise!vars
<1> USE DEF IInv
<1>1. \A j \in Calls : Settled(j)' = Settled(j)
  <2>1. CASE Crash
    <3>1. verdict' = verdict
      BY <2>1 DEF Crash
    <3>2. \A j \in Calls : \/ call'[j] = call[j]
                           \/ call[j] \notin {"ran", "denied"} /\ call'[j] = "dead"
      BY <2>1 DEF Crash, InProgress
    <3> QED
      BY <3>1, <3>2 DEF Settled
  <2>2. CASE ~Crash
    <3>1. UNCHANGED <<call, verdict>>
      BY <2>2 DEF ClientStep, ReadPending, RecordDecision, DecideFails, Load, Recovery, Recovered,
         DenyLeft, LoadFails, vars
    <3> QED
      BY <3>1 DEF Settled
  <2> QED
    BY <2>1, <2>2
<1>2. CASE UNCHANGED events
  BY <1>1, <1>2, SameStatus, Stutters
<1>3. CASE \E c \in Clients : RecordDecision(c)
  <2>1. PICK c \in Clients : RecordDecision(c)
    BY <1>3
  <2>2. PICK k \in Calls, d \in Decisions, r \in BOOLEAN :
          deciding[c] = Decided(k, d, r) /\ IsRequested(k)
    BY <2>1 DEF DecidersRead, RecordDecision
  <2>3. Log(Decided(k, d, r))
    BY <2>1, <2>2 DEF RecordDecision
  <2> QED
    BY <1>1, <2>2, <2>3, DecisionMapped
<1>4. CASE \E k \in Calls : DenyLeft(k)
  <2>1. PICK k \in Calls : DenyLeft(k)
    BY <1>4
  <2>2. IsRequested(k) /\ "denied" \in Decisions /\ FALSE \in BOOLEAN
    BY <2>1 DEF DecidersRead, DenyLeft, Decisions
  <2>3. Log(Decided(k, "denied", FALSE))
    BY <2>1 DEF DenyLeft
  <2> QED
    BY <1>1, <2>2, <2>3, DecisionMapped
<1> QED
  BY <1>2, <1>3, <1>4 DEF ClientStep, ReadPending, DecideFails, Load, Recovery, Recovered,
     LoadFails, Crash, vars

\* Every step maps to a step or a stutter.
LEMMA StepMapped == IInv /\ [Next]_vars => [Promise!Next]_(Promise!vars)
  BY GateMapped, FollowMapped, OthersMapped DEF Next, CallStep, Proceed, Promise!vars

\* The log that several tasks append decisions to, unchecked, is for the calls that wait
\* a register that the first decision settles (wait_for_approval_outcome).
THEOREM Refinement == Spec => ImplementsFirstDecision
  BY InitMapped, StepMapped, Invariance, PTL DEF Spec, ImplementsFirstDecision, Promise!Spec
=============================================================================
