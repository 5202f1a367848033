------------------------- MODULE ObservationProofs -------------------------
(***************************************************************************)
(* Proofs about Observation: clients that poll miss nothing and do not     *)
(* sleep over an announced event, and budget markers are earned, for any   *)
(* number of writers, clients, events and faults, pages of any size and    *)
(* channels of any capacity; what clients get is an EventFeed.             *)
(***************************************************************************)
EXTENDS Observation, FiniteSetTheorems, WellFoundedInduction, TLAPS

-----------------------------------------------------------------------------
(* Sets of numbers.                                                        *)

\* A set of natural numbers has a least member.
LEMMA Least ==
  ASSUME NEW S \in SUBSET Nat, S # {}
  PROVE  \E m \in S : \A n \in S : m <= n
<1>1. PICK m \in S : \A n \in S : ~ (<<n, m>> \in OpToRel(<, Nat))
  BY NatLessThanWellFounded, WFMin, Zenon
<1>2. \A n \in S : ~ (n < m)
  BY <1>1, Zenon DEF OpToRel
<1> QED
  BY <1>2

\* One that is bounded has a greatest.
LEMMA Greatest ==
  ASSUME NEW b \in Nat, NEW S \in SUBSET (0..b), S # {}
  PROVE  \E m \in S : \A n \in S : n <= m
<1> DEFINE B == {k \in Nat : \A n \in S : n <= k}
<1>1. b \in B
  OBVIOUS
<1>2. PICK m \in B : \A k \in B : m <= k
  <2> HIDE DEF B
  <2>1. B \in SUBSET Nat
    BY DEF B
  <2> QED
    BY <1>1, <2>1, Least
<1>3. m \in S
  <2> SUFFICES ASSUME m \notin S
               PROVE  FALSE
    OBVIOUS
  <2>1. \A n \in S : n <= m - 1
    BY <1>2
  <2>2. m - 1 \in Nat
    <3>1. PICK n \in S : TRUE
      OBVIOUS
    <3> QED
      BY <1>2, <2>1, <3>1
  <2>3. m - 1 \in B
    BY <2>1, <2>2
  <2> QED
    BY <1>2, <2>2, <2>3
<1> QED
  BY <1>2, <1>3

-----------------------------------------------------------------------------
(* Tokens.                                                                 *)

\* The tokens used up to a place are a number, and do not go down.
LEMMA UsedGrows ==
  ASSUME NEW n \in Nat, NEW m \in 0..n
  PROVE  Used(m) \in Nat /\ Used(n) \in Nat /\ Used(m) <= Used(n)
<1> DEFINE Upto(k) == {i \in 1..k : log[i].kind = "step"}
<1>1. IsFiniteSet(1..n)
  BY FS_Interval
<1>2. IsFiniteSet(Upto(n))
  BY <1>1, FS_Subset
<1>3. IsFiniteSet(Upto(m)) /\ Cardinality(Upto(m)) <= Cardinality(Upto(n))
  <2>1. Upto(m) \in SUBSET Upto(n)
    OBVIOUS
  <2> HIDE DEF Upto
  <2> QED
    BY <1>2, <2>1, FS_Subset
<1>4. Cardinality(Upto(m)) \in Nat /\ Cardinality(Upto(n)) \in Nat
  BY <1>2, <1>3, FS_CardinalityType
<1> QED
  BY <1>3, <1>4 DEF Used

\* What was earned stays so.
LEMMA EarnedStays ==
  ASSUME NEW n \in Nat, NEW k \in 0..n, NEW m, Earned(m, k)
  PROVE  Earned(m, n)
BY UsedGrows, BudgetAssumption DEF Earned

\* An append changes nothing about the places before it.
LEMMA UsedBefore ==
  ASSUME TypeOK, NEW e, log' = Append(log, e), NEW n \in 0..Len(log)
  PROVE  Used(n)' = Used(n)
<1>1. \A i \in 1..n : log'[i] = log[i]
  BY DEF TypeOK
<1>2. {i \in 1..n : log'[i].kind = "step"} = {i \in 1..n : log[i].kind = "step"}
  BY <1>1
<1> QED
  BY <1>2 DEF Used

\* An append takes nothing away from what was earned, at a place or by the log.
LEMMA EarnedBefore ==
  ASSUME TypeOK, NEW e, log' = Append(log, e), NEW n \in 0..Len(log)
  PROVE  \A m : Earned(m, n) => Earned(m, n)' /\ Earned(m, Len(log))'
<1> DEFINE Upto(j) == {i \in 1..j : log'[i].kind = "step"}
           k == Len(log')
<1>1. Used(n)' = Used(n)
  BY UsedBefore
<1>2. k \in Nat /\ n \in 0..k
  BY DEF TypeOK
<1>3. IsFiniteSet(Upto(k)) /\ Upto(n) \in SUBSET Upto(k)
  <2> HIDE DEF k
  <2>1. IsFiniteSet(1..k)
    BY <1>2, FS_Interval
  <2> QED
    BY <1>2, <2>1, FS_Subset
<1>4. /\ Cardinality(Upto(n)) \in Nat /\ Cardinality(Upto(k)) \in Nat
      /\ Cardinality(Upto(n)) <= Cardinality(Upto(k))
  <2> HIDE DEF Upto, k
  <2> QED
    BY <1>3, FS_Subset, FS_CardinalityType
<1>5. Used(n)' = Cardinality(Upto(n)) /\ Used(Len(log))' = Cardinality(Upto(k))
  BY DEF Used
<1> HIDE DEF Upto, k
<1> QED
  BY <1>1, <1>4, <1>5, BudgetAssumption DEF Earned

-----------------------------------------------------------------------------
(* The invariant in two parts: what clients are told, and what markers tell. *)

ClientParts == GotAll /\ NoLostWakeup /\ ReadsOn /\ HearsNews
TokenParts == MarkersAreEarned /\ PlainFirst /\ MarkersDue

LEMMA InitInv == Init => IInv
<1> SUFFICES ASSUME Init
             PROVE  IInv
  OBVIOUS
<1>1. TypeOK
  BY BoundsAssumption, SizesAssumption DEF Init, TypeOK, Places, Unknown
<1>2. ClientParts
  BY DEF Init, ClientParts, GotAll, NoLostWakeup, ReadsOn, HearsNews
<1>3. TokenParts
  BY DEF Init, TokenParts, MarkersAreEarned, PlainFirst, MarkersDue, Unknown, Earned
<1> QED
  BY <1>1, <1>2, <1>3 DEF IInv, ClientParts, TokenParts

\* Clients that do nothing, and hear nothing, keep what they know.
LEMMA ClientsUnmoved ==
  ASSUME IInv, UNCHANGED <<told, clientVars>>,
         log' = log \/ \E e \in Event : log' = Append(log, e)
  PROVE  ClientParts'
<1>0. log \in Seq(Event)
  BY DEF IInv, TypeOK
<1>1. \A i \in DOMAIN log : i \in DOMAIN log' /\ log'[i] = log[i]
  BY <1>0
<1>2. Len(log) \in Nat /\ DOMAIN log = 1..Len(log)
  BY DEF IInv, TypeOK
<1>3. \A c \in Clients : cursor[c] \in 0..Len(log) /\ told \subseteq DOMAIN log
  BY DEF IInv, TypeOK, Places
<1>4. \A c \in Clients, i \in DOMAIN log : Wants(c, i)' <=> Wants(c, i)
  BY <1>1 DEF Wants
<1>5. GotAll'
  <2> SUFFICES ASSUME NEW c \in Clients
               PROVE  got[c] = {i \in 1..cursor[c] : Wants(c, i)'}
    BY DEF GotAll, clientVars
  <2>1. \A i \in 1..cursor[c] : i \in DOMAIN log
    BY <1>2, <1>3
  <2> QED
    BY <1>4, <2>1 DEF IInv, GotAll
<1>6. NoLostWakeup'
  BY <1>3, <1>4 DEF IInv, NoLostWakeup, clientVars
<1>7. ReadsOn' /\ HearsNews'
  BY DEF IInv, ReadsOn, HearsNews, Heard, clientVars
<1> QED
  BY <1>5, <1>6, <1>7 DEF ClientParts

\* With the log as it is, tokens and markers are what they were.
LEMMA SameTokens ==
  ASSUME UNCHANGED log
  PROVE  /\ \A n : Used(n)' = Used(n)
         /\ \A m, n : Earned(m, n)' <=> Earned(m, n)
         /\ MarkersAreEarned' <=> MarkersAreEarned
BY DEF Used, Earned, MarkersAreEarned

-----------------------------------------------------------------------------
(* Appends.                                                                *)

\* An append by a writer, whatever becomes of its list of markers.
LEMMA AppendByType ==
  ASSUME TypeOK, NEW w \in Writers, NEW e \in Event, AppendBy(w, e),
         todo' \in [Writers -> Seq([kind : {"set", "clear"}, of : Markers])],
         \A v \in Writers \ {w} : todo'[v] = todo[v],
         faults' \in 0..MaxFaults
  PROVE  TypeOK'
<1> USE DEF TypeOK, AppendBy, Places, clientVars
<1>1. log' \in Seq(Event) /\ Len(log') = Len(log) + 1 /\ Len(log) \in Nat
  OBVIOUS
<1>2. DOMAIN log \subseteq DOMAIN log' /\ Places \subseteq Places'
  BY <1>1
<1>3. event' \in [Writers -> 0..Len(log')] /\ event'[w] > 0
  BY <1>1
<1>4. pc' \in [Writers -> {"idle", "emit", "sync", "mark"}]
  OBVIOUS
<1>5. \A v \in Writers :
        /\ pc'[v] \in {"emit", "sync"} => event'[v] > 0
        /\ pc'[v] = "mark" => todo'[v] # <<>>
        /\ pc'[v] \in {"idle", "sync"} => todo'[v] = <<>>
  BY <1>3
<1>6. got' \in [Clients -> SUBSET (DOMAIN log')] /\ told' \subseteq DOMAIN log'
  BY <1>2
<1>7. upto' \in [Clients -> 0..Len(log')] /\ cursor' \in [Clients -> 0..Len(log')]
  BY <1>1
<1> QED
  BY <1>1, <1>3, <1>4, <1>5, <1>6, <1>7

\* If the event is earned, and is not a step's or a note's in the way of markers, the
\* append is in order.
LEMMA AppendByTokens ==
  ASSUME IInv, NEW w \in Writers, NEW e \in Event, AppendBy(w, e),
         Earned(e.of, Len(log)),
         e.kind \in Plain => todo'[w] = <<>>,
         \A v \in Writers \ {w} : todo'[v] = todo[v],
         \A n \in DOMAIN todo'[w] : Earned(todo'[w][n].of, Len(log))
  PROVE  TokenParts'
<1> USE DEF AppendBy
<1>a. TypeOK /\ log \in Seq(Event)
  BY DEF IInv, TypeOK
<1>0. /\ TypeOK /\ Len(log) \in Nat /\ DOMAIN log = 1..Len(log)
      /\ log' = Append(log, e) /\ Len(log') = Len(log) + 1 /\ DOMAIN log' = 1..Len(log')
      /\ log'[Len(log) + 1] = e /\ \A i \in 1..Len(log) : log'[i] = log[i]
  BY <1>a
<1>1. \A n \in 0..Len(log) : \A m : Earned(m, n) => Earned(m, n)' /\ Earned(m, Len(log))'
  BY <1>0, EarnedBefore
<1>2. MarkersAreEarned'
  <2> SUFFICES ASSUME NEW i \in DOMAIN log'
               PROVE  \A m : m = log'[i].of => Earned(m, i)'
    BY DEF MarkersAreEarned, Earned
  <2>1. CASE i \in DOMAIN log
    <3>1. Earned(log[i].of, i)
      BY <2>1 DEF IInv, MarkersAreEarned, Earned
    <3> QED
      BY <1>0, <1>1, <2>1, <3>1
  <2>2. CASE i = Len(log')
    <3>1. log'[i] = e
      BY <1>0, <2>2
    <3> QED
      BY <1>0, <1>1, <2>2, <3>1
  <2> QED
    BY <1>0, <2>1, <2>2
<1>3. PlainFirst'
  <2> SUFFICES ASSUME NEW v \in Writers, pc'[v] = "emit", log'[event'[v]].kind \in Plain
               PROVE  todo'[v] = <<>>
    BY DEF PlainFirst
  <2>1. CASE v = w
    <3>1. event'[w] = Len(log) + 1 /\ log'[Len(log) + 1] = e
      BY <1>0 DEF TypeOK
    <3> QED
      BY <2>1, <3>1
  <2>2. CASE v # w
    <3>1. event'[v] = event[v] /\ pc[v] = "emit" /\ todo'[v] = todo[v]
      BY <1>0, <2>2 DEF TypeOK
    <3>2. event[v] \in DOMAIN log
      BY <1>0, <3>1 DEF TypeOK, Places
    <3>3. log'[event[v]] = log[event[v]]
      BY <1>0, <3>2
    <3> QED
      BY <3>1, <3>3 DEF IInv, PlainFirst
  <2> QED
    BY <2>1, <2>2
<1>4. MarkersDue'
  <2>1. ASSUME NEW v \in Writers, NEW n \in DOMAIN todo'[v]
        PROVE  Earned(todo'[v][n].of, Len(log))
    BY <2>1 DEF IInv, MarkersDue
  <2>2. \A m \in seen' : Earned(m, Len(log))
    BY DEF IInv, MarkersDue
  <2> QED
    BY <1>0, <1>1, <2>1, <2>2 DEF MarkersDue
<1> QED
  BY <1>2, <1>3, <1>4 DEF TokenParts

LEMMA AppendEventKeeps ==
  ASSUME IInv, NEW w \in Writers, NEW k \in Plain, AppendEvent(w, k)
  PROVE  IInv'
<1> DEFINE e == [kind |-> k, of |-> "none"]
<1>1. e \in Event /\ Earned(e.of, Len(log)) /\ AppendBy(w, e) /\ UNCHANGED <<todo, faults>>
  BY DEF AppendEvent, Event, Earned
<1>2. TypeOK /\ todo[w] = <<>>
  BY DEF AppendEvent, IInv, TypeOK
<1>3. /\ todo' \in [Writers -> Seq([kind : {"set", "clear"}, of : Markers])]
      /\ faults' \in 0..MaxFaults
  BY <1>1, <1>2 DEF TypeOK
<1> HIDE DEF e
<1>4. TypeOK'
  BY <1>1, <1>2, <1>3, AppendByType
<1>5. TokenParts'
  BY <1>1, <1>2, AppendByTokens
<1>6. ClientParts'
  BY <1>1, ClientsUnmoved DEF AppendBy
<1> QED
  BY <1>4, <1>5, <1>6 DEF IInv, ClientParts, TokenParts

LEMMA MarkKeeps ==
  ASSUME IInv, NEW w \in Writers, Mark(w)
  PROVE  IInv'
<1> DEFINE e == Head(todo[w])
           M == [kind : {"set", "clear"}, of : Markers]
<1>0. TypeOK /\ todo \in [Writers -> Seq(M)] /\ todo[w] \in Seq(M) /\ todo[w] # <<>>
  BY DEF Mark, IInv, TypeOK
<1>1. /\ e \in M /\ e = todo[w][1] /\ 1 \in DOMAIN todo[w]
      /\ todo'[w] = Tail(todo[w]) /\ Tail(todo[w]) \in Seq(M)
      /\ todo' \in [Writers -> Seq(M)] /\ \A v \in Writers \ {w} : todo'[v] = todo[v]
      /\ \A n \in DOMAIN Tail(todo[w]) : n + 1 \in DOMAIN todo[w]
                                         /\ Tail(todo[w])[n] = todo[w][n + 1]
  <2> HIDE DEF M
  <2> QED
    BY <1>0 DEF Mark
<1>2. e \in Event /\ e.kind \notin Plain /\ AppendBy(w, e) /\ faults' \in 0..MaxFaults
  BY <1>0, <1>1 DEF Mark, Event, Plain, TypeOK
<1>3. Earned(e.of, Len(log)) /\ \A n \in DOMAIN todo'[w] : Earned(todo'[w][n].of, Len(log))
  <2> HIDE DEF e, M
  <2> QED
    BY <1>1 DEF IInv, MarkersDue
<1>4. TypeOK'
  <2> HIDE DEF e
  <2> QED
    BY <1>0, <1>1, <1>2, AppendByType
<1>5. TokenParts'
  <2> HIDE DEF e
  <2> QED
    BY <1>1, <1>2, <1>3, AppendByTokens
<1>6. ClientParts'
  <2> HIDE DEF e
  <2> QED
    BY <1>2, ClientsUnmoved DEF AppendBy
<1> QED
  BY <1>4, <1>5, <1>6 DEF IInv, ClientParts, TokenParts

-----------------------------------------------------------------------------
(* Announcements.                                                          *)

\* A receiver stays within its capacity, and has lost a line only if it says so.
LEMMA PushFits ==
  ASSUME NEW q \in Seq({"event", "other"}), Len(q) <= Capacity, NEW x \in {"event", "other"}
  PROVE  /\ Push(q, x) \in Seq({"event", "other"}) /\ Len(Push(q, x)) <= Capacity
         /\ \E n \in DOMAIN Push(q, x) : Push(q, x)[n] = x
         /\ Len(q) = Capacity \/ \A n \in DOMAIN q : n \in DOMAIN Push(q, x) /\ Push(q, x)[n] = q[n]
<1>1. CASE Len(q) = Capacity
  <2>1. q # <<>> /\ Tail(q) \in Seq({"event", "other"}) /\ Len(Tail(q)) = Capacity - 1
    BY <1>1, SizesAssumption
  <2>2. Push(q, x) = Append(Tail(q), x)
    BY <1>1 DEF Push
  <2>3. Len(Push(q, x)) = Capacity /\ Push(q, x)[Capacity] = x /\ Capacity \in DOMAIN Push(q, x)
    BY <2>1, <2>2, SizesAssumption
  <2> QED
    BY <1>1, <2>1, <2>2, <2>3, SizesAssumption
<1>2. CASE Len(q) # Capacity
  <2>1. Push(q, x) = Append(q, x)
    BY <1>2 DEF Push
  <2>2. Push(q, x)[Len(q) + 1] = x /\ Len(q) + 1 \in DOMAIN Push(q, x)
    BY <2>1
  <2> QED
    BY <1>2, <2>1, <2>2, SizesAssumption
<1> QED
  BY <1>1, <1>2

LEMMA NotifyTypes ==
  ASSUME TypeOK, NEW x \in {"event", "other"}, Notify(x)
  PROVE  /\ rx' \in [Clients -> Seq({"event", "other"})] /\ \A c \in Clients : Len(rx'[c]) <= Capacity
         /\ lagged' \in [Clients -> BOOLEAN]
         /\ UNCHANGED <<at, late, upto, cursor, got>>
<1>1. \A c \in Clients : Push(rx[c], x) \in Seq({"event", "other"}) /\ Len(Push(rx[c], x)) <= Capacity
  BY PushFits DEF TypeOK
<1>2. /\ rx' \in [Clients -> Seq({"event", "other"})]
      /\ \A c \in Clients : Len(rx'[c]) <= Capacity
  BY <1>1 DEF Notify, TypeOK
<1> QED
  BY <1>2 DEF Notify, TypeOK

\* A line makes sure that whoever listens has heard of it, and forgets nothing.
LEMMA NotifyHeard ==
  ASSUME TypeOK, NEW x \in {"event", "other"}, Notify(x), NEW c \in Clients, at[c] # "idle"
  PROVE  (x = "event" \/ Heard(c)) => Heard(c)'
<1> DEFINE q == rx[c]
<1>1. q \in Seq({"event", "other"}) /\ Len(q) <= Capacity
  BY DEF TypeOK
<1>2. rx'[c] = Push(q, x) /\ (lagged[c] \/ Len(q) = Capacity => lagged'[c])
  BY DEF Notify, TypeOK
<1>3. /\ \E n \in DOMAIN Push(q, x) : Push(q, x)[n] = x
      /\ Len(q) = Capacity \/ \A n \in DOMAIN q : n \in DOMAIN Push(q, x) /\ Push(q, x)[n] = q[n]
  <2> HIDE DEF q
  <2> QED
    BY <1>1, PushFits
<1> QED
  BY <1>2, <1>3 DEF Heard

\* The news is out: a place of the log is announced, or no new one is.
LEMMA NotifyClients ==
  ASSUME IInv, NEW x \in {"event", "other"}, Notify(x), UNCHANGED log,
         told \subseteq told', told' \subseteq DOMAIN log, x = "event" \/ told' = told
  PROVE  ClientParts'
<1>1. TypeOK /\ UNCHANGED <<at, upto, cursor, got>>
  BY DEF IInv, Notify
<1>2. \A c \in Clients : at[c] # "idle" => ((x = "event" \/ Heard(c)) => Heard(c)')
  BY <1>1, NotifyHeard
<1>3. \A c \in Clients, i \in DOMAIN log : Wants(c, i)' <=> Wants(c, i)
  BY DEF Wants
<1>4. GotAll' /\ ReadsOn'
  BY <1>1 DEF IInv, GotAll, Wants, ReadsOn
<1>5. NoLostWakeup'
  <2> SUFFICES ASSUME NEW c \in Clients, NEW i \in told', at[c] = "wait", i > cursor[c], Wants(c, i)
               PROVE  Heard(c)'
    BY <1>1, <1>3 DEF NoLostWakeup, Heard
  <2>1. x = "event" \/ Heard(c)
    BY DEF IInv, NoLostWakeup, Heard
  <2> QED
    BY <1>2, <2>1
<1>6. HearsNews'
  <2> SUFFICES ASSUME NEW c \in Clients, NEW i \in told', at[c] = "decide", i > upto[c]
               PROVE  Heard(c)'
    BY <1>1 DEF HearsNews
  <2>1. x = "event" \/ Heard(c)
    BY DEF IInv, HearsNews
  <2> QED
    BY <1>2, <2>1
<1> QED
  BY <1>4, <1>5, <1>6 DEF ClientParts

LEMMA EmitKeeps ==
  ASSUME IInv, NEW w \in Writers, Emit(w)
  PROVE  IInv'
<1>0. TypeOK /\ PlainFirst /\ UNCHANGED <<log, todo, seen, faults>> /\ Notify("event")
  BY DEF IInv, Emit
<1>1. PICK label \in Then(w) : Leave(w, label)
  BY DEF Emit
<1>2. event[w] \in DOMAIN log /\ log[event[w]] \in Event
  BY DEF Emit, TypeOK, IInv, Places
<1>3. /\ label \in {"idle", "sync", "mark"}
      /\ label = "mark" => todo[w] # <<>>
      /\ label \in {"idle", "sync"} => todo[w] = <<>>
  BY <1>0, <1>1, <1>2 DEF Then, Event, Plain, PlainFirst, Emit
<1>4. told' \subseteq DOMAIN log /\ told \subseteq told'
  BY <1>0, <1>2 DEF Emit, TypeOK
<1>5. TypeOK'
  <2>1. /\ pc' \in [Writers -> {"idle", "emit", "sync", "mark"}] /\ event' \in [Writers -> Places]
        /\ \A v \in Writers :
             /\ pc'[v] \in {"emit", "sync"} => event'[v] > 0
             /\ pc'[v] = "mark" => todo[v] # <<>>
             /\ pc'[v] \in {"idle", "sync"} => todo[v] = <<>>
    BY <1>0, <1>1, <1>2, <1>3 DEF TypeOK, Leave, Places
  <2>2. /\ rx' \in [Clients -> Seq({"event", "other"})] /\ \A c \in Clients : Len(rx'[c]) <= Capacity
        /\ lagged' \in [Clients -> BOOLEAN]
        /\ UNCHANGED <<at, late, upto, cursor, got>>
    BY <1>0, NotifyTypes
  <2> QED
    BY <1>0, <1>4, <2>1, <2>2 DEF TypeOK, Places
<1>6. ClientParts'
  BY <1>0, <1>4, NotifyClients
<1>7. TokenParts'
  <2>1. MarkersAreEarned' /\ MarkersDue'
    BY <1>0, SameTokens DEF IInv, MarkersDue
  <2>2. PlainFirst'
    BY <1>0, <1>1, <1>3 DEF PlainFirst, Leave, TypeOK
  <2> QED
    BY <2>1, <2>2 DEF TokenParts
<1> QED
  BY <1>5, <1>6, <1>7 DEF IInv, ClientParts, TokenParts

LEMMA OtherLineKeeps ==
  ASSUME IInv, OtherLine
  PROVE  IInv'
<1>0. TypeOK /\ UNCHANGED <<logVars, writerVars, faults>> /\ Notify("other")
  BY DEF IInv, OtherLine
<1>1. TypeOK'
  BY <1>0, NotifyTypes DEF TypeOK, logVars, writerVars, Places
<1>2. ClientParts'
  BY <1>0, NotifyClients DEF TypeOK, logVars
<1>3. TokenParts'
  BY <1>0, SameTokens DEF IInv, TokenParts, MarkersDue, PlainFirst, logVars, writerVars
<1> QED
  BY <1>1, <1>2, <1>3 DEF IInv, ClientParts, TokenParts

-----------------------------------------------------------------------------
(* The budget.                                                             *)

\* The markers that change, and no others, are to be appended.
LEMMA TransitionMarks ==
  ASSUME NEW m \in Markers, NEW now, now \subseteq Markers
  PROVE  /\ Transition(m, now) \in Seq([kind : {"set", "clear"}, of : Markers])
         /\ Len(Transition(m, now)) <= 1
         /\ \A n \in DOMAIN Transition(m, now) :
              Transition(m, now)[n].of = m /\ (m \in now \/ m \in seen)
<1>1. CASE Changes(m, now)
  <2> DEFINE e == [kind |-> IF m \in now THEN "set" ELSE "clear", of |-> m]
  <2>1. Transition(m, now) = <<e>>
    BY <1>1 DEF Transition
  <2>2. e \in [kind : {"set", "clear"}, of : Markers] /\ e.of = m
    OBVIOUS
  <2>3. m \in now \/ m \in seen
    BY <1>1 DEF Changes
  <2> HIDE DEF e
  <2> QED
    BY <2>1, <2>2, <2>3
<1>2. CASE ~Changes(m, now)
  BY <1>2 DEF Transition
<1> QED
  BY <1>1, <1>2

\* What is active is earned.
LEMMA ActiveEarned ==
  ASSUME NEW n \in Nat
  PROVE  \A m \in Active(Used(n)) : m \in Markers /\ Earned(m, n)
BY UsedGrows, BudgetAssumption DEF Active, Earned, Markers

LEMMA SyncKeeps ==
  ASSUME IInv, NEW w \in Writers, Sync(w)
  PROVE  IInv'
<1> DEFINE M == [kind : {"set", "clear"}, of : Markers]
           now == Active(Used(event[w]))
           first == Transition("warning", now)
           second == Transition("exceeded", now)
           changes == first \o second
<1>0. TypeOK /\ pc[w] = "sync" /\ UNCHANGED <<logVars, clientVars, faults>>
  BY DEF IInv, Sync
<1>1. event[w] \in 0..Len(log) /\ Len(log) \in Nat
  BY <1>0 DEF TypeOK, Places
<1>2. now \subseteq Markers /\ \A m \in now : Earned(m, Len(log))
  <2>1. \A m \in now : m \in Markers /\ Earned(m, event[w])
    BY <1>1, ActiveEarned
  <2> HIDE DEF now
  <2> QED
    BY <1>1, <2>1, EarnedStays
<1>3. \A m \in seen : Earned(m, Len(log))
  BY DEF IInv, MarkersDue
<1>4. /\ first \in Seq(M) /\ second \in Seq(M)
      /\ \A n \in DOMAIN first : Earned(first[n].of, Len(log))
      /\ \A n \in DOMAIN second : Earned(second[n].of, Len(log))
  <2>1. "warning" \in Markers /\ "exceeded" \in Markers
    BY DEF Markers
  <2> HIDE DEF now
  <2>2. ASSUME NEW m \in Markers
        PROVE  /\ Transition(m, now) \in Seq(M)
               /\ \A n \in DOMAIN Transition(m, now) : Earned(Transition(m, now)[n].of, Len(log))
    <3>1. \A n \in DOMAIN Transition(m, now) :
             Transition(m, now)[n].of = m /\ (m \in now \/ m \in seen)
      BY <1>2, TransitionMarks
    <3> QED
      BY <1>2, <1>3, <3>1, TransitionMarks
  <2> QED
    BY <2>1, <2>2
<1>5. changes \in Seq(M) /\ \A n \in DOMAIN changes : Earned(changes[n].of, Len(log))
  <2> HIDE DEF first, second, M
  <2>1. \A n \in DOMAIN changes : \/ n \in DOMAIN first /\ changes[n] = first[n]
                                  \/ n - Len(first) \in DOMAIN second /\ changes[n] = second[n - Len(first)]
    BY <1>4
  <2> QED
    BY <1>4, <2>1
<1>6. /\ todo' = [todo EXCEPT ![w] = changes] /\ seen' = now
      /\ Leave(w, IF changes = <<>> THEN "idle" ELSE "mark")
  BY DEF Sync
<1> HIDE DEF M, now, changes
<1>7. TypeOK'
  <2>1. todo' \in [Writers -> Seq(M)]
    BY <1>0, <1>5, <1>6 DEF TypeOK, M
  <2>2. /\ pc' \in [Writers -> {"idle", "emit", "sync", "mark"}] /\ event' \in [Writers -> Places]
        /\ \A v \in Writers :
             /\ pc'[v] \in {"emit", "sync"} => event'[v] > 0
             /\ pc'[v] = "mark" => todo'[v] # <<>>
             /\ pc'[v] \in {"idle", "sync"} => todo'[v] = <<>>
    BY <1>0, <1>1, <1>6 DEF TypeOK, Leave, Places
  <2>3. seen' \subseteq Markers
    BY <1>2, <1>6
  <2> QED
    BY <1>0, <2>1, <2>2, <2>3 DEF TypeOK, Places, logVars, clientVars, M
<1>8. ClientParts'
  BY <1>0, ClientsUnmoved DEF logVars
<1>9. TokenParts'
  <2>0. UNCHANGED log
    BY <1>0 DEF logVars
  <2>1. MarkersAreEarned'
    BY <2>0, SameTokens DEF IInv
  <2>2. PlainFirst'
    BY <1>0, <1>6, <2>0 DEF IInv, PlainFirst, Leave, TypeOK
  <2>3. \A v \in Writers : \A n \in DOMAIN todo'[v] : Earned(todo'[v][n].of, Len(log))
    BY <1>0, <1>5, <1>6 DEF IInv, MarkersDue, TypeOK
  <2>4. MarkersDue'
    BY <1>2, <1>6, <2>0, <2>3, SameTokens DEF MarkersDue
  <2> QED
    BY <2>1, <2>2, <2>4 DEF TokenParts
<1> QED
  BY <1>7, <1>8, <1>9 DEF IInv, ClientParts, TokenParts

LEMMA MarkFailsKeeps ==
  ASSUME IInv, NEW w \in Writers, MarkFails(w)
  PROVE  IInv'
<1> DEFINE M == [kind : {"set", "clear"}, of : Markers]
           rest == Tail(todo[w])
<1>0. TypeOK /\ todo \in [Writers -> Seq(M)] /\ todo[w] \in Seq(M) /\ todo[w] # <<>>
  BY DEF MarkFails, IInv, TypeOK
<1>1. /\ UNCHANGED <<logVars, seen, clientVars>> /\ todo' = [todo EXCEPT ![w] = rest]
      /\ Leave(w, IF Len(todo[w]) = 1 THEN "idle" ELSE "mark")
      /\ faults' \in 0..MaxFaults /\ pc[w] = "mark"
  BY <1>0, BoundsAssumption DEF MarkFails, TypeOK
<1>2. /\ rest \in Seq(M) /\ (Len(todo[w]) = 1 <=> rest = <<>>)
      /\ \A n \in DOMAIN rest : n + 1 \in DOMAIN todo[w] /\ rest[n] = todo[w][n + 1]
  <2> HIDE DEF M
  <2>1. rest \in Seq(M) /\ Len(rest) = Len(todo[w]) - 1
    BY <1>0
  <2>2. Len(todo[w]) = 1 <=> rest = <<>>
    <3>1. \A s \in Seq(M) : Len(s) = 0 <=> s = <<>>
      OBVIOUS
    <3>2. Len(todo[w]) = 1 <=> Len(rest) = 0
      <4>1. Len(todo[w]) \in Nat
        BY <1>0
      <4> HIDE DEF rest
      <4> QED
        BY <2>1, <4>1
    <3> HIDE DEF rest
    <3> QED
      BY <2>1, <3>1, <3>2, Zenon
  <2>3. \A n \in DOMAIN rest : n + 1 \in DOMAIN todo[w] /\ rest[n] = todo[w][n + 1]
    BY <1>0, <2>1
  <2> QED
    BY <2>1, <2>2, <2>3
<1> HIDE DEF M, rest
<1>3. TypeOK'
  <2>1. todo' \in [Writers -> Seq(M)]
    BY <1>0, <1>1, <1>2
  <2>2. /\ pc' \in [Writers -> {"idle", "emit", "sync", "mark"}] /\ event' \in [Writers -> Places]
        /\ \A v \in Writers :
             /\ pc'[v] \in {"emit", "sync"} => event'[v] > 0
             /\ pc'[v] = "mark" => todo'[v] # <<>>
             /\ pc'[v] \in {"idle", "sync"} => todo'[v] = <<>>
    BY <1>0, <1>1, <1>2 DEF TypeOK, Leave, Places
  <2> QED
    BY <1>0, <1>1, <2>1, <2>2 DEF TypeOK, Places, logVars, clientVars, M
<1>4. ClientParts'
  BY <1>1, ClientsUnmoved DEF logVars
<1>5. TokenParts'
  <2>0. UNCHANGED log
    BY <1>1 DEF logVars
  <2>1. MarkersAreEarned'
    BY <2>0, SameTokens DEF IInv
  <2>2. PlainFirst'
    BY <1>0, <1>1, <2>0 DEF IInv, PlainFirst, Leave, TypeOK
  <2>3. \A v \in Writers : \A n \in DOMAIN todo'[v] : Earned(todo'[v][n].of, Len(log))
    BY <1>0, <1>1, <1>2 DEF IInv, MarkersDue
  <2>4. MarkersDue'
    BY <1>1, <2>0, <2>3, SameTokens DEF IInv, MarkersDue
  <2> QED
    BY <2>1, <2>2, <2>4 DEF TokenParts
<1> QED
  BY <1>3, <1>4, <1>5 DEF IInv, ClientParts, TokenParts

LEMMA DropAgentKeeps ==
  ASSUME IInv, NEW w \in Writers, DropAgent(w)
  PROVE  IInv'
<1> DEFINE M == [kind : {"set", "clear"}, of : Markers]
<1>a. <<>> \in Seq(M)
  OBVIOUS
<1>0. TypeOK /\ todo \in [Writers -> Seq(M)] /\ <<>> \in Seq(M)
  BY <1>a DEF IInv, TypeOK
<1>1. /\ UNCHANGED <<logVars, seen, clientVars>> /\ todo' = [todo EXCEPT ![w] = <<>>]
      /\ Leave(w, "idle") /\ faults' \in 0..MaxFaults
  BY <1>0, BoundsAssumption DEF DropAgent, TypeOK
<1> HIDE DEF M
<1>2. TypeOK'
  <2>1. todo' \in [Writers -> Seq(M)]
    BY <1>0, <1>1
  <2>2. /\ pc' \in [Writers -> {"idle", "emit", "sync", "mark"}] /\ event' \in [Writers -> Places]
        /\ \A v \in Writers :
             /\ pc'[v] \in {"emit", "sync"} => event'[v] > 0
             /\ pc'[v] = "mark" => todo'[v] # <<>>
             /\ pc'[v] \in {"idle", "sync"} => todo'[v] = <<>>
    BY <1>0, <1>1 DEF TypeOK, Leave, Places
  <2> QED
    BY <1>0, <1>1, <2>1, <2>2 DEF TypeOK, Places, logVars, clientVars, M
<1>3. ClientParts'
  BY <1>1, ClientsUnmoved DEF logVars
<1>4. TokenParts'
  <2>0. UNCHANGED log
    BY <1>1 DEF logVars
  <2>1. MarkersAreEarned'
    BY <2>0, SameTokens DEF IInv
  <2>2. PlainFirst'
    BY <1>0, <1>1, <2>0 DEF IInv, PlainFirst, Leave, TypeOK
  <2>3. \A v \in Writers : \A n \in DOMAIN todo'[v] : Earned(todo'[v][n].of, Len(log))
    BY <1>0, <1>1 DEF IInv, MarkersDue
  <2>4. MarkersDue'
    BY <1>1, <2>0, <2>3, SameTokens DEF IInv, MarkersDue
  <2> QED
    BY <2>1, <2>2, <2>4 DEF TokenParts
<1> QED
  BY <1>2, <1>3, <1>4 DEF IInv, ClientParts, TokenParts

-----------------------------------------------------------------------------
(* Clients.                                                                *)

\* A page is the first part of what matches: whatever matches up to the last_seq that
\* goes with it is in it, and nothing else.
LEMMA PageIsPrefix ==
  ASSUME IInv, NEW c \in Clients, at[c] = "decide"
  PROVE  /\ LastSeq(c) \in cursor[c]..upto[c]
         /\ Page(c) = {i \in Matching(c) : i <= LastSeq(c)}
<1> DEFINE Before(i) == {j \in Matching(c) : j <= i}
<1>1. /\ cursor[c] \in Nat /\ upto[c] \in Nat /\ cursor[c] <= upto[c]
      /\ PageSize \in Nat /\ PageSize >= 1
  BY SizesAssumption DEF IInv, TypeOK, ReadsOn, Places
<1>2. Matching(c) \in SUBSET (0..upto[c]) /\ \A i \in Matching(c) : i > cursor[c]
  BY <1>1 DEF Matching
<1>3. \A i \in Matching(c) : IsFiniteSet(Before(i)) /\ Cardinality(Before(i)) \in Nat
  <2> SUFFICES ASSUME NEW i \in Matching(c)
               PROVE  IsFiniteSet(Before(i))
    BY FS_CardinalityType
  <2>1. IsFiniteSet(0..upto[c])
    BY <1>1, FS_Interval
  <2>2. Before(i) \in SUBSET (0..upto[c])
    BY <1>2
  <2> HIDE DEF Before
  <2> QED
    BY <2>1, <2>2, FS_Subset
<1>4. ASSUME NEW i \in Page(c), NEW j \in Matching(c), j <= i
      PROVE  j \in Page(c)
  <2>1. i \in Matching(c) /\ Cardinality(Before(i)) <= PageSize
    BY DEF Page
  <2>2. Before(j) \in SUBSET Before(i)
    BY <1>2, <1>4, <2>1
  <2>3. Cardinality(Before(j)) <= Cardinality(Before(i))
    BY <1>3, <2>1, <2>2, FS_Subset
  <2>4. Cardinality(Before(j)) <= PageSize
    <3> HIDE DEF Before
    <3> QED
      BY <1>1, <1>3, <2>1, <2>3
  <2> QED
    BY <2>4 DEF Page
<1>5. CASE Page(c) = Matching(c)
  <2>1. LastSeq(c) = upto[c]
    BY <1>5 DEF LastSeq
  <2> QED
    BY <1>1, <1>2, <1>5, <2>1
<1>6. CASE Page(c) # Matching(c)
  <2>1. Matching(c) # {}
    BY <1>6 DEF Page
  <2>2. PICK m \in Matching(c) : \A n \in Matching(c) : m <= n
    BY <1>2, <2>1, Least
  <2>3. Before(m) = {m}
    BY <1>2, <2>2
  <2>4. m \in Page(c)
    <3>1. Cardinality(Before(m)) = 1
      BY <2>3, FS_Singleton
    <3> QED
      BY <1>1, <3>1 DEF Page
  <2>5. Page(c) \in SUBSET (0..upto[c])
    BY <1>2 DEF Page
  <2>6. \E i \in Page(c) : \A j \in Page(c) : j <= i
    BY <1>1, <2>4, <2>5, Greatest
  <2>7. LastSeq(c) \in Page(c) /\ \A j \in Page(c) : j <= LastSeq(c)
    BY <1>6, <2>6 DEF LastSeq
  <2>8. Page(c) \subseteq Matching(c)
    BY DEF Page
  <2> QED
    BY <1>1, <1>2, <1>4, <2>7, <2>8
<1> QED
  BY <1>5, <1>6

LEMMA TokensUnmoved ==
  ASSUME IInv, UNCHANGED <<logVars, writerVars>>
  PROVE  TokenParts'
BY SameTokens DEF IInv, TokenParts, MarkersDue, PlainFirst, logVars, writerVars

LEMMA AnswerKeeps ==
  ASSUME IInv, NEW c \in Clients, Answer(c)
  PROVE  IInv'
<1>0. TypeOK /\ at[c] = "decide" /\ UNCHANGED <<logVars, writerVars, faults>>
  BY DEF IInv, Answer
<1>1. /\ LastSeq(c) \in cursor[c]..upto[c]
      /\ Page(c) = {i \in Matching(c) : i <= LastSeq(c)}
  BY <1>0, PageIsPrefix
<1>2. /\ cursor[c] \in 0..Len(log) /\ upto[c] \in 0..Len(log) /\ Len(log) \in Nat
      /\ DOMAIN log = 1..Len(log)
  BY <1>0 DEF TypeOK, Places
<1>3. LastSeq(c) \in Places
  BY <1>1, <1>2 DEF Places
<1>4. Page(c) \subseteq DOMAIN log
  BY <1>1 DEF Matching, Wants
<1>5. TypeOK'
  <2>1. /\ at' \in [Clients -> {"idle", "read", "decide", "wait"}]
        /\ late' \in [Clients -> BOOLEAN] /\ lagged' \in [Clients -> BOOLEAN]
    BY <1>0 DEF Answer, Goto, TypeOK
  <2>2. /\ rx' \in [Clients -> Seq({"event", "other"})]
        /\ \A d \in Clients : Len(rx'[d]) <= Capacity
    <3>1. <<>> \in Seq({"event", "other"}) /\ Len(<<>>) <= Capacity
      BY SizesAssumption
    <3> QED
      BY <1>0, <3>1 DEF Answer, TypeOK
  <2>3. upto' \in [Clients -> Places] /\ cursor' \in [Clients -> Places]
    <3>1. 0 \in Places
      BY <1>2 DEF Places
    <3> QED
      BY <1>0, <1>3, <3>1 DEF Answer, TypeOK
  <2>4. got' \in [Clients -> SUBSET (DOMAIN log)]
    BY <1>0, <1>4 DEF Answer, TypeOK
  <2> QED
    BY <1>0, <2>1, <2>2, <2>3, <2>4 DEF TypeOK, Places, logVars, writerVars
<1>6. \A d \in Clients, i \in Nat : Wants(d, i)' <=> Wants(d, i)
  BY <1>0 DEF Wants, logVars
<1>7. ClientParts'
  <2>1. GotAll'
    <3>1. {i \in 1..LastSeq(c) : Wants(c, i)} = {i \in 1..cursor[c] : Wants(c, i)} \union Page(c)
      BY <1>1, <1>2 DEF Matching
    <3>2. got[c] = {i \in 1..cursor[c] : Wants(c, i)}
      BY DEF IInv, GotAll
    <3>3. \A d \in Clients : got[d] = {i \in 1..cursor[d] : Wants(d, i)}
      BY DEF IInv, GotAll
    <3>4. got'[c] = got[c] \union Page(c) /\ cursor'[c] = LastSeq(c)
      BY <1>0 DEF Answer, TypeOK
    <3>5. \A d \in Clients \ {c} : got'[d] = got[d] /\ cursor'[d] = cursor[d]
      BY <1>0 DEF Answer, TypeOK
    <3>6. \A d \in Clients : got'[d] = {i \in 1..cursor'[d] : Wants(d, i)}
      BY <3>1, <3>2, <3>3, <3>4, <3>5
    <3> QED
      BY <1>0, <3>6 DEF GotAll, Wants, logVars
  <2>2. NoLostWakeup'
    BY <1>0 DEF IInv, NoLostWakeup, Answer, Goto, TypeOK, Wants, logVars
  <2>3. ReadsOn' /\ HearsNews'
    BY <1>0 DEF IInv, ReadsOn, HearsNews, Heard, Answer, Goto, TypeOK, logVars
  <2> QED
    BY <2>1, <2>2, <2>3 DEF ClientParts
<1>8. TokenParts'
  BY <1>0, TokensUnmoved
<1> QED
  BY <1>5, <1>7, <1>8 DEF IInv, ClientParts, TokenParts

LEMMA WaitKeeps ==
  ASSUME IInv, NEW c \in Clients, Wait(c)
  PROVE  IInv'
<1>0. /\ TypeOK /\ at[c] = "decide" /\ Matching(c) = {} /\ at' = [at EXCEPT ![c] = "wait"]
      /\ UNCHANGED <<logVars, writerVars, late, upto, rx, lagged, cursor, got, faults>>
  BY DEF IInv, Wait, Goto
<1>1. TypeOK'
  BY <1>0 DEF TypeOK, Places, logVars, writerVars
<1>2. ClientParts'
  <2>1. GotAll' /\ ReadsOn' /\ HearsNews'
    BY <1>0 DEF IInv, GotAll, ReadsOn, HearsNews, Heard, Wants, TypeOK, logVars
  <2>2. ASSUME NEW i \in told, i > cursor[c], Wants(c, i)
        PROVE  Heard(c)
    <3>1. i \in Nat /\ cursor[c] \in Nat /\ upto[c] \in Nat
      BY <1>0 DEF TypeOK, Places
    <3>2. i > upto[c]
      BY <1>0, <2>2, <3>1 DEF Matching
    <3> QED
      BY <1>0, <3>2 DEF IInv, HearsNews
  <2>3. NoLostWakeup'
    BY <1>0, <2>2 DEF IInv, NoLostWakeup, Heard, TypeOK, Wants, logVars
  <2> QED
    BY <2>1, <2>3 DEF ClientParts
<1>3. TokenParts'
  BY <1>0, TokensUnmoved
<1> QED
  BY <1>1, <1>2, <1>3 DEF IInv, ClientParts, TokenParts

\* A request begins, or reads the log.
LEMMA ReadKeeps ==
  ASSUME IInv, NEW c \in Clients, Subscribe(c) \/ ReadLog(c)
  PROVE  IInv'
<1>0. /\ TypeOK /\ at[c] \in {"idle", "read"}
      /\ UNCHANGED <<logVars, writerVars, late, rx, lagged, cursor, got, faults>>
      /\ \/ at' = [at EXCEPT ![c] = "read"] /\ UNCHANGED upto
         \/ at' = [at EXCEPT ![c] = "decide"] /\ upto' = [upto EXCEPT ![c] = Len(log)]
  BY DEF IInv, Subscribe, ReadLog, Goto
<1>1. Len(log) \in Places /\ told \subseteq 1..Len(log)
  BY <1>0 DEF TypeOK, Places
<1>2. TypeOK'
  <2>1. upto' \in [Clients -> Places]
    BY <1>0, <1>1 DEF TypeOK
  <2>2. at' \in [Clients -> {"idle", "read", "decide", "wait"}]
    BY <1>0 DEF TypeOK
  <2> QED
    BY <1>0, <2>1, <2>2 DEF TypeOK, Places, logVars, writerVars
<1>3. ClientParts'
  <2>1. GotAll' /\ NoLostWakeup'
    BY <1>0 DEF IInv, GotAll, NoLostWakeup, Heard, Wants, TypeOK, logVars
  <2>2. ReadsOn'
    BY <1>0, <1>1 DEF IInv, ReadsOn, TypeOK, Places
  <2>3. HearsNews'
    <3> SUFFICES ASSUME NEW d \in Clients, NEW i \in told, at'[d] = "decide", i > upto'[d]
                 PROVE  Heard(d)
      BY <1>0 DEF HearsNews, Heard, logVars
    <3>1. i \in 1..Len(log) /\ Len(log) \in Nat
      BY <1>0, <1>1 DEF TypeOK
    <3>2. d # c
      BY <1>0, <3>1 DEF TypeOK
    <3>3. at[d] = "decide" /\ upto'[d] = upto[d]
      BY <1>0, <3>2 DEF TypeOK
    <3> QED
      BY <3>3 DEF IInv, HearsNews
  <2> QED
    BY <2>1, <2>2, <2>3 DEF ClientParts
<1>4. TokenParts'
  BY <1>0, TokensUnmoved
<1> QED
  BY <1>2, <1>3, <1>4 DEF IInv, ClientParts, TokenParts

LEMMA FetchKeeps ==
  ASSUME IInv, NEW c \in Clients, Fetch(c)
  PROVE  IInv'
<1> DEFINE Lines == Seq({"event", "other"})
           rest == IF lagged[c] THEN rx[c] ELSE Tail(rx[c])
<1>0. /\ TypeOK /\ at[c] = "wait" /\ rx[c] \in Lines /\ rx[c] # <<>> /\ Len(rx[c]) <= Capacity
      /\ UNCHANGED <<logVars, writerVars, late, upto, cursor, got, faults>>
      /\ lagged' = [lagged EXCEPT ![c] = FALSE] /\ rx' = [rx EXCEPT ![c] = rest]
      /\ at' = [at EXCEPT ![c] = IF Woken(c) THEN "read" ELSE "wait"]
  BY DEF IInv, Fetch, Goto, TypeOK
<1>1. rest \in Lines /\ Len(rest) <= Capacity
  BY <1>0, SizesAssumption
<1>2. ~Woken(c) /\ Heard(c) => \E n \in DOMAIN rest : rest[n] = "event"
  <2> SUFFICES ASSUME ~lagged[c], Head(rx[c]) # "event",
                      NEW n \in DOMAIN rx[c], rx[c][n] = "event"
               PROVE  \E k \in DOMAIN rest : rest[k] = "event"
    BY DEF Woken, Heard
  <2>1. n # 1 /\ n - 1 \in DOMAIN Tail(rx[c]) /\ Tail(rx[c])[n - 1] = rx[c][n]
    BY <1>0
  <2> QED
    BY <2>1
<1> HIDE DEF rest
<1>3. TypeOK'
  BY <1>0, <1>1 DEF TypeOK, Places, logVars, writerVars
<1>4. ClientParts'
  <2>1. GotAll' /\ ReadsOn' /\ HearsNews'
    BY <1>0 DEF IInv, GotAll, ReadsOn, HearsNews, Heard, Wants, TypeOK, logVars
  <2>2. NoLostWakeup'
    <3> SUFFICES ASSUME NEW d \in Clients, NEW i \in told, at'[d] = "wait", i > cursor[d],
                        Wants(d, i)
                 PROVE  Heard(d)'
      BY <1>0 DEF NoLostWakeup, Heard, Wants, logVars
    <3>1. at[d] = "wait" /\ Heard(d)
      BY <1>0 DEF IInv, NoLostWakeup, Heard, TypeOK
    <3>2. CASE d = c
      <4>1. ~Woken(c)
        BY <1>0, <3>2 DEF TypeOK
      <4> QED
        BY <1>0, <1>2, <3>1, <3>2, <4>1 DEF Heard, TypeOK
    <3>3. CASE d # c
      BY <1>0, <3>1, <3>3 DEF Heard, TypeOK
    <3> QED
      BY <3>2, <3>3
  <2> QED
    BY <2>1, <2>2 DEF ClientParts
<1>5. TokenParts'
  BY <1>0, TokensUnmoved
<1> QED
  BY <1>3, <1>4, <1>5 DEF IInv, ClientParts, TokenParts

LEMMA DeadlineKeeps ==
  ASSUME IInv, NEW c \in Clients, Deadline(c)
  PROVE  IInv'
<1>0. /\ TypeOK /\ UNCHANGED <<logVars, writerVars, upto, rx, lagged, cursor, got, faults>>
      /\ late' = [late EXCEPT ![c] = TRUE]
      /\ at' = [at EXCEPT ![c] = IF at[c] = "wait" THEN "read" ELSE at[c]]
  BY DEF IInv, Deadline, Goto
<1>1. TypeOK'
  BY <1>0 DEF TypeOK, Places, logVars, writerVars
<1>2. ClientParts'
  BY <1>0 DEF IInv, ClientParts, GotAll, NoLostWakeup, ReadsOn, HearsNews, Heard, Wants, TypeOK,
              logVars
<1>3. TokenParts'
  BY <1>0, TokensUnmoved
<1> QED
  BY <1>1, <1>2, <1>3 DEF IInv, ClientParts, TokenParts

LEMMA RestartKeeps ==
  ASSUME IInv, Restart
  PROVE  IInv'
<1>0. TypeOK /\ UNCHANGED <<logVars, cursor, got>>
  BY DEF IInv, Restart
<1>1. TypeOK'
  <2>1. 0 \in Places /\ <<>> \in Seq({"event", "other"}) /\ Len(<<>>) <= Capacity
        /\ <<>> \in Seq([kind : {"set", "clear"}, of : Markers])
    BY <1>0, SizesAssumption DEF TypeOK, Places
  <2>2. faults' \in 0..MaxFaults
    BY <1>0, BoundsAssumption DEF Restart, TypeOK
  <2> QED
    BY <1>0, <2>1, <2>2 DEF Restart, TypeOK, Places, logVars
<1>2. ClientParts'
  BY <1>0 DEF IInv, Restart, ClientParts, GotAll, NoLostWakeup, ReadsOn, HearsNews, Wants, logVars
<1>3. TokenParts'
  <2>1. MarkersAreEarned'
    BY <1>0, SameTokens DEF IInv, logVars
  <2>2. PlainFirst' /\ MarkersDue'
    BY DEF Restart, PlainFirst, MarkersDue, Earned, Unknown
  <2> QED
    BY <2>1, <2>2 DEF TokenParts
<1> QED
  BY <1>1, <1>2, <1>3 DEF IInv, ClientParts, TokenParts

-----------------------------------------------------------------------------
(* The theorems.                                                           *)

LEMMA StepInv ==
  ASSUME IInv, [Next]_vars
  PROVE  IInv'
<1>1. ASSUME NEW w \in Writers, WriterStep(w)
      PROVE  IInv'
  BY <1>1, AppendEventKeeps, EmitKeeps, SyncKeeps, MarkKeeps, MarkFailsKeeps, DropAgentKeeps
     DEF WriterStep, Proceed
<1>2. ASSUME NEW c \in Clients, ClientStep(c)
      PROVE  IInv'
  BY <1>2, ReadKeeps, AnswerKeeps, WaitKeeps, FetchKeeps, DeadlineKeeps DEF ClientStep, Serve
<1>3. CASE UNCHANGED vars
  <2>1. TypeOK'
    BY <1>3 DEF IInv, TypeOK, Places, vars, logVars, writerVars, clientVars
  <2>2. ClientParts'
    BY <1>3, ClientsUnmoved DEF vars, logVars
  <2>3. TokenParts'
    BY <1>3, TokensUnmoved DEF vars
  <2> QED
    BY <2>1, <2>2, <2>3 DEF IInv, ClientParts, TokenParts
<1> QED
  BY <1>1, <1>2, <1>3, OtherLineKeeps, RestartKeeps DEF Next

\* The inductive invariant holds of every behaviour.
THEOREM Invariance == Spec => []IInv
BY InitInv, StepInv, PTL DEF Spec

\* Every variable keeps to its type: receivers stay within what the channel keeps, and
\* nobody has read past the end of the log.
THEOREM TypeCorrect == Spec => []TypeOK
<1>1. IInv => TypeOK
  BY DEF IInv
<1> QED
  BY <1>1, Invariance, PTL

\* A client of thread/subscribe has been given exactly the events of its kinds up to its
\* since_seq, whatever the size of its pages.
THEOREM SubscribersGetAll == Spec => []GotAll
<1>1. IInv => GotAll
  BY DEF IInv
<1> QED
  BY <1>1, Invariance, PTL

\* Nobody sleeps in wait_for_thread_event_notification over an event that was announced,
\* whatever the channel has dropped.
THEOREM SleepersAreWoken == Spec => []NoLostWakeup
<1>1. IInv => NoLostWakeup
  BY DEF IInv
<1> QED
  BY <1>1, Invariance, PTL

\* A budget marker is in the log only after the tokens that it is about were used, in
\* whatever order parallel appends reach sync_token_budget_attention_markers.
THEOREM EarnedMarkers == Spec => []MarkersAreEarned
<1>1. IInv => MarkersAreEarned
  BY DEF IInv
<1> QED
  BY <1>1, Invariance, PTL

-----------------------------------------------------------------------------
(* The subscription implements EventFeed.                                  *)

\* A page is no larger than max_events: its last event counts them all.
LEMMA PageIsBounded ==
  ASSUME IInv, NEW c \in Clients, at[c] = "decide"
  PROVE  Cardinality(Page(c)) <= PageSize
<1>1. upto[c] \in Nat /\ PageSize \in Nat
  BY SizesAssumption DEF IInv, TypeOK, Places
<1>2. Matching(c) \in SUBSET (0..upto[c])
  BY <1>1 DEF IInv, TypeOK, Places, Matching
<1>3. CASE Page(c) = {}
  BY <1>1, <1>3, FS_EmptySet
<1>4. CASE Page(c) # {}
  <2>1. Page(c) \in SUBSET (0..upto[c])
    BY <1>2 DEF Page
  <2>2. PICK i \in Page(c) : \A j \in Page(c) : j <= i
    BY <1>1, <1>4, <2>1, Greatest
  <2>3. Page(c) = {j \in Matching(c) : j <= i}
    <3>1. Page(c) = {j \in Matching(c) : j <= LastSeq(c)}
      BY PageIsPrefix
    <3>2. i \in Matching(c) /\ i <= LastSeq(c)
      BY <2>2, <3>1
    <3>a. LastSeq(c) \in Nat
      <4>1. LastSeq(c) \in cursor[c]..upto[c]
        BY PageIsPrefix
      <4>2. cursor[c] \in Nat
        BY DEF IInv, TypeOK, Places
      <4> QED
        BY <1>1, <4>1, <4>2
    <3>3. \A j \in Matching(c) : j \in Nat
      BY <1>2
    <3> QED
      BY <2>2, <3>1, <3>2, <3>a, <3>3
  <2> QED
    BY <2>2, <2>3 DEF Page
<1> QED
  BY <1>3, <1>4

\* An answer gives the next page.
LEMMA AnswerGives ==
  ASSUME IInv, NEW c \in Clients, Answer(c)
  PROVE  Feed!Give(c)
<1>1. at[c] = "decide" /\ UNCHANGED log
  BY DEF Answer, logVars
<1>a. LastSeq(c) \in cursor[c]..upto[c]
  BY <1>1, PageIsPrefix
<1>2. /\ cursor[c] \in Nat /\ Len(log) \in Nat /\ DOMAIN log = 1..Len(log)
      /\ upto[c] \in 0..Len(log) /\ LastSeq(c) \in cursor[c]..upto[c]
  BY <1>a DEF IInv, TypeOK, Places
<1>3. LastSeq(c) \in cursor[c]..Len(log)
  BY <1>2
<1>4. Page(c) = Feed!News(c, LastSeq(c))
  <2>1. Page(c) = {i \in Matching(c) : i <= LastSeq(c)}
    BY <1>1, PageIsPrefix
  <2>2. \A i \in cursor[c] + 1..LastSeq(c) : i \in DOMAIN log /\ i \in cursor[c] + 1..upto[c]
    BY <1>2
  <2> QED
    BY <1>2, <2>1, <2>2 DEF Matching, Wants, Feed!News
<1>5. Cardinality(Feed!News(c, LastSeq(c))) <= PageSize
  BY <1>1, <1>4, PageIsBounded
<1>6. /\ got' = [got EXCEPT ![c] = @ \union Feed!News(c, LastSeq(c))]
      /\ cursor' = [cursor EXCEPT ![c] = LastSeq(c)]
  BY <1>4 DEF Answer
<1>7. \E n \in cursor[c]..Len(log) :
        /\ Cardinality(Feed!News(c, n)) <= PageSize
        /\ got' = [got EXCEPT ![c] = @ \union Feed!News(c, n)]
        /\ cursor' = [cursor EXCEPT ![c] = n]
  <2> LastSeq(c) \in cursor[c]..Len(log)
    BY <1>3
  <2> WITNESS LastSeq(c) \in cursor[c]..Len(log)
  <2> QED
    BY <1>5, <1>6
<1> QED
  BY <1>1, <1>7 DEF Feed!Give, Feed!Cardinality, Cardinality

\* The other steps append an event, or do not concern what clients have.
LEMMA StepFeeds ==
  ASSUME IInv, Next
  PROVE  Feed!Next \/ UNCHANGED Feed!vars
<1>1. ASSUME NEW w \in Writers, WriterStep(w)
      PROVE  Feed!Happen \/ UNCHANGED Feed!vars
  <2>1. ASSUME NEW k \in Plain, AppendEvent(w, k)
        PROVE  Feed!Happen
    <3>1. [kind |-> k, of |-> "none"] \in Event
      BY DEF Event
    <3> QED
      BY <2>1, <3>1 DEF AppendEvent, AppendBy, clientVars, Feed!Happen
  <2>2. CASE Mark(w)
    <3>1. Head(todo[w]) \in [kind : {"set", "clear"}, of : Markers]
      <4> DEFINE M == [kind : {"set", "clear"}, of : Markers]
      <4>1. todo[w] \in Seq(M) /\ todo[w] # <<>>
        BY <2>2 DEF IInv, TypeOK, Mark
      <4> HIDE DEF M
      <4>2. Head(todo[w]) \in M
        BY <4>1
      <4> QED
        BY <4>2 DEF M
    <3>2. Head(todo[w]) \in Event
      BY <3>1 DEF Event
    <3> QED
      BY <2>2, <3>2 DEF Mark, AppendBy, clientVars, Feed!Happen
  <2>3. CASE Emit(w) \/ Sync(w) \/ MarkFails(w) \/ DropAgent(w)
    BY <2>3 DEF Emit, Notify, Sync, MarkFails, DropAgent, logVars, clientVars, Feed!vars
  <2> QED
    BY <1>1, <2>1, <2>2, <2>3 DEF WriterStep, Proceed
<1>2. ASSUME NEW c \in Clients, ClientStep(c)
      PROVE  Feed!Give(c) \/ UNCHANGED Feed!vars
  <2>1. CASE Subscribe(c) \/ ReadLog(c) \/ Wait(c) \/ Fetch(c) \/ Deadline(c)
    BY <2>1 DEF Subscribe, ReadLog, Wait, Fetch, Deadline, logVars, Feed!vars
  <2> QED
    BY <1>2, <2>1, AnswerGives DEF ClientStep, Serve
<1>3. CASE OtherLine \/ Restart
  BY <1>3 DEF OtherLine, Notify, Restart, logVars, Feed!vars
<1> QED
  BY <1>1, <1>2, <1>3 DEF Next, Feed!Next

\* thread/subscribe gives its clients what EventFeed promises, with pages, receivers that
\* lag, deadlines that pass at any moment, and restarts of the server.
THEOREM SubscriptionIsFeed == Spec => ImplementsEventFeed
<1>1. Init => Feed!Init
  BY DEF Init, Feed!Init
<1>2. IInv /\ [Next]_vars => [Feed!Next]_Feed!vars
  <2>1. ASSUME IInv, Next PROVE [Feed!Next]_Feed!vars
    BY <2>1, StepFeeds
  <2>2. ASSUME UNCHANGED vars PROVE UNCHANGED Feed!vars
    BY <2>2 DEF vars, logVars, clientVars, Feed!vars
  <2> QED
    BY <2>1, <2>2
<1> QED
  BY <1>1, <1>2, Invariance, PTL DEF Spec, ImplementsEventFeed, Feed!Spec
=============================================================================
