-------------------------- MODULE SubagentsProofs --------------------------
(***************************************************************************)
(* Proofs about Subagents: dependencies and slots are respected, the       *)
(* status of a task is true, an approval has one proxy, and a scheduler    *)
(* that is done leaves none undecided, for any number of tasks, approvals, *)
(* requests and faults; and the schedule keeps to TaskSchedule.            *)
(***************************************************************************)
EXTENDS Subagents, FiniteSetTheorems, TLAPS

-----------------------------------------------------------------------------
(* What the appends do.                                                    *)

\* An append adds one element and keeps the others.
LEMMA Appended ==
  ASSUME NEW S, NEW s \in Seq(S), NEW e \in S
  PROVE  /\ Append(s, e) \in Seq(S) /\ Append(s, e) # <<>>
         /\ DOMAIN Append(s, e) = 1..(Len(s) + 1) /\ DOMAIN s = 1..Len(s)
         /\ Len(s) \in Nat /\ Len(Append(s, e)) = Len(s) + 1
         /\ \A i \in DOMAIN s : Append(s, e)[i] = s[i]
         /\ Append(s, e)[Len(s) + 1] = e
OBVIOUS

Address == (Tasks \union Externals \union {Parent}) \X Nat

\* A line that is published is the last one of the channel, or is lost.
LEMMA Published ==
  ASSUME chan \in Seq(Address), NEW m \in Address, Publish(m[1], m[2])
  PROVE  /\ chan' \in Seq(Address)
         /\ \A i \in DOMAIN chan' :
              \/ i \in DOMAIN chan /\ chan'[i] = chan[i]
              \/ chan'[i] = m
<1>1. m = <<m[1], m[2]>>
  BY DEF Address
<1>2. CASE chan' = chan
  BY <1>2
<1>3. CASE chan' = Append(chan, m)
  BY <1>3, Appended
<1> QED
  BY <1>1, <1>2, <1>3 DEF Publish

\* A file of a child grows by one event, which the channel announces.
LEMMA ChildAppended ==
  ASSUME TypeOK, NEW t \in Tasks, NEW e \in Event, AppendChild(t, e)
  PROVE  /\ log' \in [Tasks -> Seq(Event)]
         /\ \A s \in Tasks : Len(log'[s]) >= Len(log[s])
         /\ \A s \in Tasks : \A i \in DOMAIN log[s] :
              i \in DOMAIN log'[s] /\ log'[s][i] = log[s][i]
         /\ \A s \in Tasks : \A i \in DOMAIN log'[s] :
              \/ i \in DOMAIN log[s] /\ log'[s][i] = log[s][i]
              \/ s = t /\ log'[s][i] = e
         /\ chan' \in Seq(Address)
         /\ \A i \in DOMAIN chan' :
              \/ i \in DOMAIN chan /\ chan'[i] = chan[i]
              \/ \E n \in DOMAIN log'[t] : chan'[i] = <<t, n>>
<1> DEFINE file == Append(log[t], e)
<1>1. /\ log \in [Tasks -> Seq(Event)] /\ log[t] \in Seq(Event)
      /\ chan \in Seq(Address)
  BY DEF TypeOK, Address
<1>2. log' = [log EXCEPT ![t] = file] /\ Publish(t, Len(log[t]) + 1)
  BY DEF AppendChild
<1>3. /\ file \in Seq(Event)
      /\ DOMAIN file = 1..(Len(log[t]) + 1) /\ DOMAIN log[t] = 1..Len(log[t])
      /\ Len(log[t]) \in Nat /\ Len(file) = Len(log[t]) + 1
      /\ \A i \in DOMAIN log[t] : file[i] = log[t][i]
      /\ file[Len(log[t]) + 1] = e
  BY <1>1, Appended
<1> HIDE DEF file
<1>4. log' \in [Tasks -> Seq(Event)]
  BY <1>1, <1>2, <1>3
<1>5. log'[t] = file /\ \A s \in Tasks : s # t => log'[s] = log[s]
  BY <1>1, <1>2
<1>6. \A s \in Tasks : Len(log'[s]) >= Len(log[s])
  <2>1. \A s \in Tasks : Len(log[s]) \in Nat
    BY <1>1
  <2> QED
    BY <1>3, <1>5, <2>1
<1>7. \A s \in Tasks : \A i \in DOMAIN log[s] :
        i \in DOMAIN log'[s] /\ log'[s][i] = log[s][i]
  BY <1>3, <1>5
<1>8. \A s \in Tasks : \A i \in DOMAIN log'[s] :
        \/ i \in DOMAIN log[s] /\ log'[s][i] = log[s][i]
        \/ s = t /\ log'[s][i] = e
  BY <1>3, <1>5
<1>9. <<t, Len(log[t]) + 1>> \in Address
  BY <1>3 DEF Address
<1>10. /\ chan' \in Seq(Address)
       /\ \A i \in DOMAIN chan' :
            \/ i \in DOMAIN chan /\ chan'[i] = chan[i]
            \/ chan'[i] = <<t, Len(log[t]) + 1>>
  BY <1>1, <1>2, <1>9, Published
<1>11. Len(log[t]) + 1 \in DOMAIN log'[t]
  BY <1>3, <1>5
<1> QED
  BY <1>4, <1>6, <1>7, <1>8, <1>10, <1>11

\* A proxy gets one more verdict, which the channel announces.
LEMMA VerdictAppended ==
  ASSUME TypeOK, NEW n \in DOMAIN proxies, NEW v \in Verdicts, AppendVerdict(n, v)
  PROVE  /\ verdicts' \in Seq(Seq(Verdicts)) /\ Len(verdicts') = Len(proxies)
         /\ verdicts'[n] # <<>>
         /\ \A m \in DOMAIN proxies : m # n => verdicts'[m] = verdicts[m]
         /\ chan' \in Seq(Address)
         /\ \A i \in DOMAIN chan' :
              \/ i \in DOMAIN chan /\ chan'[i] = chan[i]
              \/ chan'[i] = <<Parent, n>>
<1> DEFINE file == Append(verdicts[n], v)
<1>1. /\ n \in Nat /\ DOMAIN verdicts = DOMAIN proxies
      /\ verdicts \in Seq(Seq(Verdicts)) /\ verdicts[n] \in Seq(Verdicts)
      /\ chan \in Seq(Address) /\ Len(verdicts) = Len(proxies)
  BY DEF TypeOK, Address
<1>2. verdicts' = [verdicts EXCEPT ![n] = file] /\ Publish(Parent, n)
  BY DEF AppendVerdict
<1>3. file \in Seq(Verdicts) /\ file # <<>>
  <2>1. verdicts[n] \in Seq(Verdicts)
    BY <1>1
  <2> QED
    BY <2>1, Appended
<1> HIDE DEF file
<1>4. verdicts' \in Seq(Seq(Verdicts)) /\ Len(verdicts') = Len(verdicts)
  BY <1>1, <1>2, <1>3
<1>5. verdicts'[n] = file /\ \A m \in DOMAIN proxies : m # n => verdicts'[m] = verdicts[m]
  BY <1>1, <1>2
<1>6. <<Parent, n>> \in Address
  BY <1>1 DEF Address
<1>7. /\ chan' \in Seq(Address)
      /\ \A i \in DOMAIN chan' : \/ i \in DOMAIN chan /\ chan'[i] = chan[i]
                                 \/ chan'[i] = <<Parent, n>>
  BY <1>1, <1>2, <1>6, Published
<1> QED
  BY <1>1, <1>3, <1>4, <1>5, <1>7

\* An approval has one proxy at most, and it is the latest.
LEMMA LatestProxy ==
  ASSUME IInv, NEW a \in Asks, NEW n \in ProxiesFor(a)
  PROVE  ProxiesFor(a) = {n} /\ LatestOf(ProxiesFor(a)) = n
<1>1. n \in Nat
  BY DEF IInv, TypeOK, ProxiesFor
<1>2. ProxiesFor(a) = {n}
  BY DEF IInv, OneProxy, ProxiesFor
<1>3. LatestOf({n}) = n
  BY <1>1 DEF LatestOf
<1> QED
  BY <1>2, <1>3

\* An approval is mapped to the one proxy it has.
LEMMA LatestMapped ==
  ASSUME IInv, NEW a \in Asks, NEW n \in Mapped(a)
  PROVE  <<a, n>> \in proxyOf /\ Mapped(a) = {n} /\ LatestOf(Mapped(a)) = n
         /\ n \in ProxiesFor(a)
<1>1. \A p \in proxyOf : p = <<p[1], p[2]>> /\ p[2] \in ProxiesFor(p[1]) /\ p[1] \in Asks
  BY DEF IInv, TypeOK, ProxiesFit, ProxiesFor
<1>2. PICK p \in proxyOf : p[1] = a /\ p[2] = n
  BY DEF Mapped
<1>3. <<a, n>> \in proxyOf /\ n \in ProxiesFor(a)
  BY <1>1, <1>2
<1>4. Mapped(a) \subseteq ProxiesFor(a)
  BY <1>1 DEF Mapped
<1>5. Mapped(a) = {n}
  BY <1>3, <1>4, LatestProxy
<1>6. n \in Nat
  BY <1>3 DEF IInv, TypeOK, ProxiesFor
<1>7. LatestOf({n}) = n
  BY <1>6 DEF LatestOf
<1> QED
  BY <1>3, <1>5, <1>7

-----------------------------------------------------------------------------
(* What the handling of an event does.                                     *)

\* Pending tasks that are blocked fail; the others keep their status.
LEMMA Marked ==
  ASSUME NEW s \in [Tasks -> {"pending", "running", "done", "failed"}]
  PROVE  /\ MarkBlocked(s) \in [Tasks -> {"pending", "running", "done", "failed"}]
         /\ \A t \in Tasks : \/ MarkBlocked(s)[t] = s[t]
                             \/ s[t] = "pending" /\ MarkBlocked(s)[t] = "failed"
BY DEF MarkBlocked, Blocked

\* How the status of a task may change when an event of t is handled.
Moves(t, e) ==
  /\ status' \in [Tasks -> {"pending", "running", "done", "failed"}]
  /\ \A s \in Tasks :
       \/ status'[s] = status[s]
       \/ status[s] = "pending" /\ status'[s] = "failed"
       \/ /\ s = t /\ e.kind = "ended" /\ status[s] = "running"
          /\ status'[s] = IF e.ok THEN "done" ELSE "failed"

\* An event on record is one of this child.
Genuine(t, e) ==
  /\ e \in Event
  /\ IF e.kind = "ended" THEN turn[t] = (IF e.ok THEN "completed" ELSE "stopped")
                         ELSE Asker[e.ask] = t

LEMMA HandledStatus ==
  ASSUME TypeOK, NEW t \in Tasks, NEW e, HandleChild(t, e)
  PROVE  Moves(t, e) /\ external' = external
<1>1. status \in [Tasks -> {"pending", "running", "done", "failed"}]
  BY DEF TypeOK
<1>2. CASE UNCHANGED <<status, external>>
  BY <1>1, <1>2 DEF Moves
<1>3. CASE /\ e.kind = "ended" /\ status[t] = "running" /\ external' = external
           /\ status' = MarkBlocked([status EXCEPT ![t] = Outcome(e.ok)])
  <2> DEFINE s1 == [status EXCEPT ![t] = Outcome(e.ok)]
  <2>1. /\ s1 \in [Tasks -> {"pending", "running", "done", "failed"}]
        /\ \A s \in Tasks : s # t => s1[s] = status[s]
        /\ s1[t] = IF e.ok THEN "done" ELSE "failed"
    BY <1>1 DEF Outcome
  <2> HIDE DEF s1
  <2>2. /\ status' \in [Tasks -> {"pending", "running", "done", "failed"}]
        /\ \A s \in Tasks : status'[s] = s1[s] \/ (s1[s] = "pending" /\ status'[s] = "failed")
    BY <1>3, <2>1, Marked DEF s1
  <2> QED
    BY <1>3, <2>1, <2>2 DEF Moves
<1> QED
  BY <1>2, <1>3 DEF HandleChild, HandleAsked, HandleDecided, HandleEnded, Ignore

LEMMA OnRecord ==
  ASSUME IInv, NEW t \in Tasks, NEW i \in DOMAIN log[t]
  PROVE  Genuine(t, log[t][i])
<1>1. log[t][i] \in Event
  BY DEF IInv, TypeOK
<1> QED
  BY <1>1 DEF IInv, TurnsFit, Genuine

\* The three events of a child, seen from its proxies and the job that is left.
ShowsAsk(t, a) ==
  \/ proxyOf' = proxyOf /\ job' = NoJob
  \/ /\ status[t] = "running" /\ ProxiesFor(a) = {}
     /\ proxyOf' = proxyOf /\ job' = [kind |-> "ask", ask |-> a]
  \/ \E n \in ProxiesFor(a) :
       /\ status[t] = "running"
       /\ proxyOf' = proxyOf \union {<<a, n>>} /\ job' = NoJob
  \/ \E n \in ProxiesFor(a) : \E v \in Verdicts :
       /\ verdicts[n] # <<>>
       /\ proxyOf' = proxyOf /\ job' = [kind |-> "reconcile_read", ask |-> a, verdict |-> v]

ForgetsAsk(a, forwarded) ==
  /\ proxyOf' = {p \in proxyOf : p[1] # a}
  /\ \/ job' = NoJob /\ (forwarded \/ Mapped(a) = {})
     \/ \E n \in ProxiesFor(a) : \E v \in Verdicts :
          job' = [kind |-> "settle_read", proxy |-> n, verdict |-> v]

EndsTask(t) ==
  \/ status[t] # "running" /\ proxyOf' = proxyOf /\ job' = NoJob
  \/ LET stale == {p \in proxyOf : Asker[p[1]] = t}
     IN /\ proxyOf' = proxyOf \ stale
        /\ job' = [kind |-> "deny_read", left |-> {p[2] : p \in stale}]

LEMMA HandledAsk ==
  ASSUME IInv, NEW t \in Tasks, NEW a \in Asks, HandleAsked(t, a)
  PROVE  ShowsAsk(t, a)
<1>1. CASE Ignore
  BY <1>1 DEF Ignore, ShowsAsk
<1>2. CASE status[t] = "running" /\ ProxiesFor(a) = {} /\ HandleAsked(t, a) /\ ~Ignore
  BY <1>2 DEF HandleAsked, Existing, ShowsAsk
<1>3. ASSUME NEW n \in ProxiesFor(a), status[t] = "running", ~Ignore
      PROVE  ShowsAsk(t, a)
  <2>1. Existing(a) # {} /\ LatestOf(Existing(a)) = n
    BY <1>3, LatestProxy DEF Existing
  <2>2. CASE verdicts[n] = <<>>
    BY <1>3, <2>1, <2>2 DEF HandleAsked, ShowsAsk
  <2>3. CASE verdicts[n] # <<>>
    <3>1. verdicts[n] \in Seq(Verdicts)
      BY DEF IInv, TypeOK, ProxiesFor
    <3>2. LastVerdict(n) \in Verdicts
      <4>1. Len(verdicts[n]) \in DOMAIN verdicts[n]
        BY <2>3, <3>1
      <4> QED
        BY <3>1, <4>1 DEF LastVerdict
    <3>3. proxyOf' = proxyOf
          /\ job' = [kind |-> "reconcile_read", ask |-> a, verdict |-> LastVerdict(n)]
      BY <1>3, <2>1, <2>3 DEF HandleAsked
    <3> QED
      BY <2>3, <3>2, <3>3 DEF ShowsAsk
  <2> QED
    BY <2>2, <2>3
<1> QED
  BY <1>1, <1>2, <1>3 DEF HandleAsked

LEMMA HandledDecision ==
  ASSUME IInv, NEW a \in Asks, NEW v \in Verdicts, NEW forwarded \in BOOLEAN,
         HandleDecided(a, v, forwarded)
  PROVE  ForgetsAsk(a, forwarded)
<1>0. proxyOf' = {p \in proxyOf : p[1] # a}
  BY DEF HandleDecided
<1>1. CASE forwarded
  BY <1>0, <1>1 DEF HandleDecided, ForgetsAsk
<1>2. CASE ~forwarded /\ Mapped(a) # {}
  <2>1. PICK n \in Mapped(a) : TRUE
    BY <1>2
  <2>2. LatestOf(Mapped(a)) = n /\ n \in ProxiesFor(a)
    BY <2>1, LatestMapped
  <2>3. job' = [kind |-> "settle_read", proxy |-> n, verdict |-> v]
    BY <1>2, <2>2 DEF HandleDecided, Follow
  <2> QED
    BY <1>0, <2>2, <2>3 DEF ForgetsAsk
<1>3. CASE ~forwarded /\ Mapped(a) = {} /\ Existing(a) # {}
  <2>1. PICK n \in ProxiesFor(a) : TRUE
    BY <1>3 DEF Existing
  <2>2. LatestOf(Existing(a)) = n
    BY <2>1, LatestProxy DEF Existing
  <2>3. n \in Nat /\ LatestOf({n}) = n
    BY <2>1 DEF LatestOf, IInv, TypeOK, ProxiesFor
  <2>4. CASE verdicts[n] = <<>>
    <3>1. job' = [kind |-> "settle_read", proxy |-> n, verdict |-> v]
      BY <1>3, <2>2, <2>3, <2>4 DEF HandleDecided, Follow
    <3> QED
      BY <1>0, <2>1, <3>1 DEF ForgetsAsk
  <2>5. CASE verdicts[n] # <<>>
    BY <1>0, <1>3, <2>2, <2>5 DEF HandleDecided, ForgetsAsk
  <2> QED
    BY <2>4, <2>5
<1>4. CASE ~forwarded /\ Mapped(a) = {} /\ Existing(a) = {}
  BY <1>0, <1>4 DEF HandleDecided, ForgetsAsk
<1> QED
  BY <1>1, <1>2, <1>3, <1>4

LEMMA HandledEnd ==
  ASSUME NEW t \in Tasks, NEW ok, HandleEnded(t, ok)
  PROVE  EndsTask(t)
BY DEF HandleEnded, Ignore, EndsTask, AfterEnd

LEMMA Handled ==
  ASSUME IInv, NEW t \in Tasks, NEW e, Genuine(t, e), HandleChild(t, e)
  PROVE  \/ e.kind = "asked" /\ e.ask \in Asks /\ Asker[e.ask] = t /\ ShowsAsk(t, e.ask)
         \/ /\ e.kind = "decided" /\ e.ask \in Asks /\ Asker[e.ask] = t
            /\ ForgetsAsk(e.ask, e.forwarded)
         \/ e.kind = "ended" /\ EndsTask(t)
<1>1. CASE e.kind = "asked" /\ HandleAsked(t, e.ask)
  BY <1>1, HandledAsk DEF Genuine, Event
<1>2. CASE e.kind = "decided" /\ HandleDecided(e.ask, e.verdict, e.forwarded)
  <2>1. e.ask \in Asks /\ e.verdict \in Verdicts /\ e.forwarded \in BOOLEAN
        /\ Asker[e.ask] = t
    BY <1>2 DEF Genuine, Event
  <2> QED
    BY <1>2, <2>1, HandledDecision
<1>3. CASE e.kind = "ended" /\ HandleEnded(t, e.ok)
  BY <1>3, HandledEnd
<1> QED
  BY <1>1, <1>2, <1>3 DEF HandleChild

\* The scheduler handles an event from the file of t, in a catch-up or off the channel.
Handles(t, i) ==
  /\ i \in DOMAIN log[t] /\ HandleChild(t, log[t][i])

\* It hears that another subagent has ended, or a verdict that it knows.
HearsEnd(e) == e \notin counted /\ HandleExternal(e)
HearsVerdict(n) == verdicts[n] # <<>> /\ HandleVerdict(n)

HandlerFrame ==
  /\ sched \in {"scan", "recv"} /\ job = NoJob
  /\ UNCHANGED <<childVars, fileVars, client, faultVars>>
  /\ chan' \in Seq(Address)
  /\ \A i \in DOMAIN chan' : \E j \in DOMAIN chan : chan'[i] = chan[j]
  /\ sched' \in {sched, "start"}

LEMMA Shorter ==
  ASSUME NEW S, NEW s \in Seq(S), s # <<>>
  PROVE  /\ Tail(s) \in Seq(S) /\ s[1] = Head(s) /\ 1 \in DOMAIN s
         /\ \A i \in DOMAIN Tail(s) : i + 1 \in DOMAIN s /\ Tail(s)[i] = s[i + 1]
OBVIOUS

LEMMA Handlers ==
  ASSUME IInv, ScanEvent \/ Receive
  PROVE  /\ HandlerFrame
         /\ \/ \E t \in Tasks : \E i \in DOMAIN log[t] : Handles(t, i)
            \/ \E e \in Externals : HearsEnd(e)
            \/ \E n \in DOMAIN proxies : HearsVerdict(n)
<1>0. chan \in Seq(Address)
  BY DEF IInv, TypeOK, Address
<1>1. CASE ScanEvent
  <2>1. /\ scan.task \in Tasks /\ scan.next \in Nat \ {0}
        /\ scan.top <= Len(log[scan.task]) /\ scan.next <= scan.top /\ scan.top \in Nat
    BY <1>1 DEF ScanEvent, IInv, TypeOK
  <2>2. scan.next \in DOMAIN log[scan.task]
    <3>1. log[scan.task] \in Seq(Event)
      BY <2>1 DEF IInv, TypeOK
    <3> QED
      BY <2>1, <3>1
  <2>3. Handles(scan.task, scan.next)
    BY <1>1, <2>2 DEF ScanEvent, Handles
  <2>4. HandlerFrame
    BY <1>0, <1>1 DEF ScanEvent, Scanning, HandlerFrame, chanVars
  <2> QED
    BY <2>1, <2>2, <2>3, <2>4
<1>2. CASE Receive
  <2> DEFINE thread == Head(chan)[1]
             n == Head(chan)[2]
  <2>1. /\ chan # <<>> /\ chan' = Tail(chan) /\ sched = "recv" /\ sched' = "start"
        /\ UNCHANGED <<childVars, fileVars, client, faultVars>>
        /\ \/ thread \in Tasks /\ HandleChild(thread, log[thread][n])
           \/ thread \in Externals /\ HandleExternal(thread)
           \/ thread = Parent /\ HandleVerdict(n)
    BY <1>2 DEF Receive
  <2>2. /\ Tail(chan) \in Seq(Address) /\ chan[1] = Head(chan) /\ 1 \in DOMAIN chan
        /\ \A i \in DOMAIN Tail(chan) : i + 1 \in DOMAIN chan /\ Tail(chan)[i] = chan[i + 1]
    BY <1>0, <2>1, Shorter
  <2>3. job = NoJob
    BY <2>1 DEF IInv, ProxiesFit
  <2>4. HandlerFrame
    BY <2>1, <2>2, <2>3 DEF HandlerFrame
  <2>5. Line(Head(chan)) /\ Head(chan)[1] \notin counted
        /\ (Head(chan)[1] = Parent => verdicts[Head(chan)[2]] # <<>>)
    BY <2>2 DEF IInv, TypeOK, SlotsKept, ForwardsFit
  <2>6. /\ thread \in Tasks => n \in DOMAIN log[thread]
        /\ thread = Parent => n \in DOMAIN proxies
    BY <2>5, NamesAssumption DEF Line
  <2> HIDE DEF thread, n
  <2>7. CASE thread \in Tasks /\ HandleChild(thread, log[thread][n])
    BY <2>4, <2>6, <2>7 DEF Handles
  <2>8. CASE thread \in Externals /\ HandleExternal(thread)
    BY <2>4, <2>5, <2>8 DEF HearsEnd, thread
  <2>9. CASE thread = Parent /\ HandleVerdict(n)
    BY <2>4, <2>5, <2>6, <2>9 DEF HearsVerdict, thread, n
  <2> QED
    BY <2>1, <2>7, <2>8, <2>9
<1> QED
  BY <1>1, <1>2

-----------------------------------------------------------------------------
(* The kinds of steps.                                                     *)

\* What a step does to the files and the channel.
FilesKept ==
  /\ UNCHANGED fileVars /\ chan' \in Seq(Address)
  /\ \A i \in DOMAIN chan' : \E j \in DOMAIN chan : chan'[i] = chan[j]
ChildGrows(t, e) ==
  /\ AppendChild(t, e) /\ UNCHANGED <<proxies, verdicts>>
  /\ IF e.kind = "ended" THEN turn'[t] = (IF e.ok THEN "completed" ELSE "stopped")
                         ELSE Asker[e.ask] = t
  /\ e.kind = "decided" /\ e.forwarded =>
       \/ \E c \in Clients : /\ client[c].at = "child" /\ client[c].proxy # 0
                             /\ client[c].ask = e.ask
                             /\ client'[c] = [client[c] EXCEPT !.at = "parent"]
       \/ job.kind = "reconcile" /\ job.ask = e.ask
ParentGrows(n, v) == AppendVerdict(n, v) /\ UNCHANGED <<log, proxies>>
ProxyAdded ==
  /\ UNCHANGED <<log, chanVars>> /\ job.kind = "ask"
  /\ proxies' = Append(proxies, job.ask) /\ verdicts' = Append(verdicts, <<>>)
ExternalHeard(e) == UNCHANGED fileVars /\ Publish(e, 1) /\ e \notin counted'

FileStep ==
  \/ FilesKept
  \/ \E t \in Tasks : \E e \in Event : ChildGrows(t, e)
  \/ \E n \in DOMAIN proxies : \E v \in Verdicts : ParentGrows(n, v)
  \/ ProxyAdded
  \/ \E e \in Externals : ExternalHeard(e)

\* The verdict a job brings, and the proxies it is about.
LEMMA JobTyped ==
  ASSUME TypeOK
  PROVE  /\ job.kind = "ask" => job.ask \in Asks
         /\ job.kind \in {"reconcile_read", "reconcile"}
              => job.ask \in Asks /\ job.verdict \in Verdicts
         /\ job.kind \in {"settle_read", "settle"}
              => job.proxy \in DOMAIN proxies /\ job.verdict \in Verdicts
         /\ job.kind \in {"deny_read", "deny"} => job.left \subseteq DOMAIN proxies
BY DEF TypeOK, Job, NoJob

LEMMA CallTyped ==
  ASSUME TypeOK, NEW c \in Clients, client[c].at \in {"child", "parent"}
  PROVE  /\ client[c].ask \in Asks /\ client[c].verdict \in Verdicts
         /\ client[c].proxy \in {0} \union DOMAIN proxies
         /\ client[c] = [at |-> client[c].at, ask |-> client[c].ask,
                         proxy |-> client[c].proxy, verdict |-> client[c].verdict]
BY DEF TypeOK, Call, NoCall

LEMMA FileSteps ==
  ASSUME IInv, [Next]_vars
  PROVE  FileStep
<1>0. chan \in Seq(Address) /\ TypeOK
  BY DEF IInv, TypeOK, Address
<1>1. CASE UNCHANGED fileVars /\ UNCHANGED chan
  BY <1>0, <1>1 DEF FileStep, FilesKept
<1>2. ASSUME NEW a \in Asks, Ask(a)
      PROVE  FileStep
  <2>1. [kind |-> "asked", ask |-> a] \in Event /\ Asker[a] \in Tasks
    BY AskerAssumption DEF Event
  <2> QED
    BY <1>2, <2>1 DEF Ask, FileStep, ChildGrows
<1>3. ASSUME NEW t \in Tasks, NEW ok \in BOOLEAN, EndTurn(t, ok)
      PROVE  FileStep
  <2>1. [kind |-> "ended", ok |-> ok] \in Event
    BY DEF Event
  <2>2. turn'[t] = IF ok THEN "completed" ELSE "stopped"
    BY <1>0, <1>3 DEF EndTurn, TypeOK
  <2> QED
    BY <1>3, <2>1, <2>2 DEF EndTurn, FileStep, ChildGrows
<1>4. ASSUME NEW e \in Externals, EndExternal(e) \/ StartExternal(e)
      PROVE  FileStep
  <2>1. CASE UNCHANGED fileVars /\ UNCHANGED chanVars
    BY <1>0, <2>1, <1>1 DEF chanVars
  <2>2. CASE EndExternal(e) /\ Publish(e, 1)
    BY <2>2 DEF EndExternal, FileStep, ExternalHeard
  <2> QED
    BY <1>4, <2>1, <2>2 DEF EndExternal, StartExternal
<1>5. ASSUME NEW c \in Clients, ClientChild(c)
      PROVE  FileStep
  <2>1. client[c].ask \in Asks /\ client[c].verdict \in Verdicts
        /\ client[c].proxy \in {0} \union DOMAIN proxies
    BY <1>0, <1>5, CallTyped DEF ClientChild
  <2>2. [kind |-> "decided", ask |-> client[c].ask, verdict |-> client[c].verdict,
         forwarded |-> client[c].proxy # 0] \in Event /\ Asker[client[c].ask] \in Tasks
    BY <2>1, AskerAssumption DEF Event
  <2>3. client'[c] = AfterChild(client[c]) /\ client[c].at = "child"
    BY <1>0, <1>5 DEF ClientChild, TypeOK
  <2>4. client[c].proxy # 0 => client'[c] = [client[c] EXCEPT !.at = "parent"]
    BY <2>3 DEF AfterChild
  <2> QED
    BY <1>5, <2>2, <2>3, <2>4 DEF ClientChild, FileStep, ChildGrows
<1>6. ASSUME NEW c \in Clients, ClientParent(c)
      PROVE  FileStep
  <2>1. client[c].proxy \in DOMAIN proxies /\ client[c].verdict \in Verdicts
    BY <1>0, <1>6, CallTyped DEF ClientParent, IInv, ProxiesFit
  <2> QED
    BY <1>6, <2>1 DEF ClientParent, FileStep, ParentGrows
<1>7. ASSUME NEW n \in DOMAIN proxies, RecoverParent(n)
      PROVE  FileStep
  BY <1>7 DEF RecoverParent, FileStep, ParentGrows, Verdicts
<1>8. CASE Overwrite
  <2>1. chan' = Tail(chan) /\ chan # <<>>
    BY <1>8 DEF Overwrite
  <2>2. \A i \in DOMAIN Tail(chan) : i + 1 \in DOMAIN chan /\ Tail(chan)[i] = chan[i + 1]
    BY <1>0, <2>1, Shorter
  <2>3. Tail(chan) \in Seq(Address)
    BY <1>0, <2>1, Shorter
  <2> QED
    BY <1>8, <2>1, <2>2, <2>3 DEF Overwrite, FileStep, FilesKept
<1>9. CASE ScanEvent \/ Receive
  BY <1>9, Handlers DEF HandlerFrame, FileStep, FilesKept
<1>10. CASE AskParent
  BY <1>0, <1>1, <1>10 DEF AskParent, FileStep, ProxyAdded, fileVars, chanVars
<1>11. CASE Reconcile
  <2>1. job.ask \in Asks /\ job.verdict \in Verdicts
    BY <1>0, <1>11, JobTyped DEF Reconcile
  <2>2. [kind |-> "decided", ask |-> job.ask, verdict |-> job.verdict, forwarded |-> TRUE]
          \in Event /\ Asker[job.ask] \in Tasks
    BY <2>1, AskerAssumption DEF Event
  <2> QED
    BY <1>1, <1>11, <2>2 DEF Reconcile, FileStep, ChildGrows, fileVars, chanVars
<1>12. CASE Settle
  <2>1. job.proxy \in DOMAIN proxies /\ job.verdict \in Verdicts
    BY <1>0, <1>12, JobTyped DEF Settle
  <2> QED
    BY <1>1, <1>12, <2>1 DEF Settle, FileStep, ParentGrows, fileVars, chanVars
<1>13. ASSUME NEW n \in DOMAIN proxies, Deny(n)
       PROVE  FileStep
  BY <1>1, <1>13 DEF Deny, FileStep, ParentGrows, Verdicts, fileVars, chanVars
<1>14. CASE ReconcileRead \/ SettleRead \/ DenyRead
  BY <1>1, <1>14 DEF ReconcileRead, SettleRead, DenyRead, chanVars
<1>15. CASE Start \/ DropSpawn
  BY <1>1, <1>15 DEF Start, StartTask, StartOnPool, RefuseTask, EndStarts, DropSpawn, chanVars
<1>16. CASE CloseChild \/ EndScan \/ Subscribe \/ CatchUp \/ \E t \in Tasks : OpenChild(t)
  BY <1>1, <1>16 DEF CloseChild, EndScan, Subscribe, CatchUp, OpenChild, chanVars
<1>17. ASSUME NEW c \in Clients,
              \/ ClientFails(c)
              \/ \E v \in Answers : \/ \E n \in DOMAIN proxies : DecideProxy(c, n, v)
                                    \/ \E a \in Asks : DecideChild(c, a, v)
       PROVE  FileStep
  BY <1>1, <1>17 DEF ClientFails, DecideProxy, DecideChild, chanVars
<1>18. CASE UNCHANGED vars
  BY <1>1, <1>18 DEF vars, chanVars
<1> QED
  BY <1>2, <1>3, <1>4, <1>5, <1>6, <1>7, <1>8, <1>9, <1>10, <1>11, <1>12, <1>13, <1>14, <1>15,
     <1>16, <1>17, <1>18 DEF Next, SchedulerStep, Scan, JobStep, ClientStep

\* Nothing that is on record changes, and what is broken remains so.
FilesGrow ==
  /\ \A t \in Tasks : /\ Len(log'[t]) >= Len(log[t])
                      /\ \A i \in DOMAIN log[t] : i \in DOMAIN log'[t] /\ log'[t][i] = log[t][i]
  /\ \A n \in DOMAIN proxies : /\ n \in DOMAIN proxies' /\ proxies'[n] = proxies[n]
                               /\ verdicts[n] # <<>> => verdicts'[n] # <<>>
\* Line, for any files.
LineIn(m, files, asked) ==
  \/ \E t \in Tasks : \E n \in DOMAIN files[t] : m = <<t, n>>
  \/ \E e \in Externals : m = <<e, 1>>
  \/ \E n \in DOMAIN asked : m = <<Parent, n>>

FilesTyped ==
  /\ log \in [Tasks -> Seq(Event)] /\ proxies \in Seq(Asks)
  /\ verdicts \in Seq(Seq(Verdicts)) /\ Len(verdicts) = Len(proxies)
  /\ chan \in Seq(Address)
  /\ \A i \in DOMAIN chan : LineIn(chan[i], log, proxies)

LEMMA LinesKept ==
  ASSUME FilesGrow, NEW ACTION m, LineIn(m, log, proxies)
  PROVE  LineIn(m, log', proxies')
BY DEF FilesGrow, LineIn

LEMMA ProxyAppended ==
  ASSUME TypeOK, ProxyAdded
  PROVE  /\ proxies' \in Seq(Asks) /\ verdicts' \in Seq(Seq(Verdicts))
         /\ Len(verdicts') = Len(proxies') /\ job.ask \in Asks
         /\ DOMAIN proxies = 1..Len(proxies) /\ DOMAIN proxies' = 1..(Len(proxies) + 1)
         /\ Len(proxies) \in Nat /\ proxies'[Len(proxies) + 1] = job.ask
         /\ \A n \in DOMAIN proxies : proxies'[n] = proxies[n] /\ verdicts'[n] = verdicts[n]
<1>1. job.ask \in Asks /\ proxies' = Append(proxies, job.ask)
      /\ verdicts' = Append(verdicts, <<>>)
  BY JobTyped DEF ProxyAdded
<1>2. proxies \in Seq(Asks) /\ verdicts \in Seq(Seq(Verdicts)) /\ Len(verdicts) = Len(proxies)
  BY DEF TypeOK
<1>3. <<>> \in Seq(Verdicts)
  OBVIOUS
<1>4. /\ proxies' \in Seq(Asks) /\ Len(proxies') = Len(proxies) + 1 /\ Len(proxies) \in Nat
      /\ DOMAIN proxies' = 1..(Len(proxies) + 1) /\ DOMAIN proxies = 1..Len(proxies)
      /\ proxies'[Len(proxies) + 1] = job.ask
      /\ \A n \in DOMAIN proxies : proxies'[n] = proxies[n]
  BY <1>1, <1>2, Appended
<1>5. /\ verdicts' \in Seq(Seq(Verdicts)) /\ Len(verdicts') = Len(verdicts) + 1
      /\ DOMAIN verdicts = 1..Len(verdicts)
      /\ \A n \in DOMAIN verdicts : verdicts'[n] = verdicts[n]
  BY <1>1, <1>2, <1>3, Appended
<1> QED
  BY <1>1, <1>2, <1>4, <1>5

LEMMA FilesType ==
  ASSUME IInv, [Next]_vars
  PROVE  FilesTyped' /\ FilesGrow
<1>0. FilesTyped /\ TypeOK
  BY DEF IInv, TypeOK, FilesTyped, Address, Line, LineIn
<1>1. CASE FilesKept
  <2>1. FilesGrow
    BY <1>0, <1>1 DEF FilesKept, fileVars, FilesGrow, FilesTyped
  <2>2. \A i \in DOMAIN chan' : LineIn(chan'[i], log', proxies')
    BY <1>0, <1>1, <2>1, LinesKept DEF FilesKept, FilesTyped
  <2> QED
    BY <1>0, <1>1, <2>1, <2>2 DEF FilesKept, fileVars, FilesTyped
<1>2. ASSUME NEW t \in Tasks, NEW e \in Event, ChildGrows(t, e)
      PROVE  FilesTyped' /\ FilesGrow
  <2>1. AppendChild(t, e) /\ UNCHANGED <<proxies, verdicts>>
    BY <1>2 DEF ChildGrows
  <2>2. FilesGrow
    BY <1>0, <2>1, ChildAppended DEF FilesGrow
  <2>3. \A i \in DOMAIN chan' : LineIn(chan'[i], log', proxies')
    <3> SUFFICES ASSUME NEW i \in DOMAIN chan'
                 PROVE  LineIn(chan'[i], log', proxies')
      OBVIOUS
    <3>1. CASE i \in DOMAIN chan /\ chan'[i] = chan[i]
      BY <1>0, <2>2, <3>1, LinesKept DEF FilesTyped
    <3>2. CASE \E n \in DOMAIN log'[t] : chan'[i] = <<t, n>>
      BY <3>2 DEF LineIn
    <3> QED
      BY <1>0, <2>1, <3>1, <3>2, ChildAppended
  <2> QED
    BY <1>0, <2>1, <2>2, <2>3, ChildAppended DEF FilesTyped
<1>3. ASSUME NEW n \in DOMAIN proxies, NEW v \in Verdicts, ParentGrows(n, v)
      PROVE  FilesTyped' /\ FilesGrow
  <2>1. AppendVerdict(n, v) /\ UNCHANGED <<log, proxies>>
    BY <1>3 DEF ParentGrows
  <2>2. FilesGrow
    <3>1. \A t \in Tasks : Len(log[t]) >= Len(log[t])
      BY <1>0 DEF FilesTyped
    <3> QED
      BY <1>0, <2>1, <3>1, VerdictAppended DEF FilesGrow
  <2>3. \A i \in DOMAIN chan' : LineIn(chan'[i], log', proxies')
    <3> SUFFICES ASSUME NEW i \in DOMAIN chan'
                 PROVE  LineIn(chan'[i], log', proxies')
      OBVIOUS
    <3>1. CASE i \in DOMAIN chan /\ chan'[i] = chan[i]
      BY <1>0, <2>2, <3>1, LinesKept DEF FilesTyped
    <3>2. CASE chan'[i] = <<Parent, n>>
      BY <2>1, <3>2 DEF LineIn
    <3> QED
      BY <1>0, <2>1, <3>1, <3>2, VerdictAppended
  <2> QED
    BY <1>0, <2>1, <2>2, <2>3, VerdictAppended DEF FilesTyped
<1>4. CASE ProxyAdded
  <2>1. FilesGrow
    <3>1. \A t \in Tasks : Len(log[t]) >= Len(log[t])
      BY <1>0 DEF FilesTyped
    <3>2. log' = log
      BY <1>4 DEF ProxyAdded
    <3> QED
      BY <1>0, <1>4, <3>1, <3>2, ProxyAppended DEF FilesGrow
  <2>2. \A i \in DOMAIN chan' : LineIn(chan'[i], log', proxies')
    BY <1>0, <1>4, <2>1, LinesKept DEF ProxyAdded, chanVars, FilesTyped
  <2>3. log' = log /\ chan' = chan
    BY <1>4 DEF ProxyAdded, chanVars
  <2> QED
    BY <1>0, <1>4, <2>1, <2>2, <2>3, ProxyAppended DEF FilesTyped
<1>5. ASSUME NEW e \in Externals, ExternalHeard(e)
      PROVE  FilesTyped' /\ FilesGrow
  <2>1. UNCHANGED <<log, proxies, verdicts>> /\ Publish(e, 1)
    BY <1>5 DEF ExternalHeard, fileVars
  <2>2. FilesGrow
    BY <1>0, <2>1 DEF FilesGrow, FilesTyped
  <2>3. <<e, 1>> \in Address
    BY DEF Address
  <2>4. chan' \in Seq(Address) /\ \A i \in DOMAIN chan' :
          (i \in DOMAIN chan /\ chan'[i] = chan[i]) \/ chan'[i] = <<e, 1>>
    BY <1>0, <2>1, <2>3, Published DEF FilesTyped
  <2>5. \A i \in DOMAIN chan' : LineIn(chan'[i], log', proxies')
    BY <1>0, <2>2, <2>4, LinesKept DEF FilesTyped, LineIn
  <2> QED
    BY <1>0, <2>1, <2>2, <2>4, <2>5 DEF FilesTyped
<1> QED
  BY <1>1, <1>2, <1>3, <1>4, <1>5, FileSteps DEF FileStep

LEMMA ProxiesGrow ==
  ASSUME FilesGrow
  PROVE  /\ DOMAIN proxies \subseteq DOMAIN proxies'
         /\ Job \subseteq Job'
BY DEF FilesGrow, Job

CallsTyped ==
  /\ turn \in [Tasks -> {"none", "active", "completed", "stopped", "lost"}]
  /\ live \subseteq Externals /\ counted \subseteq Externals
  /\ client \in [Clients -> Call]
  /\ \A c \in Clients : client[c].at # "idle" => client[c].proxy \in {0} \union DOMAIN proxies
  /\ lagged \in BOOLEAN

FaultsTyped == broken \subseteq Asks /\ faults \in 0..MaxFaults

LEMMA FaultType ==
  ASSUME TypeOK, NEW A, A \subseteq Asks, Fault(A)
  PROVE  FaultsTyped' /\ broken' = broken \union A
BY LimitAssumption DEF TypeOK, Fault, FaultsTyped

\* Every step leaves the faults alone, or is one, of the approval that it is about.
LEMMA FaultKinds ==
  ASSUME IInv, [Next]_vars
  PROVE  FaultsTyped' /\ broken \subseteq broken'
<1>0. FaultsTyped /\ TypeOK
  BY DEF IInv, TypeOK, FaultsTyped
<1>1. CASE UNCHANGED faultVars
  BY <1>0, <1>1 DEF faultVars, FaultsTyped
<1>2. ASSUME NEW A, A \subseteq Asks, Fault(A)
      PROVE  FaultsTyped' /\ broken \subseteq broken'
  BY <1>0, <1>2, FaultType
<1>3. ASSUME NEW c \in Clients, ClientFails(c)
      PROVE  FaultsTyped' /\ broken \subseteq broken'
  <2>1. client[c].ask \in Asks
    BY <1>0, <1>3, CallTyped DEF ClientFails
  <2> QED
    BY <1>2, <1>3, <2>1 DEF ClientFails
<1>4. ASSUME NEW n \in DOMAIN proxies, RecoverParent(n) \/ Deny(n)
      PROVE  FaultsTyped' /\ broken \subseteq broken'
  <2>1. proxies[n] \in Asks
    BY <1>0 DEF TypeOK
  <2> QED
    BY <1>1, <1>2, <1>4, <2>1 DEF RecoverParent, Deny
<1>5. CASE DropSpawn
  <2>1. {} \subseteq Asks
    OBVIOUS
  <2> QED
    BY <1>2, <1>5, <2>1 DEF DropSpawn
<1>6. CASE AskParent
  <2>1. job.ask \in Asks
    BY <1>0, <1>6, JobTyped DEF AskParent
  <2> QED
    BY <1>1, <1>2, <1>6, <2>1 DEF AskParent
<1>7. CASE Reconcile
  <2>1. job.ask \in Asks
    BY <1>0, <1>7, JobTyped DEF Reconcile
  <2> QED
    BY <1>1, <1>2, <1>7, <2>1 DEF Reconcile
<1>8. CASE Settle
  <2>1. proxies[job.proxy] \in Asks
    BY <1>0, <1>8, JobTyped DEF Settle, TypeOK
  <2> QED
    BY <1>1, <1>2, <1>8, <2>1 DEF Settle
<1>9. CASE ReconcileRead \/ SettleRead \/ DenyRead
  BY <1>1, <1>9 DEF ReconcileRead, SettleRead, DenyRead
<1>10. CASE Start \/ Scan \/ Subscribe \/ Receive \/ CatchUp \/ Overwrite
  BY <1>1, <1>10 DEF Start, StartTask, StartOnPool, RefuseTask, EndStarts, Scan, OpenChild,
     ScanEvent, CloseChild, EndScan, Subscribe, Receive, CatchUp, Overwrite
<1>11. ASSUME NEW c \in Clients,
              \/ ClientStep(c)
              \/ \E v \in Answers : \/ \E n \in DOMAIN proxies : DecideProxy(c, n, v)
                                    \/ \E a \in Asks : DecideChild(c, a, v)
       PROVE  FaultsTyped' /\ broken \subseteq broken'
  BY <1>1, <1>11 DEF ClientStep, ClientChild, ClientParent, DecideProxy, DecideChild
<1>12. CASE \/ \E a \in Asks : Ask(a)
            \/ \E t \in Tasks, ok \in BOOLEAN : EndTurn(t, ok)
            \/ \E e \in Externals : EndExternal(e) \/ StartExternal(e)
  BY <1>1, <1>12 DEF Ask, EndTurn, EndExternal, StartExternal
<1>13. CASE UNCHANGED vars
  BY <1>1, <1>13 DEF vars
<1> QED
  BY <1>3, <1>4, <1>5, <1>6, <1>7, <1>8, <1>9, <1>10, <1>11, <1>12, <1>13
     DEF Next, SchedulerStep, JobStep

\* What a step does to the calls of the clients.
CallsKept == UNCHANGED client
CallMade(c) ==
  /\ client[c] = NoCall
  /\ \E n \in {0} \union DOMAIN proxies : \E a \in Asks : \E v \in Verdicts :
       /\ n # 0 => proxies[n] = a
       /\ client' = [client EXCEPT ![c] =
            [at |-> "child", ask |-> a, proxy |-> n, verdict |-> v]]
CallGoesOn(c) ==
  /\ client[c].at = "child" /\ client[c].proxy # 0
  /\ AppendChild(Asker[client[c].ask],
       [kind |-> "decided", ask |-> client[c].ask, verdict |-> client[c].verdict,
        forwarded |-> TRUE])
  /\ client' = [client EXCEPT ![c] = [@ EXCEPT !.at = "parent"]]
CallEnds(c) ==
  /\ client' = [client EXCEPT ![c] = NoCall]
  /\ \/ client[c].at = "child" /\ (client[c].proxy = 0 \/ client[c].ask \in broken')
     \/ client[c].at = "parent" /\ (client[c].ask \in broken' \/ AppendVerdict(client[c].proxy, client[c].verdict))

LEMMA CallSteps ==
  ASSUME IInv, [Next]_vars
  PROVE  \/ CallsKept
         \/ \E c \in Clients : CallMade(c) \/ CallGoesOn(c) \/ CallEnds(c)
<1>0. TypeOK
  BY DEF IInv
<1>1. ASSUME NEW c \in Clients, NEW v \in Answers, NEW n \in DOMAIN proxies, DecideProxy(c, n, v)
      PROVE  CallMade(c)
  <2>1. proxies[n] \in Asks /\ v \in Verdicts
    BY <1>0, AnswersAssumption DEF TypeOK
  <2> QED
    BY <1>1, <2>1 DEF DecideProxy, CallMade
<1>2. ASSUME NEW c \in Clients, NEW v \in Answers, NEW a \in Asks, DecideChild(c, a, v)
      PROVE  CallMade(c)
  <2>1. v \in Verdicts /\ 0 \in {0} \union DOMAIN proxies
    BY AnswersAssumption
  <2> QED
    BY <1>2, <2>1 DEF DecideChild, CallMade
<1>3. ASSUME NEW c \in Clients, ClientChild(c)
      PROVE  CallGoesOn(c) \/ CallEnds(c)
  <2>1. CASE client[c].proxy = 0
    BY <1>3, <2>1 DEF ClientChild, AfterChild, CallEnds
  <2>2. CASE client[c].proxy # 0
    BY <1>3, <2>2 DEF ClientChild, AfterChild, CallGoesOn
  <2> QED
    BY <2>1, <2>2
<1>4. ASSUME NEW c \in Clients, ClientParent(c)
      PROVE  CallEnds(c)
  BY <1>4 DEF ClientParent, CallEnds
<1>5. ASSUME NEW c \in Clients, ClientFails(c)
      PROVE  CallEnds(c)
  BY <1>5 DEF ClientFails, Fault, CallEnds
<1>6. CASE SchedulerStep \/ DropSpawn \/ Overwrite
  <2>1. CASE Start \/ DropSpawn \/ Overwrite
    BY <2>1 DEF Start, StartTask, StartOnPool, RefuseTask, EndStarts, DropSpawn, Overwrite,
       CallsKept
  <2>2. CASE Scan \/ Subscribe \/ Receive \/ CatchUp
    BY <2>2 DEF Scan, OpenChild, ScanEvent, CloseChild, EndScan, Subscribe, Receive, CatchUp,
       CallsKept
  <2>3. CASE JobStep
    BY <2>3 DEF JobStep, AskParent, ReconcileRead, Reconcile, SettleRead, Settle, DenyRead,
       Deny, JobFrame, CallsKept
  <2> QED
    BY <1>6, <2>1, <2>2, <2>3 DEF SchedulerStep
<1>7. CASE \/ \E a \in Asks : Ask(a)
           \/ \E t \in Tasks, ok \in BOOLEAN : EndTurn(t, ok)
           \/ \E e \in Externals : EndExternal(e) \/ StartExternal(e)
           \/ \E n \in DOMAIN proxies : RecoverParent(n)
           \/ UNCHANGED vars
  BY <1>7 DEF Ask, EndTurn, EndExternal, StartExternal, RecoverParent, vars, CallsKept
<1> QED
  BY <1>1, <1>2, <1>3, <1>4, <1>5, <1>6, <1>7 DEF Next, ClientStep

\* What a step does to the turns and to the scheduler.
PlanKept == UNCHANGED <<turn, sched, job, status, external, proxyOf>>
TurnEnds(t, ok) ==
  /\ turn[t] = "active"
  /\ turn' = [turn EXCEPT ![t] = IF ok THEN "completed" ELSE "stopped"]
  /\ AppendChild(t, [kind |-> "ended", ok |-> ok])
  /\ UNCHANGED <<sched, job, status, external, proxyOf>>
TaskStarts(t) ==
  /\ sched = "first" /\ Ready(t) /\ HasSlot
  /\ turn' = [turn EXCEPT ![t] = "active"] /\ status' = [status EXCEPT ![t] = "running"]
  /\ UNCHANGED <<sched, job, external, proxyOf>>
TaskLost(t) ==
  /\ sched # "dead" /\ Ready(t) /\ HasSlot
  /\ turn' = [turn EXCEPT ![t] = "lost"] /\ sched' = "dead"
  /\ UNCHANGED <<job, status, external, proxyOf>>
TaskRefused(t) ==
  /\ Starting /\ Ready(t)
  /\ status' = [status EXCEPT ![t] = "failed"]
  /\ UNCHANGED <<turn, sched, job, external, proxyOf>>
StartsOver ==
  /\ Starting /\ sched' = "scan" /\ status' = MarkBlocked(status)
  /\ UNCHANGED <<turn, job, external, proxyOf>>
SchedMoves ==
  /\ sched' \in {"spawned", "start", "recv", "scan", "exit", "dead"}
  /\ sched # "dead"
  /\ sched' \in {"spawned", "recv", "exit"} => job = NoJob
  /\ sched' = "exit" => Settled
  /\ UNCHANGED <<turn, job, status, external, proxyOf>>

PlanStep ==
  \/ PlanKept \/ StartsOver \/ SchedMoves
  \/ \E t \in Tasks : \E ok \in BOOLEAN : TurnEnds(t, ok)
  \/ \E t \in Tasks : TaskStarts(t) \/ TaskLost(t) \/ TaskRefused(t)
  \/ ScanEvent \/ Receive
  \/ JobStep

LEMMA PlanSteps ==
  ASSUME IInv, [Next]_vars
  PROVE  PlanStep
<1>1. CASE \/ \E a \in Asks : Ask(a)
           \/ \E e \in Externals : EndExternal(e) \/ StartExternal(e)
           \/ \E n \in DOMAIN proxies : RecoverParent(n)
           \/ Overwrite \/ UNCHANGED vars
  BY <1>1 DEF Ask, EndExternal, StartExternal, RecoverParent, Overwrite, vars, childVars, loopVars,
     scheduleVars, PlanStep, PlanKept
<1>2. ASSUME NEW c \in Clients,
             \/ ClientStep(c) \/ ClientFails(c)
             \/ \E v \in Answers : \/ \E n \in DOMAIN proxies : DecideProxy(c, n, v)
                                   \/ \E a \in Asks : DecideChild(c, a, v)
      PROVE  PlanStep
  BY <1>2 DEF ClientStep, ClientChild, ClientParent, ClientFails, DecideProxy, DecideChild,
     childVars, loopVars, scheduleVars, PlanStep, PlanKept
<1>3. ASSUME NEW t \in Tasks, NEW ok \in BOOLEAN, EndTurn(t, ok)
      PROVE  PlanStep
  BY <1>3 DEF EndTurn, loopVars, scheduleVars, PlanStep, TurnEnds
<1>4. ASSUME NEW t \in Tasks, StartTask(t)
      PROVE  PlanStep
  BY <1>4 DEF StartTask, loopVars, PlanStep, TaskStarts
<1>5. ASSUME NEW t \in Tasks, StartOnPool(t)
      PROVE  PlanStep
  BY <1>5 DEF StartOnPool, scheduleVars, PlanStep, TaskLost
<1>6. ASSUME NEW t \in Tasks, RefuseTask(t)
      PROVE  PlanStep
  BY <1>6 DEF RefuseTask, childVars, loopVars, PlanStep, TaskRefused
<1>7. CASE EndStarts
  BY <1>7 DEF EndStarts, childVars, PlanStep, StartsOver
<1>8. CASE DropSpawn
  <2>1. CASE UNCHANGED turn
    BY <1>8, <2>1 DEF DropSpawn, scheduleVars, PlanStep, SchedMoves
  <2>2. ASSUME NEW t \in Tasks, sched = "first" /\ Ready(t) /\ HasSlot,
               turn' = [turn EXCEPT ![t] = "lost"]
        PROVE  PlanStep
    BY <1>8, <2>2 DEF DropSpawn, scheduleVars, PlanStep, TaskLost
  <2> QED
    BY <1>8, <2>1, <2>2 DEF DropSpawn
<1>9. CASE CloseChild \/ \E t \in Tasks : OpenChild(t)
  BY <1>9 DEF CloseChild, OpenChild, childVars, scheduleVars, PlanStep, PlanKept
<1>10. CASE EndScan
  <2>1. resume \in {"spawned", "start", "recv"}
    BY DEF IInv, TypeOK
  <2> QED
    BY <1>10, <2>1 DEF EndScan, Scanning, childVars, scheduleVars, PlanStep, SchedMoves
<1>11. CASE Subscribe \/ CatchUp
  BY <1>11 DEF Subscribe, CatchUp, childVars, scheduleVars, PlanStep, SchedMoves
<1>12. CASE ScanEvent \/ Receive \/ JobStep
  BY <1>12 DEF PlanStep
<1> QED
  BY <1>1, <1>2, <1>3, <1>4, <1>5, <1>6, <1>7, <1>8, <1>9, <1>10, <1>11, <1>12
     DEF Next, SchedulerStep, Start, Scan

-----------------------------------------------------------------------------
(* Types.                                                                  *)

StatusTyped ==
  /\ status \in [Tasks -> {"pending", "running", "done", "failed"}]
  /\ external \subseteq Externals

LEMMA TurnsType ==
  ASSUME IInv, [Next]_vars
  PROVE  /\ turn' \in [Tasks -> {"none", "active", "completed", "stopped", "lost"}]
         /\ StatusTyped'
<1> DEFINE Goal == /\ turn' \in [Tasks -> {"none", "active", "completed", "stopped", "lost"}]
                   /\ StatusTyped'
<1>0. /\ turn \in [Tasks -> {"none", "active", "completed", "stopped", "lost"}]
      /\ StatusTyped /\ TypeOK
  BY DEF IInv, TypeOK, StatusTyped
<1>1. CASE PlanKept \/ SchedMoves
  BY <1>0, <1>1 DEF PlanKept, SchedMoves, StatusTyped
<1>2. CASE StartsOver
  BY <1>0, <1>2, Marked DEF StartsOver, StatusTyped
<1>3. ASSUME NEW t \in Tasks,
             \/ \E ok \in BOOLEAN : TurnEnds(t, ok)
             \/ TaskStarts(t) \/ TaskLost(t) \/ TaskRefused(t)
      PROVE  Goal
  BY <1>0, <1>3 DEF TurnEnds, TaskStarts, TaskLost, TaskRefused, StatusTyped
<1>4. CASE ScanEvent \/ Receive
  <2>1. turn' = turn
    BY <1>4, Handlers DEF HandlerFrame, childVars
  <2>2. ASSUME NEW t \in Tasks, NEW i \in DOMAIN log[t], Handles(t, i)
        PROVE  StatusTyped'
    BY <1>0, <2>2, HandledStatus DEF Handles, Moves, StatusTyped
  <2>3. ASSUME NEW e \in Externals, HearsEnd(e)
        PROVE  StatusTyped'
    BY <1>0, <2>3 DEF HearsEnd, HandleExternal, StatusTyped
  <2>4. ASSUME NEW n \in DOMAIN proxies, HearsVerdict(n)
        PROVE  StatusTyped'
    BY <1>0, <2>4 DEF HearsVerdict, HandleVerdict, StatusTyped
  <2> QED
    BY <1>0, <1>4, <2>1, <2>2, <2>3, <2>4, Handlers
<1>5. CASE JobStep
  BY <1>0, <1>5 DEF JobStep, AskParent, ReconcileRead, Reconcile, SettleRead, Settle,
     DenyRead, Deny, JobFrame, childVars, scheduleVars, StatusTyped
<1> QED
  BY <1>1, <1>2, <1>3, <1>4, <1>5, PlanSteps DEF PlanStep

LEMMA LiveType ==
  ASSUME IInv, [Next]_vars
  PROVE  counted' \subseteq counted /\ live' \subseteq Externals /\ lagged' \in BOOLEAN
<1>0. live \subseteq Externals /\ lagged \in BOOLEAN
  BY DEF IInv, TypeOK
<1>1. CASE ScanEvent \/ Receive
  BY <1>0, <1>1, Handlers DEF HandlerFrame, childVars, ScanEvent, Receive, chanVars
<1>2. CASE Start \/ DropSpawn \/ Overwrite \/ Subscribe \/ CatchUp
  BY <1>0, <1>2 DEF Start, StartTask, StartOnPool, RefuseTask, EndStarts, DropSpawn,
     Overwrite, Subscribe, CatchUp, childVars, chanVars
<1>3. CASE CloseChild \/ EndScan \/ \E t \in Tasks : OpenChild(t)
  BY <1>0, <1>3 DEF CloseChild, EndScan, OpenChild, childVars, chanVars
<1>4. CASE JobStep
  BY <1>0, <1>4 DEF JobStep, AskParent, ReconcileRead, Reconcile, SettleRead, Settle,
     DenyRead, Deny, JobFrame, AppendChild, AppendVerdict, Publish, childVars, chanVars
<1>5. CASE \/ \E a \in Asks : Ask(a)
           \/ \E t \in Tasks, ok \in BOOLEAN : EndTurn(t, ok)
           \/ \E e \in Externals : EndExternal(e) \/ StartExternal(e)
           \/ \E n \in DOMAIN proxies : RecoverParent(n)
           \/ UNCHANGED vars
  BY <1>0, <1>5 DEF Ask, EndTurn, EndExternal, StartExternal, RecoverParent, AppendChild,
     AppendVerdict, Publish, vars, childVars, chanVars
<1>6. ASSUME NEW c \in Clients,
             \/ ClientStep(c) \/ ClientFails(c)
             \/ \E v \in Answers : \/ \E n \in DOMAIN proxies : DecideProxy(c, n, v)
                                   \/ \E a \in Asks : DecideChild(c, a, v)
      PROVE  counted' \subseteq counted /\ live' \subseteq Externals /\ lagged' \in BOOLEAN
  BY <1>0, <1>6 DEF ClientStep, ClientChild, ClientParent, ClientFails, DecideProxy,
     DecideChild, AppendChild, AppendVerdict, Publish, childVars, chanVars
<1> QED
  BY <1>1, <1>2, <1>3, <1>4, <1>5, <1>6 DEF Next, SchedulerStep, Scan, ClientStep

LEMMA CallsType ==
  ASSUME IInv, [Next]_vars
  PROVE  /\ client' \in [Clients -> Call]
         /\ \A c \in Clients :
              client'[c].at # "idle" => client'[c].proxy \in {0} \union DOMAIN proxies'
<1> DEFINE Fits(call) == /\ call \in Call
                         /\ call.at # "idle" => call.proxy \in {0} \union DOMAIN proxies'
<1>0. DOMAIN proxies \subseteq DOMAIN proxies' /\ TypeOK
  BY FilesType, ProxiesGrow DEF IInv
<1>1. client \in [Clients -> Call] /\ \A c \in Clients : Fits(client[c])
  BY <1>0 DEF TypeOK
<1>2. ASSUME NEW c \in Clients, NEW call, Fits(call), client' = [client EXCEPT ![c] = call]
      PROVE  client' \in [Clients -> Call] /\ \A d \in Clients : Fits(client'[d])
  BY <1>1, <1>2
<1>3. Fits(NoCall)
  BY DEF NoCall, Call
<1>4. DOMAIN proxies \subseteq Nat
  BY <1>0 DEF TypeOK
<1>5. ASSUME NEW at \in {"child", "parent"}, NEW n \in {0} \union DOMAIN proxies,
             NEW a \in Asks, NEW v \in Verdicts
      PROVE  Fits([at |-> at, ask |-> a, proxy |-> n, verdict |-> v])
  BY <1>0, <1>4 DEF Call
<1> HIDE DEF Fits
<1>6. CASE CallsKept
  BY <1>1, <1>6 DEF CallsKept, Fits
<1>7. ASSUME NEW c \in Clients, CallMade(c)
      PROVE  client' \in [Clients -> Call] /\ \A d \in Clients : Fits(client'[d])
  BY <1>2, <1>5, <1>7 DEF CallMade
<1>8. ASSUME NEW c \in Clients, CallGoesOn(c)
      PROVE  client' \in [Clients -> Call] /\ \A d \in Clients : Fits(client'[d])
  <2>1. /\ client[c].ask \in Asks /\ client[c].verdict \in Verdicts
        /\ client[c].proxy \in {0} \union DOMAIN proxies
        /\ client[c] = [at |-> client[c].at, ask |-> client[c].ask,
                        proxy |-> client[c].proxy, verdict |-> client[c].verdict]
    BY <1>0, <1>8, CallTyped DEF CallGoesOn
  <2>2. [client[c] EXCEPT !.at = "parent"]
          = [at |-> "parent", ask |-> client[c].ask, proxy |-> client[c].proxy,
             verdict |-> client[c].verdict]
    BY <2>1
  <2>3. Fits([client[c] EXCEPT !.at = "parent"])
    BY <1>5, <2>1, <2>2
  <2> QED
    BY <1>2, <1>8, <2>3 DEF CallGoesOn
<1>9. ASSUME NEW c \in Clients, CallEnds(c)
      PROVE  client' \in [Clients -> Call] /\ \A d \in Clients : Fits(client'[d])
  BY <1>2, <1>3, <1>9 DEF CallEnds
<1> QED
  BY <1>6, <1>7, <1>8, <1>9, CallSteps DEF Fits

\* A step of a job ends it, or goes on with what is still undecided.
JobGoesOn ==
  \/ job' = NoJob
  \/ job.kind = "reconcile_read" /\ job' = [job EXCEPT !.kind = "reconcile"]
  \/ job.kind = "settle_read" /\ job' = [job EXCEPT !.kind = "settle"]
  \/ /\ job.kind = "deny_read"
     /\ job' = [kind |-> "deny", left |-> {n \in job.left : Undecided(n)}]
  \/ \E n \in job.left : job.kind = "deny" /\ job' = [job EXCEPT !.left = @ \ {n}]

LEMMA JobSteps ==
  ASSUME JobStep
  PROVE  JobGoesOn /\ UNCHANGED <<turn, sched, status, external>>
         /\ (proxyOf' = proxyOf \/ (ProxyAdded /\ proxyOf' = proxyOf \union {<<job.ask, Len(proxies) + 1>>}))
BY DEF JobStep, AskParent, ReconcileRead, Reconcile, SettleRead, Settle, DenyRead, Deny,
   JobFrame, Done, childVars, scheduleVars, JobGoesOn, ProxyAdded

LEMMA JobKept ==
  ASSUME TypeOK, JobGoesOn
  PROVE  job' \in Job
<1>1. CASE job' = NoJob
  BY <1>1 DEF Job
<1>2. CASE job.kind = "reconcile_read" /\ job' = [job EXCEPT !.kind = "reconcile"]
  <2>1. job \in [kind : {"reconcile_read", "reconcile"}, ask : Asks, verdict : Verdicts]
    BY <1>2 DEF TypeOK, Job, NoJob
  <2> QED
    BY <1>2, <2>1 DEF Job
<1>3. CASE job.kind = "settle_read" /\ job' = [job EXCEPT !.kind = "settle"]
  <2>1. job \in [kind : {"settle_read", "settle"}, proxy : DOMAIN proxies, verdict : Verdicts]
    BY <1>3 DEF TypeOK, Job, NoJob
  <2> QED
    BY <1>3, <2>1 DEF Job
<1>4. CASE job.kind = "deny_read"
           /\ job' = [kind |-> "deny", left |-> {n \in job.left : Undecided(n)}]
  <2>1. job.left \subseteq DOMAIN proxies
    BY <1>4, JobTyped
  <2> QED
    BY <1>4, <2>1 DEF Job
<1>5. CASE \E n \in job.left : job.kind = "deny" /\ job' = [job EXCEPT !.left = @ \ {n}]
  <2>1. job \in [kind : {"deny_read", "deny"}, left : SUBSET (DOMAIN proxies)]
    BY <1>5 DEF TypeOK, Job, NoJob
  <2> QED
    BY <1>5, <2>1 DEF Job
<1> QED
  BY <1>1, <1>2, <1>3, <1>4, <1>5 DEF JobGoesOn

\* What is left of a job, by its kind.
LEMMA JobKinds ==
  ASSUME TypeOK, JobGoesOn
  PROVE  /\ job'.kind \in {"none", "reconcile", "settle", "deny"}
         /\ job'.kind = "reconcile" => job.kind = "reconcile_read" /\ job'.ask = job.ask
         /\ job'.kind = "settle" => job.kind = "settle_read" /\ job'.proxy = job.proxy
         /\ job'.kind = "deny" =>
              \/ /\ job.kind = "deny_read"
                 /\ job'.left = {n \in job.left : Undecided(n)}
              \/ \E n \in job.left : job.kind = "deny" /\ job'.left = job.left \ {n}
<1>1. CASE job' = NoJob
  BY <1>1 DEF NoJob
<1>2. CASE job.kind = "reconcile_read" /\ job' = [job EXCEPT !.kind = "reconcile"]
  <2>1. job \in [kind : {"reconcile_read", "reconcile"}, ask : Asks, verdict : Verdicts]
    BY <1>2 DEF TypeOK, Job, NoJob
  <2>2. job'.kind = "reconcile" /\ job'.ask = job.ask
    BY <1>2, <2>1
  <2> QED
    BY <1>2, <2>2
<1>3. CASE job.kind = "settle_read" /\ job' = [job EXCEPT !.kind = "settle"]
  <2>1. job \in [kind : {"settle_read", "settle"}, proxy : DOMAIN proxies, verdict : Verdicts]
    BY <1>3 DEF TypeOK, Job, NoJob
  <2>2. job'.kind = "settle" /\ job'.proxy = job.proxy
    BY <1>3, <2>1
  <2> QED
    BY <1>3, <2>2
<1>4. CASE /\ job.kind = "deny_read"
           /\ job' = [kind |-> "deny", left |-> {n \in job.left : Undecided(n)}]
  BY <1>4
<1>5. ASSUME NEW n \in job.left, job.kind = "deny", job' = [job EXCEPT !.left = @ \ {n}]
      PROVE  job'.kind = "deny" /\ job'.left = job.left \ {n}
  <2>1. job \in [kind : {"deny_read", "deny"}, left : SUBSET (DOMAIN proxies)]
    BY <1>5 DEF TypeOK, Job, NoJob
  <2> QED
    BY <1>5, <2>1
<1> QED
  BY <1>1, <1>2, <1>3, <1>4, <1>5 DEF JobGoesOn

LEMMA ProxyOfType ==
  ASSUME IInv, [Next]_vars
  PROVE  job' \in Job' /\ proxyOf' \subseteq Asks \X DOMAIN proxies'
<1> DEFINE Goal == job' \in Job /\ proxyOf' \subseteq Asks \X DOMAIN proxies
<1>0. /\ job \in Job /\ proxyOf \subseteq Asks \X DOMAIN proxies /\ TypeOK
      /\ DOMAIN proxies \subseteq DOMAIN proxies' /\ Job \subseteq Job'
  BY FilesType, ProxiesGrow DEF IInv, TypeOK
<1>1. Goal => (job' \in Job' /\ proxyOf' \subseteq Asks \X DOMAIN proxies')
  BY <1>0
<1>2. CASE PlanKept \/ SchedMoves \/ StartsOver
  BY <1>0, <1>1, <1>2 DEF PlanKept, SchedMoves, StartsOver
<1>3. ASSUME NEW t \in Tasks,
             \/ \E ok \in BOOLEAN : TurnEnds(t, ok)
             \/ TaskStarts(t) \/ TaskLost(t) \/ TaskRefused(t)
      PROVE  Goal
  BY <1>0, <1>3 DEF TurnEnds, TaskStarts, TaskLost, TaskRefused
<1>4. CASE ScanEvent \/ Receive
  <2>0. NoJob \in Job
    BY DEF Job
  <2>1. ASSUME NEW t \in Tasks, NEW i \in DOMAIN log[t], Handles(t, i)
        PROVE  Goal
    <3>1. Genuine(t, log[t][i])
      BY OnRecord
    <3>2. ASSUME NEW a \in Asks, ShowsAsk(t, a)
          PROVE  Goal
      <4>1. CASE job' = NoJob \/ job' = [kind |-> "ask", ask |-> a]
        <5>1. job' \in Job
          BY <2>0, <4>1 DEF Job
        <5> QED
          BY <1>0, <3>2, <5>1 DEF ShowsAsk, ProxiesFor
      <4>2. ASSUME NEW v \in Verdicts, proxyOf' = proxyOf,
                   job' = [kind |-> "reconcile_read", ask |-> a, verdict |-> v]
            PROVE  Goal
        BY <1>0, <4>2 DEF Job
      <4> QED
        BY <3>2, <4>1, <4>2 DEF ShowsAsk
    <3>3. ASSUME NEW a \in Asks, NEW forwarded, ForgetsAsk(a, forwarded)
          PROVE  Goal
      <4>1. ASSUME NEW n \in ProxiesFor(a), NEW v \in Verdicts,
                   job' = [kind |-> "settle_read", proxy |-> n, verdict |-> v]
            PROVE  job' \in Job
        BY <4>1 DEF Job, ProxiesFor
      <4> QED
        BY <1>0, <2>0, <3>3, <4>1 DEF ForgetsAsk
    <3>4. ASSUME EndsTask(t)
          PROVE  Goal
      <4> DEFINE stale == {p \in proxyOf : Asker[p[1]] = t}
      <4>1. {p[2] : p \in stale} \subseteq DOMAIN proxies
        BY <1>0
      <4>2. [kind |-> "deny_read", left |-> {p[2] : p \in stale}] \in Job
        BY <4>1 DEF Job
      <4> QED
        BY <1>0, <2>0, <3>4, <4>2 DEF EndsTask
    <3> QED
      BY <2>1, <3>1, <3>2, <3>3, <3>4, Handled DEF Handles
  <2>2. ASSUME NEW e \in Externals, HearsEnd(e)
        PROVE  Goal
    BY <1>0, <2>0, <2>2 DEF HearsEnd, HandleExternal
  <2>3. ASSUME NEW n \in DOMAIN proxies, HearsVerdict(n)
        PROVE  Goal
    BY <1>0, <2>0, <2>3 DEF HearsVerdict, HandleVerdict
  <2> QED
    BY <1>1, <1>4, <2>1, <2>2, <2>3, Handlers
<1>5. CASE JobStep
  <2>1. job' \in Job
    BY <1>0, <1>5, JobSteps, JobKept
  <2>2. ProxyAdded => <<job.ask, Len(proxies) + 1>> \in Asks \X DOMAIN proxies'
    BY <1>0, ProxyAppended
  <2> QED
    BY <1>0, <1>5, <2>1, <2>2, JobSteps
<1> QED
  BY <1>1, <1>2, <1>3, <1>4, <1>5, PlanSteps DEF PlanStep

ScanTyped ==
  /\ sched \in {"first", "spawned", "start", "scan", "recv", "exit", "dead"}
  /\ resume \in {"spawned", "start", "recv"}
  /\ scan \in [rest : SUBSET Tasks, task : Tasks \union {None}, next : Nat \ {0}, top : Nat]
  /\ scan.task # None => scan.top <= Len(log[scan.task])
  /\ lastSeq \in [Tasks -> Nat] /\ \A t \in Tasks : lastSeq[t] <= Len(log[t])

LEMMA ChildrenTyped ==
  ASSUME NEW S \in SUBSET Tasks
  PROVE  /\ Children(S) \in [rest : SUBSET Tasks, task : Tasks \union {None},
                             next : Nat \ {0}, top : Nat]
         /\ Children(S).task = None
BY DEF Children

\* The catch-up, the last event seen and the loop keep their types.
LEMMA ScanType ==
  ASSUME IInv, [Next]_vars
  PROVE  ScanTyped'
<1>0. ScanTyped /\ TypeOK
  BY DEF IInv, TypeOK, ScanTyped
<1>a. /\ \A t \in Tasks : Len(log[t]) \in Nat /\ Len(log'[t]) \in Nat
      /\ \A t \in Tasks : Len(log'[t]) >= Len(log[t])
  BY <1>0, FilesType DEF FilesTyped, FilesGrow, TypeOK
<1>1. CASE UNCHANGED <<sched, resume, scan, lastSeq>>
  BY <1>0, <1>1, <1>a DEF ScanTyped
<1>2. CASE UNCHANGED <<scan, lastSeq, resume>> /\ sched' \in {"dead", "exit", resume}
  BY <1>0, <1>2, <1>a DEF ScanTyped
<1>3. CASE /\ BeginScan /\ UNCHANGED lastSeq /\ sched' = "scan"
           /\ resume' \in {"spawned", "start", "recv"}
  <2>1. Running \subseteq Tasks
    BY DEF Running
  <2>2. /\ scan'.task = None
        /\ scan' \in [rest : SUBSET Tasks, task : Tasks \union {None}, next : Nat \ {0}, top : Nat]
    BY <1>3, <2>1, ChildrenTyped DEF BeginScan
  <2> QED
    BY <1>0, <1>3, <1>a, <2>2 DEF ScanTyped
<1>4. ASSUME NEW t \in Tasks, OpenChild(t)
      PROVE  ScanTyped'
  <2>1. scan' = [rest |-> scan.rest \ {t}, task |-> t, next |-> lastSeq[t] + 1,
                 top |-> Len(log[t])] /\ UNCHANGED <<sched, resume, lastSeq>>
    BY <1>4 DEF OpenChild, Unread, scheduleVars
  <2>2. scan' \in [rest : SUBSET Tasks, task : Tasks \union {None}, next : Nat \ {0}, top : Nat]
    BY <1>0, <1>a, <2>1 DEF ScanTyped
  <2>3. scan'.task = t /\ scan'.top = Len(log[t])
    BY <2>1
  <2> QED
    BY <1>0, <1>a, <2>1, <2>2, <2>3 DEF ScanTyped
<1>5. CASE ScanEvent
  <2>1. scan' = [scan EXCEPT !.next = @ + 1] /\ UNCHANGED <<sched, resume, lastSeq>>
    BY <1>5 DEF ScanEvent
  <2>2. /\ scan' \in [rest : SUBSET Tasks, task : Tasks \union {None}, next : Nat \ {0}, top : Nat]
        /\ scan'.task = scan.task /\ scan'.top = scan.top
    BY <1>0, <2>1 DEF ScanTyped
  <2> QED
    BY <1>0, <1>a, <2>1, <2>2 DEF ScanTyped
<1>6. CASE CloseChild
  <2>1. /\ scan' = Children(scan.rest) /\ UNCHANGED <<sched, resume>>
        /\ lastSeq' = [lastSeq EXCEPT ![scan.task] = Advance(scan.task, scan.top)]
        /\ scan.task # None
    BY <1>6 DEF CloseChild
  <2>2. /\ scan'.task = None
        /\ scan' \in [rest : SUBSET Tasks, task : Tasks \union {None}, next : Nat \ {0}, top : Nat]
    BY <1>0, <2>1, ChildrenTyped DEF ScanTyped
  <2>3. Advance(scan.task, scan.top) \in Nat
        /\ Advance(scan.task, scan.top) <= Len(log[scan.task]) /\ scan.task \in Tasks
    BY <1>0, <2>1 DEF ScanTyped, Advance
  <2> QED
    BY <1>0, <1>a, <2>1, <2>2, <2>3 DEF ScanTyped
<1>7. CASE Receive
  <2>1. UNCHANGED scan /\ sched' = "start" /\ resume' = "start"
    BY <1>7 DEF Receive
  <2>2. \/ UNCHANGED lastSeq
        \/ \E t \in Tasks : \E n \in DOMAIN log[t] :
             lastSeq' = [lastSeq EXCEPT ![t] = Advance(t, n)]
    <3>1. chan # <<>> /\ chan \in Seq(Address)
      BY <1>0, <1>7 DEF Receive, TypeOK, Address
    <3>2. chan[1] = Head(chan) /\ 1 \in DOMAIN chan
      BY <3>1, Shorter
    <3>3. Line(Head(chan))
      BY <1>0, <3>2 DEF TypeOK
    <3>4. Head(chan)[1] \in Tasks => Head(chan)[2] \in DOMAIN log[Head(chan)[1]]
      BY <3>3, NamesAssumption DEF Line
    <3> QED
      BY <1>7, <3>4 DEF Receive
  <2>3. ASSUME NEW t \in Tasks, NEW n \in DOMAIN log[t],
               lastSeq' = [lastSeq EXCEPT ![t] = Advance(t, n)]
        PROVE  lastSeq' \in [Tasks -> Nat] /\ \A s \in Tasks : lastSeq'[s] <= Len(log[s])
    <3>1. n \in Nat /\ n <= Len(log[t])
      BY <1>0 DEF TypeOK
    <3>2. Advance(t, n) \in Nat /\ Advance(t, n) <= Len(log[t])
      BY <1>0, <3>1 DEF ScanTyped, Advance
    <3> QED
      BY <1>0, <2>3, <3>2 DEF ScanTyped
  <2>4. lastSeq' \in [Tasks -> Nat] /\ \A s \in Tasks : lastSeq'[s] <= Len(log[s])
    BY <1>0, <2>2, <2>3 DEF ScanTyped
  <2> QED
    BY <1>0, <1>a, <2>1, <2>4 DEF ScanTyped
<1>8. CASE EndStarts \/ Subscribe \/ CatchUp
  BY <1>3, <1>8 DEF EndStarts, Subscribe, CatchUp, scheduleVars
<1>9. CASE EndScan
  BY <1>2, <1>9 DEF EndScan, scheduleVars
<1>10. CASE DropSpawn
  BY <1>2, <1>10 DEF DropSpawn, scheduleVars
<1>11. ASSUME NEW t \in Tasks, StartTask(t) \/ StartOnPool(t) \/ RefuseTask(t)
       PROVE  ScanTyped'
  BY <1>1, <1>2, <1>11 DEF StartTask, StartOnPool, RefuseTask, loopVars, scheduleVars
<1>12. CASE JobStep
  BY <1>1, <1>12 DEF JobStep, AskParent, ReconcileRead, Reconcile, SettleRead, Settle,
     DenyRead, Deny, JobFrame, scheduleVars
<1>13. CASE \/ \E a \in Asks : Ask(a)
            \/ \E t \in Tasks, ok \in BOOLEAN : EndTurn(t, ok)
            \/ \E e \in Externals : EndExternal(e) \/ StartExternal(e)
            \/ \E n \in DOMAIN proxies : RecoverParent(n)
            \/ Overwrite \/ UNCHANGED vars
  BY <1>1, <1>13 DEF Ask, EndTurn, EndExternal, StartExternal, RecoverParent, Overwrite, vars,
     loopVars, scheduleVars
<1>14. ASSUME NEW c \in Clients,
              \/ ClientStep(c) \/ ClientFails(c)
              \/ \E v \in Answers : \/ \E n \in DOMAIN proxies : DecideProxy(c, n, v)
                                    \/ \E a \in Asks : DecideChild(c, a, v)
       PROVE  ScanTyped'
  BY <1>1, <1>14 DEF ClientStep, ClientChild, ClientParent, ClientFails, DecideProxy,
     DecideChild, loopVars, scheduleVars
<1> QED
  BY <1>4, <1>5, <1>6, <1>7, <1>8, <1>9, <1>10, <1>11, <1>12, <1>13, <1>14
     DEF Next, SchedulerStep, Start, Scan, ClientStep

LEMMA StepType ==
  ASSUME IInv, [Next]_vars
  PROVE  TypeOK'
<1>1. FilesTyped' /\ FaultsTyped' /\ StatusTyped' /\ ScanTyped'
  BY FilesType, FaultKinds, TurnsType, ScanType
<1>2. counted' \subseteq Externals /\ live' \subseteq Externals /\ lagged' \in BOOLEAN
  BY LiveType DEF IInv, TypeOK
<1> QED
  BY <1>1, <1>2, TurnsType, CallsType, ProxyOfType
     DEF TypeOK, FilesTyped, FaultsTyped, StatusTyped, ScanTyped, Address, Line, LineIn

-----------------------------------------------------------------------------
(* Tasks and turns.                                                        *)

\* The first parts of TurnsFit, of one task.
TaskFits(st, tn, at) ==
  /\ st = "done" => tn = "completed"
  /\ st = "failed" => tn \in {"none", "stopped"}
  /\ st = "pending" => tn \in {"none", "lost"}
  /\ st = "running" => tn \in {"active", "completed", "stopped"}
  /\ tn = "active" => st = "running"
  /\ tn = "lost" => at = "dead"

\* A task that may start has no turn yet.
LEMMA ReadyIsFresh ==
  ASSUME IInv, sched # "dead", NEW t \in Tasks, Ready(t)
  PROVE  status[t] = "pending" /\ turn[t] = "none"
BY DEF IInv, TurnsFit, StatusIsTrue, Ready

\* Every step keeps status and turn together, and a turn that has ended stays so.
LEMMA TasksFit ==
  ASSUME IInv, [Next]_vars, NEW s \in Tasks
  PROVE  /\ TaskFits(status'[s], turn'[s], sched')
         /\ turn[s] \in {"completed", "stopped"} => turn'[s] = turn[s]
<1> DEFINE Goal == /\ TaskFits(status'[s], turn'[s], sched')
                   /\ turn[s] \in {"completed", "stopped"} => turn'[s] = turn[s]
<1>0. /\ TaskFits(status[s], turn[s], sched) /\ TypeOK
      /\ status \in [Tasks -> {"pending", "running", "done", "failed"}]
      /\ turn \in [Tasks -> {"none", "active", "completed", "stopped", "lost"}]
  BY DEF IInv, TurnsFit, StatusIsTrue, TypeOK, TaskFits
<1>1. CASE PlanKept \/ SchedMoves
  BY <1>0, <1>1 DEF PlanKept, SchedMoves, TaskFits
<1>2. CASE StartsOver
  <2>1. status'[s] = status[s] \/ (status[s] = "pending" /\ status'[s] = "failed")
    BY <1>0, <1>2, Marked DEF StartsOver
  <2> QED
    BY <1>0, <1>2, <2>1 DEF StartsOver, Starting, TaskFits
<1>3. ASSUME NEW t \in Tasks, NEW ok \in BOOLEAN, TurnEnds(t, ok)
      PROVE  Goal
  BY <1>0, <1>3 DEF TurnEnds, TaskFits
<1>4. ASSUME NEW t \in Tasks, TaskStarts(t)
      PROVE  Goal
  BY <1>0, <1>4, ReadyIsFresh DEF TaskStarts, TaskFits
<1>5. ASSUME NEW t \in Tasks, TaskLost(t)
      PROVE  Goal
  BY <1>0, <1>5, ReadyIsFresh DEF TaskLost, TaskFits
<1>6. ASSUME NEW t \in Tasks, TaskRefused(t)
      PROVE  Goal
  BY <1>0, <1>6, ReadyIsFresh DEF TaskRefused, Starting, TaskFits
<1>7. CASE ScanEvent \/ Receive
  <2>1. turn' = turn /\ sched \in {"scan", "recv"} /\ sched' \in {sched, "start"}
    BY <1>7, Handlers DEF HandlerFrame, childVars
  <2>2. ASSUME NEW t \in Tasks, NEW i \in DOMAIN log[t], Handles(t, i)
        PROVE  Goal
    <3>1. Moves(t, log[t][i]) /\ Genuine(t, log[t][i])
      BY <1>0, <2>2, HandledStatus, OnRecord DEF Handles
    <3> QED
      BY <1>0, <2>1, <3>1 DEF Moves, Genuine, TaskFits
  <2>3. ASSUME status' = status
        PROVE  Goal
    BY <1>0, <2>1, <2>3 DEF TaskFits
  <2> QED
    BY <1>7, <2>2, <2>3, Handlers DEF HearsEnd, HandleExternal, HearsVerdict, HandleVerdict
<1>8. CASE JobStep
  BY <1>0, <1>8, JobSteps DEF TaskFits
<1> QED
  BY <1>1, <1>2, <1>3, <1>4, <1>5, <1>6, <1>7, <1>8, PlanSteps DEF PlanStep

\* What the file of a child says of its turn stays true.
LEMMA FilesFit ==
  ASSUME IInv, [Next]_vars, NEW t \in Tasks, NEW i \in DOMAIN log'[t]
  PROVE  LET e == log'[t][i] IN
         IF e.kind = "ended" THEN turn'[t] = (IF e.ok THEN "completed" ELSE "stopped")
                             ELSE Asker[e.ask] = t
<1> DEFINE e == log'[t][i]
           Goal == IF e.kind = "ended"
                     THEN turn'[t] = (IF e.ok THEN "completed" ELSE "stopped")
                     ELSE Asker[e.ask] = t
<1>1. ASSUME i \in DOMAIN log[t], log'[t][i] = log[t][i]
      PROVE  Goal
  <2>1. Genuine(t, log[t][i])
    BY <1>1, OnRecord
  <2>2. turn[t] \in {"completed", "stopped"} => turn'[t] = turn[t]
    BY TasksFit
  <2> QED
    BY <1>1, <2>1, <2>2 DEF Genuine
<1>2. CASE log' = log
  BY <1>1, <1>2
<1>3. ASSUME NEW s \in Tasks, NEW new \in Event, ChildGrows(s, new)
      PROVE  Goal
  <2>1. \/ i \in DOMAIN log[t] /\ log'[t][i] = log[t][i]
        \/ t = s /\ log'[t][i] = new
    BY <1>3, ChildAppended DEF ChildGrows, IInv
  <2> QED
    BY <1>1, <1>3, <2>1 DEF ChildGrows
<1> QED
  BY <1>2, <1>3, FileSteps
     DEF FileStep, FilesKept, fileVars, ParentGrows, ProxyAdded, ExternalHeard

LEMMA StepTurnsFit ==
  ASSUME IInv, [Next]_vars
  PROVE  TurnsFit'
<1>1. \A t \in Tasks : TaskFits(status'[t], turn'[t], sched')
  BY TasksFit
<1>2. StatusIsTrue'
  BY <1>1 DEF StatusIsTrue, TaskFits
<1> QED
  BY <1>1, <1>2, FilesFit DEF TurnsFit, TaskFits

LEMMA StepStartsAfterDeps ==
  ASSUME IInv, [Next]_vars
  PROVE  StartsAfterDeps'
<1> SUFFICES ASSUME NEW t \in Tasks, turn'[t] # "none", NEW d \in Deps[t]
             PROVE  turn'[d] = "completed"
  BY DEF StartsAfterDeps
<1>0. d \in Tasks /\ TypeOK
      /\ turn \in [Tasks -> {"none", "active", "completed", "stopped", "lost"}]
  BY DepsAssumption DEF IInv, TypeOK
<1>1. CASE turn[t] # "none"
  BY <1>0, <1>1, TasksFit DEF IInv, StartsAfterDeps
<1>2. CASE turn[t] = "none"
  <2>1. Ready(t)
    <3>1. ~UNCHANGED turn
      BY <1>2
    <3>2. CASE ScanEvent \/ Receive
      BY <3>1, <3>2, Handlers DEF HandlerFrame, childVars
    <3>3. CASE JobStep
      BY <3>1, <3>3, JobSteps
    <3> QED
      BY <1>0, <1>2, <3>1, <3>2, <3>3, PlanSteps
         DEF PlanStep, PlanKept, StartsOver, SchedMoves, TurnEnds, TaskStarts, TaskLost,
             TaskRefused
  <2>2. turn[d] = "completed"
    BY <1>0, <2>1 DEF Ready, IInv, TurnsFit, StatusIsTrue
  <2> QED
    BY <1>0, <2>2, TasksFit
<1> QED
  BY <1>1, <1>2

-----------------------------------------------------------------------------
(* Slots.                                                                  *)

LEMMA FiniteSlots ==
  ASSUME TypeOK
  PROVE  /\ IsFiniteSet(Running \union Lost) /\ IsFiniteSet(external) /\ IsFiniteSet(counted)
         /\ Cardinality(Running \union Lost) \in Nat /\ Cardinality(external) \in Nat
<1>1. Running \union Lost \in SUBSET Tasks /\ external \in SUBSET Externals
      /\ counted \in SUBSET Externals
  BY DEF Running, Lost, TypeOK
<1>2. IsFiniteSet(Running \union Lost) /\ IsFiniteSet(external) /\ IsFiniteSet(counted)
  BY <1>1, ExternalsAssumption, FS_Subset
<1> QED
  BY <1>2, FS_CardinalityType

\* Slots are only taken by a start, which finds one; the rest is given back.
LEMMA SlotSteps ==
  ASSUME IInv, [Next]_vars
  PROVE  /\ external' \subseteq external
         /\ \/ (Running \union Lost)' \subseteq Running \union Lost
            \/ \E t \in Tasks : /\ HasSlot /\ sched # "dead" /\ external' = external
                                /\ (Running \union Lost)' = (Running \union Lost) \union {t}
<1> DEFINE Goal == /\ external' \subseteq external
                   /\ \/ (Running \union Lost)' \subseteq Running \union Lost
                      \/ \E t \in Tasks :
                           /\ HasSlot /\ sched # "dead" /\ external' = external
                           /\ (Running \union Lost)' = (Running \union Lost) \union {t}
<1>0. /\ status \in [Tasks -> {"pending", "running", "done", "failed"}]
      /\ turn \in [Tasks -> {"none", "active", "completed", "stopped", "lost"}]
      /\ TypeOK
  BY DEF IInv, TypeOK
<1>1. ASSUME external' \subseteq external,
             \A s \in Tasks : status'[s] = "running" => status[s] = "running",
             \A s \in Tasks : turn'[s] = "lost" => turn[s] = "lost"
      PROVE  Goal
  BY <1>1 DEF Running, Lost
<1>2. CASE PlanKept \/ SchedMoves
  BY <1>1, <1>2 DEF PlanKept, SchedMoves
<1>3. CASE StartsOver
  BY <1>0, <1>1, <1>3, Marked DEF StartsOver
<1>4. ASSUME NEW t \in Tasks, NEW ok \in BOOLEAN, TurnEnds(t, ok)
      PROVE  Goal
  BY <1>0, <1>1, <1>4 DEF TurnEnds
<1>5. ASSUME NEW t \in Tasks, TaskStarts(t)
      PROVE  Goal
  <2>1. Running' = Running \union {t}
    BY <1>0, <1>5 DEF TaskStarts, Running
  <2>2. Lost' = Lost
    BY <1>0, <1>5, ReadyIsFresh DEF TaskStarts, Lost
  <2> QED
    BY <1>5, <2>1, <2>2 DEF TaskStarts
<1>6. ASSUME NEW t \in Tasks, TaskLost(t)
      PROVE  Goal
  <2>1. Running' = Running /\ Lost' = Lost \union {t}
    BY <1>0, <1>6 DEF TaskLost, Running, Lost
  <2> QED
    BY <1>6, <2>1 DEF TaskLost
<1>7. ASSUME NEW t \in Tasks, TaskRefused(t)
      PROVE  Goal
  BY <1>0, <1>1, <1>7 DEF TaskRefused
<1>8. CASE ScanEvent \/ Receive
  <2>1. turn' = turn
    BY <1>8, Handlers DEF HandlerFrame, childVars
  <2>2. ASSUME NEW t \in Tasks, NEW i \in DOMAIN log[t], Handles(t, i)
        PROVE  Goal
    <3>1. Moves(t, log[t][i]) /\ external' = external
      BY <1>0, <2>2, HandledStatus DEF Handles
    <3> QED
      BY <1>1, <2>1, <3>1 DEF Moves
  <2>3. ASSUME status' = status, external' \subseteq external
        PROVE  Goal
    BY <1>1, <2>1, <2>3
  <2> QED
    BY <1>8, <2>2, <2>3, Handlers DEF HearsEnd, HandleExternal, HearsVerdict, HandleVerdict
<1>9. CASE JobStep
  BY <1>1, <1>9, JobSteps
<1> QED
  BY <1>2, <1>3, <1>4, <1>5, <1>6, <1>7, <1>8, <1>9, PlanSteps DEF PlanStep

LEMMA ExternalsHeard ==
  ASSUME IInv, [Next]_vars
  PROVE  counted' \subseteq external'
<1>0. counted \subseteq external /\ counted' \subseteq counted /\ TypeOK
  BY LiveType DEF IInv, SlotsKept
<1>1. CASE external' = external
  BY <1>0, <1>1
<1>2. CASE ScanEvent \/ Receive
  <2>1. ASSUME NEW t \in Tasks, NEW i \in DOMAIN log[t], Handles(t, i)
        PROVE  external' = external
    BY <1>0, <2>1, HandledStatus DEF Handles
  <2>2. ASSUME NEW e \in Externals, HearsEnd(e)
        PROVE  counted' \subseteq external'
    BY <1>0, <2>2 DEF HearsEnd, HandleExternal
  <2> QED
    BY <1>1, <1>2, <2>1, <2>2, Handlers DEF HearsVerdict, HandleVerdict
<1>3. CASE JobStep
  BY <1>1, <1>3, JobSteps
<1> QED
  BY <1>1, <1>2, <1>3, PlanSteps
     DEF PlanStep, PlanKept, StartsOver, SchedMoves, TurnEnds, TaskStarts, TaskLost, TaskRefused

\* A line of another subagent says that it has ended.
LEMMA LinesOfEnded ==
  ASSUME IInv, [Next]_vars, NEW i \in DOMAIN chan'
  PROVE  chan'[i][1] \notin counted'
<1>0. /\ counted' \subseteq counted /\ counted \subseteq Externals /\ TypeOK
      /\ \A j \in DOMAIN chan : chan[j][1] \notin counted
  BY LiveType DEF IInv, SlotsKept, TypeOK
<1>1. CASE FilesKept \/ ProxyAdded
  BY <1>0, <1>1 DEF FilesKept, ProxyAdded, chanVars
<1>2. ASSUME NEW t \in Tasks, NEW e \in Event, ChildGrows(t, e)
      PROVE  chan'[i][1] \notin counted'
  <2>1. (i \in DOMAIN chan /\ chan'[i] = chan[i]) \/ chan'[i][1] = t
    BY <1>0, <1>2, ChildAppended DEF ChildGrows
  <2> QED
    BY <1>0, <2>1, NamesAssumption
<1>3. ASSUME NEW n \in DOMAIN proxies, NEW v \in Verdicts, ParentGrows(n, v)
      PROVE  chan'[i][1] \notin counted'
  <2>1. (i \in DOMAIN chan /\ chan'[i] = chan[i]) \/ chan'[i] = <<Parent, n>>
    BY <1>0, <1>3, VerdictAppended DEF ParentGrows
  <2> QED
    BY <1>0, <2>1, NamesAssumption
<1>4. ASSUME NEW e \in Externals, ExternalHeard(e)
      PROVE  chan'[i][1] \notin counted'
  <2>1. <<e, 1>> \in Address /\ chan \in Seq(Address)
    BY <1>0 DEF Address, TypeOK
  <2>2. (i \in DOMAIN chan /\ chan'[i] = chan[i]) \/ chan'[i] = <<e, 1>>
    BY <1>4, <2>1, Published DEF ExternalHeard
  <2> QED
    BY <1>0, <1>4, <2>2 DEF ExternalHeard
<1> QED
  BY <1>1, <1>2, <1>3, <1>4, FileSteps DEF FileStep

LEMMA StepSlotsKept ==
  ASSUME IInv, [Next]_vars
  PROVE  SlotsKept'
<1> DEFINE held == Running \union Lost
<1>0. /\ TypeOK /\ TypeOK' /\ MaxConcurrent \in Nat
      /\ MaxConcurrent # 0 => Cardinality(held) + Cardinality(external) <= MaxConcurrent
  BY StepType, LimitAssumption DEF IInv, SlotsKept
<1>1. /\ IsFiniteSet(held) /\ IsFiniteSet(external)
      /\ Cardinality(held) \in Nat /\ Cardinality(external) \in Nat
  BY <1>0, FiniteSlots
<1>2. Cardinality(held') \in Nat /\ Cardinality(external') \in Nat
  <2>1. /\ IsFiniteSet(Tasks) /\ IsFiniteSet(Externals)
        /\ held' \in SUBSET Tasks /\ external' \in SUBSET Externals
    BY <1>0, ExternalsAssumption DEF Running, Lost, TypeOK
  <2> QED
    BY <2>1, FS_Subset, FS_CardinalityType
<1>3. Cardinality(external') <= Cardinality(external)
  BY <1>1, SlotSteps, FS_Subset
<1>4. MaxConcurrent # 0 => Cardinality(held') + Cardinality(external') <= MaxConcurrent
  <2>1. CASE held' \subseteq held
    <3>1. Cardinality(held') <= Cardinality(held)
      BY <1>1, <2>1, FS_Subset
    <3> HIDE DEF held
    <3> QED
      BY <1>0, <1>1, <1>2, <1>3, <3>1
  <2>2. ASSUME NEW t \in Tasks, HasSlot, sched # "dead", external' = external,
               held' = held \union {t}
        PROVE  MaxConcurrent # 0 => Cardinality(held') + Cardinality(external') <= MaxConcurrent
    <3>1. held = Running
      BY <2>2 DEF Lost, IInv, TurnsFit
    <3>2. MaxConcurrent # 0 => Cardinality(held) + Cardinality(external) < MaxConcurrent
      BY <2>2, <3>1 DEF HasSlot
    <3>3. Cardinality(held \union {t}) <= Cardinality(held) + 1
      <4> HIDE DEF held
      <4>1. Cardinality(held \union {t})
              = IF t \in held THEN Cardinality(held) ELSE Cardinality(held) + 1
        BY <1>1, FS_AddElement
      <4> QED
        BY <1>1, <4>1
    <3> HIDE DEF held
    <3> QED
      BY <1>0, <1>1, <1>2, <2>2, <3>2, <3>3
  <2> QED
    BY <2>1, <2>2, SlotSteps
<1> QED
  BY <1>4, ExternalsHeard, LinesOfEnded DEF SlotsKept

-----------------------------------------------------------------------------
(* Proxies.                                                                *)

LEMMA StepOneProxy ==
  ASSUME IInv, [Next]_vars
  PROVE  OneProxy'
<1>1. CASE proxies' = proxies
  BY <1>1 DEF IInv, OneProxy
<1>2. CASE ProxyAdded
  <2>1. \A n \in DOMAIN proxies : proxies[n] # job.ask
    BY <1>2 DEF ProxyAdded, IInv, ProxiesFit, ProxiesFor
  <2>2. \A n \in DOMAIN proxies' : \/ n \in DOMAIN proxies /\ proxies'[n] = proxies[n]
                                   \/ n = Len(proxies) + 1 /\ proxies'[n] = job.ask
    BY <1>2, ProxyAppended DEF IInv
  <2> QED
    BY <2>1, <2>2 DEF IInv, OneProxy
<1> QED
  BY <1>1, <1>2, FileSteps
     DEF FileStep, FilesKept, ChildGrows, ParentGrows, ExternalHeard, fileVars

\* A task that runs goes on running until its end is handled.
LEMMA RunningKept ==
  ASSUME IInv, [Next]_vars, NEW s \in Tasks
  PROVE  /\ status[s] # "pending" => status'[s] # "pending"
         /\ status[s] = "running" => status'[s] = "running" \/ ScanEvent \/ Receive
<1> DEFINE Goal == /\ status[s] # "pending" => status'[s] # "pending"
                   /\ status[s] = "running" => status'[s] = "running" \/ ScanEvent \/ Receive
<1>0. status \in [Tasks -> {"pending", "running", "done", "failed"}] /\ TypeOK
  BY DEF IInv, TypeOK
<1>1. CASE status' = status
  BY <1>1
<1>2. CASE StartsOver
  BY <1>0, <1>2, Marked DEF StartsOver
<1>3. ASSUME NEW t \in Tasks, TaskStarts(t) \/ TaskRefused(t)
      PROVE  Goal
  BY <1>0, <1>3 DEF TaskStarts, TaskRefused, Ready
<1>4. CASE ScanEvent \/ Receive
  <2>1. ASSUME NEW t \in Tasks, NEW i \in DOMAIN log[t], Handles(t, i)
        PROVE  Goal
    BY <1>0, <1>4, <2>1, HandledStatus DEF Handles, Moves
  <2> QED
    BY <1>1, <1>4, <2>1, Handlers DEF HearsEnd, HandleExternal, HearsVerdict, HandleVerdict
<1>5. CASE JobStep
  BY <1>1, <1>5, JobSteps
<1> QED
  BY <1>1, <1>2, <1>3, <1>4, <1>5, PlanSteps
     DEF PlanStep, PlanKept, SchedMoves, TurnEnds, TaskLost

LEMMA ProxiesNotPending ==
  ASSUME IInv, [Next]_vars, NEW n \in DOMAIN proxies'
  PROVE  status'[Asker[proxies'[n]]] # "pending"
<1>0. TypeOK /\ TypeOK'
  BY StepType DEF IInv
<1>1. CASE n \in DOMAIN proxies /\ proxies'[n] = proxies[n]
  <2>1. Asker[proxies[n]] \in Tasks
    BY <1>0, <1>1, AskerAssumption DEF TypeOK
  <2> QED
    BY <1>1, <2>1, RunningKept DEF IInv, ProxiesFit
<1>2. CASE ProxyAdded /\ proxies'[n] = job.ask
  <2>1. job.ask \in Asks /\ status[Asker[job.ask]] = "running"
    BY <1>0, <1>2, JobTyped DEF ProxyAdded, IInv, ProxiesFit
  <2> QED
    BY <1>2, <2>1, RunningKept, AskerAssumption
<1>3. CASE ProxyAdded
  BY <1>0, <1>1, <1>2, <1>3, ProxyAppended
<1> QED
  BY <1>1, <1>3, FileSteps
     DEF FileStep, FilesKept, ChildGrows, ParentGrows, ExternalHeard, fileVars

\* A mapped approval is one of a running task, and mapped to its proxy.
LEMMA MapKept ==
  ASSUME IInv, [Next]_vars, NEW p \in proxyOf'
  PROVE  proxies'[p[2]] = p[1] /\ status'[Asker[p[1]]] = "running"
<1> DEFINE Goal == proxies'[p[2]] = p[1] /\ status'[Asker[p[1]]] = "running"
<1>0. /\ TypeOK /\ TypeOK' /\ FilesGrow
      /\ \A q \in proxyOf : /\ q[1] \in Asks /\ q[2] \in DOMAIN proxies
                            /\ q = <<q[1], q[2]>> /\ Asker[q[1]] \in Tasks
                            /\ proxies[q[2]] = q[1] /\ status[Asker[q[1]]] = "running"
  <2>1. TypeOK /\ TypeOK' /\ FilesGrow
    BY StepType, FilesType DEF IInv
  <2>2. \A q \in proxyOf : /\ q[1] \in Asks /\ q[2] \in DOMAIN proxies
                           /\ q = <<q[1], q[2]>> /\ Asker[q[1]] \in Tasks
    <3>1. proxyOf \subseteq Asks \X DOMAIN proxies
      BY DEF IInv, TypeOK
    <3> QED
      BY <3>1, AskerAssumption
  <2>3. \A q \in proxyOf : proxies[q[2]] = q[1] /\ status[Asker[q[1]]] = "running"
    BY DEF IInv, ProxiesFit
  <2> QED
    BY <2>1, <2>2, <2>3
<1>1. CASE ~(ScanEvent \/ Receive)
  <2>1. CASE p \in proxyOf
    BY <1>0, <1>1, <2>1, RunningKept DEF FilesGrow
  <2>2. CASE p \notin proxyOf
    <3>1. ProxyAdded /\ p = <<job.ask, Len(proxies) + 1>>
      BY <1>1, <2>2, PlanSteps, JobSteps
         DEF PlanStep, PlanKept, StartsOver, SchedMoves, TurnEnds, TaskStarts, TaskLost,
             TaskRefused
    <3>2. job.ask \in Asks /\ status[Asker[job.ask]] = "running"
      BY <1>0, <3>1, JobTyped DEF ProxyAdded, IInv, ProxiesFit
    <3>3. proxies'[Len(proxies) + 1] = job.ask
      BY <1>0, <3>1, ProxyAppended
    <3>4. status'[Asker[job.ask]] = "running"
      BY <1>1, <3>2, RunningKept, AskerAssumption
    <3> QED
      BY <3>1, <3>3, <3>4
  <2> QED
    BY <2>1, <2>2
<1>2. CASE ScanEvent \/ Receive
  <2>0. proxies' = proxies
    BY <1>2, Handlers DEF HandlerFrame, fileVars
  <2>1. ASSUME NEW t \in Tasks, NEW i \in DOMAIN log[t], Handles(t, i)
        PROVE  Goal
    <3> DEFINE e == log[t][i]
    <3>1. Moves(t, e) /\ Genuine(t, e)
      BY <1>0, <2>1, HandledStatus, OnRecord DEF Handles
    <3>2. CASE e.kind # "ended"
      <4>1. \A s \in Tasks : status[s] = "running" => status'[s] = "running"
        BY <3>1, <3>2 DEF Moves
      <4>2. CASE p \in proxyOf
        BY <1>0, <2>0, <4>1, <4>2
      <4>3. CASE p \notin proxyOf
        <5>1. PICK n \in ProxiesFor(e.ask) : p = <<e.ask, n>> /\ status[t] = "running"
          BY <2>1, <3>1, <3>2, <4>3, Handled DEF Handles, ShowsAsk, ForgetsAsk
        <5>2. proxies[n] = e.ask /\ Asker[e.ask] = t
          BY <3>1, <3>2, <5>1 DEF ProxiesFor, Genuine
        <5> QED
          BY <2>0, <4>1, <5>1, <5>2
      <4> QED
        BY <4>2, <4>3
    <3>3. CASE e.kind = "ended"
      <4>1. EndsTask(t)
        BY <2>1, <3>1, <3>3, Handled DEF Handles
      <4>2. p \in proxyOf /\ (status[t] = "running" => Asker[p[1]] # t)
        BY <4>1 DEF EndsTask
      <4>3. Asker[p[1]] # t
        BY <1>0, <4>2
      <4>4. status'[Asker[p[1]]] = status[Asker[p[1]]]
        BY <1>0, <3>1, <4>2, <4>3 DEF Moves
      <4> QED
        BY <1>0, <2>0, <4>2, <4>4
    <3> QED
      BY <3>2, <3>3
  <2>2. ASSUME proxyOf' \subseteq proxyOf, status' = status
        PROVE  Goal
    BY <1>0, <2>0, <2>2
  <2> QED
    BY <1>2, <2>1, <2>2, Handlers DEF HearsEnd, HandleExternal, HearsVerdict, HandleVerdict
<1> QED
  BY <1>1, <1>2

\* Only the step that asks the parent adds a proxy.
LEMMA ProxiesOnly ==
  ASSUME IInv, [Next]_vars, ~JobStep
  PROVE  proxies' = proxies
<1>1. ASSUME NEW c \in Clients,
             \/ ClientStep(c) \/ ClientFails(c)
             \/ \E v \in Answers : \/ \E n \in DOMAIN proxies : DecideProxy(c, n, v)
                                   \/ \E a \in Asks : DecideChild(c, a, v)
      PROVE  proxies' = proxies
  BY <1>1 DEF ClientStep, ClientChild, ClientParent, ClientFails, DecideProxy, DecideChild,
     AppendVerdict, fileVars
<1>2. CASE Start \/ Scan \/ Subscribe \/ Receive \/ CatchUp \/ DropSpawn \/ Overwrite
  BY <1>2 DEF Start, StartTask, StartOnPool, RefuseTask, EndStarts, Scan, OpenChild,
     ScanEvent, CloseChild, EndScan, Subscribe, Receive, CatchUp, DropSpawn, Overwrite, fileVars
<1>3. CASE \/ \E a \in Asks : Ask(a)
           \/ \E t \in Tasks, ok \in BOOLEAN : EndTurn(t, ok)
           \/ \E e \in Externals : EndExternal(e) \/ StartExternal(e)
           \/ \E n \in DOMAIN proxies : RecoverParent(n)
           \/ UNCHANGED vars
  BY <1>3 DEF Ask, EndTurn, EndExternal, StartExternal, RecoverParent, AppendVerdict, vars, fileVars
<1> QED
  BY <1>1, <1>2, <1>3 DEF Next, SchedulerStep

\* The approval that is about to be asked for is one of a running task, with no proxy.
LEMMA AskKept ==
  ASSUME IInv, [Next]_vars, job'.kind = "ask"
  PROVE  status'[Asker[job'.ask]] = "running" /\ \A n \in DOMAIN proxies' : proxies'[n] # job'.ask
<1>0. TypeOK
  BY DEF IInv
<1>1. ASSUME job' = job, proxies' = proxies, ~(ScanEvent \/ Receive)
      PROVE  status'[Asker[job'.ask]] = "running" /\ \A n \in DOMAIN proxies' : proxies'[n] # job'.ask
  <2>1. job.ask \in Asks /\ status[Asker[job.ask]] = "running" /\ ProxiesFor(job.ask) = {}
    BY <1>0, <1>1, JobTyped DEF IInv, ProxiesFit
  <2>2. status'[Asker[job.ask]] = "running"
    BY <1>1, <2>1, RunningKept, AskerAssumption
  <2> QED
    BY <1>1, <2>1, <2>2 DEF ProxiesFor
<1>2. CASE ~(ScanEvent \/ Receive \/ JobStep)
  <2>1. job' = job
    BY <1>2, PlanSteps
       DEF PlanStep, PlanKept, StartsOver, SchedMoves, TurnEnds, TaskStarts, TaskLost,
           TaskRefused
  <2>2. proxies' = proxies
    BY <1>2, ProxiesOnly
  <2> QED
    BY <1>1, <1>2, <2>1, <2>2
<1>3. CASE JobStep
  <2>1. JobGoesOn
    BY <1>3, JobSteps
  <2> QED
    BY <1>0, <2>1, JobKinds
<1>4. CASE ScanEvent \/ Receive
  <2>0. proxies' = proxies /\ NoJob.kind # "ask"
    BY <1>4, Handlers DEF HandlerFrame, fileVars, NoJob
  <2>1. ASSUME NEW t \in Tasks, NEW i \in DOMAIN log[t], Handles(t, i)
        PROVE  status'[Asker[job'.ask]] = "running" /\ \A n \in DOMAIN proxies' : proxies'[n] # job'.ask
    <3> DEFINE e == log[t][i]
    <3>1. Moves(t, e) /\ Genuine(t, e)
      BY <1>0, <2>1, HandledStatus, OnRecord DEF Handles
    <3>2. /\ e.kind = "asked" /\ Asker[e.ask] = t /\ status[t] = "running"
          /\ ProxiesFor(e.ask) = {} /\ job' = [kind |-> "ask", ask |-> e.ask]
      BY <2>0, <2>1, <3>1, Handled DEF Handles, ShowsAsk, ForgetsAsk, EndsTask
    <3>3. status'[t] = "running"
      BY <3>1, <3>2 DEF Moves
    <3> QED
      BY <2>0, <3>2, <3>3 DEF ProxiesFor
  <2>2. job' # NoJob
    BY <2>0
  <2> QED
    BY <1>4, <2>1, <2>2, Handlers DEF HearsEnd, HandleExternal, HearsVerdict, HandleVerdict
<1> QED
  BY <1>2, <1>3, <1>4

\* A call is about the approval of its proxy, and goes to the parent only with one.
CallFits(call, asked) ==
  /\ call.at # "idle" /\ call.proxy # 0 => asked[call.proxy] = call.ask
  /\ call.at = "parent" => call.proxy # 0

LEMMA CallsFit ==
  ASSUME IInv, [Next]_vars, NEW c \in Clients
  PROVE  CallFits(client'[c], proxies')
<1>0. /\ TypeOK /\ FilesGrow /\ client \in [Clients -> Call]
      /\ \A d \in Clients : CallFits(client[d], proxies)
      /\ \A d \in Clients :
           client[d].at # "idle" => client[d].proxy \in {0} \union DOMAIN proxies
  BY FilesType DEF IInv, TypeOK, ProxiesFit, CallFits
<1>1. ASSUME client'[c] = client[c]
      PROVE  CallFits(client'[c], proxies')
  BY <1>0, <1>1 DEF CallFits, FilesGrow
<1>2. ASSUME NEW d \in Clients, CallMade(d)
      PROVE  CallFits(client'[c], proxies')
  <2>1. PICK n \in {0} \union DOMAIN proxies : \E a \in Asks : \E v \in Verdicts :
          /\ n # 0 => proxies[n] = a
          /\ client' = [client EXCEPT ![d] =
               [at |-> "child", ask |-> a, proxy |-> n, verdict |-> v]]
    BY <1>2 DEF CallMade
  <2>2. PICK a \in Asks, v \in Verdicts :
          /\ n # 0 => proxies[n] = a
          /\ client' = [client EXCEPT ![d] =
               [at |-> "child", ask |-> a, proxy |-> n, verdict |-> v]]
    BY <2>1
  <2>3. CASE c = d
    <3>1. client'[c] = [at |-> "child", ask |-> a, proxy |-> n, verdict |-> v]
      BY <1>0, <2>2, <2>3
    <3> QED
      BY <1>0, <2>2, <3>1 DEF CallFits, FilesGrow
  <2>4. CASE c # d
    BY <1>0, <1>1, <2>2, <2>4
  <2> QED
    BY <2>3, <2>4
<1>3. ASSUME NEW d \in Clients, CallGoesOn(d)
      PROVE  CallFits(client'[c], proxies')
  <2>1. /\ client[d].ask \in Asks /\ client[d].proxy \in DOMAIN proxies
        /\ client[d] = [at |-> client[d].at, ask |-> client[d].ask,
                        proxy |-> client[d].proxy, verdict |-> client[d].verdict]
    BY <1>0, <1>3, CallTyped DEF CallGoesOn
  <2>2. CASE c = d
    <3>1. client'[c] = [at |-> "parent", ask |-> client[d].ask, proxy |-> client[d].proxy,
                        verdict |-> client[d].verdict]
      BY <1>0, <1>3, <2>1, <2>2 DEF CallGoesOn
    <3>2. proxies[client[d].proxy] = client[d].ask
      BY <1>0, <1>3 DEF CallGoesOn, CallFits
    <3> QED
      BY <1>0, <1>3, <2>1, <3>1, <3>2 DEF CallGoesOn, CallFits, FilesGrow
  <2>3. CASE c # d
    BY <1>0, <1>1, <1>3, <2>3 DEF CallGoesOn
  <2> QED
    BY <2>2, <2>3
<1>4. ASSUME NEW d \in Clients, CallEnds(d)
      PROVE  CallFits(client'[c], proxies')
  <2>1. CASE c = d
    BY <1>0, <1>4, <2>1 DEF CallEnds, NoCall, CallFits
  <2>2. CASE c # d
    BY <1>0, <1>1, <1>4, <2>2 DEF CallEnds
  <2> QED
    BY <2>1, <2>2
<1> QED
  BY <1>1, <1>2, <1>3, <1>4, CallSteps DEF CallsKept

\* The scheduler is done only when every task is settled, and idle between two events.
LEMMA LoopFits ==
  ASSUME IInv, [Next]_vars
  PROVE  /\ sched' = "exit" => Settled'
         /\ sched' \in {"first", "spawned", "recv", "exit"} => job' = NoJob
<1> DEFINE Goal == /\ sched' = "exit" => Settled'
                   /\ sched' \in {"first", "spawned", "recv", "exit"} => job' = NoJob
<1>0. /\ sched = "exit" => Settled
      /\ sched \in {"first", "spawned", "recv", "exit"} => job = NoJob
      /\ TypeOK
  BY DEF IInv, ProxiesFit
<1>1. CASE PlanKept
  BY <1>0, <1>1 DEF PlanKept, Settled
<1>2. CASE SchedMoves
  BY <1>0, <1>2 DEF SchedMoves, Settled
<1>3. ASSUME NEW t \in Tasks, NEW ok \in BOOLEAN, TurnEnds(t, ok)
      PROVE  Goal
  BY <1>0, <1>3 DEF TurnEnds, Settled
<1>4. ASSUME NEW t \in Tasks, TaskStarts(t) \/ TaskLost(t) \/ TaskRefused(t)
      PROVE  Goal
  BY <1>0, <1>4 DEF TaskStarts, TaskLost, TaskRefused, Starting
<1>5. CASE StartsOver
  BY <1>5 DEF StartsOver
<1>6. CASE ScanEvent
  BY <1>6 DEF ScanEvent, Scanning
<1>7. CASE Receive
  BY <1>7 DEF Receive
<1>8. CASE JobStep
  <2>1. JobGoesOn /\ UNCHANGED <<sched, status>> /\ job # NoJob
    <3>1. job.kind # "none"
      BY <1>8 DEF JobStep, AskParent, ReconcileRead, Reconcile, SettleRead, Settle, DenyRead,
         Deny
    <3> QED
      BY <1>8, <3>1, JobSteps DEF NoJob
  <2> QED
    BY <1>0, <2>1 DEF Settled
<1> QED
  BY <1>1, <1>2, <1>3, <1>4, <1>5, <1>6, <1>7, <1>8, PlanSteps DEF PlanStep

LEMMA StepProxiesFit ==
  ASSUME IInv, [Next]_vars
  PROVE  ProxiesFit'
<1>1. job'.kind = "ask" => (ProxiesFor(job.ask) = {})'
  BY AskKept DEF ProxiesFor
<1>2. \A c \in Clients :
        /\ client'[c].at # "idle" /\ client'[c].proxy # 0
             => proxies'[client'[c].proxy] = client'[c].ask
        /\ client'[c].at = "parent" => client'[c].proxy # 0
  BY CallsFit DEF CallFits
<1> QED
  BY <1>1, <1>2, ProxiesNotPending, MapKept, AskKept, LoopFits DEF ProxiesFit

-----------------------------------------------------------------------------
(* Decisions.                                                              *)

\* What is told stays told.
LEMMA ToldKept ==
  ASSUME IInv, [Next]_vars, NEW n \in DOMAIN proxies, Told(n)
  PROVE  \/ verdicts'[n] # <<>> \/ proxies'[n] \in broken'
         \/ \E c \in Clients : client'[c].at = "parent" /\ client'[c].proxy = n
<1>0. TypeOK /\ FilesGrow /\ broken \subseteq broken' /\ client \in [Clients -> Call]
  BY FilesType, FaultKinds DEF IInv, TypeOK
<1>1. CASE verdicts[n] # <<>> \/ proxies[n] \in broken
  BY <1>0, <1>1 DEF FilesGrow
<1>2. ASSUME NEW c \in Clients, client[c].at = "parent", client[c].proxy = n,
             client'[c] # client[c]
      PROVE  verdicts'[n] # <<>> \/ proxies'[n] \in broken'
  <2>1. CallEnds(c)
    <3>1. ASSUME NEW d \in Clients, CallMade(d) \/ CallGoesOn(d) \/ CallEnds(d)
          PROVE  CallEnds(c)
      <4>1. c = d
        BY <1>0, <1>2, <3>1 DEF CallMade, CallGoesOn, CallEnds
      <4> QED
        BY <1>2, <3>1, <4>1 DEF CallMade, CallGoesOn, NoCall
    <3> QED
      BY <1>2, <3>1, CallSteps DEF CallsKept
  <2>2. CASE client[c].ask \in broken'
    <3>1. proxies[n] = client[c].ask
      BY <1>2 DEF IInv, ProxiesFit
    <3> QED
      BY <1>0, <2>2, <3>1 DEF FilesGrow
  <2>3. CASE AppendVerdict(n, client[c].verdict)
    <3>1. client[c].verdict \in Verdicts
      BY <1>0, <1>2, CallTyped
    <3> QED
      BY <1>0, <2>3, <3>1, VerdictAppended
  <2> QED
    BY <1>2, <2>1, <2>2, <2>3 DEF CallEnds
<1> QED
  BY <1>1, <1>2 DEF Told

\* A decision that the scheduler or a client brought from the parent has its verdict.
LEMMA ForwardsKept ==
  ASSUME IInv, [Next]_vars, NEW t \in Tasks, NEW i \in DOMAIN log'[t],
         log'[t][i].kind = "decided", log'[t][i].forwarded
  PROVE  \E n \in DOMAIN proxies' :
           /\ proxies'[n] = log'[t][i].ask
           /\ \/ verdicts'[n] # <<>> \/ proxies'[n] \in broken'
              \/ \E c \in Clients : client'[c].at = "parent" /\ client'[c].proxy = n
<1> DEFINE Goal == \E n \in DOMAIN proxies' :
             /\ proxies'[n] = log'[t][i].ask
             /\ \/ verdicts'[n] # <<>> \/ proxies'[n] \in broken'
                \/ \E c \in Clients : client'[c].at = "parent" /\ client'[c].proxy = n
<1>0. TypeOK /\ FilesGrow
  BY FilesType DEF IInv
<1>1. ASSUME i \in DOMAIN log[t], log'[t][i] = log[t][i]
      PROVE  Goal
  <2>1. PICK n \in ProxiesFor(log[t][i].ask) : Told(n)
    BY <1>1 DEF IInv, ForwardsFit
  <2>2. n \in DOMAIN proxies /\ proxies[n] = log[t][i].ask
    BY <2>1 DEF ProxiesFor
  <2> QED
    BY <1>0, <1>1, <2>1, <2>2, ToldKept DEF FilesGrow
<1>2. CASE log' = log
  BY <1>1, <1>2
<1>3. ASSUME NEW s \in Tasks, NEW e \in Event, ChildGrows(s, e)
      PROVE  Goal
  <2>1. (i \in DOMAIN log[t] /\ log'[t][i] = log[t][i]) \/ log'[t][i] = e
    BY <1>0, <1>3, ChildAppended DEF ChildGrows
  <2>2. ASSUME NEW c \in Clients, client[c].at = "child", client[c].proxy # 0,
               client[c].ask = e.ask, client'[c] = [client[c] EXCEPT !.at = "parent"],
               log'[t][i] = e
        PROVE  Goal
    <3>1. /\ client[c].proxy \in DOMAIN proxies
          /\ client[c] = [at |-> client[c].at, ask |-> client[c].ask,
                          proxy |-> client[c].proxy, verdict |-> client[c].verdict]
      BY <1>0, <2>2, CallTyped
    <3>2. client'[c].at = "parent" /\ client'[c].proxy = client[c].proxy
      BY <2>2, <3>1
    <3>3. proxies[client[c].proxy] = e.ask
      BY <2>2 DEF IInv, ProxiesFit
    <3> QED
      BY <1>0, <2>2, <3>1, <3>2, <3>3 DEF FilesGrow
  <2>3. ASSUME job.kind = "reconcile", job.ask = e.ask, log'[t][i] = e
        PROVE  Goal
    <3>1. PICK n \in ProxiesFor(e.ask) : verdicts[n] # <<>>
      BY <2>3 DEF IInv, ForwardsFit
    <3> QED
      BY <1>0, <2>3, <3>1 DEF FilesGrow, ProxiesFor
  <2> QED
    BY <1>1, <1>3, <2>1, <2>2, <2>3 DEF ChildGrows
<1> QED
  BY <1>2, <1>3, FileSteps
     DEF FileStep, FilesKept, fileVars, ParentGrows, ProxyAdded, ExternalHeard

\* What is brought to a child has a verdict in the parent.
LEMMA ReconcileFits ==
  ASSUME IInv, [Next]_vars, job'.kind \in {"reconcile_read", "reconcile"}
  PROVE  \E n \in DOMAIN proxies' : proxies'[n] = job'.ask /\ verdicts'[n] # <<>>
<1>0. TypeOK /\ FilesGrow
  BY FilesType DEF IInv
<1>1. ASSUME NEW a, job'.ask = a,
             \E n \in ProxiesFor(a) : verdicts[n] # <<>>
      PROVE  \E n \in DOMAIN proxies' : proxies'[n] = job'.ask /\ verdicts'[n] # <<>>
  BY <1>0, <1>1 DEF FilesGrow, ProxiesFor
<1>2. ASSUME job.kind \in {"reconcile_read", "reconcile"}, job'.ask = job.ask
      PROVE  \E n \in DOMAIN proxies' : proxies'[n] = job'.ask /\ verdicts'[n] # <<>>
  BY <1>0, <1>2 DEF IInv, ForwardsFit, FilesGrow, ProxiesFor
<1>3. CASE job' = job
  BY <1>2, <1>3
<1>4. CASE JobStep
  BY <1>0, <1>2, <1>4, JobSteps, JobKinds
<1>5. CASE ScanEvent \/ Receive
  <2>1. ASSUME NEW t \in Tasks, NEW i \in DOMAIN log[t], Handles(t, i)
        PROVE  \E n \in DOMAIN proxies' : proxies'[n] = job'.ask /\ verdicts'[n] # <<>>
    <3> DEFINE e == log[t][i]
    <3>1. PICK n \in ProxiesFor(e.ask) : verdicts[n] # <<>> /\ job'.ask = e.ask
      <4>1. Genuine(t, e)
        BY OnRecord
      <4> QED
        BY <2>1, <4>1, Handled DEF Handles, ShowsAsk, ForgetsAsk, EndsTask, NoJob
    <3> QED
      BY <1>0, <3>1 DEF FilesGrow, ProxiesFor
  <2>2. job' # NoJob
    BY DEF NoJob
  <2> QED
    BY <1>5, <2>1, <2>2, Handlers DEF HearsEnd, HandleExternal, HearsVerdict, HandleVerdict
<1> QED
  BY <1>3, <1>4, <1>5, PlanSteps
     DEF PlanStep, PlanKept, StartsOver, SchedMoves, TurnEnds, TaskStarts, TaskLost, TaskRefused

\* A line of the parent is a verdict.
LEMMA LinesOfParent ==
  ASSUME IInv, [Next]_vars, NEW i \in DOMAIN chan', chan'[i][1] = Parent
  PROVE  verdicts'[chan'[i][2]] # <<>>
<1>0. TypeOK /\ FilesGrow
  BY FilesType DEF IInv
<1>1. ASSUME NEW j \in DOMAIN chan, chan'[i] = chan[j]
      PROVE  verdicts'[chan'[i][2]] # <<>>
  <2>1. verdicts[chan[j][2]] # <<>> /\ Line(chan[j])
    BY <1>0, <1>1 DEF IInv, ForwardsFit, TypeOK
  <2>2. chan[j][2] \in DOMAIN proxies
    BY <1>1, <2>1, NamesAssumption DEF Line
  <2> QED
    BY <1>0, <1>1, <2>1, <2>2 DEF FilesGrow
<1>2. CASE FilesKept \/ ProxyAdded
  BY <1>1, <1>2 DEF FilesKept, ProxyAdded, chanVars
<1>3. ASSUME NEW t \in Tasks, NEW e \in Event, ChildGrows(t, e)
      PROVE  verdicts'[chan'[i][2]] # <<>>
  <2>1. (i \in DOMAIN chan /\ chan'[i] = chan[i]) \/ chan'[i][1] = t
    BY <1>0, <1>3, ChildAppended DEF ChildGrows
  <2> QED
    BY <1>1, <2>1, NamesAssumption
<1>4. ASSUME NEW n \in DOMAIN proxies, NEW v \in Verdicts, ParentGrows(n, v)
      PROVE  verdicts'[chan'[i][2]] # <<>>
  <2>1. /\ (i \in DOMAIN chan /\ chan'[i] = chan[i]) \/ chan'[i] = <<Parent, n>>
        /\ verdicts'[n] # <<>>
    BY <1>0, <1>4, VerdictAppended DEF ParentGrows
  <2> QED
    BY <1>1, <2>1
<1>5. ASSUME NEW e \in Externals, ExternalHeard(e)
      PROVE  verdicts'[chan'[i][2]] # <<>>
  <2>1. <<e, 1>> \in Address /\ chan \in Seq(Address)
    BY <1>0 DEF Address, TypeOK
  <2>2. (i \in DOMAIN chan /\ chan'[i] = chan[i]) \/ chan'[i] = <<e, 1>>
    BY <1>5, <2>1, Published DEF ExternalHeard
  <2> QED
    BY <1>1, <2>2, NamesAssumption
<1> QED
  BY <1>2, <1>3, <1>4, <1>5, FileSteps DEF FileStep

LEMMA StepForwardsFit ==
  ASSUME IInv, [Next]_vars
  PROVE  ForwardsFit'
<1>1. \A t \in Tasks : \A i \in DOMAIN log'[t] :
        log'[t][i].kind = "decided" /\ log'[t][i].forwarded
          => \E n \in DOMAIN proxies' :
               /\ proxies'[n] = log'[t][i].ask
               /\ \/ verdicts'[n] # <<>> \/ proxies'[n] \in broken'
                  \/ \E c \in Clients : client'[c].at = "parent" /\ client'[c].proxy = n
  BY ForwardsKept
<1> QED
  BY <1>1, ReconcileFits, LinesOfParent DEF ForwardsFit, ProxiesFor, Told

\* Tended, of one proxy after a step.
TendedNext(n) ==
  \/ verdicts'[n] # <<>> \/ proxies'[n] \in broken'
  \/ \E c \in Clients : client'[c].at = "parent" /\ client'[c].proxy = n
  \/ <<proxies'[n], n>> \in proxyOf'
  \/ job'.kind \in {"deny_read", "deny"} /\ n \in job'.left
  \/ job'.kind \in {"settle_read", "settle"} /\ job'.proxy = n

\* The handling of an event leaves a proxy mapped, decided or with a job.
LEMMA HandlersTend ==
  ASSUME IInv, [Next]_vars, ScanEvent \/ Receive, NEW n \in DOMAIN proxies, ~Told(n)
  PROVE  TendedNext(n)
<1>0. TypeOK /\ job = NoJob /\ UNCHANGED <<log, proxies, verdicts>>
  BY Handlers DEF IInv, HandlerFrame, fileVars
<1>1. <<proxies[n], n>> \in proxyOf /\ proxies[n] \in Asks
  BY <1>0 DEF IInv, Tended, NoJob, TypeOK
<1>2. ASSUME proxyOf \subseteq proxyOf'
      PROVE  TendedNext(n)
  BY <1>0, <1>1, <1>2 DEF TendedNext
<1>3. ASSUME NEW t \in Tasks, NEW i \in DOMAIN log[t], Handles(t, i)
      PROVE  TendedNext(n)
  <2> DEFINE e == log[t][i]
  <2>1. Genuine(t, e)
    BY OnRecord
  <2>2. ASSUME e.kind = "decided", e.ask \in Asks, ForgetsAsk(e.ask, e.forwarded)
        PROVE  TendedNext(n)
    <3>1. CASE proxies[n] # e.ask
      <4>1. <<proxies[n], n>> \in proxyOf'
        BY <1>1, <2>2, <3>1 DEF ForgetsAsk
      <4> QED
        BY <1>0, <4>1 DEF TendedNext
    <3>2. CASE proxies[n] = e.ask
      <4>1. n \in Mapped(e.ask) /\ n \in ProxiesFor(e.ask)
        BY <1>1, <3>2 DEF Mapped, ProxiesFor
      <4>2. ProxiesFor(e.ask) = {n}
        BY <2>2, <4>1, LatestProxy
      <4>3. ~e.forwarded
        BY <2>2, <4>2 DEF IInv, ForwardsFit
      <4>4. PICK v \in Verdicts :
              job' = [kind |-> "settle_read", proxy |-> n, verdict |-> v]
        BY <2>2, <4>1, <4>2, <4>3 DEF ForgetsAsk
      <4> QED
        BY <4>4 DEF TendedNext
    <3> QED
      BY <3>1, <3>2
  <2>3. ASSUME EndsTask(t)
        PROVE  TendedNext(n)
    <3> DEFINE stale == {p \in proxyOf : Asker[p[1]] = t}
    <3>1. CASE proxyOf' = proxyOf
      BY <1>2, <3>1
    <3>2. CASE /\ proxyOf' = proxyOf \ stale
               /\ job' = [kind |-> "deny_read", left |-> {p[2] : p \in stale}]
      <4>1. CASE <<proxies[n], n>> \in stale
        <5>1. n \in job'.left /\ job'.kind = "deny_read"
          BY <3>2, <4>1
        <5> QED
          BY <5>1 DEF TendedNext
      <4>2. CASE <<proxies[n], n>> \notin stale
        BY <1>0, <1>1, <3>2, <4>2 DEF TendedNext
      <4> QED
        BY <4>1, <4>2
    <3> QED
      BY <2>3, <3>1, <3>2 DEF EndsTask
  <2> QED
    BY <1>2, <1>3, <2>1, <2>2, <2>3, Handled DEF Handles, ShowsAsk
<1>4. ASSUME NEW e \in Externals, HearsEnd(e)
      PROVE  TendedNext(n)
  BY <1>2, <1>4 DEF HearsEnd, HandleExternal
<1>5. ASSUME NEW m \in DOMAIN proxies, HearsVerdict(m)
      PROVE  TendedNext(n)
  <2>1. m # n
    BY <1>5 DEF HearsVerdict, Told
  <2>2. <<proxies[n], n>> \in proxyOf'
    BY <1>1, <1>5, <2>1 DEF HearsVerdict, HandleVerdict
  <2> QED
    BY <1>0, <2>2 DEF TendedNext
<1> QED
  BY <1>3, <1>4, <1>5, Handlers

\* So does every step of a job.
LEMMA JobsTend ==
  ASSUME IInv, [Next]_vars, JobStep, NEW n \in DOMAIN proxies, ~Told(n)
  PROVE  TendedNext(n)
<1>0. TypeOK /\ FilesGrow
  BY FilesType DEF IInv
<1>1. verdicts[n] = <<>>
  BY DEF Told
<1>2. Undecided(n)
  BY <1>1 DEF Undecided
<1>3. proxyOf \subseteq proxyOf' /\ proxies'[n] = proxies[n]
  BY <1>0, JobSteps DEF FilesGrow
<1>4. CASE <<proxies[n], n>> \in proxyOf
  BY <1>3, <1>4 DEF TendedNext
<1>5. CASE job.kind = "settle_read" /\ job.proxy = n
  <2>1. job \in [kind : {"settle_read", "settle"}, proxy : DOMAIN proxies, verdict : Verdicts]
    BY <1>0, <1>5 DEF TypeOK, Job, NoJob
  <2>2. job' = [job EXCEPT !.kind = "settle"]
    BY <1>2, <1>5 DEF JobStep, AskParent, ReconcileRead, Reconcile, SettleRead, Settle,
       DenyRead, Deny
  <2>3. job'.kind = "settle" /\ job'.proxy = n
    BY <1>5, <2>1, <2>2
  <2> QED
    BY <2>3 DEF TendedNext
<1>6. CASE job.kind = "settle" /\ job.proxy = n
  <2>1. \/ AppendVerdict(n, job.verdict)
        \/ Fault({proxies[n]})
    BY <1>6 DEF JobStep, AskParent, ReconcileRead, Reconcile, SettleRead, Settle, DenyRead, Deny
  <2>2. job.verdict \in Verdicts
    BY <1>0, <1>6, JobTyped
  <2> QED
    BY <1>0, <1>3, <2>1, <2>2, VerdictAppended DEF Fault, TendedNext
<1>7. CASE job.kind = "deny_read" /\ n \in job.left
  <2>1. job' = [kind |-> "deny", left |-> {m \in job.left : Undecided(m)}]
    BY <1>2, <1>7 DEF JobStep, AskParent, ReconcileRead, Reconcile, SettleRead, Settle,
       DenyRead, Deny
  <2>2. job'.kind = "deny" /\ n \in job'.left
    BY <1>2, <1>7, <2>1
  <2> QED
    BY <2>2 DEF TendedNext
<1>8. CASE job.kind = "deny" /\ n \in job.left
  <2>1. PICK m \in DOMAIN proxies : Deny(m)
    BY <1>8 DEF JobStep, AskParent, ReconcileRead, Reconcile, SettleRead, Settle, DenyRead
  <2>2. CASE m = n
    <3>1. AppendVerdict(n, "denied") \/ Fault({proxies[n]})
      BY <2>1, <2>2 DEF Deny
    <3> QED
      BY <1>0, <1>3, <3>1, VerdictAppended DEF Fault, TendedNext, Verdicts
  <2>3. CASE m # n
    <3>1. job \in [kind : {"deny_read", "deny"}, left : SUBSET (DOMAIN proxies)]
      BY <1>0, <1>8 DEF TypeOK, Job, NoJob
    <3>2. job' = [job EXCEPT !.left = @ \ {m}]
      BY <1>8, <2>1, <2>3 DEF Deny
    <3>3. job'.kind = "deny" /\ n \in job'.left
      BY <1>8, <2>3, <3>1, <3>2
    <3> QED
      BY <3>3 DEF TendedNext
  <2> QED
    BY <2>2, <2>3
<1> QED
  BY <1>4, <1>5, <1>6, <1>7, <1>8 DEF IInv, Tended

LEMMA StepTended ==
  ASSUME IInv, [Next]_vars
  PROVE  Tended'
<1> SUFFICES ASSUME NEW n \in DOMAIN proxies'
             PROVE  TendedNext(n)
  BY DEF Tended, TendedNext, Told
<1>0. TypeOK /\ FilesGrow
  BY FilesType DEF IInv
<1>1. CASE n \notin DOMAIN proxies
  <2>1. JobStep
    BY <1>1, ProxiesOnly
  <2>2. ProxyAdded /\ n = Len(proxies) + 1 /\ proxies'[n] = job.ask
    <3>1. ProxyAdded
      BY <1>1, FileSteps
         DEF FileStep, FilesKept, ChildGrows, ParentGrows, ExternalHeard, fileVars
    <3> QED
      BY <1>0, <1>1, <3>1, ProxyAppended
  <2>3. proxyOf' = proxyOf \union {<<job.ask, Len(proxies) + 1>>}
    <3>1. proxies' # proxies
      BY <1>1
    <3> QED
      BY <2>1, <3>1 DEF JobStep, AskParent, ReconcileRead, Reconcile, SettleRead, Settle,
         DenyRead, Deny, fileVars
  <2> QED
    BY <2>2, <2>3 DEF TendedNext
<1>2. CASE n \in DOMAIN proxies /\ Told(n)
  BY <1>2, ToldKept DEF TendedNext
<1>3. CASE n \in DOMAIN proxies /\ ~Told(n)
  <2>1. CASE ScanEvent \/ Receive
    BY <1>3, <2>1, HandlersTend
  <2>2. CASE JobStep
    BY <1>3, <2>2, JobsTend
  <2>3. CASE job' = job /\ proxyOf' = proxyOf
    BY <1>0, <1>3, <2>3 DEF IInv, Tended, TendedNext, FilesGrow
  <2> QED
    BY <2>1, <2>2, <2>3, PlanSteps
       DEF PlanStep, PlanKept, StartsOver, SchedMoves, TurnEnds, TaskStarts, TaskLost,
           TaskRefused
<1> QED
  BY <1>1, <1>2, <1>3

-----------------------------------------------------------------------------
(* The theorems.                                                           *)

LEMMA InitInv == Init => IInv
<1> SUFFICES ASSUME Init
             PROVE  IInv
  OBVIOUS
<1>1. TypeOK
  <2>1. {} \in SUBSET Tasks
    OBVIOUS
  <2>2. scan \in [rest : SUBSET Tasks, task : Tasks \union {None}, next : Nat \ {0}, top : Nat]
        /\ scan.task = None
    BY <2>1, ChildrenTyped DEF Init
  <2>3. log \in [Tasks -> Seq(Event)] /\ proxies \in Seq(Asks) /\ DOMAIN proxies = {}
        /\ verdicts \in Seq(Seq(Verdicts)) /\ Len(verdicts) = Len(proxies)
        /\ chan \in Seq((Tasks \union Externals \union {Parent}) \X Nat) /\ DOMAIN chan = {}
    BY DEF Init
  <2>4. client \in [Clients -> Call] /\ \A c \in Clients : client[c].at = "idle"
    BY DEF Init, Call, NoCall
  <2>5. job \in Job /\ faults \in 0..MaxFaults
    BY LimitAssumption DEF Init, Job
  <2>6. lastSeq \in [Tasks -> Nat] /\ \A t \in Tasks : lastSeq[t] <= Len(log[t])
    BY DEF Init
  <2> QED
    BY <2>2, <2>3, <2>4, <2>5, <2>6, ExternalsAssumption DEF Init, TypeOK
<1>2. TurnsFit /\ StartsAfterDeps
  BY DEF Init, TurnsFit, StatusIsTrue, StartsAfterDeps
<1>3. SlotsKept
  <2>1. Running \union Lost = {}
    BY DEF Init, Running, Lost
  <2>2. Cardinality(Running \union Lost) = 0 /\ Cardinality(Found) \in Nat
    BY <2>1, FS_EmptySet, FS_Subset, FS_CardinalityType, ExternalsAssumption
  <2>3. MaxConcurrent = 0 \/ Cardinality(Running \union Lost) + Cardinality(external) <= MaxConcurrent
    BY <2>2, ExternalsAssumption, LimitAssumption DEF Init
  <2> QED
    BY <2>3 DEF Init, SlotsKept
<1>4. OneProxy /\ ProxiesFit /\ ForwardsFit /\ Tended
  BY DEF Init, OneProxy, ProxiesFit, ForwardsFit, Tended, NoJob, NoCall
<1> QED
  BY <1>1, <1>2, <1>3, <1>4 DEF IInv

\* Every reachable state keeps the whole invariant: no step of a child, a client, the
\* scheduler or a fault breaks it.
THEOREM Invariance == Spec => []IInv
<1>1. IInv /\ [Next]_vars => IInv'
  BY StepType, StepTurnsFit, StepStartsAfterDeps, StepSlotsKept, StepOneProxy,
     StepProxiesFit, StepForwardsFit, StepTended DEF IInv
<1> QED
  BY InitInv, <1>1, PTL DEF Spec

\* Every variable keeps to its type, and every line and job is about what is on record.
THEOREM TypeCorrect == Spec => []TypeOK
<1>1. IInv => TypeOK
  BY DEF IInv
<1> QED
  BY Invariance, <1>1, PTL

\* start_turn is called for a task only when the turns of all it depends on completed.
THEOREM DependenciesFirst == Spec => []StartsAfterDeps
<1>1. IInv => StartsAfterDeps
  BY DEF IInv
<1> QED
  BY Invariance, <1>1, PTL

\* The active tasks of a spawn, with those of the others that were counted when it began
\* and have not ended since, are never more than the limit, though the scheduler learns
\* late, or never, of those that ended.  It says nothing of those that start later: they
\* come on top of the limit, as StartExternal has it.
THEOREM LimitIsKept == Spec => []WithinSlots
<1>1. ASSUME IInv
      PROVE  WithinSlots
  <2> DEFINE held == Running \union Lost
  <2>1. Busy \subseteq held /\ counted \subseteq external
    BY <1>1 DEF IInv, TurnsFit, SlotsKept, Running, Lost, Busy
  <2>2. IsFiniteSet(held) /\ IsFiniteSet(external)
        /\ Cardinality(held) \in Nat /\ Cardinality(external) \in Nat
    BY <1>1, FiniteSlots DEF IInv
  <2>3. /\ Cardinality(Busy) <= Cardinality(held) /\ IsFiniteSet(Busy)
        /\ Cardinality(counted) <= Cardinality(external) /\ IsFiniteSet(counted)
    BY <2>1, <2>2, FS_Subset
  <2>4. Cardinality(Busy) \in Nat /\ Cardinality(counted) \in Nat
    BY <2>3, FS_CardinalityType
  <2>5. MaxConcurrent = 0 \/ Cardinality(held) + Cardinality(external) <= MaxConcurrent
    BY <1>1 DEF IInv, SlotsKept
  <2>6. MaxConcurrent \in Nat
    BY LimitAssumption
  <2>7. MaxConcurrent = 0 \/ Cardinality(Busy) + Cardinality(counted) <= MaxConcurrent
    <3> HIDE DEF held
    <3> QED
      BY <2>2, <2>3, <2>4, <2>5, <2>6
  <2> QED
    BY <2>7 DEF WithinSlots
<1> QED
  BY Invariance, <1>1, PTL

\* The status that agent_spawn and agent_inspect report of a task is that of its turn.
THEOREM StatusesAreTrue == Spec => []StatusIsTrue
<1>1. IInv => StatusIsTrue
  BY DEF IInv, TurnsFit
<1> QED
  BY Invariance, <1>1, PTL

\* However often ApprovalRequested of a child is handled, the parent shows it once.
THEOREM ProxiesAreUnique == Spec => []OneProxy
<1>1. IInv => OneProxy
  BY DEF IInv
<1> QED
  BY Invariance, <1>1, PTL

\* When the scheduler returns, no proxy waits for a decision that nobody will bring.
THEOREM NothingIsLeft == Spec => []NothingLeft
<1>1. ASSUME IInv
      PROVE  NothingLeft
  <2> SUFFICES ASSUME sched = "exit", NEW n \in DOMAIN proxies
               PROVE  Told(n)
    BY DEF NothingLeft, Told
  <2>1. job = NoJob /\ Settled /\ proxies[n] \in Asks
    BY <1>1 DEF IInv, ProxiesFit, TypeOK
  <2>2. <<proxies[n], n>> \notin proxyOf
    BY <1>1, <2>1, AskerAssumption DEF IInv, ProxiesFit, Settled
  <2> QED
    BY <1>1, <2>1, <2>2 DEF IInv, Tended, NoJob
<1> QED
  BY Invariance, <1>1, PTL

-----------------------------------------------------------------------------
(* The scheduler implements TaskSchedule.                                  *)

\* mark_dependency_blocked_tasks fails a task only with one that it depends on.
LEMMA BlockedByFailed ==
  ASSUME NEW s \in [Tasks -> {"pending", "running", "done", "failed"}],
         NEW t \in Tasks, MarkBlocked(s)[t] # s[t]
  PROVE  /\ s[t] = "pending" /\ MarkBlocked(s)[t] = "failed"
         /\ \E d \in Deps[t] : MarkBlocked(s)[d] = "failed"
<1>1. t \in Blocked(s) /\ s[t] = "pending" /\ MarkBlocked(s)[t] = "failed"
  BY DEF MarkBlocked, Blocked
<1>2. SUFFICES ASSUME \A d \in Deps[t] : d \notin FailedIn(s) \union Blocked(s)
               PROVE  FALSE
  <2>1. \A d \in Deps[t] : d \in Tasks
    BY DepsAssumption
  <2> QED
    BY <1>1, <2>1 DEF MarkBlocked, FailedIn
<1> DEFINE F == (FailedIn(s) \union Blocked(s)) \ {t}
<1>3. F \in SUBSET Tasks /\ FailedIn(s) \subseteq F
  BY <1>1 DEF FailedIn, Blocked
<1>4. ASSUME NEW u \in Tasks, s[u] = "pending", Deps[u] \cap F # {}
      PROVE  u \in F
  <2>1. u # t
    BY <1>2, <1>4
  <2>2. PICK d \in Deps[u] : d \in FailedIn(s) \/ d \in Blocked(s)
    BY <1>4
  <2>3. ASSUME NEW G \in SUBSET Tasks, FailedIn(s) \subseteq G, Closed(s, G)
        PROVE  u \in G
    <3>1. d \in G
      BY <2>2, <2>3 DEF Blocked
    <3> QED
      BY <1>4, <2>3, <3>1 DEF Closed
  <2>4. u \in Blocked(s)
    BY <1>4, <2>3 DEF Blocked
  <2> QED
    BY <2>1, <2>4
<1>5. Closed(s, F)
  <2> HIDE DEF F
  <2> QED
    BY <1>4 DEF Closed
<1>6. t \in F
  <2> HIDE DEF F
  <2> QED
    BY <1>1, <1>3, <1>5 DEF Blocked
<1> QED
  BY <1>6

\* A slot that the scheduler believes in is there.
LEMMA SlotIsFree ==
  ASSUME IInv, sched # "dead", HasSlot
  PROVE  Schedule!RoomLeft
<1>1. Busy \subseteq Running /\ counted \subseteq external
  BY DEF IInv, TurnsFit, SlotsKept, Running, Busy
<1>2. IsFiniteSet(Running) /\ IsFiniteSet(external)
  <2>1. TypeOK /\ Running \subseteq Running \union Lost
    BY DEF IInv
  <2> QED
    BY <2>1, FiniteSlots, FS_Subset
<1>3. /\ Cardinality(Busy) <= Cardinality(Running) /\ IsFiniteSet(Busy)
      /\ Cardinality(counted) <= Cardinality(external) /\ IsFiniteSet(counted)
  BY <1>1, <1>2, FS_Subset
<1>4. /\ Cardinality(Busy) \in Nat /\ Cardinality(counted) \in Nat
      /\ Cardinality(Running) \in Nat /\ Cardinality(external) \in Nat
  BY <1>2, <1>3, FS_CardinalityType
<1>5. MaxConcurrent = 0 \/ Cardinality(Busy) + Cardinality(counted) < MaxConcurrent
  <2>1. MaxConcurrent = 0 \/ Cardinality(Running) + Cardinality(external) < MaxConcurrent
    BY DEF HasSlot
  <2> QED
    BY <1>3, <1>4, <2>1, LimitAssumption
<1> QED
  BY <1>5 DEF Busy, Schedule!RoomLeft, Schedule!Busy, Schedule!Cardinality, Cardinality

\* What a task that is ready waits for has completed.
LEMMA ReadyMayStart ==
  ASSUME IInv, sched # "dead", NEW t \in Tasks, Ready(t)
  PROVE  /\ status[t] = "pending" /\ turn[t] = "none"
         /\ \A d \in Deps[t] : status[d] = "done" /\ turn[d] = "completed"
<1>1. \A d \in Deps[t] : d \in Tasks
  BY DepsAssumption
<1> QED
  BY <1>1, ReadyIsFresh DEF Ready, IInv, TurnsFit, StatusIsTrue

\* The statuses that the marking of blocked tasks changes are told in vain.
LEMMA MarkingTells ==
  ASSUME IInv, sched # "dead",
         NEW s \in [Tasks -> {"pending", "running", "done", "failed"}],
         status' = MarkBlocked(s), NEW t \in Tasks, status[t] = s[t]
  PROVE  status'[t] = status[t] \/ (status'[t] = "failed" /\ Schedule!InVain(t))
<1> SUFFICES ASSUME status'[t] # status[t]
             PROVE  status'[t] = "failed" /\ Schedule!InVain(t)
  OBVIOUS
<1>1. /\ status[t] = "pending" /\ status'[t] = "failed"
      /\ \E d \in Deps[t] : status'[d] = "failed"
  BY BlockedByFailed
<1>2. turn[t] = "none"
  BY <1>1 DEF IInv, TurnsFit, StatusIsTrue
<1> QED
  BY <1>1, <1>2 DEF Schedule!InVain

\* The handling of an event tells what it says of its task, and what follows for others.
LEMMA HandlingTells ==
  ASSUME IInv, sched # "dead", UNCHANGED childVars,
         NEW t \in Tasks, NEW i \in DOMAIN log[t], Handles(t, i)
  PROVE  Schedule!Tell \/ UNCHANGED Schedule!vars
<1> DEFINE e == log[t][i]
<1>1. /\ TypeOK /\ Genuine(t, e) /\ HandleChild(t, e)
      /\ status \in [Tasks -> {"pending", "running", "done", "failed"}]
  BY OnRecord DEF Handles, IInv, TypeOK
<1>2. CASE status' = status
  BY <1>2 DEF Schedule!vars, childVars
<1>3. CASE /\ e.kind = "ended" /\ status[t] = "running"
           /\ status' = MarkBlocked([status EXCEPT ![t] = Outcome(e.ok)])
  <2> DEFINE s == [status EXCEPT ![t] = Outcome(e.ok)]
  <2>1. /\ s \in [Tasks -> {"pending", "running", "done", "failed"}]
        /\ \A u \in Tasks \ {t} : s[u] = status[u]
        /\ s[t] = Outcome(e.ok) /\ s[t] \in {"done", "failed"}
    BY <1>1 DEF Outcome
  <2> HIDE DEF s
  <2>2. status' = MarkBlocked(s)
    BY <1>3 DEF s
  <2>3. status' \in [Tasks -> Schedule!Statuses]
    BY <2>1, <2>2, Marked DEF Schedule!Statuses
  <2>4. status'[t] = Outcome(e.ok)
    BY <2>1, <2>2, BlockedByFailed
  <2>5. turn[t] = IF e.ok THEN "completed" ELSE "stopped"
    BY <1>1, <1>3 DEF Genuine
  <2>6. ASSUME NEW u \in Tasks \ {t}
        PROVE  status'[u] = status[u] \/ (status'[u] = "failed" /\ Schedule!InVain(u))
    BY <2>1, <2>2, MarkingTells
  <2>7. \/ status'[t] = "done" /\ status[t] = "running" /\ turn[t] = "completed"
        \/ status'[t] = "failed" /\ status[t] = "running" /\ turn[t] = "stopped"
    BY <1>3, <2>4, <2>5 DEF Outcome
  <2> HIDE DEF e
  <2> QED
    BY <2>3, <2>6, <2>7 DEF Schedule!Tell, childVars
<1> QED
  BY <1>1, <1>2, <1>3 DEF HandleChild, HandleAsked, HandleDecided, HandleEnded, Ignore

\* Only the end of another subagent changes who is counted: one that starts is not.
LEMMA LiveStays ==
  ASSUME IInv, [Next]_vars
  PROVE  counted' = counted \/ \E e \in Externals : e \in counted /\ EndExternal(e)
<1>1. CASE ScanEvent \/ Receive
  BY <1>1, Handlers DEF HandlerFrame, childVars
<1>2. CASE Start \/ DropSpawn \/ Overwrite \/ Subscribe \/ CatchUp
  BY <1>2 DEF Start, StartTask, StartOnPool, RefuseTask, EndStarts, DropSpawn,
     Overwrite, Subscribe, CatchUp, childVars
<1>3. CASE CloseChild \/ EndScan \/ \E t \in Tasks : OpenChild(t)
  BY <1>3 DEF CloseChild, EndScan, OpenChild, childVars
<1>4. CASE JobStep
  BY <1>4 DEF JobStep, AskParent, ReconcileRead, Reconcile, SettleRead, Settle,
     DenyRead, Deny, JobFrame, childVars
<1>5. CASE \/ \E a \in Asks : Ask(a)
           \/ \E t \in Tasks, ok \in BOOLEAN : EndTurn(t, ok)
           \/ \E n \in DOMAIN proxies : RecoverParent(n)
           \/ UNCHANGED vars
  BY <1>5 DEF Ask, EndTurn, RecoverParent, vars, childVars
<1>6. ASSUME NEW c \in Clients,
             \/ ClientStep(c) \/ ClientFails(c)
             \/ \E v \in Answers : \/ \E n \in DOMAIN proxies : DecideProxy(c, n, v)
                                   \/ \E a \in Asks : DecideChild(c, a, v)
      PROVE  counted' = counted
  BY <1>6 DEF ClientStep, ClientChild, ClientParent, ClientFails, DecideProxy,
     DecideChild, childVars
<1>7. ASSUME NEW e \in Externals, EndExternal(e) \/ StartExternal(e)
      PROVE  counted' = counted \/ (e \in counted /\ EndExternal(e))
  BY <1>7 DEF EndExternal, StartExternal
<1> QED
  BY <1>1, <1>2, <1>3, <1>4, <1>5, <1>6, <1>7 DEF Next, SchedulerStep, Scan, ClientStep

\* A step of the scheduler, or of a child, is one of the schedule.
LEMMA PlanMaps ==
  ASSUME IInv, [Next]_vars, counted' = counted
  PROVE  Schedule!Next \/ UNCHANGED Schedule!vars
<1>0. /\ TypeOK /\ status \in [Tasks -> {"pending", "running", "done", "failed"}]
      /\ turn \in [Tasks -> {"none", "active", "completed", "stopped", "lost"}]
  BY DEF IInv, TypeOK
<1>1. CASE PlanKept \/ SchedMoves
  BY <1>1 DEF PlanKept, SchedMoves, Schedule!vars
<1>2. CASE StartsOver
  <2>1. sched # "dead" /\ status' = MarkBlocked(status) /\ turn' = turn
    BY <1>2 DEF StartsOver, Starting
  <2>2. \A t \in Tasks :
          status'[t] = status[t] \/ (status'[t] = "failed" /\ Schedule!InVain(t))
    BY <1>0, <2>1, MarkingTells
  <2>3. status' \in [Tasks -> Schedule!Statuses]
    BY <1>0, <2>1, Marked DEF Schedule!Statuses
  <2>4. Schedule!Tell
    BY <2>1, <2>2, <2>3 DEF Schedule!Tell
  <2> QED
    BY <2>4 DEF Schedule!Next
<1>3. ASSUME NEW t \in Tasks, NEW ok \in BOOLEAN, TurnEnds(t, ok)
      PROVE  Schedule!End(t)
  BY <1>3 DEF TurnEnds, Schedule!End
<1>4. ASSUME NEW t \in Tasks, TaskStarts(t) \/ TaskLost(t)
      PROVE  Schedule!Start(t)
  <2>1. sched # "dead" /\ Ready(t) /\ HasSlot
    BY <1>4 DEF TaskStarts, TaskLost
  <2>2. Schedule!RoomLeft
    BY <2>1, SlotIsFree
  <2> QED
    BY <1>4, <2>1, <2>2, ReadyMayStart DEF TaskStarts, TaskLost, Schedule!Start
<1>5. ASSUME NEW t \in Tasks, TaskRefused(t)
      PROVE  Schedule!Tell
  <2>1. sched # "dead" /\ Ready(t)
    BY <1>5 DEF TaskRefused, Starting
  <2>2. status'[t] = "failed" /\ Schedule!InVain(t)
    BY <1>0, <1>5, <2>1, ReadyMayStart DEF TaskRefused, Schedule!InVain
  <2>3. status' \in [Tasks -> Schedule!Statuses]
        /\ \A u \in Tasks : u # t => status'[u] = status[u]
    BY <1>0, <1>5 DEF TaskRefused, Schedule!Statuses
  <2> QED
    BY <1>5, <2>2, <2>3 DEF TaskRefused, Schedule!Tell
<1>6. CASE ScanEvent \/ Receive
  <2>1. UNCHANGED childVars /\ sched # "dead"
    BY <1>6, Handlers DEF HandlerFrame
  <2>2. ASSUME NEW t \in Tasks, NEW i \in DOMAIN log[t], Handles(t, i)
        PROVE  Schedule!Tell \/ UNCHANGED Schedule!vars
    BY <2>1, <2>2, HandlingTells
  <2>3. ASSUME status' = status
        PROVE  UNCHANGED Schedule!vars
    BY <2>1, <2>3 DEF childVars, Schedule!vars
  <2> QED
    BY <1>6, <2>2, <2>3, Handlers
       DEF HearsEnd, HandleExternal, HearsVerdict, HandleVerdict, Schedule!Next
<1>7. CASE JobStep
  BY <1>7, JobSteps DEF Schedule!vars
<1> QED
  BY <1>1, <1>2, <1>3, <1>4, <1>5, <1>6, <1>7, PlanSteps DEF PlanStep, Schedule!Next

\* The scheduler runs and settles tasks as TaskSchedule says, though the channel loses
\* lines, catch-ups repeat them, and start_turn panics on the pool.
THEOREM SchedulerKeepsSchedule == Spec => ImplementsTaskSchedule
<1>1. Init => Schedule!Init
  BY ExternalsAssumption DEF Init, Schedule!Init
<1>2. IInv /\ [Next]_vars => [Schedule!Next]_Schedule!vars
  <2>1. ASSUME IInv, [Next]_vars, NEW e \in Externals, e \in counted,
               EndExternal(e)
        PROVE  Schedule!Next
    BY <2>1 DEF EndExternal, scheduleVars, Schedule!EndOther, Schedule!Next
  <2> QED
    BY <2>1, LiveStays, PlanMaps
<1> QED
  BY <1>1, <1>2, Invariance, PTL DEF Spec, ImplementsTaskSchedule, Schedule!Spec
=============================================================================
