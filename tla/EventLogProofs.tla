--------------------------- MODULE EventLogProofs ---------------------------
(***************************************************************************)
(* Proofs about EventLog, for any handles, payloads and file length.       *)
(***************************************************************************)
EXTENDS EventLog, SequenceTheorems, TLAPS

USE HandlesAssumption, KindsAssumption, MaxLinesAssumption

\* A text is nothing, a torn piece or a record, and these exclude each other.
LEMMA TextKinds ==
  /\ Empty \in Texts /\ Torn \in Texts
  /\ Empty \notin Records /\ Torn \notin Records /\ Empty # Torn
  /\ Empty.t = "empty" /\ Torn.t = "torn"
  /\ \A x \in Records : x \in Texts /\ x.t = "rec" /\ x # Empty /\ x # Torn
  /\ \A x \in Texts : x.t = "rec" => x \in Records
<1>1. /\ Empty.t = "empty" /\ Torn.t = "torn"
      /\ \A x \in Records : x.t = "rec"
  BY DEF Empty, Torn, Records
<1>2. /\ Empty \in Texts /\ Torn \in Texts /\ \A x \in Records : x \in Texts
  BY DEF Texts
<1>3. \A x \in Texts : x.t = "rec" => x \in Records
  BY <1>1 DEF Texts
<1> QED BY <1>1, <1>2, <1>3

LEMMA RecIsRecord ==
  ASSUME NEW n \in Nat, NEW k \in Kinds
  PROVE  /\ Rec(n, k) \in Records
         /\ Rec(n, k).seq = n
         /\ Rec(n, k) \in Texts
  BY DEF Rec, Records, Texts

\* The scan is determined by any position that satisfies its definition.
LEMMA ScannedUnique ==
  ASSUME NEW c, Len(c) \in Nat,
         NEW n \in 0..Len(c),
         \A i \in 1..n : Good(c, i),
         n < Len(c) => ~Good(c, n + 1)
  PROVE  Scanned(c) = n
<1> DEFINE P(m) == /\ \A i \in 1..m : Good(c, i)
                   /\ m < Len(c) => ~Good(c, m + 1)
<1>1. P(n)
  OBVIOUS
<1>2. Scanned(c) = CHOOSE m \in 0..Len(c) : P(m)
  BY DEF Scanned
<1> HIDE DEF P
<1>3. Scanned(c) \in 0..Len(c) /\ P(Scanned(c))
  BY <1>1, <1>2
<1> DEFINE s == Scanned(c)
<1> HIDE DEF s
<1>4. s \in 0..Len(c) /\ P(s)
  BY <1>3 DEF s
<1>5. ~ (s < n)
  <2>1. SUFFICES ASSUME s < n PROVE FALSE
    OBVIOUS
  <2>2. ~Good(c, s + 1)
    BY <1>4, <2>1 DEF P
  <2>3. s + 1 \in 1..n
    BY <1>4, <2>1
  <2> QED BY <2>2, <2>3
<1>6. ~ (n < s)
  <2>1. SUFFICES ASSUME n < s PROVE FALSE
    OBVIOUS
  <2>2. n + 1 \in 1..s /\ n < Len(c)
    BY <1>4, <2>1
  <2>3. Good(c, n + 1)
    BY <1>4, <2>2 DEF P
  <2> QED BY <2>2, <2>3
<1>7. s = n
  BY <1>4, <1>5, <1>6
<1> QED BY <1>7 DEF s

\* On a log in the invariant, the scan accepts everything but a torn tail.
LEMMA ScannedWhole ==
  ASSUME IInv
  PROVE  /\ Scanned(Content) = Whole
         /\ Whole \in Nat
         /\ Len(lines) \in Nat
         /\ tail \in Records => Content = Append(lines, tail)
         /\ tail = Empty => Content = lines
         /\ \A i \in 1..Len(lines) : Content[i] = lines[i]
         /\ \A i \in 1..Whole : Content[i] \in Records /\ Content[i].seq = i
         /\ Readable
<1> USE DEF IInv, TypeOK
<1>0. lines \in Seq(Texts) /\ Len(lines) \in Nat /\ tail \in Texts
  OBVIOUS
<1>1. tail = Empty \/ tail = Torn \/ tail \in Records
  BY <1>0 DEF Texts
<1>2. \A i \in 1..Len(lines) : lines[i] \in Records /\ lines[i].seq = i /\ lines[i].t = "rec"
  BY TextKinds DEF LinesNumbered
<1>3. CASE tail = Empty
  <2>1. Content = lines /\ Whole = Len(lines)
    BY <1>3, TextKinds DEF Content, Whole
  <2>2. Scanned(Content) = Len(lines)
    <3>1. \A i \in 1..Len(lines) : Good(Content, i)
      BY <1>2, <2>1 DEF Good
    <3>2. /\ Len(Content) \in Nat
          /\ Len(lines) \in 0..Len(Content)
          /\ Len(lines) < Len(Content) => ~Good(Content, Len(lines) + 1)
      BY <1>0, <2>1
    <3> QED BY <3>1, <3>2, ScannedUnique
  <2> QED BY <1>0, <1>2, <1>3, <2>1, <2>2, TextKinds DEF Readable
<1>4. CASE tail = Torn
  <2>1. Content = Append(lines, Torn) /\ Whole = Len(lines)
    BY <1>4, TextKinds DEF Content, Whole
  <2>2. /\ Len(Content) = Len(lines) + 1
        /\ Content[Len(lines) + 1] = Torn
        /\ \A i \in 1..Len(lines) : Content[i] = lines[i]
    BY <1>0, <2>1, TextKinds
  <2>3. Scanned(Content) = Len(lines)
    <3>1. ~Good(Content, Len(lines) + 1)
      BY <2>2, TextKinds DEF Good
    <3>2. \A i \in 1..Len(lines) : Good(Content, i)
      BY <1>2, <2>2 DEF Good
    <3>3. Len(lines) \in 0..Len(Content) /\ Len(Content) \in Nat
      BY <1>0, <2>2
    <3> QED BY <3>1, <3>2, <3>3, ScannedUnique
  <2> QED BY <1>0, <1>2, <1>4, <2>1, <2>2, <2>3, TextKinds DEF Readable
<1>5. CASE tail \in Records
  <2>1. Content = Append(lines, tail) /\ Whole = Len(lines) + 1
    BY <1>5, TextKinds DEF Content, Whole
  <2>2. /\ Len(Content) = Len(lines) + 1
        /\ Content[Len(lines) + 1] = tail
        /\ \A i \in 1..Len(lines) : Content[i] = lines[i]
    BY <1>0, <2>1
  <2>3. \A i \in 1..Len(lines) + 1 : Content[i] \in Records /\ Content[i].seq = i /\ Content[i].t = "rec"
    BY <1>0, <1>2, <1>5, <2>2, TextKinds DEF TailIsNext
  <2>4. Scanned(Content) = Len(lines) + 1
    <3>1. \A i \in 1..Len(lines) + 1 : Good(Content, i)
      BY <2>3 DEF Good
    <3>2. /\ Len(Content) \in Nat
          /\ Len(lines) + 1 \in 0..Len(Content)
          /\ Len(lines) + 1 < Len(Content) => ~Good(Content, Len(lines) + 1 + 1)
      BY <1>0, <2>2
    <3> QED BY <3>1, <3>2, ScannedUnique
  <2> QED BY <1>0, <1>5, <2>1, <2>2, <2>3, <2>4, TextKinds DEF Readable
<1> QED BY <1>1, <1>3, <1>4, <1>5

\* What a replay of the file gives.
ReplayFacts ==
  /\ Replay \in Seq(Records)
  /\ Len(Replay) = Whole
  /\ tail \in Records => Replay = Append(lines, tail)
  /\ tail \notin Records => Replay = lines
  /\ lines \in Seq(Texts) /\ tail \in Texts /\ Len(lines) \in Nat

LEMMA ReplayIs == IInv => ReplayFacts
<1> SUFFICES ASSUME IInv PROVE ReplayFacts
  OBVIOUS
<1>1. /\ lines \in Seq(Texts) /\ tail \in Texts /\ Len(lines) \in Nat
      /\ tail \in Records \union {Empty, Torn}
  BY DEF IInv, TypeOK, Texts
<1>2. lines \in Seq(Records)
  BY <1>1 DEF IInv, LinesNumbered
<1>3. CASE tail \in Records
  <2>1. Content = Append(lines, tail) /\ Scanned(Content) = Len(lines) + 1
    BY <1>3, ScannedWhole DEF Whole
  <2>2. Content \in Seq(Records) /\ Len(Content) = Len(lines) + 1
    BY <1>1, <1>2, <1>3, <2>1
  <2>3. Events(Content) = Content
    BY <2>1, <2>2 DEF Events
  <2> QED BY <1>1, <1>3, <2>1, <2>2, <2>3 DEF Replay, Whole, ReplayFacts
<1>4. CASE tail = Empty
  <2>1. Content = lines /\ Scanned(Content) = Len(lines)
    BY <1>4, ScannedWhole, TextKinds DEF Whole
  <2>2. Events(Content) = lines
    BY <1>1, <1>2, <2>1 DEF Events
  <2> QED BY <1>1, <1>2, <1>4, <2>2, TextKinds DEF Replay, Whole, ReplayFacts
<1>5. CASE tail = Torn
  <2>1. Content = Append(lines, Torn) /\ Scanned(Content) = Len(lines)
    BY <1>5, ScannedWhole, TextKinds DEF Whole, Content
  <2>2. Events(Content) = lines
    BY <1>1, <1>2, <2>1, TextKinds DEF Events
  <2> QED BY <1>1, <1>2, <1>5, <2>2, TextKinds DEF Replay, Whole, ReplayFacts
<1> QED BY <1>1, <1>3, <1>4, <1>5

LEMMA ReplayIsNext == IInv' => ReplayFacts'
  BY ReplayIs, PTL

\* The invariant implies the properties the runs check.
LEMMA IInvImplies ==
  ASSUME IInv
  PROVE  LogReadable /\ AckedDurable /\ MemoryIsReplay /\ DeliveredIsPrefix
<1>1. LogReadable
  BY ScannedWhole DEF LogReadable
<1>2. AckedDurable
  BY DEF IInv
<1>3. MemoryIsReplay
  BY ScannedWhole DEF MemoryIsReplay, IInv, HandlesAgree, Settled
<1>4. DeliveredIsPrefix
  BY ScannedWhole DEF DeliveredIsPrefix, IInv, DeliveredWhole
<1> QED BY <1>1, <1>2, <1>3, <1>4

LEMMA InitInv == Init => IInv
<1> SUFFICES ASSUME Init PROVE IInv
  OBVIOUS
<1>1. TypeOK
  BY TextKinds DEF Init, TypeOK, Phases
<1>2. LinesNumbered /\ TailIsNext /\ LockHeld /\ synced <= Len(lines) /\ AckedDurable
  BY TextKinds DEF Init, LinesNumbered, TailIsNext, LockHeld, AckedDurable
<1>3. HandlesAgree
  BY DEF Init, HandlesAgree, Opened, Settled, Writing, InAppend
<1>4. DeliveredWhole
  BY TextKinds DEF Init, DeliveredWhole, Whole
<1> QED BY <1>1, <1>2, <1>3, <1>4 DEF IInv

-----------------------------------------------------------------------------
(* The file.                                                               *)

\* The ways a step changes the file: not at all, by starting or cutting off
\* the line after the last newline, or by ending a whole one.
FileGrows ==
  \/ UNCHANGED <<lines, tail>>
  \/ /\ lines' = lines
     /\ tail \in {Empty, Torn}
     /\ \/ tail' \in {Empty, Torn}
        \/ tail' \in Records /\ tail'.seq = Len(lines) + 1
  \/ /\ tail \in Records
     /\ lines' = Append(lines, tail)
     /\ tail' = Empty

LEMMA FileInv ==
  ASSUME IInv, FileGrows, UNCHANGED <<synced, acked, delivered>>
  PROVE  /\ lines' \in Seq(Texts) /\ tail' \in Texts
         /\ LinesNumbered' /\ TailIsNext'
         /\ synced' <= Len(lines') /\ AckedDurable' /\ DeliveredWhole'
<1> USE DEF IInv, TypeOK
<1>0. lines \in Seq(Texts) /\ Len(lines) \in Nat /\ tail \in Texts /\ delivered \in Seq(Records)
  OBVIOUS
<1>1. Whole \in Nat /\ Len(delivered) <= Whole
      /\ \A i \in 1..Len(delivered) : delivered[i] = Content[i]
  BY ScannedWhole DEF DeliveredWhole
<1>2. CASE UNCHANGED <<lines, tail>>
  BY <1>2 DEF LinesNumbered, TailIsNext, AckedDurable, DeliveredWhole, Whole, Content
<1>3. CASE /\ lines' = lines
           /\ tail \in {Empty, Torn}
           /\ \/ tail' \in {Empty, Torn}
              \/ tail' \in Records /\ tail'.seq = Len(lines) + 1
  <2>1. lines' \in Seq(Texts) /\ tail' \in Texts
    BY <1>3, TextKinds
  <2>2. LinesNumbered' /\ TailIsNext' /\ synced' <= Len(lines') /\ AckedDurable'
    BY <1>3, TextKinds DEF LinesNumbered, TailIsNext, AckedDurable
  <2>3. Whole = Len(lines) /\ Whole' >= Len(lines)
    BY <1>0, <1>3, TextKinds DEF Whole
  <2>4. \A i \in 1..Len(lines) : Content[i] = lines[i]
    BY ScannedWhole
  <2>5. \A i \in 1..Len(lines) : Content'[i] = lines[i]
    BY <1>0, <1>3, <2>1 DEF Content
  <2>6. DeliveredWhole'
    BY <1>0, <1>1, <2>3, <2>4, <2>5 DEF DeliveredWhole, Whole
  <2> QED BY <2>1, <2>2, <2>6
<1>4. CASE tail \in Records /\ lines' = Append(lines, tail) /\ tail' = Empty
  <2>1. /\ lines' \in Seq(Texts) /\ tail' \in Texts
        /\ Len(lines') = Len(lines) + 1
        /\ lines'[Len(lines) + 1] = tail
        /\ \A i \in 1..Len(lines) : lines'[i] = lines[i]
    BY <1>0, <1>4, TextKinds
  <2>2. LinesNumbered' /\ TailIsNext'
    BY <1>0, <1>4, <2>1, TextKinds DEF LinesNumbered, TailIsNext
  <2>3. synced' <= Len(lines') /\ AckedDurable'
    <3>1. synced' <= Len(lines')
      BY <1>0, <2>1
    <3>2. ASSUME NEW r \in acked
          PROVE  r.seq \in 1..synced' /\ r.seq <= Len(lines') /\ lines'[r.seq] = r
      <4>1. r.seq \in 1..synced /\ r.seq <= Len(lines) /\ lines[r.seq] = r
        BY DEF AckedDurable
      <4>2. r.seq \in 1..Len(lines)
        BY <1>0, <4>1
      <4> QED BY <1>0, <2>1, <4>1, <4>2
    <3> QED BY <3>1, <3>2 DEF AckedDurable
  <2>4. Content' = Content /\ Whole' = Whole
    BY <1>0, <1>4, <2>1, TextKinds, ScannedWhole DEF Content, Whole
  <2>5. DeliveredWhole'
    BY <2>4 DEF DeliveredWhole
  <2> QED BY <2>1, <2>2, <2>3, <2>5
<1> QED BY <1>2, <1>3, <1>4 DEF FileGrows

\* What an append writes is an event with the handle's next number.
LEMMA InFlightRecord ==
  ASSUME IInv, NEW h \in Handles, pc[h] \in InAppend
  PROVE  InFlight(h) \in Records /\ InFlight(h).seq = nextSeq[h]
<1>1. pend[h] \in Kinds
  BY DEF IInv, HandlesAgree, Writing
<1>2. nextSeq[h] \in Nat
  BY DEF IInv, TypeOK
<1> QED BY <1>1, <1>2, RecIsRecord DEF InFlight

\* Wherever an append stops, it leaves the file in one of those ways.
LEMMA StoppedGrows ==
  ASSUME IInv, NEW h \in Handles, Stopped(h)
  PROVE  FileGrows
<1> USE DEF IInv, TypeOK
<1>1. CASE pc[h] = "line"
  <2>1. tail = Empty /\ InFlight(h) \in Records /\ InFlight(h).seq = Len(lines) + 1
    BY <1>1, InFlightRecord DEF HandlesAgree, Settled, InAppend
  <2>2. lines' = lines /\ tail' \in {Empty, Torn, InFlight(h)}
    BY <1>1, <2>1 DEF Stopped, Join
  <2> QED BY <2>1, <2>2 DEF FileGrows
<1>2. CASE pc[h] = "newline"
  <2>1. tail \in Records
    BY <1>2, InFlightRecord DEF HandlesAgree, Writing, InAppend
  <2> QED BY <1>2, <2>1 DEF Stopped, FileGrows
<1>3. CASE pc[h] \notin {"line", "newline"}
  BY <1>3 DEF Stopped, FileGrows
<1> QED BY <1>1, <1>2, <1>3

\* Only one handle at a time is not closed.
LEMMA OthersClosed ==
  ASSUME IInv, NEW h \in Handles, lock \in {h, NoHandle}
  PROVE  \A g \in Handles \ {h} : pc[g] = "closed"
  BY DEF IInv, LockHeld

LEMMA HolderLocks ==
  ASSUME IInv, NEW h \in Handles, pc[h] # "closed"
  PROVE  lock = h
  BY DEF IInv, LockHeld

\* A closed handle agrees with any file.
LEMMA ClosedAgrees ==
  ASSUME NEW g \in Handles, pc'[g] = "closed"
  PROVE  (Opened(g) /\ Settled(g) /\ Writing(g))'
  BY DEF Opened, Settled, Writing, InAppend

\* A step of the handle that has, takes or gives up the lock keeps the
\* invariant if the file does and that handle still agrees with it.
LEMMA HandleStepInv ==
  ASSUME IInv, NEW h \in Handles,
         lock \in {h, NoHandle}, lock' \in {h, NoHandle},
         pc'[h] # "closed" => lock' = h,
         \A g \in Handles \ {h} : pc'[g] = pc[g],
         TypeOK',
         LinesNumbered', TailIsNext', synced' <= Len(lines'), AckedDurable', DeliveredWhole',
         (Opened(h) /\ Settled(h) /\ Writing(h))'
  PROVE  IInv'
<1>1. \A g \in Handles \ {h} : pc'[g] = "closed"
  BY OthersClosed
<1>2. LockHeld'
  BY <1>1 DEF LockHeld
<1>3. HandlesAgree'
  BY <1>1, ClosedAgrees DEF HandlesAgree
<1> QED BY <1>2, <1>3 DEF IInv

-----------------------------------------------------------------------------
(* One lemma per action of a handle.                                       *)

LEMMA AcquireLockInv ==
  ASSUME IInv, NEW h \in Handles, AcquireLock(h)
  PROVE  IInv'
<1> USE DEF AcquireLock, LockFree
<1>1. TypeOK'
  BY DEF IInv, TypeOK, Phases
<1>2. pc'[h] = "locked" /\ \A g \in Handles \ {h} : pc'[g] = pc[g]
  BY DEF IInv, TypeOK
<1>3. (Opened(h) /\ Settled(h) /\ Writing(h))'
  BY <1>2 DEF Opened, Settled, Writing, InAppend
<1>4. FileGrows /\ UNCHANGED <<synced, acked, delivered>>
  BY DEF FileGrows
<1> QED BY <1>1, <1>2, <1>3, <1>4, FileInv, HandleStepInv

LEMMA SanitizeInv ==
  ASSUME IInv, NEW h \in Handles, Sanitize(h)
  PROVE  IInv'
<1> USE DEF Sanitize, KeptTail
<1>0. lock = h
  BY HolderLocks
<1>1. pc'[h] = "sanitized" /\ \A g \in Handles \ {h} : pc'[g] = pc[g]
  BY DEF IInv, TypeOK
<1>2. FileGrows /\ UNCHANGED <<synced, acked, delivered>>
  BY TextKinds DEF FileGrows
<1>3. /\ tail' # Torn
      /\ Content' = Events(Content)
      /\ Events(Content) \in Seq(Records)
  BY ReplayIs, TextKinds DEF ReplayFacts, Content, IInv, TypeOK, Texts, Replay
<1>4. TypeOK'
  <2>1. lines' \in Seq(Texts) /\ tail' \in Texts
    BY <1>2, FileInv
  <2> QED BY <1>3, <2>1 DEF IInv, TypeOK, Phases
<1>5. mem'[h] = Content'
  BY <1>3 DEF IInv, TypeOK
<1>6. (Opened(h) /\ Settled(h) /\ Writing(h))'
  BY <1>1, <1>3, <1>5 DEF Opened, Settled, Writing, InAppend
<1> QED BY <1>0, <1>1, <1>2, <1>4, <1>6, FileInv, HandleStepInv

LEMMA EnsureRecordBoundaryInv ==
  ASSUME IInv, NEW h \in Handles, EnsureRecordBoundary(h)
  PROVE  IInv'
<1> USE DEF EnsureRecordBoundary, SeqAfter
<1>0. lock = h
  BY HolderLocks
<1>1. pc'[h] = "idle" /\ \A g \in Handles \ {h} : pc'[g] = pc[g]
  BY DEF IInv, TypeOK
<1>2. /\ lines \in Seq(Texts) /\ tail \in Texts /\ Len(lines) \in Nat
      /\ tail # Torn /\ mem[h] = Content
      /\ synced \in Nat /\ synced <= Len(lines)
  BY DEF IInv, TypeOK, HandlesAgree, Opened
<1>3. tail = Empty \/ tail \in Records
  BY <1>2 DEF Texts
<1>4. /\ lines' = Content /\ tail' = Empty
      /\ lines' \in Seq(Texts)
      /\ synced <= synced' /\ synced' <= Len(lines') /\ synced' \in Nat
  <2>1. CASE tail = Empty
    BY <1>2, <2>1 DEF Content
  <2>2. CASE tail \in Records
    <3>1. tail # Empty /\ Empty \in Texts
      BY <2>2, TextKinds
    <3>2. lines' = Append(lines, tail) /\ tail' = Empty /\ synced' = Len(lines) + 1
      BY <3>1
    <3>3. Content = Append(lines, tail)
      BY <3>1 DEF Content
    <3> QED BY <1>2, <3>2, <3>3
  <2> QED BY <1>3, <2>1, <2>2
<1>5. Whole = Len(Content) /\ Scanned(Content) = Whole
  <2>1. CASE tail = Empty
    BY <2>1, ScannedWhole, TextKinds DEF Whole
  <2>2. CASE tail \in Records
    <3>1. Content = Append(lines, tail)
      BY <2>2, ScannedWhole
    <3> QED BY <1>2, <2>2, <3>1, ScannedWhole DEF Whole
  <2> QED BY <1>3, <2>1, <2>2
<1>6. Content' = Content /\ Whole' = Whole
  BY <1>4, <1>5, TextKinds DEF Content, Whole
<1>7. LinesNumbered' /\ TailIsNext'
  <2>1. Len(lines') = Whole
    BY <1>4, <1>5
  <2>2. \A i \in 1..Whole : Content[i] \in Records /\ Content[i].seq = i
    BY ScannedWhole
  <2>3. LinesNumbered'
    BY <1>4, <2>1, <2>2 DEF LinesNumbered
  <2>4. TailIsNext'
    BY <1>4, TextKinds DEF TailIsNext
  <2> QED BY <2>3, <2>4
<1>8. AckedDurable'
  <2>1. SUFFICES ASSUME NEW r \in acked
                 PROVE  r.seq \in 1..synced' /\ r.seq <= Len(lines') /\ lines'[r.seq] = r
    BY DEF AckedDurable
  <2>2. r.seq \in 1..synced /\ r.seq <= Len(lines) /\ lines[r.seq] = r
    BY DEF IInv, AckedDurable
  <2>3. r.seq \in 1..Len(lines) /\ Len(lines) <= Len(lines')
    BY <1>2, <1>3, <1>4, <2>2 DEF Content
  <2> QED BY <1>2, <1>4, <2>2, <2>3, ScannedWhole
<1>9. DeliveredWhole'
  BY <1>6 DEF IInv, DeliveredWhole
<1>10. TypeOK'
  BY <1>4, TextKinds DEF IInv, TypeOK, Phases
<1>11. mem'[h] = lines' /\ nextSeq'[h] = Len(lines') + 1
  BY <1>2, <1>4 DEF IInv, TypeOK
<1>12. (Opened(h) /\ Settled(h) /\ Writing(h))'
  BY <1>1, <1>4, <1>11 DEF Opened, Settled, Writing, InAppend
<1> QED BY <1>0, <1>1, <1>4, <1>7, <1>8, <1>9, <1>10, <1>12, HandleStepInv

LEMMA DropHandleInv ==
  ASSUME IInv, NEW h \in Handles, DropHandle(h)
  PROVE  IInv'
<1> USE DEF DropHandle
<1>1. lock = h
  BY HolderLocks
<1>2. pc'[h] = "closed" /\ \A g \in Handles \ {h} : pc'[g] = pc[g]
  BY DEF IInv, TypeOK
<1>3. TypeOK'
  BY DEF IInv, TypeOK, Phases
<1>4. FileGrows /\ UNCHANGED <<synced, acked, delivered>>
  BY DEF FileGrows
<1> QED BY <1>1, <1>2, <1>3, <1>4, FileInv, ClosedAgrees, HandleStepInv

LEMMA StartAppendInv ==
  ASSUME IInv, NEW h \in Handles, NEW k \in Kinds, StartAppend(h, k)
  PROVE  IInv'
<1> USE DEF StartAppend, Begin
<1>1. lock = h
  BY HolderLocks
<1>2. pc'[h] = "line" /\ pend'[h] = k /\ \A g \in Handles \ {h} : pc'[g] = pc[g]
  BY DEF IInv, TypeOK
<1>3. TypeOK'
  BY DEF IInv, TypeOK, Phases
<1>4. FileGrows /\ UNCHANGED <<synced, acked, delivered>>
  BY DEF FileGrows
<1>5. (Opened(h) /\ Settled(h) /\ Writing(h))'
  <2>1. Settled(h)
    BY DEF IInv, HandlesAgree
  <2> QED BY <1>2, <2>1 DEF Opened, Settled, Writing
<1> QED BY <1>1, <1>2, <1>3, <1>4, <1>5, FileInv, HandleStepInv

LEMMA WriteLineInv ==
  ASSUME IInv, NEW h \in Handles, WriteLine(h)
  PROVE  IInv'
<1> USE DEF WriteLine
<1>1. lock = h
  BY HolderLocks
<1>2. pc'[h] = "newline" /\ \A g \in Handles \ {h} : pc'[g] = pc[g]
  BY DEF IInv, TypeOK
<1>3. tail = Empty /\ mem[h] = lines /\ nextSeq[h] = Len(lines) + 1 /\ pend[h] \in Kinds
  BY DEF IInv, HandlesAgree, Settled, Writing, InAppend
<1>4. InFlight(h) \in Records /\ InFlight(h).seq = Len(lines) + 1
  BY <1>3, InFlightRecord DEF InAppend
<1>5. tail' = InFlight(h)
  BY <1>3 DEF Join
<1>6. FileGrows /\ UNCHANGED <<synced, acked, delivered>>
  BY <1>3, <1>4, <1>5 DEF FileGrows
<1>7. TypeOK'
  BY <1>6, FileInv DEF IInv, TypeOK, Phases
<1>8. (Opened(h) /\ Settled(h) /\ Writing(h))'
  BY <1>2, <1>3, <1>5 DEF Opened, Settled, Writing, InFlight
<1> QED BY <1>1, <1>2, <1>6, <1>7, <1>8, FileInv, HandleStepInv

LEMMA WriteNewlineInv ==
  ASSUME IInv, NEW h \in Handles, WriteNewline(h)
  PROVE  IInv'
<1> USE DEF WriteNewline
<1>1. lock = h
  BY HolderLocks
<1>2. pc'[h] = "sync" /\ \A g \in Handles \ {h} : pc'[g] = pc[g]
  BY DEF IInv, TypeOK
<1>3. tail = InFlight(h) /\ mem[h] = lines /\ nextSeq[h] = Len(lines) + 1 /\ pend[h] \in Kinds
  BY DEF IInv, HandlesAgree, Writing, InAppend
<1>4. tail \in Records
  BY <1>3, InFlightRecord DEF InAppend
<1>5. FileGrows /\ UNCHANGED <<synced, acked, delivered>>
  BY <1>4 DEF FileGrows
<1>6. TypeOK'
  BY <1>5, FileInv DEF IInv, TypeOK, Phases
<1>7. Len(lines') = Len(lines) + 1
  BY DEF IInv, TypeOK
<1>8. (Opened(h) /\ Settled(h) /\ Writing(h))'
  BY <1>2, <1>3, <1>7 DEF Opened, Settled, Writing, InFlight
<1> QED BY <1>1, <1>2, <1>5, <1>6, <1>8, FileInv, HandleStepInv

LEMMA SyncDataInv ==
  ASSUME IInv, NEW h \in Handles, SyncData(h)
  PROVE  IInv'
<1> USE DEF SyncData, DurableLines
<1>1. lock = h
  BY HolderLocks
<1>2. pc'[h] = "idle" /\ \A g \in Handles \ {h} : pc'[g] = pc[g]
  BY DEF IInv, TypeOK
<1>3. /\ tail = Empty /\ lines = Append(mem[h], InFlight(h)) /\ nextSeq[h] = Len(lines)
      /\ InFlight(h) \in Records /\ InFlight(h).seq = Len(lines)
  BY InFlightRecord DEF IInv, HandlesAgree, Writing, InAppend
<1>4. lines \in Seq(Texts) /\ Len(lines) \in Nat /\ synced <= Len(lines) /\ synced \in Nat
      /\ mem[h] \in Seq(Records)
  BY DEF IInv, TypeOK
<1>5. Len(lines) >= 1 /\ lines[Len(lines)] = InFlight(h)
  BY <1>3, <1>4
<1>6. TypeOK'
  <2>1. nextSeq'[h] \in Nat /\ mem'[h] \in Seq(Records)
    BY <1>3, <1>4 DEF IInv, TypeOK
  <2> QED BY <1>3, <1>4, <2>1 DEF IInv, TypeOK, Phases
<1>7. LinesNumbered' /\ TailIsNext' /\ synced' <= Len(lines') /\ DeliveredWhole'
  BY <1>4 DEF IInv, LinesNumbered, TailIsNext, DeliveredWhole, Whole, Content
<1>8. AckedDurable'
  <2>1. SUFFICES ASSUME NEW r \in acked'
                 PROVE  r.seq \in 1..Len(lines) /\ lines[r.seq] = r
    BY <1>4 DEF AckedDurable
  <2>2. CASE r \in acked
    BY <1>4, <2>2 DEF IInv, AckedDurable
  <2>3. CASE r = InFlight(h)
    BY <1>3, <1>4, <1>5, <2>3
  <2> QED BY <2>2, <2>3
<1>9. (Opened(h) /\ Settled(h) /\ Writing(h))'
  <2>1. mem'[h] = lines /\ nextSeq'[h] = Len(lines) + 1
    BY <1>3 DEF IInv, TypeOK
  <2> QED BY <1>2, <1>3, <2>1 DEF Opened, Settled, Writing, InAppend
<1> QED BY <1>1, <1>2, <1>6, <1>7, <1>8, <1>9, HandleStepInv

\* An append that stops early, for whatever reason, leaves a file that grows
\* and a handle of which nothing is required.
LEMMA StopInv ==
  ASSUME IInv, NEW h \in Handles,
         pc[h] # "closed", FileGrows,
         pc' = [pc EXCEPT ![h] = "failed"],
         UNCHANGED <<synced, lock, pend, nextSeq, mem, acked, delivered>>
  PROVE  IInv'
<1>1. lock = h
  BY HolderLocks
<1>2. pc'[h] = "failed" /\ \A g \in Handles \ {h} : pc'[g] = pc[g]
  BY DEF IInv, TypeOK
<1>3. TypeOK'
  BY FileInv DEF IInv, TypeOK, Phases
<1>4. (Opened(h) /\ Settled(h) /\ Writing(h))'
  BY <1>2 DEF Opened, Settled, Writing, InAppend
<1> QED BY <1>1, <1>2, <1>3, <1>4, FileInv, HandleStepInv

LEMMA AppendFailsInv ==
  ASSUME IInv, NEW h \in Handles, AppendFails(h)
  PROVE  IInv'
<1>1. FileGrows /\ pc[h] # "closed"
  BY StoppedGrows DEF AppendFails, InAppend
<1> QED BY <1>1, StopInv DEF AppendFails

LEMMA CancelAppendInv ==
  ASSUME IInv, NEW h \in Handles, CancelAppend(h)
  PROVE  IInv'
<1>1. Stopped(h)
  BY DEF CancelAppend, Stopped, InAppend
<1>2. FileGrows /\ pc[h] # "closed"
  BY <1>1, StoppedGrows DEF CancelAppend, InAppend
<1> QED BY <1>2, StopInv DEF CancelAppend

LEMMA CrashInv ==
  ASSUME IInv, NEW h \in Handles, Crash(h)
  PROVE  IInv'
<1> USE DEF Crash
<1>1. lock = h /\ FileGrows
  BY HolderLocks, StoppedGrows
<1>2. pc'[h] = "closed" /\ \A g \in Handles \ {h} : pc'[g] = pc[g]
  BY DEF IInv, TypeOK
<1>3. TypeOK'
  BY <1>1, FileInv DEF IInv, TypeOK, Phases
<1> QED BY <1>1, <1>2, <1>3, FileInv, ClosedAgrees, HandleStepInv

LEMMA PowerLossInv ==
  ASSUME IInv, PowerLoss
  PROVE  IInv'
<1> USE DEF PowerLoss
<1>0. /\ lines \in Seq(Texts) /\ tail \in Texts /\ Len(lines) \in Nat
      /\ synced \in Nat /\ synced <= Len(lines)
  BY DEF IInv, TypeOK
<1>1. PICK m \in synced..Len(lines) :
        /\ lines' = SubSeq(lines, 1, m)
        /\ tail' \in {Empty, Torn, IF m < Len(lines) THEN lines[m + 1] ELSE tail}
  OBVIOUS
<1>2. /\ m \in 0..Len(lines) /\ lines' \in Seq(Texts) /\ Len(lines') = m
      /\ \A i \in 1..m : lines'[i] = lines[i]
  BY <1>0, <1>1
<1>3. /\ tail' \in Texts
      /\ tail' \in Records => tail'.seq = m + 1
  <2>1. CASE tail' \in {Empty, Torn}
    BY <2>1, TextKinds
  <2>2. CASE m < Len(lines) /\ tail' = lines[m + 1]
    <3>1. m + 1 \in 1..Len(lines)
      BY <1>0, <1>2, <2>2
    <3> QED BY <2>2, <3>1, TextKinds DEF IInv, LinesNumbered
  <2>3. CASE m = Len(lines) /\ tail' = tail
    BY <1>0, <2>3 DEF IInv, TailIsNext
  <2> QED BY <1>0, <1>1, <1>2, <2>1, <2>2, <2>3
<1>4. TypeOK'
  BY <1>2, <1>3 DEF IInv, TypeOK, Phases
<1>5. LinesNumbered' /\ TailIsNext' /\ synced' <= Len(lines')
  BY <1>0, <1>1, <1>2, <1>3 DEF IInv, LinesNumbered, TailIsNext
<1>6. AckedDurable'
  BY <1>0, <1>1, <1>2 DEF IInv, AckedDurable
<1>7. DeliveredWhole'
  BY <1>2 DEF DeliveredWhole, Whole
<1>8. LockHeld' /\ HandlesAgree'
  BY ClosedAgrees DEF LockHeld, HandlesAgree
<1> QED BY <1>4, <1>5, <1>6, <1>7, <1>8 DEF IInv

\* Reading from the client's cursor on completes what it has to the replay.
LEMMA ReadDelivers ==
  ASSUME IInv, ReadEventsSince
  PROVE  delivered' = Replay
<1> USE DEF ReadEventsSince
<1> DEFINE n == Len(delivered)
           new == SubSeq(Replay, n + 1, Whole)
<1>1. /\ Scanned(Content) = Whole /\ Whole \in Nat /\ n \in Nat /\ n <= Whole
      /\ delivered \in Seq(Records)
      /\ \A i \in 1..n : delivered[i] = Content[i]
  BY ScannedWhole DEF IInv, TypeOK, DeliveredWhole
<1>2. Replay \in Seq(Records) /\ Len(Replay) = Whole
  BY ReplayIs DEF ReplayFacts
<1>3. \A i \in 1..Whole : Replay[i] = Content[i]
  <2>1. Content \in Seq(Texts) /\ Len(Content) \in Nat /\ Whole <= Len(Content)
    BY TextKinds DEF IInv, TypeOK, Content, Whole
  <2> QED BY <1>1, <2>1 DEF Replay, Events
<1>4. new \in Seq(Records) /\ Len(new) = Whole - n
      /\ \A i \in 1..Whole - n : new[i] = Replay[n + i]
  BY <1>1, <1>2
<1>5. delivered' = delivered \o new
  BY <1>1 DEF Replay
<1> HIDE DEF new
<1>6. delivered' \in Seq(Records) /\ Len(delivered') = Whole
  <2>1. delivered' \in Seq(Records) /\ Len(delivered') = Len(delivered) + Len(new)
    BY ONLY <1>1, <1>4, <1>5, SMT
  <2>2. Len(delivered) + (Whole - Len(delivered)) = Whole
    BY <1>1
  <2> QED BY <1>4, <2>1, <2>2
<1>7. ASSUME NEW i \in 1..Whole PROVE delivered'[i] = Replay[i]
  <2>1. CASE i <= n
    BY <1>1, <1>3, <1>4, <1>5, <2>1
  <2>2. CASE i > n
    <3>1. i - n \in 1..Whole - n /\ n + (i - n) = i
      BY <1>1, <2>2
    <3>2. delivered'[i] = new[i - n]
      BY <1>1, <1>4, <1>5, <2>2
    <3> QED BY <1>4, <3>1, <3>2
  <2> QED BY <1>1, <2>1, <2>2
<1> QED BY <1>2, <1>6, <1>7, SeqEqual

LEMMA ReadEventsSinceInv ==
  ASSUME IInv, ReadEventsSince
  PROVE  IInv'
<1> USE DEF ReadEventsSince
<1>1. delivered' \in Seq(Records) /\ Len(delivered') = Whole
  BY ReadDelivers, ReplayIs DEF ReplayFacts
<1>2. DeliveredWhole'
  <2>1. Content' = Content /\ Whole' = Whole /\ Scanned(Content) = Whole
    BY ScannedWhole DEF Content, Whole
  <2>2. \A i \in 1..Whole : delivered'[i] = Content[i]
    <3>1. Content \in Seq(Texts) /\ Whole \in Nat /\ Whole <= Len(Content)
      BY ScannedWhole, TextKinds DEF IInv, TypeOK, Content, Whole
    <3> QED BY <2>1, <3>1, ReadDelivers DEF Replay, Events
  <2> QED BY <1>1, <2>1, <2>2, ScannedWhole DEF DeliveredWhole
<1>3. TypeOK'
  BY <1>1 DEF IInv, TypeOK
<1>4. LinesNumbered' /\ TailIsNext' /\ LockHeld' /\ synced' <= Len(lines') /\ AckedDurable'
  BY DEF IInv, LinesNumbered, TailIsNext, LockHeld, AckedDurable
<1>5. HandlesAgree'
  BY DEF IInv, HandlesAgree, Opened, Settled, Writing, InAppend, InFlight, Content
<1> QED BY <1>2, <1>3, <1>4, <1>5 DEF IInv

-----------------------------------------------------------------------------
(* The theorems.                                                           *)

\* Every step of a log whose failed writers are dropped keeps the invariant.
LEMMA StepInv == IInv /\ [CarefulNext]_vars => IInv'
<1> SUFFICES ASSUME IInv, [CarefulNext]_vars PROVE IInv'
  OBVIOUS
<1>1. ASSUME NEW h \in Handles, HandleStep(h) PROVE IInv'
  <2>1. CASE AcquireLock(h)
    BY <2>1, AcquireLockInv
  <2>2. CASE Sanitize(h)
    BY <2>2, SanitizeInv
  <2>3. CASE EnsureRecordBoundary(h)
    BY <2>3, EnsureRecordBoundaryInv
  <2>4. CASE DropHandle(h)
    BY <2>4, DropHandleInv
  <2>5. CASE \E k \in Kinds : StartAppend(h, k)
    BY <2>5, StartAppendInv
  <2>6. CASE WriteLine(h)
    BY <2>6, WriteLineInv
  <2>7. CASE WriteNewline(h)
    BY <2>7, WriteNewlineInv
  <2>8. CASE SyncData(h)
    BY <2>8, SyncDataInv
  <2>9. CASE AppendFails(h)
    BY <2>9, AppendFailsInv
  <2>10. CASE CancelAppend(h)
    BY <2>10, CancelAppendInv
  <2>11. CASE Crash(h)
    BY <2>11, CrashInv
  <2> QED BY <1>1, <2>1, <2>2, <2>3, <2>4, <2>5, <2>6, <2>7, <2>8, <2>9, <2>10, <2>11
         DEF HandleStep
<1>2. CASE PowerLoss
  BY <1>2, PowerLossInv
<1>3. CASE ReadEventsSince
  BY <1>3, ReadEventsSinceInv
<1>4. CASE UNCHANGED vars
  <2> USE <1>4 DEF vars
  <2>1. TypeOK' /\ LinesNumbered' /\ TailIsNext' /\ LockHeld' /\ synced' <= Len(lines') /\ AckedDurable'
    BY DEF IInv, TypeOK, LinesNumbered, TailIsNext, LockHeld, AckedDurable
  <2>2. HandlesAgree' /\ DeliveredWhole'
    BY DEF IInv, HandlesAgree, Opened, Settled, Writing, InAppend, InFlight, DeliveredWhole, Content, Whole
  <2> QED BY <2>1, <2>2 DEF IInv
<1> QED BY <1>1, <1>2, <1>3, <1>4 DEF CarefulNext

\* The inductive invariant of the log holds in every state (open_internal,
\* append and the readers of crates/eventlog).
THEOREM Invariance == CarefulSpec => []IInv
<1> QED BY InitInv, StepInv, PTL DEF CarefulSpec

\* Variables keep their types.
THEOREM TypeCorrect == CarefulSpec => []TypeOK
<1>1. IInv => TypeOK
  BY DEF IInv
<1> QED BY <1>1, Invariance, PTL

\* No crash, loss of power, failed or cancelled append leaves a file that open
\* or a reader refuses.
THEOREM Readability == CarefulSpec => []LogReadable
<1> QED BY IInvImplies, Invariance, PTL

\* What append acknowledged stays on disk, under its number.
THEOREM Durability == CarefulSpec => []AckedDurable
<1> QED BY IInvImplies, Invariance, PTL

\* Between appends, the state in memory is the replay of the file.
THEOREM MemoryFollowsLog == CarefulSpec => []MemoryIsReplay
<1> QED BY IInvImplies, Invariance, PTL

\* What a subscriber has been given is never retracted.
THEOREM DeliveryStable == CarefulSpec => []DeliveredIsPrefix
<1> QED BY IInvImplies, Invariance, PTL

-----------------------------------------------------------------------------
(* The log implements its promise.                                         *)

\* A record is the abstract event with its number and payload.
LEMMA RecordIsEvent ==
  ASSUME NEW r \in Records
  PROVE  \E k \in Kinds : r = Promise!Event(r.seq, k)
  BY DEF Records, Promise!Event

\* A file that grows replays to the same events, or to one more.
LEMMA GrowsRefines ==
  ASSUME IInv, IInv', FileGrows, UNCHANGED <<acked, delivered>>
  PROVE  [Promise!Next]_(Promise!vars)
<1>1. lines \in Seq(Texts) /\ tail \in Texts /\ Len(lines) \in Nat
  BY DEF IInv, TypeOK
<1>2. CASE lines' = lines /\ tail' \in Records /\ tail \notin Records
  <2>1. Replay = lines /\ Replay' = Append(lines, tail')
    BY <1>2, ReplayIs, ReplayIsNext DEF ReplayFacts
  <2>2. tail'.seq = Len(lines) + 1
    BY <1>2 DEF IInv, TailIsNext
  <2>3. PICK k \in Kinds : tail' = Promise!Event(Len(lines) + 1, k)
    BY <1>2, <2>2, RecordIsEvent
  <2>4. Promise!Add(k)
    BY <2>1, <2>3 DEF Promise!Add
  <2> QED BY <2>4 DEF Promise!Next
<1>3. CASE Replay' = Replay
  BY <1>3 DEF Promise!vars
<1>4. CASE tail \in Records /\ lines' = Append(lines, tail) /\ tail' = Empty
  BY <1>3, <1>4, ReplayIs, ReplayIsNext, TextKinds DEF ReplayFacts
<1>5. CASE lines' = lines /\ tail \notin Records /\ tail' \notin Records
  BY <1>3, <1>5, ReplayIs, ReplayIsNext DEF ReplayFacts
<1> QED BY <1>2, <1>3, <1>4, <1>5, TextKinds DEF FileGrows, Replay, Events, Content

LEMMA SyncRefines ==
  ASSUME IInv, IInv', NEW h \in Handles, SyncData(h)
  PROVE  Promise!Next
<1> USE DEF SyncData, DurableLines
<1>1. /\ tail = Empty /\ lines = Append(mem[h], InFlight(h)) /\ mem[h] \in Seq(Records)
      /\ InFlight(h) \in Records
  BY InFlightRecord DEF IInv, TypeOK, HandlesAgree, Writing, InAppend
<1>2. Replay = lines /\ Replay' = lines
  BY <1>1, ReplayIs, ReplayIsNext, TextKinds DEF ReplayFacts
<1>3. Len(lines) \in 1..Len(lines) /\ lines[Len(lines)] = InFlight(h)
  BY <1>1
<1>4. Promise!Acknowledge(Len(lines))
  BY <1>2, <1>3 DEF Promise!Acknowledge
<1> QED BY <1>2, <1>3, <1>4 DEF Promise!Next

LEMMA PowerLossRefines ==
  ASSUME IInv, IInv', PowerLoss
  PROVE  Promise!Next
<1> USE DEF PowerLoss
<1> DEFINE n == Len(Replay')
<1>0. /\ lines \in Seq(Texts) /\ Len(lines) \in Nat /\ synced \in Nat
      /\ Replay \in Seq(Records) /\ Replay' \in Seq(Records)
      /\ n \in Nat
  BY ReplayIs, ReplayIsNext DEF ReplayFacts, IInv, TypeOK
<1>1. PICK m \in synced..Len(lines) :
        /\ lines' = SubSeq(lines, 1, m)
        /\ tail' \in {Empty, Torn, IF m < Len(lines) THEN lines[m + 1] ELSE tail}
  OBVIOUS
<1>2. /\ m \in 0..Len(lines) /\ Len(lines') = m
      /\ \A i \in 1..m : lines'[i] = lines[i]
  BY <1>0, <1>1
<1>3. /\ Len(lines) <= Len(Replay)
      /\ \A i \in 1..Len(lines) : Replay[i] = lines[i]
  BY <1>0, ReplayIs DEF ReplayFacts, Whole
<1>4. m <= n /\ n <= Len(Replay) /\ \A i \in 1..n : Replay'[i] = Replay[i]
  <2>1. CASE tail' \notin Records
    <3>1. Replay' = lines' /\ n = m
      BY <1>2, <2>1, ReplayIsNext DEF ReplayFacts
    <3> QED BY <1>0, <1>2, <1>3, <3>1
  <2>2. CASE tail' \in Records
    <3>1. /\ n = m + 1
          /\ \A i \in 1..m : Replay'[i] = lines[i]
          /\ Replay'[m + 1] = tail'
      <4>1. Replay' = Append(lines', tail') /\ lines' \in Seq(Texts)
        BY <2>2, ReplayIsNext DEF ReplayFacts
      <4> QED BY <1>2, <4>1
    <3>2. CASE m < Len(lines) /\ tail' = lines[m + 1]
      <4>1. \A i \in 1..m + 1 : i \in 1..Len(lines) /\ Replay'[i] = lines[i]
        BY <1>0, <1>2, <3>1, <3>2
      <4>2. m <= m + 1 /\ m + 1 <= Len(Replay)
        BY <1>0, <1>2, <1>3, <3>2
      <4> QED BY <1>3, <3>1, <4>1, <4>2
    <3>3. CASE m = Len(lines) /\ tail' = tail
      <4>1. Replay = Append(lines, tail)
        BY <2>2, <3>3, ReplayIs DEF ReplayFacts
      <4>2. Len(Replay) = m + 1 /\ Replay[m + 1] = tail
        BY <1>0, <3>3, <4>1
      <4> QED BY <1>0, <1>2, <1>3, <3>1, <3>3, <4>2
    <3> QED BY <1>0, <1>1, <1>2, <2>2, <3>2, <3>3, TextKinds
  <2> QED BY <2>1, <2>2
<1>5. Replay' = SubSeq(Replay, 1, n)
  <2>1. SubSeq(Replay, 1, n) \in Seq(Records) /\ Len(SubSeq(Replay, 1, n)) = n
        /\ \A i \in 1..n : SubSeq(Replay, 1, n)[i] = Replay[i]
    BY <1>0, <1>4
  <2> QED BY <1>0, <1>4, <2>1, SeqEqual
<1>6. \A r \in acked : r.seq <= n
  BY <1>0, <1>1, <1>2, <1>4 DEF IInv, AckedDurable
<1>7. Promise!Lose(n)
  BY <1>5, <1>6 DEF Promise!Lose
<1> QED BY <1>0, <1>4, <1>7 DEF Promise!Next

\* The file under its lock, with its crashes, torn lines and recoveries,
\* implements an append-only log (docs/thread_event_model.md, section 0).
THEOREM Refinement == CarefulSpec => ImplementsAppendOnlyLog
<1>1. Init => Promise!Init
  <2> SUFFICES ASSUME Init PROVE Promise!Init
    OBVIOUS
  <2>1. Replay = lines
    BY InitInv, ReplayIs, TextKinds DEF ReplayFacts, Init
  <2> QED BY <2>1 DEF Init, Promise!Init
<1>2. IInv /\ IInv' /\ [CarefulNext]_vars => [Promise!Next]_(Promise!vars)
  <2> SUFFICES ASSUME IInv, IInv', [CarefulNext]_vars
               PROVE  [Promise!Next]_(Promise!vars)
    OBVIOUS
  <2>1. ASSUME NEW h \in Handles, HandleStep(h) PROVE [Promise!Next]_(Promise!vars)
    <3>1. CASE AcquireLock(h) \/ DropHandle(h) \/ \E k \in Kinds : StartAppend(h, k)
      <4>1. FileGrows /\ UNCHANGED <<acked, delivered>>
        BY <3>1 DEF AcquireLock, DropHandle, StartAppend, Begin, FileGrows
      <4> QED BY <4>1, GrowsRefines
    <3>2. CASE Sanitize(h)
      BY <3>2, GrowsRefines, TextKinds DEF Sanitize, KeptTail, FileGrows
    <3>3. CASE EnsureRecordBoundary(h)
      <4>1. tail \in Records \union {Empty}
        BY <3>3 DEF EnsureRecordBoundary, IInv, TypeOK, Texts, HandlesAgree, Opened
      <4>2. FileGrows /\ UNCHANGED <<acked, delivered>>
        BY <3>3, <4>1 DEF EnsureRecordBoundary, FileGrows
      <4> QED BY <4>2, GrowsRefines
    <3>4. CASE WriteLine(h)
      <4>1. Stopped(h)
        BY <3>4 DEF WriteLine, Stopped
      <4> QED BY <3>4, <4>1, StoppedGrows, GrowsRefines DEF WriteLine
    <3>5. CASE WriteNewline(h)
      <4>1. Stopped(h)
        BY <3>5 DEF WriteNewline, Stopped
      <4> QED BY <3>5, <4>1, StoppedGrows, GrowsRefines DEF WriteNewline
    <3>6. CASE SyncData(h)
      BY <3>6, SyncRefines
    <3>7. CASE AppendFails(h) \/ Crash(h)
      BY <3>7, StoppedGrows, GrowsRefines DEF AppendFails, Crash
    <3>8. CASE CancelAppend(h)
      <4>1. Stopped(h)
        BY <3>8 DEF CancelAppend, Stopped, InAppend
      <4> QED BY <3>8, <4>1, StoppedGrows, GrowsRefines DEF CancelAppend
    <3> QED BY <2>1, <3>1, <3>2, <3>3, <3>4, <3>5, <3>6, <3>7, <3>8 DEF HandleStep
  <2>2. CASE PowerLoss
    BY <2>2, PowerLossRefines
  <2>3. CASE ReadEventsSince
    <3>1. Replay' = Replay
      BY <2>3 DEF ReadEventsSince, Replay, Events, Content
    <3>2. Promise!Deliver
      BY <2>3, <3>1, ReadDelivers DEF ReadEventsSince, Promise!Deliver
    <3> QED BY <3>2 DEF Promise!Next
  <2>4. CASE UNCHANGED vars
    BY <2>4 DEF vars, Promise!vars, Replay, Events, Content
  <2> QED BY <2>1, <2>2, <2>3, <2>4 DEF CarefulNext
<1> QED BY <1>1, <1>2, Invariance, PTL DEF CarefulSpec, ImplementsAppendOnlyLog, Promise!Spec
=============================================================================
