------------------------------ MODULE EventLog ------------------------------
(***************************************************************************)
(* The event log of one thread (crates/eventlog and ThreadHandle of        *)
(* crates/core): a jsonl file written under an exclusive file lock, one    *)
(* line per event, numbered from 1 without a gap, read by anyone without   *)
(* the lock.                                                               *)
(*                                                                         *)
(* The file is seen at the granularity the code can tell apart: the lines  *)
(* that end in a newline, and the text after the last newline.  A line is  *)
(* a whole event, or text that does not parse.                             *)
(***************************************************************************)
EXTENDS Integers, Sequences

CONSTANTS
  Kinds,      \* event payloads
  Handles,    \* ThreadHandles: writers, at different times or in different processes
  NoHandle,   \* no handle holds the lock file
  NoKind,     \* no append is in flight
  MaxLines    \* bound: no append starts on a file of this many lines

ASSUME HandlesAssumption == NoHandle \notin Handles
ASSUME KindsAssumption == NoKind \notin Kinds
ASSUME MaxLinesAssumption == MaxLines \in Nat

VARIABLES
  lines,      \* the lines of events.jsonl that end in a newline
  tail,       \* the text after the last newline
  synced,     \* how many lines fdatasync has made durable
  lock,       \* which handle holds the exclusive lock of events.jsonl.lock
  pc,         \* where each handle is: closed, opening, idle, inside an append
  pend,       \* the payload of the append in flight
  nextSeq,    \* EventLogWriter::next_seq
  mem,        \* the events ThreadHandle::state has been built from
  acked,      \* the events whose append has returned Ok (history)
  delivered   \* the events a subscriber has been given

vars == <<lines, tail, synced, lock, pc, pend, nextSeq, mem, acked, delivered>>

-----------------------------------------------------------------------------
(* Lines and what reading them gives.                                      *)

Rec(s, k) == [t |-> "rec", seq |-> s, kind |-> k]
Records == [t : {"rec"}, seq : Nat, kind : Kinds]
Empty == [t |-> "empty"]
Torn == [t |-> "torn"]
Texts == Records \union {Empty, Torn}

Phases == {"closed", "locked", "sanitized", "idle", "line", "newline", "sync", "failed"}
InAppend == {"line", "newline", "sync"}

\* Text written after text is one line; two events on a line do not parse.
Join(old, new) == IF old = Empty THEN new ELSE Torn

\* The file split at newlines, empty pieces skipped.
Content == IF tail = Empty THEN lines ELSE Append(lines, tail)

\* The line at position i is the event the scan expects there.
Good(c, i) == c[i].t = "rec" /\ c[i].seq = i

\* How many events the scan accepts before the first line that stops it.
Scanned(c) ==
  CHOOSE n \in 0..Len(c) :
    /\ \A i \in 1..n : Good(c, i)
    /\ n < Len(c) => ~Good(c, n + 1)

Events_KeepsTorn(c) == c
Events(c) == SubSeq(c, 1, Scanned(c))

\* A line that does not parse is forgiven when the file lacks its last
\* newline, an event with an unexpected number never is.
Readable ==
  LET n == Scanned(Content)
  IN n < Len(Content) => tail # Empty /\ Content[n + 1].t = "torn"

-----------------------------------------------------------------------------
(* Opening: lock, read and cut off a torn last line, end the last line.    *)

LockFree == lock = NoHandle

AcquireLock(h) ==
  /\ pc[h] = "closed"
  /\ LockFree
  /\ lock' = h
  /\ pc' = [pc EXCEPT ![h] = "locked"]
  /\ UNCHANGED <<lines, tail, synced, pend, nextSeq, mem, acked, delivered>>

\* What opening leaves after the last newline: a torn text is cut off, an
\* event that only lacks its newline is kept.
KeptTail_NoTruncate == tail
KeptTail == IF tail = Torn THEN Empty ELSE tail

\* The torn text, if any, is the last line.
Sanitize(h) ==
  /\ pc[h] = "locked"
  /\ Readable
  /\ Scanned(Content) >= Len(lines)
  /\ mem' = [mem EXCEPT ![h] = Events(Content)]
  /\ tail' = KeptTail
  /\ pc' = [pc EXCEPT ![h] = "sanitized"]
  /\ UNCHANGED <<lines, synced, lock, pend, nextSeq, acked, delivered>>

\* The torn text is an inner line: its LENGTH is cut off the end of the file,
\* which may end anywhere, and the events after it are not read.
SanitizeCutsElsewhere(h) ==
  /\ pc[h] = "locked"
  /\ Readable
  /\ Scanned(Content) < Len(lines)
  /\ mem' = [mem EXCEPT ![h] = Events(Content)]
  /\ \E m \in 0..Len(lines), text \in {Empty, Torn} :
       /\ lines' = SubSeq(lines, 1, m)
       /\ tail' = text
       /\ synced' = IF synced < m THEN synced ELSE m
  /\ pc' = [pc EXCEPT ![h] = "sanitized"]
  /\ UNCHANGED <<lock, pend, nextSeq, acked, delivered>>

OpenFails(h) ==
  /\ pc[h] = "locked"
  /\ ~Readable
  /\ lock' = NoHandle
  /\ pc' = [pc EXCEPT ![h] = "closed"]
  /\ UNCHANGED <<lines, tail, synced, pend, nextSeq, mem, acked, delivered>>

\* The number after the last event read.
SeqAfter_Last(events) == Len(events)
SeqAfter(events) == Len(events) + 1

EnsureRecordBoundary(h) ==
  /\ pc[h] = "sanitized"
  /\ IF tail = Empty
       THEN UNCHANGED <<lines, tail, synced>>
       ELSE /\ lines' = Append(lines, tail)
            /\ tail' = Empty
            /\ synced' = Len(lines) + 1
  /\ nextSeq' = [nextSeq EXCEPT ![h] = SeqAfter(mem[h])]
  /\ pc' = [pc EXCEPT ![h] = "idle"]
  /\ UNCHANGED <<lock, pend, mem, acked, delivered>>

\* The last reference to the handle is dropped, and the lock with it.
DropHandle(h) ==
  /\ pc[h] \in {"idle", "failed"}
  /\ lock' = NoHandle
  /\ pc' = [pc EXCEPT ![h] = "closed"]
  /\ mem' = [mem EXCEPT ![h] = <<>>]
  /\ UNCHANGED <<lines, tail, synced, pend, nextSeq, acked, delivered>>

-----------------------------------------------------------------------------
(* Appending: write the line, write the newline, flush and fdatasync, and  *)
(* only then take the next number and commit the new state.                *)

Begin(h, k) ==
  /\ Len(lines) < MaxLines
  /\ pend' = [pend EXCEPT ![h] = k]
  /\ pc' = [pc EXCEPT ![h] = "line"]
  /\ UNCHANGED <<lines, tail, synced, lock, nextSeq, mem, acked, delivered>>

StartAppend(h, k) == pc[h] = "idle" /\ Begin(h, k)

\* Nothing in the writer remembers that its last append went wrong.
AppendAfterFailure(h, k) == pc[h] = "failed" /\ Begin(h, k)

InFlight(h) == Rec(nextSeq[h], pend[h])

WriteLine(h) ==
  /\ pc[h] = "line"
  /\ tail' = Join(tail, InFlight(h))
  /\ pc' = [pc EXCEPT ![h] = "newline"]
  /\ UNCHANGED <<lines, synced, lock, pend, nextSeq, mem, acked, delivered>>

WriteNewline(h) ==
  /\ pc[h] = "newline"
  /\ lines' = Append(lines, tail)
  /\ tail' = Empty
  /\ pc' = [pc EXCEPT ![h] = "sync"]
  /\ UNCHANGED <<synced, lock, pend, nextSeq, mem, acked, delivered>>

\* How many lines are durable once fdatasync has returned.
DurableLines_NoSync == synced
DurableLines == Len(lines)

SyncData(h) ==
  /\ pc[h] = "sync"
  /\ synced' = DurableLines
  /\ nextSeq' = [nextSeq EXCEPT ![h] = @ + 1]
  /\ mem' = [mem EXCEPT ![h] = Append(@, InFlight(h))]
  /\ acked' = acked \union {InFlight(h)}
  /\ pc' = [pc EXCEPT ![h] = "idle"]
  /\ UNCHANGED <<lines, tail, lock, pend, delivered>>

\* What is on disk when an append stops early at each of its await points: the
\* line may be missing, cut short or whole; the newline missing or written.
Stopped(h) ==
  CASE pc[h] = "line" ->
         /\ tail' \in {tail, Join(tail, Torn), Join(tail, InFlight(h))}
         /\ lines' = lines
    [] pc[h] = "newline" ->
         \/ UNCHANGED <<lines, tail>>
         \/ lines' = Append(lines, tail) /\ tail' = Empty
    [] OTHER -> UNCHANGED <<lines, tail>>

\* An I/O error, reported to the caller.
AppendFails(h) ==
  /\ pc[h] \in InAppend
  /\ Stopped(h)
  /\ pc' = [pc EXCEPT ![h] = "failed"]
  /\ UNCHANGED <<synced, lock, pend, nextSeq, mem, acked, delivered>>

\* The future is dropped at an await: tokio finishes the write that was
\* handed over, and nothing after it runs.
CancelAppend(h) ==
  /\ pc[h] \in InAppend
  /\ CASE pc[h] = "line" -> tail' = Join(tail, InFlight(h)) /\ lines' = lines
       [] pc[h] = "newline" -> lines' = Append(lines, tail) /\ tail' = Empty
       [] OTHER -> UNCHANGED <<lines, tail>>
  /\ pc' = [pc EXCEPT ![h] = "failed"]
  /\ UNCHANGED <<synced, lock, pend, nextSeq, mem, acked, delivered>>

-----------------------------------------------------------------------------
(* The environment: processes die, machines lose power, clients read.      *)

\* The process of h dies.  What it handed to the kernel stays readable.
Crash(h) ==
  /\ pc[h] # "closed"
  /\ Stopped(h)
  /\ lock' = NoHandle
  /\ pc' = [pc EXCEPT ![h] = "closed"]
  /\ mem' = [mem EXCEPT ![h] = <<>>]
  /\ UNCHANGED <<synced, pend, nextSeq, acked, delivered>>

\* The machine dies: any suffix of the file that was not made durable is gone,
\* and the clients, which are local, with it.
PowerLoss ==
  /\ \E m \in synced..Len(lines) :
       /\ lines' = SubSeq(lines, 1, m)
       /\ tail' \in {Empty, Torn, IF m < Len(lines) THEN lines[m + 1] ELSE tail}
       /\ tail = Empty /\ m = Len(lines) => tail' = Empty
  /\ lock' = NoHandle
  /\ pc' = [h \in Handles |-> "closed"]
  /\ mem' = [h \in Handles |-> <<>>]
  /\ delivered' = <<>>
  /\ UNCHANGED <<synced, pend, nextSeq, acked>>

\* thread/events, thread/subscribe: read the file, without the lock, and hand
\* over what is past the client's since_seq.
ReadEventsSince ==
  /\ Readable
  /\ delivered' = delivered \o SubSeq(Events(Content), Len(delivered) + 1, Scanned(Content))
  /\ UNCHANGED <<lines, tail, synced, lock, pc, pend, nextSeq, mem, acked>>

-----------------------------------------------------------------------------
Init ==
  /\ lines = <<>>
  /\ tail = Empty
  /\ synced = 0
  /\ lock = NoHandle
  /\ pc = [h \in Handles |-> "closed"]
  /\ pend = [h \in Handles |-> NoKind]
  /\ nextSeq = [h \in Handles |-> 1]
  /\ mem = [h \in Handles |-> <<>>]
  /\ acked = {}
  /\ delivered = <<>>

HandleStep(h) ==
  \/ AcquireLock(h)
  \/ Sanitize(h)
  \/ EnsureRecordBoundary(h)
  \/ DropHandle(h)
  \/ \E k \in Kinds : StartAppend(h, k)
  \/ WriteLine(h)
  \/ WriteNewline(h)
  \/ SyncData(h)
  \/ AppendFails(h)
  \/ CancelAppend(h)
  \/ Crash(h)

\* A handle whose append failed or was cancelled is dropped, never used again:
\* what complete_turn does with a runtime that could not write TurnCompleted.
CarefulNext ==
  \/ \E h \in Handles : HandleStep(h)
  \/ PowerLoss
  \/ ReadEventsSince

\* What the code allows.
Next ==
  \/ CarefulNext
  \/ \E h \in Handles : \/ \E k \in Kinds : AppendAfterFailure(h, k)
                        \/ SanitizeCutsElsewhere(h)
                        \/ OpenFails(h)

CarefulSpec == Init /\ [][CarefulNext]_vars
Spec == Init /\ [][Next]_vars

-----------------------------------------------------------------------------
(* Properties.                                                             *)

\* Every variable keeps to its type.
TypeOK ==
  /\ lines \in Seq(Texts)
  /\ tail \in Texts
  /\ synced \in Nat
  /\ lock \in Handles \union {NoHandle}
  /\ pc \in [Handles -> Phases]
  /\ pend \in [Handles -> Kinds \union {NoKind}]
  /\ nextSeq \in [Handles -> Nat]
  /\ mem \in [Handles -> Seq(Records)]
  /\ acked \subseteq Records
  /\ delivered \in Seq(Records)

\* Replay never fails: whatever crashed, lost power or failed, open and every
\* reader accept the file (sanitize_and_read_events, read_events_since).
LogReadable == Readable

\* An event whose append returned Ok is a durable line, at its own number: no
\* crash, truncation or later append removes or renumbers it.
AckedDurable ==
  \A r \in acked : r.seq \in 1..synced /\ r.seq <= Len(lines) /\ lines[r.seq] = r

\* The state a handle holds between appends is the one a replay of the file
\* gives, and the next number is the one after it.
MemoryIsReplay ==
  \A h \in Handles : pc[h] = "idle" => /\ mem[h] = Content
                                       /\ nextSeq[h] = Len(Content) + 1

\* What a subscriber has been given stays a prefix of what the file replays:
\* nothing it saw is retracted or renumbered by a recovery.
DeliveredIsPrefix ==
  /\ Len(delivered) <= Scanned(Content)
  /\ \A i \in 1..Len(delivered) : delivered[i] = Content[i]

-----------------------------------------------------------------------------
(* The promise to the users of the log.                                    *)

Replay == Events(Content)

Promise == INSTANCE AppendOnlyLog WITH log <- Replay

\* The file, its lock, its crashes and its recoveries are an append-only log
\* (docs/thread_event_model.md, section 0), as long as no failed writer is
\* used again.
ImplementsAppendOnlyLog == Promise!Spec

-----------------------------------------------------------------------------
(* The inductive invariant behind the properties.                          *)

\* Every terminated line is the event with its own number.
LinesNumbered == \A i \in 1..Len(lines) : lines[i] \in Records /\ lines[i].seq = i

\* The text after the last newline is nothing, the next event or a piece of it.
TailIsNext == tail \in Records => tail.seq = Len(lines) + 1

\* Whoever is not closed holds the lock.
LockHeld == \A h \in Handles : pc[h] # "closed" => lock = h

Opened(h) ==
  pc[h] = "sanitized" => tail # Torn /\ mem[h] = Content

Settled(h) ==
  pc[h] \in {"idle", "line"} => /\ tail = Empty
                                /\ mem[h] = lines
                                /\ nextSeq[h] = Len(lines) + 1

Writing(h) ==
  /\ pc[h] \in InAppend => pend[h] \in Kinds
  /\ pc[h] = "newline" => /\ tail = InFlight(h)
                          /\ mem[h] = lines
                          /\ nextSeq[h] = Len(lines) + 1
  /\ pc[h] = "sync" => /\ tail = Empty
                       /\ lines = Append(mem[h], InFlight(h))
                       /\ nextSeq[h] = Len(lines)

\* What each handle knows of the file at each point of its life.
HandlesAgree == \A h \in Handles : Opened(h) /\ Settled(h) /\ Writing(h)

\* How many events the file replays to.
Whole == IF tail \in Records THEN Len(lines) + 1 ELSE Len(lines)

DeliveredWhole ==
  /\ Len(delivered) <= Whole
  /\ \A i \in 1..Len(delivered) : delivered[i] = Content[i]

IInv ==
  /\ TypeOK
  /\ LinesNumbered
  /\ TailIsNext
  /\ LockHeld
  /\ synced <= Len(lines)
  /\ AckedDurable
  /\ HandlesAgree
  /\ DeliveredWhole
=============================================================================
