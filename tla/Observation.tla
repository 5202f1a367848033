---------------------------- MODULE Observation ----------------------------
(* What the clients of one thread learn of it: the long poll of             *)
(* thread/subscribe, and the budget markers that append_event adds to the   *)
(* log.  The log is what AppendOnlyLog promises: it grows, and whoever      *)
(* reads it reads all of it.  Writers run in parallel (an agent in the      *)
(* LocalSet, process actors on the pool); they announce an event after it   *)
(* was appended, over a broadcast channel whose receivers lose what they do *)
(* not fetch in time.                                                       *)
EXTENDS Naturals, Sequences, FiniteSets

CONSTANTS
  Writers,     \* tasks that append events to the thread
  Agents,      \* those that are dropped when their turn is cancelled
  Clients,     \* that follow the thread with thread/subscribe
  Wanted,      \* the kinds of events that each client asks for
  PageSize,    \* max_events
  Capacity,    \* what the channel keeps for a receiver
  Warn, Limit, \* the tokens from which on a warning is due, and the budget
  MaxEvents,   \* bound: events other than markers
  MaxFaults    \* bound: restarts, dropped tasks, markers that cannot be appended

Plain == {"step", "note"}
Markers == {"warning", "exceeded"}
Event == [kind : Plain, of : {"none"}] \union [kind : {"set", "clear"}, of : Markers]

ASSUME PartiesAssumption == Agents \subseteq Writers /\ Wanted \in [Clients -> SUBSET {e.kind : e \in Event}]
ASSUME SizesAssumption == PageSize \in Nat \ {0} /\ Capacity \in Nat \ {0}
ASSUME BudgetAssumption == Warn \in Nat /\ Limit \in Nat
ASSUME BoundsAssumption == MaxEvents \in Nat /\ MaxFaults \in Nat

VARIABLES
  log,         \* the events of the thread
  told,        \* the places of those that were announced
  pc,          \* where each writer is in append_event
  event,       \* the place of the event a writer has appended last
  todo,        \* the markers it has yet to append
  seen,        \* the markers APP_TOKEN_BUDGET_MARKER_STATE has as active, or Unknown
  at, late,    \* where each subscribe is, and whether its deadline has passed
  upto,        \* the end of the log as it read it
  rx, lagged,  \* its receiver: lines to fetch, and whether some were lost
  cursor, got, \* the client's since_seq, and the places of the events it has been given
  faults

logVars == <<log, told>>
writerVars == <<pc, event, todo, seen>>
clientVars == <<at, late, upto, rx, lagged, cursor, got>>
vars == <<logVars, writerVars, clientVars, faults>>

Unknown == {"unknown"}

-----------------------------------------------------------------------------
(* Appending and announcing.                                               *)

\* ThreadState::total_tokens_used after the first n events; a step takes one.
Used(n) == Cardinality({i \in 1..n : log[i].kind = "step"})

Plains == {i \in DOMAIN log : log[i].kind \in Plain}

AppendBy(w, e) ==
  /\ log' = Append(log, e)
  /\ event' = [event EXCEPT ![w] = Len(log) + 1]
  /\ pc' = [pc EXCEPT ![w] = "emit"]
  /\ UNCHANGED <<told, seen, clientVars>>

\* An event that tells of tokens used ("step"), or any other ("note").
AppendEvent(w, k) ==
  /\ pc[w] = "idle" /\ Cardinality(Plains) < MaxEvents
  /\ AppendBy(w, [kind |-> k, of |-> "none"])
  /\ UNCHANGED <<todo, faults>>

\* A full receiver loses its oldest line, and learns of it when it fetches.
Push_Unbounded(q, x) == Append(q, x)
Push(q, x) == IF Len(q) = Capacity THEN Append(Tail(q), x) ELSE Append(q, x)

Notify(x) ==
  /\ rx' = [c \in Clients |-> IF at[c] = "idle" THEN rx[c] ELSE Push(rx[c], x)]
  /\ lagged' = [c \in Clients |-> lagged[c] \/ (at[c] # "idle" /\ Len(rx[c]) = Capacity)]
  /\ UNCHANGED <<at, late, upto, cursor, got>>

\* What follows the announcement: append_event goes on to the budget, start_turn,
\* interrupt_turn and complete_turn do not, and after a marker comes the next.
Then(w) ==
  CASE log[event[w]].kind = "step" -> {"sync"}
    [] log[event[w]].kind = "note" -> {"sync", "idle"}
    [] OTHER -> {IF todo[w] = <<>> THEN "idle" ELSE "mark"}

\* A writer that is done has no event in hand.
Leave(w, label) ==
  /\ pc' = [pc EXCEPT ![w] = label]
  /\ event' = [event EXCEPT ![w] = IF label = "idle" THEN 0 ELSE @]

\* emit_event_notifications.
Emit(w) ==
  /\ pc[w] = "emit"
  /\ told' = told \union {event[w]}
  /\ Notify("event")
  /\ \E label \in Then(w) : Leave(w, label)
  /\ UNCHANGED <<log, todo, seen, faults>>

\* Lines about other threads, and deltas, are sent over the same channel.
OtherLine ==
  /\ Notify("other")
  /\ UNCHANGED <<logVars, writerVars, faults>>

-----------------------------------------------------------------------------
(* The budget markers.                                                     *)

Active(total) ==
  {m \in Markers : IF m = "exceeded" THEN total > Limit ELSE Warn <= total /\ total <= Limit}

\* Whether a marker changes; the first sample only says where it starts.
Changes_Always(m, now) == seen = Unknown \/ (m \in seen) # (m \in now)
Changes(m, now) == seen # Unknown /\ (m \in seen) # (m \in now)

Transition(m, now) ==
  IF Changes(m, now)
    THEN <<[kind |-> IF m \in now THEN "set" ELSE "clear", of |-> m]>>
    ELSE <<>>

\* sync_token_budget_attention_markers, with the total of the writer's own append,
\* however long ago that was.
Sync(w) ==
  /\ pc[w] = "sync"
  /\ LET now == Active(Used(event[w]))
         changes == Transition("warning", now) \o Transition("exceeded", now) IN
       /\ todo' = [todo EXCEPT ![w] = changes]
       /\ Leave(w, IF changes = <<>> THEN "idle" ELSE "mark")
       /\ seen' = now
  /\ UNCHANGED <<logVars, clientVars, faults>>

Mark(w) ==
  /\ pc[w] = "mark"
  /\ AppendBy(w, Head(todo[w]))
  /\ todo' = [todo EXCEPT ![w] = Tail(@)]
  /\ UNCHANGED faults

\* The append of a marker fails, which is logged only.
MarkFails(w) ==
  /\ pc[w] = "mark" /\ faults < MaxFaults
  /\ todo' = [todo EXCEPT ![w] = Tail(@)]
  /\ Leave(w, IF Len(todo[w]) = 1 THEN "idle" ELSE "mark")
  /\ faults' = faults + 1
  /\ UNCHANGED <<logVars, seen, clientVars>>

\* The turn of an agent is cancelled at an await.
DropAgent(w) ==
  /\ w \in Agents /\ pc[w] # "idle" /\ faults < MaxFaults
  /\ Leave(w, "idle")
  /\ todo' = [todo EXCEPT ![w] = <<>>]
  /\ faults' = faults + 1
  /\ UNCHANGED <<logVars, seen, clientVars>>

-----------------------------------------------------------------------------
(* thread/subscribe, and a client that asks again and again.               *)

Goto(c, label) == at' = [at EXCEPT ![c] = label]

Wants(c, i) == i \in DOMAIN log /\ log[i].kind \in Wanted[c]

\* The receiver is there before the file is read.
Subscribe(c) ==
  /\ at[c] = "idle"
  /\ Goto(c, "read")
  /\ UNCHANGED <<logVars, writerVars, late, upto, rx, lagged, cursor, got, faults>>

ReadLog(c) ==
  /\ at[c] = "read"
  /\ upto' = [upto EXCEPT ![c] = Len(log)]
  /\ Goto(c, "decide")
  /\ UNCHANGED <<logVars, writerVars, late, rx, lagged, cursor, got, faults>>

\* filter_and_paginate_thread_events.
Matching(c) == {i \in cursor[c] + 1..upto[c] : Wants(c, i)}
Page(c) == {i \in Matching(c) : Cardinality({j \in Matching(c) : j <= i}) <= PageSize}

\* The last_seq of an answer: the end of the log, unless there is more.
LastSeq_End(c) == upto[c]
LastSeq(c) ==
  IF Page(c) = Matching(c) THEN upto[c] ELSE CHOOSE i \in Page(c) : \A j \in Page(c) : j <= i

\* With events, or with none when the time is over; the receiver goes with the request.
Answer(c) ==
  /\ at[c] = "decide"
  /\ Matching(c) # {} \/ late[c]
  /\ got' = [got EXCEPT ![c] = @ \union Page(c)]
  /\ cursor' = [cursor EXCEPT ![c] = LastSeq(c)]
  /\ Goto(c, "idle")
  /\ late' = [late EXCEPT ![c] = FALSE] /\ upto' = [upto EXCEPT ![c] = 0]
  /\ rx' = [rx EXCEPT ![c] = <<>>] /\ lagged' = [lagged EXCEPT ![c] = FALSE]
  /\ UNCHANGED <<logVars, writerVars, faults>>

Wait(c) ==
  /\ at[c] = "decide"
  /\ Matching(c) = {} /\ ~late[c]
  /\ Goto(c, "wait")
  /\ UNCHANGED <<logVars, writerVars, late, upto, rx, lagged, cursor, got, faults>>

\* wait_for_thread_event_notification: it returns for a line of the thread, and when
\* it may have lost one.
Woken_NotByLag(c) == ~lagged[c] /\ Head(rx[c]) = "event"
Woken(c) == lagged[c] \/ Head(rx[c]) = "event"

Fetch(c) ==
  /\ at[c] = "wait" /\ rx[c] # <<>>
  /\ lagged' = [lagged EXCEPT ![c] = FALSE]
  /\ rx' = [rx EXCEPT ![c] = IF lagged[c] THEN @ ELSE Tail(@)]
  /\ Goto(c, IF Woken(c) THEN "read" ELSE "wait")
  /\ UNCHANGED <<logVars, writerVars, late, upto, cursor, got, faults>>

\* wait_ms may be 0.
TimeIsUp_Never(c) == FALSE
TimeIsUp(c) == at[c] # "idle" /\ ~late[c]

Deadline(c) ==
  /\ TimeIsUp(c)
  /\ late' = [late EXCEPT ![c] = TRUE]
  /\ Goto(c, IF at[c] = "wait" THEN "read" ELSE at[c])
  /\ UNCHANGED <<logVars, writerVars, upto, rx, lagged, cursor, got, faults>>

-----------------------------------------------------------------------------
\* The server dies and comes back; clients ask again from where they were.
Restart ==
  /\ faults < MaxFaults /\ faults' = faults + 1
  /\ pc' = [w \in Writers |-> "idle"] /\ event' = [w \in Writers |-> 0]
  /\ todo' = [w \in Writers |-> <<>>] /\ seen' = Unknown
  /\ at' = [c \in Clients |-> "idle"] /\ late' = [c \in Clients |-> FALSE]
  /\ upto' = [c \in Clients |-> 0]
  /\ rx' = [c \in Clients |-> <<>>] /\ lagged' = [c \in Clients |-> FALSE]
  /\ UNCHANGED <<logVars, cursor, got>>

Init ==
  /\ log = <<>> /\ told = {}
  /\ pc = [w \in Writers |-> "idle"] /\ event = [w \in Writers |-> 0]
  /\ todo = [w \in Writers |-> <<>>] /\ seen = Unknown
  /\ at = [c \in Clients |-> "idle"] /\ late = [c \in Clients |-> FALSE]
  /\ upto = [c \in Clients |-> 0]
  /\ rx = [c \in Clients |-> <<>>] /\ lagged = [c \in Clients |-> FALSE]
  /\ cursor = [c \in Clients |-> 0] /\ got = [c \in Clients |-> {}]
  /\ faults = 0

Proceed(w) == Emit(w) \/ Sync(w) \/ Mark(w)

WriterStep(w) ==
  \/ Proceed(w) \/ MarkFails(w) \/ DropAgent(w)
  \/ \E k \in Plain : AppendEvent(w, k)

Serve(c) == ReadLog(c) \/ Answer(c) \/ Wait(c) \/ Fetch(c)

ClientStep(c) == Subscribe(c) \/ Serve(c) \/ Deadline(c)

Next ==
  \/ \E w \in Writers : WriterStep(w)
  \/ \E c \in Clients : ClientStep(c)
  \/ OtherLine \/ Restart

Spec == Init /\ [][Next]_vars

\* Clients ask again when they are answered; tasks that can go on do, and time passes.
\* Nothing makes a writer announce its event, or a line arrive.
Fairness == \A c \in Clients : WF_vars(Subscribe(c)) /\ WF_vars(Serve(c)) /\ WF_vars(Deadline(c))

FairSpec == Spec /\ Fairness

-----------------------------------------------------------------------------
(* Properties.                                                             *)

Places == 0..Len(log)

\* Every variable keeps to its type: a receiver never holds more than the channel keeps,
\* and nobody has read past the end of the log.
TypeOK ==
  /\ log \in Seq(Event) /\ told \subseteq DOMAIN log
  /\ pc \in [Writers -> {"idle", "emit", "sync", "mark"}] /\ event \in [Writers -> Places]
  /\ todo \in [Writers -> Seq([kind : {"set", "clear"}, of : Markers])]
  /\ \A w \in Writers :
       /\ pc[w] \in {"emit", "sync"} => event[w] > 0
       /\ (pc[w] = "mark" => todo[w] # <<>>) /\ (pc[w] \in {"idle", "sync"} => todo[w] = <<>>)
  /\ seen = Unknown \/ seen \subseteq Markers
  /\ at \in [Clients -> {"idle", "read", "decide", "wait"}] /\ late \in [Clients -> BOOLEAN]
  /\ upto \in [Clients -> Places] /\ cursor \in [Clients -> Places]
  /\ rx \in [Clients -> Seq({"event", "other"})] /\ \A c \in Clients : Len(rx[c]) <= Capacity
  /\ lagged \in [Clients -> BOOLEAN] /\ got \in [Clients -> SUBSET (DOMAIN log)]
  /\ faults \in 0..MaxFaults

\* Whatever the answers were (pages, batches without a matching event, timeouts) and
\* whatever died between them, a client has been given exactly the events of its kinds
\* up to its since_seq.
GotAll == \A c \in Clients : got[c] = {i \in 1..cursor[c] : Wants(c, i)}

\* A client does not sleep over an event that was announced: while it waits, a line of
\* the thread is there to be fetched, or the receiver knows that it has lost some.
NoLostWakeup ==
  \A c \in Clients, i \in told :
    at[c] = "wait" /\ i > cursor[c] /\ Wants(c, i)
      => lagged[c] \/ \E n \in DOMAIN rx[c] : rx[c][n] = "event"

\* No marker is in the log, set or cleared, before the tokens that it is about were used.
MarkersAreEarned ==
  \A i \in DOMAIN log :
    /\ log[i].of = "warning" => Used(i) >= Warn
    /\ log[i].of = "exceeded" => Used(i) > Limit

\* Announcements are an optimisation: an event that a client wants is given to it in the
\* end, also when it was never announced or its line was lost.
EventArrives ==
  \A c \in Clients, i \in 1..3 * MaxEvents : Wants(c, i) ~> i \in got[c]

-----------------------------------------------------------------------------
(* The inductive invariant.                                                *)

\* Something for client c to fetch, or the knowledge that there was.
Heard(c) == lagged[c] \/ \E n \in DOMAIN rx[c] : rx[c][n] = "event"

\* A client that looks at what it has read is not past it.
ReadsOn == \A c \in Clients : at[c] = "decide" => cursor[c] <= upto[c]

\* The receiver is older than the read: it has heard of whatever came after.
HearsNews ==
  \A c \in Clients, i \in told : at[c] = "decide" /\ i > upto[c] => Heard(c)

\* Markers are appended only after the event that made them due was announced.
PlainFirst ==
  \A w \in Writers : pc[w] = "emit" /\ log[event[w]].kind \in Plain => todo[w] = <<>>

Earned(m, n) ==
  /\ m = "warning" => Used(n) >= Warn
  /\ m = "exceeded" => Used(n) > Limit

\* A marker that was decided on, or is taken for set, is earned by the log.
MarkersDue ==
  /\ \A w \in Writers : \A n \in DOMAIN todo[w] : Earned(todo[w][n].of, Len(log))
  /\ \A m \in seen : Earned(m, Len(log))

IInv ==
  /\ TypeOK /\ GotAll /\ NoLostWakeup /\ MarkersAreEarned
  /\ ReadsOn /\ HearsNews /\ PlainFirst /\ MarkersDue
-----------------------------------------------------------------------------
\* What clients are given is a behaviour of EventFeed: pages, lost lines, timeouts and
\* restarts neither skip an event, nor give one twice, nor take a client back.
Feed == INSTANCE EventFeed
ImplementsEventFeed == Feed!Spec
=============================================================================
