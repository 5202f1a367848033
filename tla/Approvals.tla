------------------------------ MODULE Approvals ------------------------------
(***************************************************************************)
(* The approvals of one thread: the gate a tool call passes                *)
(* (gate_approval), the wait for a decision, approval/decide, remembered   *)
(* decisions, and the denial of what is pending when the thread is loaded. *)
(*                                                                         *)
(* Everyone reads the event log without a lock and appends to it under the *)
(* handle's mutex; a read and an append are two steps.  A gate asks for    *)
(* one approval with a new id, so an approval is named by its call.        *)
(* Approvals that stand for one of a child thread are left out.            *)
(***************************************************************************)
EXTENDS Integers, Sequences

CONSTANTS
  Calls,         \* tool calls of the agent
  Clients,       \* tasks that serve approval/decide
  Rules,         \* what approval_rule_key tells apart
  RuleOf,        \* what each call wants to do
  Strict,        \* rules whose params ask for prompt_strict
  Trusted,       \* rules the exec policy allows
  Policies,      \* the approval policies the thread may have
  Remembers,     \* bound: the values of remember that clients send
  NoCall,
  MaxFaults      \* bound: crashes, and loads that fail

ASSUME NoCallAssumption == NoCall \notin Calls
ASSUME RulesAssumption ==
  RuleOf \in [Calls -> Rules] /\ Strict \subseteq Rules /\ Trusted \subseteq Rules
ASSUME PoliciesAssumption ==
  Policies \subseteq {"auto_approve", "manual", "unless_trusted", "auto_deny"}
ASSUME RemembersAssumption == Remembers \subseteq BOOLEAN
ASSUME MaxFaultsAssumption == MaxFaults \in Nat

Decisions == {"approved", "denied"}

VARIABLES
  events,     \* ApprovalRequested and ApprovalDecided in events.jsonl
  open,       \* the runtime of the thread: closed, recovering, ready
  left,       \* the approvals recovery has still to deny
  call,       \* where each call is
  verdict,    \* what the gate of each call has settled on: a decision, or to ask
  deciding,   \* the approval each client is about to decide, and how
  faults

vars == <<events, open, left, call, verdict, deciding, faults>>

-----------------------------------------------------------------------------
(* What the log says.                                                      *)

Requested(k) == [type |-> "requested", of |-> k]
Decided(k, d, remember) ==
  [type |-> "decided", of |-> k, decision |-> d, remember |-> remember]

EventTypes ==
  [type : {"requested"}, of : Calls]
    \union [type : {"decided"}, of : Calls, decision : Decisions, remember : BOOLEAN]

\* The places of the decisions on k.
DecidedAt(k) == {i \in DOMAIN events : events[i].type = "decided" /\ events[i].of = k}

IsRequested(k) == \E i \in DOMAIN events : events[i] = Requested(k)
Pending(k) == IsRequested(k) /\ DecidedAt(k) = {}

\* What the agent that reads on from where it was sees: the first decision.
First(k, d) ==
  \E i \in DecidedAt(k) : events[i].decision = d /\ \A j \in DecidedAt(k) : i <= j

\* What ApprovalEventIndex, filled event by event, keeps: the last one.
Last(k, d) ==
  \E i \in DecidedAt(k) : events[i].decision = d /\ \A j \in DecidedAt(k) : j <= i

\* The places of decisions to be remembered for r.
RememberedAt(r) ==
  {i \in DOMAIN events : /\ events[i].type = "decided" /\ events[i].remember
                         /\ RuleOf[events[i].of] = r /\ r \notin Strict
                         /\ \E j \in 1..i : events[j] = Requested(events[i].of)}

Remembered(r, d) ==
  \E i \in RememberedAt(r) : events[i].decision = d /\ \A j \in RememberedAt(r) : j <= i

-----------------------------------------------------------------------------
(* A tool call.                                                            *)

Log(e) == events' = Append(events, e)
Goto(k, label) == call' = [call EXCEPT ![k] = label]

ByPolicy(r, p) ==
  CASE p = "auto_approve" -> "approved"
    [] p = "auto_deny" -> "denied"
    [] p = "unless_trusted" /\ r \in Trusted -> "approved"
    [] OTHER -> "ask"

\* gate_approval up to its first append.
Gate(k, p) ==
  /\ open = "ready" /\ call[k] = "idle"
  /\ LET r == RuleOf[k] IN
       \E v \in Decisions \union {"ask"} :
         /\ verdict' = [verdict EXCEPT ![k] = v]
         /\ \/ r \in Strict /\ v = IF p = "auto_deny" THEN "denied" ELSE "ask"
            \/ r \notin Strict /\ Remembered(r, v)
            \/ r \notin Strict /\ RememberedAt(r) = {} /\ v = ByPolicy(r, p)
  /\ Goto(k, "request")
  /\ UNCHANGED <<events, open, left, deciding, faults>>

Request(k) ==
  /\ open = "ready" /\ call[k] = "request"
  /\ Log(Requested(k))
  /\ Goto(k, IF verdict[k] = "ask" THEN "waiting" ELSE "auto")
  /\ UNCHANGED <<open, left, verdict, deciding, faults>>

Outcome(d) == IF d = "approved" THEN "ran" ELSE "denied"

\* How the gate records its own decision.
OwnDecision(k) == Log(Decided(k, verdict[k], FALSE))

\* It does not look whether there is one by now.
AutoDecide(k) ==
  /\ open = "ready" /\ call[k] = "auto"
  /\ OwnDecision(k)
  /\ Goto(k, Outcome(verdict[k]))
  /\ UNCHANGED <<open, left, verdict, deciding, faults>>

\* Whether the waiting agent takes d for the decision on k.
Answer_Last(k, d) == Last(k, d)
Answer_ApprovedOnly(k, d) == d = "approved" /\ First(k, d)
Answer(k, d) == First(k, d)

\* wait_for_approval_outcome.
SeeDecision(k) ==
  /\ call[k] = "waiting"
  /\ \E d \in Decisions :
       /\ Answer(k, d)
       /\ Goto(k, IF d = "approved" THEN "retry" ELSE "denied")
  /\ UNCHANGED <<events, open, left, verdict, deciding, faults>>

\* The tool runs again with the approval's id, and ensure_approval looks at it.
Retry(k) ==
  /\ call[k] = "retry"
  /\ Goto(k, IF Last(k, "approved") THEN "ran" ELSE "lost")
  /\ UNCHANGED <<events, open, left, verdict, deciding, faults>>

InProgress == {"request", "auto", "waiting", "retry"}

\* The turn is interrupted, or an append fails: the call ends where it is.
Abandon(k) ==
  /\ call[k] \in InProgress
  /\ Goto(k, "lost")
  /\ UNCHANGED <<events, open, left, verdict, deciding, faults>>

-----------------------------------------------------------------------------
(* approval/decide.                                                        *)

Nothing == [of |-> NoCall]
Idle(c) == deciding[c] = Nothing

\* What the request is checked against before it is served.
MayDecide(k) == Pending(k)

ReadPending(c, k, d, remember) ==
  /\ Idle(c) /\ MayDecide(k)
  /\ deciding' = [deciding EXCEPT ![c] = Decided(k, d, remember)]
  /\ UNCHANGED <<events, open, left, call, verdict, faults>>

\* The thread has been loaded, if it was not; nothing is checked again.
RecordDecision(c) ==
  /\ ~Idle(c) /\ open = "ready"
  /\ Log(deciding[c])
  /\ deciding' = [deciding EXCEPT ![c] = Nothing]
  /\ UNCHANGED <<open, left, call, verdict, faults>>

\* The load or the append fails.
DecideFails(c) ==
  /\ ~Idle(c)
  /\ deciding' = [deciding EXCEPT ![c] = Nothing]
  /\ UNCHANGED <<events, open, left, call, verdict, faults>>

-----------------------------------------------------------------------------
(* Loading the thread, and the death of the server.                        *)

\* ThreadState::pending_approvals of the replay.
PendingOnLoad_None == {}
PendingOnLoad == {k \in Calls : Pending(k)}

\* Loading waits for nobody, also not for those who wait for the thread.
MayLoad_NoneWaits == open = "closed" /\ \A c \in Clients : Idle(c)
MayLoad == open = "closed"

Load ==
  /\ MayLoad
  /\ open' = "recovering"
  /\ left' = PendingOnLoad
  /\ UNCHANGED <<events, call, verdict, deciding, faults>>

DenyLeft(k) ==
  /\ open = "recovering" /\ k \in left
  /\ Log(Decided(k, "denied", FALSE))
  /\ left' = left \ {k}
  /\ UNCHANGED <<open, call, verdict, deciding, faults>>

Recovered ==
  /\ open = "recovering" /\ left = {}
  /\ open' = "ready"
  /\ UNCHANGED <<events, left, call, verdict, deciding, faults>>

\* What a recovery that stopped half way hands on: nothing, the next one replays.
HandedOn_Rest == left
HandedOn == {}

\* An append of the recovery fails; the next request loads the thread again.
LoadFails ==
  /\ open = "recovering" /\ faults < MaxFaults
  /\ faults' = faults + 1
  /\ open' = "closed" /\ left' = HandedOn
  /\ UNCHANGED <<events, call, verdict, deciding>>

Crash ==
  /\ open # "closed" /\ faults < MaxFaults
  /\ faults' = faults + 1
  /\ open' = "closed" /\ left' = HandedOn
  /\ call' = [k \in Calls |-> IF call[k] \in InProgress \union {"lost"} THEN "dead" ELSE call[k]]
  /\ deciding' = [c \in Clients |-> Nothing]
  /\ UNCHANGED <<events, verdict>>

-----------------------------------------------------------------------------
Init ==
  /\ events = <<>>
  /\ open = "closed" /\ left = {}
  /\ call = [k \in Calls |-> "idle"]
  /\ verdict = [k \in Calls |-> "ask"]
  /\ deciding = [c \in Clients |-> Nothing]
  /\ faults = 0

Proceed(k) == Request(k) \/ AutoDecide(k) \/ SeeDecision(k) \/ Retry(k)

CallStep(k) == Proceed(k) \/ Abandon(k) \/ \E p \in Policies : Gate(k, p)

ClientStep(c) ==
  \/ \E k \in Calls, d \in Decisions, r \in Remembers : ReadPending(c, k, d, r)
  \/ RecordDecision(c) \/ DecideFails(c)

Recovery == Recovered \/ \E k \in Calls : DenyLeft(k)

Next ==
  \/ \E k \in Calls : CallStep(k)
  \/ \E c \in Clients : ClientStep(c)
  \/ Load \/ Recovery \/ LoadFails
  \/ Crash

Spec == Init /\ [][Next]_vars

\* Tasks that can go on do; a request loads the thread that it is about.
Fairness ==
  /\ \A k \in Calls : WF_vars(Proceed(k))
  /\ \A c \in Clients : WF_vars(RecordDecision(c))
  /\ WF_vars(Load) /\ WF_vars(Recovery)

FairSpec == Spec /\ Fairness

-----------------------------------------------------------------------------
(* Properties.                                                             *)

Labels == {"idle", "ran", "denied", "lost", "dead"} \union InProgress

\* Every variable keeps to its type, and only a recovery has something left to do.
TypeOK ==
  /\ events \in Seq(EventTypes)
  /\ open \in {"closed", "recovering", "ready"}
  /\ left \subseteq Calls /\ (left # {} => open = "recovering")
  /\ call \in [Calls -> Labels]
  /\ verdict \in [Calls -> Decisions \union {"ask"}]
  /\ deciding \in [Clients -> EventTypes \union {Nothing}]
  /\ faults \in 0..MaxFaults

\* No decision comes before the request it is about (docs/approvals.md, section 1).
RequestedFirst ==
  \A i \in DOMAIN events :
    events[i].type = "decided" => \E j \in 1..i : events[j] = Requested(events[i].of)

\* A call that asked acts on the first decision, whatever is appended after it:
\* it has run only if that approves, and is denied only if that denies.
FollowsFirst ==
  \A k \in Calls : verdict[k] = "ask" =>
    /\ call[k] \in {"retry", "ran"} => First(k, "approved")
    /\ call[k] = "denied" => First(k, "denied")

\* The outcome of every call that ran or was denied is a decision in the log, also
\* when no one was asked.
OutcomeIsLogged ==
  \A k \in Calls, d \in Decisions :
    call[k] = Outcome(d) => \E i \in DecidedAt(k) : events[i].decision = d

\* What was pending when the server died is pending no more once the thread is
\* loaded: nobody would ever take its decision (docs/approvals.md, section 1).
NoneLeftPending ==
  open = "ready" => \A k \in Calls : call[k] = "dead" => ~Pending(k)

\* An approval is decided at most once: approval/decide refuses a decided one.
DecidedOnce == \A k \in Calls : \A i, j \in DecidedAt(k) : i = j

\* A call whose approval is decided does not wait for ever.
DecisionReachesCall ==
  \A k \in Calls : (call[k] = "waiting" /\ DecidedAt(k) # {}) ~> call[k] # "waiting"

\* A decision that was not refused is recorded, or its client hears of a failure,
\* also when the thread has to be loaded and recovered first.
DecideIsAnswered == \A c \in Clients : ~Idle(c) ~> Idle(c)

-----------------------------------------------------------------------------
(* The promise to the calls that wait.                                     *)

Status(k) ==
  IF ~IsRequested(k) THEN "none"
  ELSE IF DecidedAt(k) = {} THEN "pending"
  ELSE IF First(k, "approved") THEN "approved" ELSE "denied"

Settled(k) ==
  IF verdict[k] = "ask" /\ call[k] \in {"ran", "denied"} THEN call[k] ELSE "open"

Promise == INSTANCE FirstDecision
  WITH status <- [k \in Calls |-> Status(k)], outcome <- [k \in Calls |-> Settled(k)]

\* The log, however often it holds a decision, is a register that the first
\* decision settles, and the calls that wait follow it.
ImplementsFirstDecision == Promise!Spec

-----------------------------------------------------------------------------
(* The inductive invariant behind the properties.                          *)

\* An approval is requested when its call has passed that point, and not before.
CallsRequest ==
  \A k \in Calls :
    /\ call[k] \in {"idle", "request"} => ~IsRequested(k)
    /\ call[k] \in {"auto", "waiting", "retry", "ran", "denied"} => IsRequested(k)

\* Who decides without asking has settled on a decision; who waits asked.
VerdictFits ==
  \A k \in Calls :
    /\ call[k] = "auto" => verdict[k] \in Decisions
    /\ call[k] \in {"waiting", "retry"} => verdict[k] = "ask"

\* Whoever is about to decide an approval has seen it requested.
DecidersRead ==
  /\ \A c \in Clients :
       Idle(c) \/ \E k \in Calls, d \in Decisions, r \in BOOLEAN :
                    deciding[c] = Decided(k, d, r) /\ IsRequested(k)
  /\ \A k \in left : IsRequested(k)

\* A recovery misses nothing that was pending when the server died.
NoneMissed ==
  open = "recovering" => \A k \in Calls : call[k] = "dead" /\ Pending(k) => k \in left

IInv ==
  /\ TypeOK
  /\ RequestedFirst
  /\ CallsRequest
  /\ VerdictFits
  /\ DecidersRead
  /\ FollowsFirst
  /\ OutcomeIsLogged
  /\ NoneLeftPending
  /\ NoneMissed
=============================================================================
