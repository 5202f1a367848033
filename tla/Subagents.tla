------------------------------ MODULE Subagents ------------------------------
(***************************************************************************)
(* The schedule of one agent_spawn call: tasks with dependencies, each     *)
(* with a child thread; the scheduler that starts them, follows their      *)
(* turns over the notify channel, catches up from their files, and shows   *)
(* their approvals to the user as proxies in the parent thread; and the    *)
(* clients that decide an approval there or in the child.                  *)
(*                                                                         *)
(* The first tasks are started by the agent of the parent, the later ones  *)
(* by a task of the pool, where the spawn_local of start_turn panics.      *)
(*                                                                         *)
(* An event is in the file before it is in the channel, and nothing awaits *)
(* in between: here it enters both at once, and a catch-up reads what the  *)
(* channel delivers again later.  Reads of the files succeed.  A child has *)
(* the one turn its task started: events of others are ignored by turn id. *)
(*                                                                         *)
(* The scheduler keeps to its limit with the tasks it runs and the others  *)
(* that agent_spawn has counted.  Who else becomes active, by send_input   *)
(* or as a task of another spawn, asks for no slot here.                   *)
(***************************************************************************)
EXTENDS Naturals, Sequences, FiniteSets

CONSTANTS
  Tasks, Deps,       \* tasks (and their child threads), and what each depends on
  Asks, Asker,       \* approvals the children may request, and which child does
  Externals,         \* subagents of other spawns
  Found,             \* those that agent_spawn has found active
  MaxConcurrent,     \* 0: no limit
  Clients, Answers,  \* approval/decide requests, and the decisions they bring
  Parent, None,
  MaxFaults          \* bound: failed appends, dropped requests, a parent that
                     \* stops early or is recovered

Verdicts == {"approved", "denied"}

ASSUME DepsAssumption == Deps \in [Tasks -> SUBSET Tasks]
ASSUME AskerAssumption == Asker \in [Asks -> Tasks]
ASSUME LimitAssumption == MaxConcurrent \in Nat /\ MaxFaults \in Nat
ASSUME AnswersAssumption == Answers \subseteq Verdicts
ASSUME NamesAssumption ==
  /\ Tasks \cap Externals = {} /\ Parent \notin Tasks \union Externals
  /\ None \notin Tasks
ASSUME ExternalsAssumption ==
  /\ IsFiniteSet(Tasks) /\ IsFiniteSet(Externals) /\ Found \subseteq Externals
  /\ MaxConcurrent # 0 => Cardinality(Found) < MaxConcurrent

\* A spawn with an unknown or a circular dependency is refused.
ASSUME AcyclicAssumption ==
  \A S \in SUBSET Tasks : S # {} => \E t \in S : Deps[t] \cap S = {}

VARIABLES
  turn,      \* the turn of each child: none, active, completed, stopped, or
             \* lost: on record as active, and no task runs it
  live,      \* externals whose turn is active
  counted,   \* those the spawn has found active, until they end (a history: no code
             \* reads it)
  log,       \* what the scheduler heeds of the file of each child
  proxies,   \* the approvals that the proxies in the parent's file stand for
  verdicts,  \* the decisions on each proxy in that file
  client,    \* approval/decide calls under way
  chan, lagged,   \* lines the scheduler has not received; some were overwritten
  sched,     \* where the scheduler is
  resume,    \* where it goes on after a catch-up
  scan,      \* the catch-up: children left, the child at hand, its events
  job,       \* what is left of the handling of one event
  status,    \* of each task: pending, running, done, failed
  external,  \* external_active
  proxyOf,   \* approval_proxy_by_child, as a set of pairs of approval and proxy
  lastSeq,   \* of each child
  broken,    \* approvals whose proxy met a fault
  faults

childVars == <<turn, live, counted>>
fileVars == <<log, proxies, verdicts>>
chanVars == <<chan, lagged>>
loopVars == <<sched, resume, scan, job>>
scheduleVars == <<status, external, proxyOf, lastSeq>>
faultVars == <<broken, faults>>
vars == <<childVars, fileVars, client, chanVars, loopVars, scheduleVars, faultVars>>

Event ==
  [kind : {"asked"}, ask : Asks]
    \union [kind : {"decided"}, ask : Asks, verdict : Verdicts, forwarded : BOOLEAN]
    \union [kind : {"ended"}, ok : BOOLEAN]

-----------------------------------------------------------------------------
(* Files, channel and faults.                                              *)

Subscribed == sched \in {"start", "recv"} \/ (sched = "scan" /\ resume # "spawned")

\* Lines for nobody are lost; the order of the rest is kept.
Publish(thread, n) ==
  /\ chan' = IF Subscribed THEN Append(chan, <<thread, n>>) ELSE chan
  /\ UNCHANGED lagged

AppendChild(t, e) ==
  /\ log' = [log EXCEPT ![t] = Append(@, e)]
  /\ Publish(t, Len(log[t]) + 1)

AppendVerdict(n, v) ==
  /\ verdicts' = [verdicts EXCEPT ![n] = Append(@, v)]
  /\ Publish(Parent, n)

Asked(a) == \E i \in DOMAIN log[Asker[a]] : log[Asker[a]][i] = [kind |-> "asked", ask |-> a]

IsDecision(e, a) == e.kind = "decided" /\ e.ask = a
Decided(a) == \E i \in DOMAIN log[Asker[a]] : IsDecision(log[Asker[a]][i], a)

\* approval_state, and the check of approval/decide.
Pending(a) == Asked(a) /\ ~Decided(a)
Undecided(n) == n \in DOMAIN proxies /\ verdicts[n] = <<>>

Fault(A) == faults < MaxFaults /\ faults' = faults + 1 /\ broken' = broken \union A

-----------------------------------------------------------------------------
(* The children, other subagents, and the clients.                         *)

\* The agent of a child asks for an approval and waits for its decision.
Ask(a) ==
  /\ turn[Asker[a]] = "active" /\ ~Asked(a)
  /\ AppendChild(Asker[a], [kind |-> "asked", ask |-> a])
  /\ UNCHANGED <<childVars, proxies, verdicts, client, loopVars, scheduleVars, faultVars>>

\* A turn completes when its agent waits for nothing; it is stopped at any time.
EndTurn(t, ok) ==
  /\ turn[t] = "active"
  /\ ok => \A a \in Asks : Asker[a] = t => ~Pending(a)
  /\ turn' = [turn EXCEPT ![t] = IF ok THEN "completed" ELSE "stopped"]
  /\ AppendChild(t, [kind |-> "ended", ok |-> ok])
  /\ UNCHANGED <<live, counted, proxies, verdicts, client, loopVars, scheduleVars, faultVars>>

\* A line of one that is no longer in external_active tells the scheduler nothing, and a
\* second line nothing more: bound, one line of each waits in the channel.
Waits(e) == \E i \in DOMAIN chan : chan[i][1] = e

EndExternal(e) ==
  /\ e \in live
  /\ live' = live \ {e} /\ counted' = counted \ {e}
  /\ IF e \in external /\ ~Waits(e) THEN Publish(e, 1) ELSE UNCHANGED chanVars
  /\ UNCHANGED <<turn, fileVars, client, loopVars, scheduleVars, faultVars>>

\* subagent_send_input, or the scheduler of another spawn: a turn starts in any thread that
\* has none.  No slot is asked for here, and no TurnStarted is heeded.
StartExternal(e) ==
  /\ e \notin live
  /\ live' = live \union {e}
  /\ UNCHANGED <<turn, counted, fileVars, client, chanVars, loopVars, scheduleVars, faultVars>>

NoCall == [at |-> "idle"]
Call == {NoCall}
  \union [at : {"child"}, ask : Asks, proxy : Nat, verdict : Verdicts]
  \union [at : {"parent"}, ask : Asks, proxy : Nat, verdict : Verdicts]

\* approval/decide of a proxy: both approvals are found pending.
DecideProxy(c, n, v) ==
  /\ client[c] = NoCall /\ Undecided(n) /\ Pending(proxies[n])
  /\ client' = [client EXCEPT ![c] =
       [at |-> "child", ask |-> proxies[n], proxy |-> n, verdict |-> v]]
  /\ UNCHANGED <<childVars, fileVars, chanVars, loopVars, scheduleVars, faultVars>>

\* approval/decide in the child itself; the policy of the gate decides like this too.
DecideChild(c, a, v) ==
  /\ client[c] = NoCall /\ Pending(a)
  /\ client' = [client EXCEPT ![c] =
       [at |-> "child", ask |-> a, proxy |-> 0, verdict |-> v]]
  /\ UNCHANGED <<childVars, fileVars, chanVars, loopVars, scheduleVars, faultVars>>

\* The decision of a proxy goes on to the parent.
AfterChild_Ends(call) == NoCall
AfterChild(call) == IF call.proxy # 0 THEN [call EXCEPT !.at = "parent"] ELSE NoCall

\* The child is told first, without another look.
ClientChild(c) ==
  LET call == client[c] IN
  /\ call.at = "child"
  /\ AppendChild(Asker[call.ask], [kind |-> "decided", ask |-> call.ask,
                                   verdict |-> call.verdict, forwarded |-> call.proxy # 0])
  /\ client' = [client EXCEPT ![c] = AfterChild(call)]
  /\ UNCHANGED <<childVars, proxies, verdicts, loopVars, scheduleVars, faultVars>>

ClientParent(c) ==
  /\ client[c].at = "parent"
  /\ AppendVerdict(client[c].proxy, client[c].verdict)
  /\ client' = [client EXCEPT ![c] = NoCall]
  /\ UNCHANGED <<childVars, log, proxies, loopVars, scheduleVars, faultVars>>

\* An append fails, or the request is dropped with its connection.
ClientFails(c) ==
  /\ client[c].at \in {"child", "parent"}
  /\ Fault({client[c].ask})
  /\ client' = [client EXCEPT ![c] = NoCall]
  /\ UNCHANGED <<childVars, fileVars, chanVars, loopVars, scheduleVars>>

\* The parent thread is loaded again, which denies the proxies that are pending.
RecoverParent(n) ==
  /\ Undecided(n)
  /\ AppendVerdict(n, "denied")
  /\ Fault({proxies[n]})
  /\ UNCHANGED <<childVars, log, proxies, client, loopVars, scheduleVars>>

\* Other traffic overwrites the oldest line that the scheduler has not received.
Overwrite ==
  /\ chan # <<>>
  /\ chan' = Tail(chan) /\ lagged' = TRUE
  /\ UNCHANGED <<childVars, fileVars, client, loopVars, scheduleVars, faultVars>>

-----------------------------------------------------------------------------
(* Tasks: dependencies and slots.                                          *)

Running == {t \in Tasks : status[t] = "running"}
FailedIn(s) == {t \in Tasks : s[t] = "failed"}
Settled == \A t \in Tasks : status[t] \in {"done", "failed"}

HasSlot_Own == MaxConcurrent = 0 \/ Cardinality(Running) < MaxConcurrent
HasSlot == MaxConcurrent = 0 \/ Cardinality(Running) + Cardinality(external) < MaxConcurrent

Ready_Settled(t) == status[t] = "pending" /\ \A d \in Deps[t] : status[d] \in {"done", "failed"}
Ready(t) == status[t] = "pending" /\ \A d \in Deps[t] : status[d] = "done"

\* mark_dependency_blocked_tasks, until nothing changes: the least set of pending
\* tasks that has all those with a dependency that failed or is in it.
Closed(s, F) == \A t \in Tasks : s[t] = "pending" /\ Deps[t] \cap F # {} => t \in F
Blocked(s) ==
  {t \in Tasks : /\ s[t] = "pending"
                 /\ \A F \in SUBSET Tasks : FailedIn(s) \subseteq F /\ Closed(s, F) => t \in F}
MarkBlocked(s) == [t \in Tasks |-> IF t \in Blocked(s) THEN "failed" ELSE s[t]]

NoJob == [kind |-> "none"]
Starting == sched \in {"first", "start"} /\ job = NoJob

\* start_turn in the agent of the parent.
StartTask(t) ==
  /\ sched = "first" /\ Ready(t) /\ HasSlot
  /\ turn' = [turn EXCEPT ![t] = "active"]
  /\ status' = [status EXCEPT ![t] = "running"]
  /\ UNCHANGED <<live, counted, fileVars, client, chanVars, loopVars, external, proxyOf, lastSeq, faultVars>>

\* start_turn in the task of the pool: TurnStarted is written, and spawn_local panics.
StartOnPool(t) ==
  /\ sched = "start" /\ job = NoJob /\ Ready(t) /\ HasSlot
  /\ turn' = [turn EXCEPT ![t] = "lost"]
  /\ sched' = "dead"
  /\ UNCHANGED <<live, counted, fileVars, client, chanVars, resume, scan, job, scheduleVars, faultVars>>

\* The thread cannot be loaded, is paused or archived, or a turn is active in it.
RefuseTask(t) ==
  /\ Starting /\ Ready(t) /\ HasSlot
  /\ status' = [status EXCEPT ![t] = "failed"]
  /\ UNCHANGED <<childVars, fileVars, client, chanVars, loopVars, external, proxyOf, lastSeq, faultVars>>

Children(S) == [rest |-> S, task |-> None, next |-> 1, top |-> 0]
BeginScan == scan' = Children(Running)

\* No task is ready or no slot is left: the catch-up follows.
EndStarts ==
  /\ Starting /\ (HasSlot => \A t \in Tasks : ~Ready(t))
  /\ status' = MarkBlocked(status)
  /\ BeginScan
  /\ sched' = "scan" /\ resume' = IF sched = "first" THEN "spawned" ELSE "recv"
  /\ UNCHANGED <<childVars, fileVars, client, chanVars, job, external, proxyOf, lastSeq, faultVars>>

\* The turn of the parent ends before the scheduler is spawned, perhaps in a start_turn.
DropSpawn ==
  /\ sched = "first" \/ (sched = "scan" /\ resume = "spawned")
  /\ Fault({})
  /\ sched' = "dead"
  /\ \/ UNCHANGED turn
     \/ \E t \in Tasks : /\ sched = "first" /\ Ready(t) /\ HasSlot
                         /\ turn' = [turn EXCEPT ![t] = "lost"]
  /\ UNCHANGED <<live, counted, fileVars, client, chanVars, resume, scan, job, scheduleVars>>

-----------------------------------------------------------------------------
(* The handling of one event.  What is left of it after an await is a job. *)

ProxiesFor(a) == {n \in DOMAIN proxies : proxies[n] = a}
LatestOf(S) == CHOOSE n \in S : \A m \in S : m <= n
Mapped(a) == {p[2] : p \in {q \in proxyOf : q[1] = a}}
LastVerdict(n) == verdicts[n][Len(verdicts[n])]

\* find_existing_parent_proxy_approval.
Existing_Mapped(a) == Mapped(a)
Existing(a) == ProxiesFor(a)

Outcome(ok) == IF ok THEN "done" ELSE "failed"

AfterEnd_Forgets(stale) == NoJob
AfterEnd(stale) == [kind |-> "deny_read", left |-> stale]

Follow_Ignored(n, v) == NoJob
Follow(n, v) == [kind |-> "settle_read", proxy |-> n, verdict |-> v]

\* update_task_last_seq.
Advance_Past(t, n) == n + 1
Advance(t, n) == IF n > lastSeq[t] THEN n ELSE lastSeq[t]

Ignore == UNCHANGED <<status, external, proxyOf>> /\ job' = NoJob

\* handle_turn_completed: the task is settled, those that depended on it in vain too,
\* and the proxies that are still mapped are left to be denied.
HandleEnded(t, ok) ==
  LET stale == {p \in proxyOf : Asker[p[1]] = t} IN
  \/ /\ status[t] = "running"
     /\ status' = MarkBlocked([status EXCEPT ![t] = Outcome(ok)])
     /\ proxyOf' = proxyOf \ stale
     /\ job' = AfterEnd({p[2] : p \in stale})
     /\ UNCHANGED external
  \/ status[t] # "running" /\ Ignore

\* handle_approval_requested: one proxy for each, found again in the parent's file.
HandleAsked(t, a) ==
  LET found == Existing(a)
      n == LatestOf(found) IN
  \/ status[t] # "running" /\ Ignore
  \/ Mapped(a) # {} /\ Ignore
  \/ /\ status[t] = "running" /\ Mapped(a) = {}
     /\ \/ /\ found = {}
           /\ job' = [kind |-> "ask", ask |-> a] /\ UNCHANGED proxyOf
        \/ /\ found # {} /\ verdicts[n] = <<>>
           /\ proxyOf' = proxyOf \union {<<a, n>>} /\ job' = NoJob
        \/ /\ found # {} /\ verdicts[n] # <<>>
           /\ job' = [kind |-> "reconcile_read", ask |-> a, verdict |-> LastVerdict(n)]
           /\ UNCHANGED proxyOf
     /\ UNCHANGED <<status, external>>

\* handle_approval_decided in a child: the proxy follows, unless the decision came
\* from there.
HandleDecided(a, v, forwarded) ==
  LET found == Existing(a)
      mine == IF Mapped(a) # {} THEN Mapped(a)
              ELSE IF found # {} /\ verdicts[LatestOf(found)] = <<>> THEN {LatestOf(found)}
              ELSE {} IN
  /\ proxyOf' = {p \in proxyOf : p[1] # a}
  /\ job' = IF forwarded \/ mine = {} THEN NoJob
            ELSE Follow(LatestOf(mine), v)
  /\ UNCHANGED <<status, external>>

\* clear_proxy_mapping.
HandleVerdict(n) ==
  /\ proxyOf' = {p \in proxyOf : p[2] # n} /\ job' = NoJob
  /\ UNCHANGED <<status, external>>

HandleExternal(e) ==
  /\ external' = external \ {e} /\ job' = NoJob
  /\ UNCHANGED <<status, proxyOf>>

HandleChild(t, e) ==
  \/ e.kind = "asked" /\ HandleAsked(t, e.ask)
  \/ e.kind = "decided" /\ HandleDecided(e.ask, e.verdict, e.forwarded)
  \/ e.kind = "ended" /\ HandleEnded(t, e.ok)

Done == job' = NoJob
JobFrame == UNCHANGED <<childVars, client, sched, resume, scan, scheduleVars>>

\* append of the proxy's ApprovalRequested in the parent.
AskParent ==
  /\ job.kind = "ask" /\ Done
  /\ \/ /\ proxies' = Append(proxies, job.ask) /\ verdicts' = Append(verdicts, <<>>)
        /\ proxyOf' = proxyOf \union {<<job.ask, Len(proxies) + 1>>}
        /\ UNCHANGED faultVars
     \/ Fault({job.ask}) /\ UNCHANGED <<proxies, verdicts, proxyOf>>
  /\ UNCHANGED <<childVars, log, client, chanVars, sched, resume, scan, status, external, lastSeq>>

\* reconcile_child_approval_with_parent_decision.
ReconcileRead ==
  /\ job.kind = "reconcile_read"
  /\ job' = IF Pending(job.ask) THEN [job EXCEPT !.kind = "reconcile"] ELSE NoJob
  /\ UNCHANGED <<fileVars, chanVars, faultVars>> /\ JobFrame

Reconcile ==
  /\ job.kind = "reconcile" /\ Done
  /\ \/ /\ AppendChild(Asker[job.ask], [kind |-> "decided", ask |-> job.ask,
                                        verdict |-> job.verdict, forwarded |-> TRUE])
        /\ UNCHANGED faultVars
     \/ Fault({job.ask}) /\ UNCHANGED <<log, chanVars>>
  /\ UNCHANGED <<proxies, verdicts>> /\ JobFrame

\* append_parent_proxy_decision_if_pending.
SettleRead ==
  /\ job.kind = "settle_read"
  /\ job' = IF Undecided(job.proxy) THEN [job EXCEPT !.kind = "settle"] ELSE NoJob
  /\ UNCHANGED <<fileVars, chanVars, faultVars>> /\ JobFrame

Settle ==
  /\ job.kind = "settle" /\ Done
  /\ \/ AppendVerdict(job.proxy, job.verdict) /\ UNCHANGED faultVars
     \/ Fault({proxies[job.proxy]}) /\ UNCHANGED <<verdicts, chanVars>>
  /\ UNCHANGED <<log, proxies>> /\ JobFrame

\* auto_deny_stale_parent_proxy_approvals: one look at the file, then the appends.
DenyRead ==
  /\ job.kind = "deny_read"
  /\ job' = LET left == {n \in job.left : Undecided(n)}
            IN IF left = {} THEN NoJob ELSE [kind |-> "deny", left |-> left]
  /\ UNCHANGED <<fileVars, chanVars, faultVars>> /\ JobFrame

Deny(n) ==
  /\ job.kind = "deny" /\ n \in job.left
  /\ job' = IF job.left = {n} THEN NoJob ELSE [job EXCEPT !.left = @ \ {n}]
  /\ \/ AppendVerdict(n, "denied") /\ UNCHANGED faultVars
     \/ Fault({proxies[n]}) /\ UNCHANGED <<verdicts, chanVars>>
  /\ UNCHANGED <<log, proxies>> /\ JobFrame

JobStep ==
  /\ sched # "dead"
  /\ \/ AskParent \/ ReconcileRead \/ Reconcile \/ SettleRead \/ Settle \/ DenyRead
     \/ \E n \in DOMAIN proxies : Deny(n)

-----------------------------------------------------------------------------
(* The catch-up and the loop.                                              *)

Scanning == sched = "scan" /\ job = NoJob

Unread_Skips(t) == lastSeq[t] + 2
Unread(t) == lastSeq[t] + 1

\* The events of a running child past its last_seq are read, all at once.
OpenChild(t) ==
  /\ Scanning /\ scan.task = None /\ t \in scan.rest
  /\ scan' = [rest |-> scan.rest \ {t}, task |-> t,
              next |-> Unread(t), top |-> Len(log[t])]
  /\ UNCHANGED <<childVars, fileVars, client, chanVars, sched, resume, job, scheduleVars, faultVars>>

ScanEvent ==
  /\ Scanning /\ scan.task # None /\ scan.next <= scan.top
  /\ HandleChild(scan.task, log[scan.task][scan.next])
  /\ scan' = [scan EXCEPT !.next = @ + 1]
  /\ UNCHANGED <<childVars, fileVars, client, chanVars, sched, resume, lastSeq, faultVars>>

CloseChild ==
  /\ Scanning /\ scan.task # None /\ scan.next > scan.top
  /\ lastSeq' = [lastSeq EXCEPT ![scan.task] = Advance(scan.task, scan.top)]
  /\ scan' = Children(scan.rest)
  /\ UNCHANGED <<childVars, fileVars, client, chanVars, sched, resume, job, status, external, proxyOf, faultVars>>

EndScan ==
  /\ Scanning /\ scan.task = None /\ scan.rest = {}
  /\ sched' = IF resume = "recv" /\ Settled THEN "exit" ELSE resume
  /\ UNCHANGED <<childVars, fileVars, client, chanVars, resume, scan, job, scheduleVars, faultVars>>

\* The spawned task subscribes before it catches up.
Subscribe ==
  /\ sched = "spawned"
  /\ BeginScan /\ sched' = "scan" /\ resume' = "start"
  /\ UNCHANGED <<childVars, fileVars, client, chanVars, job, scheduleVars, faultVars>>

\* One line; last_seq never goes back.
Receive ==
  LET thread == Head(chan)[1]
      n == Head(chan)[2] IN
  /\ sched = "recv" /\ ~lagged /\ chan # <<>>
  /\ chan' = Tail(chan) /\ UNCHANGED lagged
  /\ \/ /\ thread \in Tasks
        /\ HandleChild(thread, log[thread][n])
        /\ lastSeq' = [lastSeq EXCEPT ![thread] = Advance(thread, n)]
     \/ thread \in Externals /\ HandleExternal(thread) /\ UNCHANGED lastSeq
     \/ thread = Parent /\ HandleVerdict(n) /\ UNCHANGED lastSeq
  /\ sched' = "start" /\ resume' = "start"
  /\ UNCHANGED <<childVars, fileVars, client, scan, faultVars>>

\* Lagged: what was lost is read from the files.
CatchUp ==
  /\ sched = "recv" /\ lagged
  /\ lagged' = FALSE /\ UNCHANGED chan
  /\ BeginScan /\ sched' = "scan" /\ resume' = "start"
  /\ UNCHANGED <<childVars, fileVars, client, job, scheduleVars, faultVars>>

-----------------------------------------------------------------------------
Init ==
  /\ turn = [t \in Tasks |-> "none"]
  /\ live = Found /\ counted = Found
  /\ log = [t \in Tasks |-> <<>>] /\ proxies = <<>> /\ verdicts = <<>>
  /\ client = [c \in Clients |-> NoCall]
  /\ chan = <<>> /\ lagged = FALSE
  /\ sched = "first" /\ resume = "spawned" /\ job = NoJob
  /\ scan = Children({})
  /\ status = [t \in Tasks |-> "pending"] /\ external = Found
  /\ proxyOf = {} /\ lastSeq = [t \in Tasks |-> 0]
  /\ broken = {} /\ faults = 0

Start == EndStarts \/ \E t \in Tasks : StartTask(t) \/ StartOnPool(t) \/ RefuseTask(t)
Scan == ScanEvent \/ CloseChild \/ EndScan \/ \E t \in Tasks : OpenChild(t)
SchedulerStep == Start \/ Scan \/ JobStep \/ Subscribe \/ Receive \/ CatchUp
ClientStep(c) == ClientChild(c) \/ ClientParent(c)

Next ==
  \/ SchedulerStep \/ DropSpawn \/ Overwrite
  \/ \E a \in Asks : Ask(a)
  \/ \E t \in Tasks, ok \in BOOLEAN : EndTurn(t, ok)
  \/ \E e \in Externals : EndExternal(e) \/ StartExternal(e)
  \/ \E n \in DOMAIN proxies : RecoverParent(n)
  \/ \E c \in Clients :
       \/ ClientStep(c) \/ ClientFails(c)
       \/ \E v \in Answers : \/ \E n \in DOMAIN proxies : DecideProxy(c, n, v)
                             \/ \E a \in Asks : DecideChild(c, a, v)

Spec == Init /\ [][Next]_vars

\* The scheduler and the requests are polled; children and clients may do nothing.
Fairness == WF_vars(SchedulerStep) /\ \A c \in Clients : WF_vars(ClientStep(c))
FairSpec == Spec /\ Fairness

-----------------------------------------------------------------------------
(* Properties.                                                             *)

Job ==
  {NoJob}
    \union [kind : {"ask"}, ask : Asks]
    \union [kind : {"reconcile_read", "reconcile"}, ask : Asks, verdict : Verdicts]
    \union [kind : {"settle_read", "settle"}, proxy : DOMAIN proxies, verdict : Verdicts]
    \union [kind : {"deny_read", "deny"}, left : SUBSET (DOMAIN proxies)]

Line(m) ==
  \/ \E t \in Tasks : \E n \in DOMAIN log[t] : m = <<t, n>>
  \/ \E e \in Externals : m = <<e, 1>>
  \/ \E n \in DOMAIN proxies : m = <<Parent, n>>

\* Every variable keeps to its type, and every number of an event or a proxy is that of
\* one on record.
TypeOK ==
  /\ turn \in [Tasks -> {"none", "active", "completed", "stopped", "lost"}]
  /\ live \subseteq Externals /\ external \subseteq Externals
  /\ counted \subseteq Externals
  /\ log \in [Tasks -> Seq(Event)] /\ proxies \in Seq(Asks)
  /\ verdicts \in Seq(Seq(Verdicts)) /\ Len(verdicts) = Len(proxies)
  /\ client \in [Clients -> Call]
  /\ \A c \in Clients : client[c].at # "idle" => client[c].proxy \in {0} \union DOMAIN proxies
  /\ chan \in Seq((Tasks \union Externals \union {Parent}) \X Nat)
  /\ \A i \in DOMAIN chan : Line(chan[i])
  /\ lagged \in BOOLEAN /\ broken \subseteq Asks /\ faults \in 0..MaxFaults
  /\ sched \in {"first", "spawned", "start", "scan", "recv", "exit", "dead"}
  /\ resume \in {"spawned", "start", "recv"} /\ job \in Job
  /\ scan \in [rest : SUBSET Tasks, task : Tasks \union {None}, next : Nat \ {0}, top : Nat]
  /\ scan.task # None => scan.top <= Len(log[scan.task])
  /\ status \in [Tasks -> {"pending", "running", "done", "failed"}]
  /\ proxyOf \subseteq Asks \X DOMAIN proxies
  /\ lastSeq \in [Tasks -> Nat] /\ \A t \in Tasks : lastSeq[t] <= Len(log[t])

\* A child's turn starts only when the turns of all it depends on have completed.
StartsAfterDeps ==
  \A t \in Tasks : turn[t] # "none" => \A d \in Deps[t] : turn[d] = "completed"

Busy == {t \in Tasks : turn[t] \in {"active", "lost"}}

\* The tasks of a spawn that are active, and those of the others it has counted that are
\* active still, are never more than the limit, whatever ends the scheduler has missed or
\* heard twice, and whoever else has started: a slot is free only when it is.
WithinSlots ==
  MaxConcurrent = 0 \/ Cardinality(Busy) + Cardinality(counted) <= MaxConcurrent

\* What the scheduler says of a task is what happened to its turn.
StatusIsTrue ==
  \A t \in Tasks :
    /\ status[t] = "done" => turn[t] = "completed"
    /\ status[t] = "failed" => turn[t] \in {"none", "stopped"}
    /\ status[t] = "pending" => turn[t] \in {"none", "lost"}

\* An approval is shown in the parent once, however often its event is handled.
OneProxy == \A m, n \in DOMAIN proxies : proxies[m] = proxies[n] => m = n

\* A scheduler that is done leaves no proxy undecided, but those on their way.
NothingLeft ==
  sched = "exit" =>
    \A n \in DOMAIN proxies :
      \/ verdicts[n] # <<>> \/ proxies[n] \in broken
      \/ \E c \in Clients : client[c].at = "parent" /\ client[c].proxy = n

Ended(t) == turn[t] \in {"completed", "stopped"}

\* The three that follow name a state that comes again and again: what they start from
\* stays true, so that it leads to what they promise.

\* The end of a child's turn settles its task, also when its line was lost.
TaskSettles ==
  []<>(sched = "dead" \/ \A t \in Tasks : Ended(t) => status[t] \in {"done", "failed"})

\* A proxy is decided once its approval is, or the turn that asked is over.
ProxyIsDecided ==
  []<>(\/ sched = "dead"
       \/ \A a \in Asks :
            \/ a \in broken
            \/ Decided(a) \/ Ended(Asker[a]) => \A n \in ProxiesFor(a) : verdicts[n] # <<>>)

\* The only decision on an approval, made while its turn was active, is told to the
\* parent, though the scheduler may have denied the proxy before.
OnlyDecision(a, v) ==
  LET file == log[Asker[a]]
      S == {i \in DOMAIN file : IsDecision(file[i], a)} IN
  \E i \in S : S = {i} /\ file[i].verdict = v /\ \A j \in 1..i : file[j].kind # "ended"

IsTold(a, v) == \E n \in ProxiesFor(a) : \E i \in DOMAIN verdicts[n] : verdicts[n][i] = v

DecisionIsTold ==
  []<>(\/ sched = "dead"
       \/ \A a \in Asks, v \in Verdicts :
            a \in broken \/ (ProxiesFor(a) # {} /\ OnlyDecision(a, v) => IsTold(a, v)))

\* A task whose dependencies have completed is run, or refused.
DependentsRun ==
  \A t \in Tasks :
    (\A d \in Deps[t] : turn[d] = "completed")
      ~> turn[t] \in {"active", "completed", "stopped"} \/ status[t] = "failed"
-----------------------------------------------------------------------------
(* The inductive invariant of the proofs.                                  *)

Lost == {t \in Tasks : turn[t] = "lost"}

\* Status and turn of a task, and the end of the turn in the file, fit together.
TurnsFit ==
  /\ StatusIsTrue
  /\ \A t \in Tasks :
       /\ status[t] = "running" => turn[t] \in {"active", "completed", "stopped"}
       /\ turn[t] = "active" => status[t] = "running"
       /\ turn[t] = "lost" => sched = "dead"
       /\ \A i \in DOMAIN log[t] :
            LET e == log[t][i] IN
            IF e.kind = "ended" THEN turn[t] = (IF e.ok THEN "completed" ELSE "stopped")
                                ELSE Asker[e.ask] = t

\* Running tasks keep their slots until the scheduler has seen them end.
SlotsKept ==
  /\ counted \subseteq external
  /\ \A i \in DOMAIN chan : chan[i][1] \notin counted
  /\ MaxConcurrent = 0 \/ Cardinality(Running \union Lost) + Cardinality(external) <= MaxConcurrent

\* A proxy is asked for once, while the task runs, and mapped to its approval only then.
ProxiesFit ==
  /\ \A n \in DOMAIN proxies : status[Asker[proxies[n]]] # "pending"
  /\ \A p \in proxyOf : proxies[p[2]] = p[1] /\ status[Asker[p[1]]] = "running"
  /\ job.kind = "ask" => status[Asker[job.ask]] = "running" /\ ProxiesFor(job.ask) = {}
  /\ \A c \in Clients :
       client[c].at # "idle" /\ client[c].proxy # 0 => proxies[client[c].proxy] = client[c].ask
  /\ \A c \in Clients : client[c].at = "parent" => client[c].proxy # 0
  /\ sched = "exit" => Settled
  /\ sched \in {"first", "spawned", "recv", "exit"} => job = NoJob

\* The verdict is there, or a client brings it, or a fault took it away.
Told(n) ==
  \/ verdicts[n] # <<>> \/ proxies[n] \in broken
  \/ \E c \in Clients : client[c].at = "parent" /\ client[c].proxy = n

\* Whatever says that a decision came from the parent is right.
ForwardsFit ==
  /\ \A t \in Tasks : \A i \in DOMAIN log[t] :
       log[t][i].kind = "decided" /\ log[t][i].forwarded
         => \E n \in ProxiesFor(log[t][i].ask) : Told(n)
  /\ job.kind \in {"reconcile_read", "reconcile"}
       => \E n \in ProxiesFor(job.ask) : verdicts[n] # <<>>
  /\ \A i \in DOMAIN chan : chan[i][1] = Parent => verdicts[chan[i][2]] # <<>>

\* A proxy that is not decided is mapped, or the scheduler is about to decide it.
Tended ==
  \A n \in DOMAIN proxies :
    \/ Told(n) \/ <<proxies[n], n>> \in proxyOf
    \/ job.kind \in {"deny_read", "deny"} /\ n \in job.left
    \/ job.kind \in {"settle_read", "settle"} /\ job.proxy = n

IInv ==
  /\ TypeOK /\ TurnsFit /\ StartsAfterDeps /\ SlotsKept
  /\ OneProxy /\ ProxiesFit /\ ForwardsFit /\ Tended
-----------------------------------------------------------------------------
\* Whatever lines are lost, read twice or read late, and whoever starts the tasks, they
\* are run and settled as TaskSchedule says.
Schedule == INSTANCE TaskSchedule WITH others <- counted
ImplementsTaskSchedule == Schedule!Spec
=============================================================================
