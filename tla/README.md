# Specifications of omne-agent

TLA+ modules for the parts of omne-agent whose correctness depends on the order
of things: the event log of a thread, the life of its turns, its approvals, the
server's cache of loaded threads, the operating system processes of a thread, the
scheduler of its subagents, and what clients observe of it. TLC checks them on small instances, TLAPS proves
the theorems listed below for every size.

Paths are relative to the repository; `server.rs` is
`crates/app-server/src/main/preamble/server.rs`, `approval.rs` is
`crates/app-server/src/main/approval.rs`, `eventlog` is `crates/eventlog/src/lib.rs`.

## 1. The system

omne-agent runs coding agents behind a JSON-RPC **app server** (stdio for one
client, or a daemon with one task per connection). A **thread** is a
conversation with a workspace; a **turn** is one run of the agent on a thread.
Everything that happens in a thread is an **event** in `events.jsonl`; the state
of a thread is a fold of its events (`ThreadState::apply`).

How it runs: a multi-threaded tokio runtime, but request handlers and agent
turns are tasks of one `LocalSet`, so they interleave only at their awaits; the
requests of one connection are served one after another, those of several
connections side by side. Process actors, the subagent scheduler and the two-second
kill timers are `tokio::spawn`ed and run in parallel with them. Every shared structure is behind
a tokio mutex (FIFO), a `std` mutex or an atomic.

| Component | State it keeps | Operations | Interacts with |
|---|---|---|---|
| Event log (`eventlog`) | `events.jsonl`, `events.jsonl.lock`, `EventLogWriter::next_seq` | open (lock, sanitize, end the last line), append (line, newline, sync), read since | thread handles; readers without the lock |
| Thread handle, store (`core/src/threads.rs`) | `ThreadState`, active tools and processes | open, append, replay | event log, runtime |
| Thread runtime (`ThreadRuntime`, server.rs) | handle behind a mutex, `active_turn`, `invalidated` | start, interrupt, run, complete, force-complete, append and emit | agent loop, hooks, clients |
| Server (`Server`, server.rs) | `threads`, `thread_loads`, processes, MCP connections | load with recovery, evict, load for observation | everything |
| Pause, archive, delete (`thread_manage/`) | none of their own | stop an active turn, drain processes, set a flag or remove the directory | runtime, process actors |
| Approvals (`main/approval.rs`, `agent/tools/approval.rs`) | pending and decided approvals, in the log | gate, decide, remember, wait | runtime, subagents |
| Subagent scheduler (`agent/tools/dispatch/subagents_*`) | tasks with dependencies, last seen seq per child, proxied approvals | start ready tasks, follow children, fan in, deny stale proxies | child threads, notify channel |
| Process control (`main/process_control`, `process_stream`) | process entries, actors, rotating logs | start, interrupt, kill with escalation, follow output | turns (kill on interrupt), log |
| Subscription, attention (`main/thread_observe`) | cursors, derived views | long poll, marker events | notify channel (lossy), log |
| Agent loop (`agent/`) | conversation, tool batch | model calls, tools | runtime, approvals, processes |
| Artifacts, checkpoints, file tools, MCP, repo index | files and caches | read and write | workspace |
| Router, orchestrator, modes, execpolicy, redaction, protocols | none | pure decisions and encodings | |
| Command line client, tui, packages, scripts | none shared | presentation | server |

What makes them correct, and what makes that hard:

* **Event log.** Append-only and replayable whatever dies; an acknowledged event
  stays; a reader never has to take back what it was given. Hard: an append is
  three awaits and can stop at each of them by an error, a dropped future, the
  death of the process or a loss of power; readers take no lock.
* **Turns.** One active turn; an accepted interrupt decides its outcome; the
  announced outcome is final; a turn that ended has no agent running; requests
  are answered. Hard: the interrupt, the agent's own end, a forced completion, a
  failed completion with invalidation and reload, a crash with recovery, and the
  start of the next turn during the stop hooks of the last can come in any order.
* **Server cache.** One runtime per thread; a load in progress is shared and its
  end wakes everyone. Hard: a file lock held by a runtime that is out of the
  cache, dropped load futures, `Notify` subscribed after the check.
* **Approvals.** One decision per approval, the same for the waiting agent, the
  log and the index; nothing pending stays without a waiter. Hard: decisions
  after a restart, two clients, a parent's copy of a child's approval.
* **Subagents.** A task starts after its dependencies and within the limit (as far as the
  spawn has counted others), its end is
  noticed also when the channel dropped the line, an approval is shown in the parent
  once and decided in both threads. Hard: the channel, the files and the clients speak
  of the same events at different times.
* **Processes.** What is recorded of a process is true; whoever stops a turn or a
  thread ends its processes and is answered. Hard: actors on other threads with bounded
  channels, requests with deadlines, kills from outside, appends that fail, starts
  that are dropped half way.
* **Subscription.** A client gets every event of its kinds, once, and does not sleep over
  one. Hard: a lossy channel beside the file, pages and filters that move the cursor.
* **Budget markers.** Set and cleared by parallel appends, each with a sample of its own.

`PROJECT.json` lists every component with its status, and every hazard at the line
where it bites with the properties that cover it or the reason why none does.

## 2. The modules

```
AppendOnlyLog     what an event log promises
   ^ implements
EventLog          the file, its lock, its writers and readers
   ^ summarised by disk, readable, dirty of
TurnLifecycle     one thread: requests, turns, runtime, recovery
   v implements
TurnRecord        what a thread promises about its turns

FirstDecision     what the approvals of a thread promise to the calls that wait
   ^ implements
Approvals         one thread: tool calls, approval/decide, recovery, over its log

SoleRuntime       what the server promises about the runtimes of a thread
   ^ implements
ThreadCache       the runtimes of one thread in the server, and who holds them

ProcessRecord     what can be relied on of the processes of a thread
   ^ implements
Processes         the processes of one thread: actors, channels, requests that stop them

TaskSchedule      what agent_spawn promises about its tasks
   ^ implements
Subagents         a parent thread, its children and their scheduler; composes the log and
                  the approvals of several threads

EventFeed         what thread/subscribe promises to those who follow a thread
   ^ implements
Observation       the clients that follow one thread, and its budget markers; takes
                  AppendOnlyLog for granted
```

Each module `X` but the seven abstract ones has a module `MCX` that names the instances
TLC checks and a module `XProofs` that holds its theorems; those of `TurnLifecycle` are
continued in `TurnTasksProofs`.

### EventLog

The file is seen as the code can tell it apart: `lines` end in a newline, `tail`
is the text after the last one; a line is a whole event with its number, or text
that does not parse (`Torn`). Handles are writers in any process.

| Action | Code |
|---|---|
| `AcquireLock`, `Sanitize`, `EnsureRecordBoundary`, `OpenFails` | `EventLogWriter::open_internal`, `sanitize_and_read_events`, `ensure_jsonl_record_boundary` |
| `StartAppend`, `WriteLine`, `WriteNewline`, `SyncData` | `EventLogWriter::append` under `ThreadHandle::append`, at its awaits |
| `AppendFails`, `CancelAppend` | the same, returning an error or dropped at an await |
| `AppendAfterFailure` | the same writer used again; nothing forbids it |
| `SanitizeCutsElsewhere` | the truncation by length when the torn line is not the last |
| `ReadEventsSince` | `read_events_since`, on the file as it is |
| `Crash`, `PowerLoss` | the process or the machine; what was not synced may go |

`SanitizeCutsElsewhere` lets the cut end anywhere, which is more than one given
length can do.

There are two specifications. `Spec` is what the code allows. `CarefulSpec`
leaves out the three actions that are possible only after a writer was used again
(`AppendAfterFailure` itself, and the opening of the damaged file it leaves); it
is what the code does as long as a writer whose append stopped early is dropped,
as `complete_turn` does when it cannot write `TurnCompleted`. The properties and
theorems are about `CarefulSpec`; the run `eventlog_reuse` shows that they need it.

### TurnLifecycle

One thread of the server. A client is a task that serves one request after
another; `pc` says where it is. What a task does while it holds the handle's mutex
is one step, with one exception: an append of a running agent holds the lock
across steps (`lock`), because cancelling the turn may drop it half way. `disk` is
the replay of the file and `mem` the state in memory, folded by `Apply` from the
events that turns, pause and archive depend on; all others are `Other`. An append
that stops early leaves nothing, a piece of a line or the whole event (`Abandoned`),
and what is appended after it damages the log (`Appended` when `dirty`): the
summary of `EventLog`'s `AppendFails`, `CancelAppend` and `AppendAfterFailure`.

| Actions | Code |
|---|---|
| `BeginStart`, `RefuseStart`, `StartTurn`, `SpawnTurn` | `turn/start`, `ThreadRuntime::start_turn` |
| `DropStart` | the same inside a parent's agent (`start_subagent_turn`), dropped with it |
| `BeginInterrupt`, `RefuseInterrupt`, `InterruptAgain`, `RequestInterrupt`, `CancelTurn` | `ThreadRuntime::interrupt_turn` |
| `AgentAppends`, `AgentAppended`, `AgentReturns`, `AgentDropped` | the `select!` of `run_turn`, `append_event_and_emit` |
| `CompleteTurn`, `HooksDone` | `complete_turn`, `resolve_turn_completion` |
| `BeginStop`, `WaitOver`, `Deadline`, `ForceComplete`, `ForcedHooksDone`, `Recheck`, `Drained`, `GiveUp`, `SetFlag`, `BeginResume` | forced `thread/pause` and `thread/archive`, and their opposites |
| `LoadThread`, `RecoverTurn`, `DropRuntime` | `load_thread_with_runtime_recovery`, `recover_thread_runtime_after_resume`, `evict_cached_thread` |
| `Crash` | the server dies; what it had in memory is gone |

The history variables `accepted` and `announced` record what clients were told.
A turn id is used once (`fresh`), as its uuid is.

`TurnRecord` is the same thread as its users may think of it: a turn begins when no other
is active, its interrupt is accepted while it is active or after it was interrupted, and it
ends once, as what was accepted and announced says. `TurnLifecycle` implements it with the
status that is `Shown`: the memory of the runtime while there is one, the replay of the file
when there is none, and `Lost` once neither can be had. So a turn may not be shown as ended
by one and as active by the other, across failed appends, evictions and crashes.

Left out: the subturn and input payloads, the kill of processes (`Drained` and
`GiveUp` stand for its two outcomes), token markers, the text of reasons, requests
on a thread while it is being loaded (loading is one step up to the recovery).

### Approvals

The log of one thread, reduced to `ApprovalRequested` and `ApprovalDecided`. A tool
call asks for at most one approval, with a fresh id, so the call names it. The gate
reads the log (`Gate`) and appends later (`Request`, `AutoDecide`), without looking
again; `approval/decide` does the same. Two readers of decisions differ in the code and
in the model: the agent that waits reads on from where it was and takes the `First`,
the index that a retry asks is filled event by event and keeps the `Last`.

| Action | Code |
|---|---|
| `Gate`, `Request`, `AutoDecide` | `gate_approval` and what it calls |
| `SeeDecision`, `Retry` | `wait_for_approval_outcome`, `ensure_approval` |
| `Abandon` | the turn is interrupted, or an append fails |
| `ReadPending`, `RecordDecision`, `DecideFails` | `handle_approval_decide`, before and after it has the thread |
| `Load`, `DenyLeft`, `Recovered`, `LoadFails` | `recover_thread_runtime_after_resume` |
| `Crash` | the server dies |

Appends are whole here; what a stopped one leaves is the subject of `EventLog`. Approvals
that stand for one of a child are in `Subagents`. Left out: the params of a call beyond what `approval_rule_key` keeps of them and whether they ask for
`prompt_strict`.

### ThreadCache

One thread of the server: the runtime in `Server::threads`, the entry in
`thread_loads`, and what each task holds. The file's lock is not a variable: a runtime
holds it until its last reference is gone (`Alive`), and `Arc::strong_count` is the
number of references. A task is a request, a turn (`Agents`: it keeps the runtime it
runs on and asks again from its tools) or a caller of `load_thread_without_recovery`
(`Peekers`).

| Action | Code |
|---|---|
| `Look`, `Check`, `Evict`, `Claim`, `Listen`, `Finish` | `get_or_load_thread` and `load_thread_without_recovery`, at their awaits |
| `Open`, `LoadFails`, `Insert` | `load_thread_with_runtime_recovery` |
| `StartTurn`, `EndTurn`, `Release` | references taken and dropped |
| `Invalidate`, `EvictOwn` | `complete_turn` and `force_complete_turn` when `TurnCompleted` cannot be appended |
| `DropAgent` | the future of an interrupted turn's agent is dropped inside a call |

With `Parallel` any step may come between any two; without, the steps in `Running`
follow the one before without giving way, as an uncontended mutex does not suspend a
task of the `LocalSet`. `SoleRuntime` forgets the maps, the entries and the lock: a runtime
lives as long as it has users or is shared, whoever asks joins it, and it is withdrawn
only after a turn of it could not be completed. Left out: the eviction by `thread/delete`, which takes a valid
runtime out of the map.

### Processes

The processes of one thread, their actors, and the requests that stop them. A process is
seen three times: by the operating system (`child`), by the actor that owns it (`actor`,
`asked`, `chan`) and by the server (`entries`, `status`, `complete`, `log`). The actor runs
on the pool, so its steps come between any two of a request.

| Action | Code |
|---|---|
| `Spawn`, `LogStarted`, `StartFails`, `Insert`, `DropStart` | `process_control/start.rs` from the spawn on |
| `Receive`, `LoseControl`, `Reap`, `LogExited`, `Finalize` | `run_process_actor`, its command channel and its end |
| `TimerFires` | the task of `timeout_ms`, with a sender of its own |
| `Begin`, `Send`, `Sent`, `AllComplete`, `GraceOver`, `WaitTimesOut` | the interrupt, grace and kill that turn, pause, archive and delete share |
| `Later` | the kill two seconds after `turn/interrupt` |
| `Look`, `Drain`, `Archive`, `Remove`, `Retain` | what archive and delete do to what is left |
| `Check`, `Target`, `TargetStale` | `process/kill`, `process/interrupt` with an entry |
| `TargetOutside`, `LogOutside`, `StrikeOutside`, `WaitOutside`, `ExitOutside` | the same for a process this server has no actor for |
| `ShutDown`, `Crash` | the end of the server, in order and not |

Requests other than those of a turn are forced (the unforced refuse), and an
actor that waits for its output takes no more commands, as in the code. Left out: the gates before
the spawn, log rotation, reading of logs.

`process/kill` and `process/interrupt` take a process for gone when `os_process_matches_argv`
says so (`MayReconcile`, `TargetStale`). On Linux that compares `/proc/<pid>/cmdline` with the argv
on record, which also differs for a living script with an interpreter line, a shell that has
called `exec`, or a process that has set its title. Which processes may differ is the constant
`Disguised`; one of them that was abandoned while it lived is `Mistaken`. It is out of the map, its
completion is marked and its status is settled, and a pause, an archive or a delete goes on without
it: `CompleteIsTrue`, `Tracked`, `DrainedIsQuiet`, `StatusOfDead` and `ProcessRecord` say what they
say of all others, and name this exception. What still ends such a process is that the last sender
of its channel goes: `ForgottenEnds` covers it.

`ProcessRecord` forgets actors, channels, the map and the requests, and says how the child,
its events, its status and its completion may change together: a child ages and does not come back, its events
begin with its start and have its exit only once it was reaped, what was settled is not taken
back, and a completion is of a child that was reaped or of a `Disguised` one that was abandoned. (A process that was abandoned as stale may still be said to have exited, when its actor
comes to it.)

### Subagents

One `agent_spawn`: tasks with dependencies, each with a child thread that has one turn.
The children, the clients that decide approvals and the scheduler act side by side; the
scheduler's handling of one event is a `job` of several steps because it awaits in between.
An append and its line in the channel are one step, since `append_event_and_emit` awaits
nothing between them; reads of files succeed.

| Action | Code |
|---|---|
| `StartTask`, `StartOnPool`, `RefuseTask`, `MarkBlocked`, `EndStarts` | `start_ready_tasks` by the parent's agent, later by the scheduler |
| `Receive`, `Overwrite`, `CatchUp` | the receiver of the notify channel, and its lag |
| `BeginScan`, `OpenChild`, `ScanEvent`, `CloseChild`, `EndScan` | `catch_up_running_events` |
| `HandleEnded`, `HandleAsked`, `HandleDecided`, `HandleVerdict`, `HandleExternal` | `handle_event` for children, the parent and earlier subagents |
| `AskParent`, `ReconcileRead`, `Reconcile`, `SettleRead`, `Settle`, `DenyRead`, `Deny` | the approval proxy: lookup, creation, settling, denial |
| `DecideProxy`, `DecideChild`, `ClientChild`, `ClientParent`, `ClientFails` | `approval/decide` in parent and child, forwarded |
| `RecoverParent`, `DropSpawn` | recovery of the parent, its agent dropped during the first starts |
| `Ask`, `EndTurn` | what children do |
| `EndExternal`, `StartExternal` | what other subagents do: `complete_turn`, and `subagent_send_input` or the schedule of another spawn |

Any ready task may be picked, so priorities and aging are not modelled. `agent_spawn` counts
the subagents that are active (`Found`, fewer than the limit), and the schedule starts from that
snapshot. `external` is what the scheduler believes of them (`external_active`), `live` which of
them are active, and `counted` which have been active ever since the count, a history that no code
reads. Any subagent that is not active may become so at any time (`StartExternal`): neither
`subagent_send_input` nor another schedule asks this one for a slot, and `external_active` never
takes one back. So `WithinSlots` and the clause `RoomLeft` of `TaskSchedule` are about the tasks and
`counted`: a slot that the scheduler believes free is free of both. They do not bound the subagents
that are active in all (section 4). A further turn in a child of this spawn is a turn of an
`Externals` as well: the scheduler passes over events of a turn that is not the task's. The schedule lives in
memory only and does not survive the server, so the model ends there.

`TaskSchedule` forgets the scheduler, its channel and its scans, and what it believes: a
turn starts when all its dependencies have completed and the tasks and those counted leave a slot, a task is called
done or failed once, after a turn that ended so, and without a turn only if the start was
refused or a dependency has failed. A turn that nothing runs (`lost`, finding 3) is one
of its starts.

A proxy that the scheduler has denied may still be approved by a client that found it
pending: both decisions are in the parent's file. `DecisionIsTold` therefore asks only
that the decision made in the child is among them.

`TaskSettles`, `ProxyIsDecided` and `DecisionIsTold` are of the form `[]<>`: what each starts from
(an end, a decision, a proxy on record) is never taken back, so a state that comes again and again
in which all that has happened is settled is what "leads to" says, for all tasks and approvals at
once.

### Observation

The log as `AppendOnlyLog` promises it, the tasks that append to it, and clients that
follow it with `thread/subscribe`. An event is a step of the agent that uses a token
(`step`), any other (`note`) or a budget marker.

| Action | Code |
|---|---|
| `AppendEvent`, `Emit` | `append_event`, `emit_event_notifications`; `Then` says what follows |
| `OtherLine` | lines about other threads and deltas, which take room in the channel |
| `Sync`, `Mark`, `MarkFails` | `sync_token_budget_attention_markers` with the total of the writer's own append |
| `DropAgent` | the agent's future is dropped at an await: its event may never be announced |
| `Subscribe`, `ReadLog`, `Answer`, `Wait`, `Fetch`, `Deadline` | `handle_thread_subscribe`, `filter_and_paginate_thread_events`, `wait_for_thread_event_notification` |
| `Restart` | the server dies; clients ask again with the `since_seq` they have |

`EventFeed` is what is left of it for a client: a log, a place in it, and the events that
were given; an answer moves the place and gives every wanted event in between, a page at
most. A restart of the server, the channel and the waits are not to be seen there.

The deadline may pass at any moment after the request came, which includes `wait_ms` 0; a
full receiver drops its oldest line and says so at the next fetch, as tokio's broadcast
does. The first sample after a start only sets the state of the markers. A sample may be
old when it reaches the mutex: a late one clears `exceeded` although the budget is
exceeded (`docs/budgets.md:67` says: on the fall), and the next one sets it again; and a
marker that was not appended is not made up for. What can be relied on is that no marker
speaks of tokens that were not used (`MarkersAreEarned`).

## 3. The runs

| Run | Shows | Bounds |
|---|---|---|
| `eventlog` (passes) | type, `LogReadable`, `MemoryIsReplay`, and that the log implements `AppendOnlyLog`, so acknowledged events stay | 2 handles, 2 payloads, `MaxLines` 3 |
| `eventlog_reuse` (violation) | a writer used after a stopped append leaves an unreadable log | the same |
| `turns_faults` (passes) | type, `InterruptWins`, that the turns implement `TurnRecord`, so announced ends are final | 2 turns, 2 clients that start, interrupt, archive and unarchive, one of them inside a parent's agent, 2 failed appends, 1 crash, any number of dropped ones |
| `turns_live` (passes) | `AgentStopsWithTurn`, `ActiveIsInterruptible`, `InterruptEndsTurn`, `RequestsAnswered` | 2 turns, one client that starts and interrupts, one that starts, pauses and resumes; no faults |
| `approvals` (passes) | type, `NoneLeftPending`, that the log implements `FirstDecision`, `DecisionReachesCall`, `DecideIsAnswered` | 2 calls under one rule, `manual` and `auto_deny`, 2 clients that ask for their decision to be remembered, 2 faults |
| `approvals_twice` (violation) | an approval is decided twice | 1 call under a rule that always asks, 2 clients, 1 fault |
| `cache_faults` (passes) | type, that the cache implements `SoleRuntime`, so one runtime lives at a time | 2 turns, 1 request, 1 caller without recovery, on several threads; 2 faults, 2 dropped agents |
| `cache_live` (passes) | `LoadAnswered` | 1 turn, 2 requests, 2 faults, on the `LocalSet` |
| `processes` (passes) | type, that the processes keep to `ProcessRecord`, so an exit on record has happened, `CompleteIsTrue`, `Tracked`, `QueuedKillEnds`, `TurnStops`, `ForgottenEnds`, `Answered` | a process of the turn that may be `Disguised` and one with a timeout whose output stays open, 1 request of any of the seven kinds, channels of 1, 1 fault |
| `subagents` (passes) | type, that the tasks keep to `TaskSchedule`, so none starts before its dependencies or is settled twice, `WithinSlots`, `OneProxy`, `NothingLeft`, `TaskSettles`, `ProxyIsDecided`, `DecisionIsTold` | 3 tasks, one of which waits for another, that one has an ask; 1 other subagent, which was found active, ends and starts again, a limit of 2, 1 client that approves, 1 fault |
| `subagents_dependents` (violation) | a task whose dependencies have completed is not run | 2 tasks, one of which waits for the other; no faults |
| `observation` (passes) | type, that answers implement `EventFeed`, so no wanted event is passed over or given twice, `NoLostWakeup`, `MarkersAreEarned`, `EventArrives` | an agent and a process actor, 1 client that leaves out the steps, pages of 1, a channel of 2 lines, 2 events and the markers they cause, 2 faults |

Why the bounds are enough to be interesting: with three lines a torn, an unended
and a whole line can follow acknowledged ones, and two handles give every handover
of the file; two turns give a turn that starts in the stop hooks of the one before
and a stale interrupt; two failures give a completion that fails and a recovery
that fails after it; one crash gives recovery at every point. In
`Approvals`, two calls of one rule give a decision remembered for the second while the
first is decided again, and two faults give a recovery that fails and is done over. In
`ThreadCache`, two turns, a request and a peeker give a load, a waiter, a reference
that keeps the lock, and an eviction by id at the same time; one runtime lives at a
time, so two names are enough, and every caller can have an entry of its own. In
`Processes`, a channel of one command is full after one request, and an open output
keeps an actor from taking it; one request at a time is enough because the timer, the
actors and the children act against it. In `Subagents`, a limit of two with a
subagent that is active at the spawn makes a task without dependencies wait for a slot, a dependent is started
late, the other starts again when its slot is taken, and the ask meets the end of its turn, an overwritten channel and a client in every
order. In `Observation`, a page of one of two events makes answers stop before the end,
three lines overflow the channel, and a warning and an exceeded budget follow each other
within two events.
Handles and payloads are interchangeable in `EventLog`, turns in `TurnLifecycle`,
names of runtimes and loads in `ThreadCache`, and the runs use that;
liveness is checked without symmetry. Runs that have liveness properties check
their safety in the same, larger state space; decisions that are not to be remembered and
the rule that always asks are in `approvals_twice` and, with the other two policies, in
the theorems.

`turns_faults` explores no successor of a state whose log cannot be replayed
(`Replayable`): nothing is claimed there. It gets there when an agent is dropped or
fails inside an append, which is what `eventlog_reuse` shows on the file itself. Deadlock is not checked in the runs of `TurnLifecycle`: the model runs out
of turn ids, and an unreadable log cannot be opened again; `RequestsAnswered`
covers requests that would wait for ever. The other two stop as well when calls are
used up, or, in `ThreadCache`, when everyone waits: `LoadAnswered` says where not.
`Processes` stops when every process and request is done, `Subagents` when the schedule
is, or when children and clients do nothing; their liveness properties say what may not
stop before. `Observation` never stops, and deadlock is checked there.

### Fairness

In `TurnLifecycle`, `FairSpec` assumes that a task that can go on is polled (tokio's scheduler) and,
where several tasks want the handle, that each gets it: tokio's mutex is FIFO, so a
request cannot lose it for ever to an agent that takes it again and again. That
is strong fairness of each client and of the end of each turn, because the lock
enables and disables them. The ten-second deadlines of pause and archive are a step that is
always possible while they wait. Of an agent only its appends are assumed to end;
it may never return. Clients are not assumed to ask for anything.

In `Approvals` a call and a client that can go on do, and a thread that a request is
about is loaded and recovered: weak fairness of each. Nobody is assumed to decide.

In `ThreadCache` a ready task of the `LocalSet` is polled in its turn, though every
step of another may briefly make it wait: strong fairness of `CallStep` and
`HolderStep`. A lock that stays free is taken (weak fairness of `Open`). Turns end only
once they were completed. `cache_live` claims no more than that; `LoadAnswered` fails,
in the model and by the code, in four cases:

* on several threads (`Parallel`): `notified()` may be called after `notify_waiters`,
  which remembers nobody;
* with dropped agents: an interrupted load leaves its entry in `thread_loads`, and
  whoever comes next waits for it;
* with peekers: a load waits for the lock of the runtime that `process/list` opened,
  or that one for the cached runtime's, as long as it lives;
* when an agent goes on after its turn was completed by force (`AgentsStop` FALSE): the
  check for outstanding references is made only on a runtime that is still in the map,
  and `complete_turn` (`server.rs:2031`) has just taken the invalidated one out. A task
  that holds it and asks for the thread waits for a file lock that it holds itself.

In `Processes` every task that can go on does: starts, actors, timers and requests, by weak
fairness of each. No child exits by itself, no held output ends (`Holders`), no request
has to come. Grace periods and timeouts are steps that stay possible while they are
waited for.

In `Subagents` the scheduler and the requests of clients are polled (weak fairness of
`SchedulerStep` and of each `ClientStep`). Children may run for ever and clients may
decide nothing.

In `Observation` only clients are assumed to act: they ask again when they are answered,
the server goes on with their requests, and time passes (weak fairness of `Subscribe`,
`Serve` and `Deadline`). No writer has to announce its event, so `EventArrives` does not
rest on the channel at all.

## 4. Findings

1. **A writer is used again after an append that stopped early** (`eventlog:110`,
   run `eventlog_reuse`). The line may be in the file, whole or torn; the next append
   ends it, or repeats its number, and the log cannot be read any more.
   `docs/thread_event_model.md:9` promises that replay always rebuilds the state. No
   I/O error is needed: an accepted interrupt drops the agent inside its append
   (`server.rs:1944`), and `complete_turn` goes on with the same writer.
2. **An approval is decided twice** (`approval.rs:60`, run `approvals_twice`):
   `approval/decide` finds it pending, the load that it causes denies it, and its
   decision is appended after that. A test (`approval.rs:1313`) states that a decided
   approval is rejected. The call that waits is not misled (`FollowsFirst`), but the
   index, and what is remembered, follow the later decision.
3. **A dependent task is not run** (`subagents_schedule.rs:364`, run
   `subagents_dependents`): the scheduler is a task of the pool, where the `spawn_local`
   of `start_turn` panics after `TurnStarted` was appended. The turn of the dependent is
   on record, nothing runs it, and the scheduler is gone. `docs/subagents.md:119`.

The models have further behaviours that no run is about because a property would only
repeat what the code plainly does:

* Pause and archive look for an active turn and set their flag in two critical sections
  (`pause.rs:87`, `archive.rs:447`): a turn that starts in between runs in a paused thread.
* A parent's turn that ends inside `start_subagent_turn` drops it between `TurnStarted`
  and the spawn (`server.rs:1862`): the child's turn is active, accepts an interrupt and
  never ends. `InterruptEndsTurn` is checked for turns started by clients of their own.
* More subagents may be active than the limit. `docs/subagents.md` describes it as a guard of
  `agent_spawn` (`:104`) and asks for a hard cap on concurrent subagents (`:207`). The code looks only
  when a spawn begins (`active_subagent_threads`, `run_tool_call.rs:159`) and keeps that snapshot,
  from which it only takes away (`subagents_schedule.rs:256`); `subagent_send_input` starts a
  turn without a look (`run_tool_call_once.rs:5095`), and so does the schedule of another spawn.
  `StartExternal` is that step; what is left of the limit is `WithinSlots`.
* `process/kill` or `process/interrupt` abandons a living process whose command line is not its
  argv (`signal.rs:71`): it answers that the process is no longer running, and pause, archive and
  delete no longer wait for it. The signal never reaches it; it ends by `ForgottenEnds` when the
  last sender of its channel is dropped.
* A late sample clears a budget marker while the budget is exceeded (`server.rs:1738`).
* A proxied decision whose second append fails leaves the proxy pending in the parent
  (`approval.rs:33`); `broken` marks these, and `NothingLeft` excepts them.

`AgentStopsWithTurn` is checked, and proved, until the first I/O error only: after one, pause ignores the
failed interrupt (`pause.rs:42`), completes the turn by force after its deadline and
leaves the agent running. No document says otherwise, so it is not a finding.

## 5. The proofs

All are about any number of handles, payloads, turns, calls, clients, tasks, processes,
lines, failures and crashes, under the named assumptions on constants (distinct null values,
bounds in `Nat`, parents are clients, requests and policies are of the known kinds,
rules are a function of calls).

**EventLogProofs.** `IInv` says what each handle knows of the file at each point of its
life. The properties are not inductive: that memory is the replay after an append
needs that the tail is empty when it begins, which needs that only the holder
of the lock writes (`LockHeld`) and that opening left no torn tail (`Opened`).
`LinesNumbered` (every ended line is the event with its own number) and `TailIsNext`
carry readability through crashes; `synced <= Len(lines)` with `AckedDurable` carries
durability through power losses. From `Invariance`: `TypeCorrect`, `Readability`,
`Durability`, `MemoryFollowsLog`, `DeliveryStable`, and `Refinement`, in which
a step maps to `Add` when a whole event becomes visible, to `Acknowledge` at the
sync, to `Lose` at a power loss, to `Deliver`, or to a stutter.

**TurnLifecycleProofs.** `InterruptWins` and `AnnouncedIsFinal` speak of the replayed
file; a step changes it from what is in memory. The invariant (`LogAndMemory`)
says of both, as long as the log is readable, that they are `Sound`: what was announced
is their outcome, and whoever was promised an interrupt (answered Ok, or about to
be, `Promised`) has it recorded or done. Memory and file differ only when
`dirty`; then an interrupt in memory is recorded in the file as well.
`NoRuntimeNoWork` says that a load starts from a clean slate, `AskedOfSlot` ties the
record of an interrupt to `active_turn`, and `ArgsAreTurns` types the turn that a
request is about. Theorems: `Invariance`, `TypeCorrect`, `AcceptedInterruptWins`,
`AnnouncementIsFinal`, all of `Spec`, so with all failures.

**TurnTasksProofs** goes on from there, in two parts. The first is about the tasks. That an
active turn with an agent, or with a request that will spawn it, is in `active_turn`, where
`interrupt_turn` looks for it, is kept by a chain: an id
in use is not `fresh`, it is spawned by one request and once (`SpawnedOnce`), a turn that was
announced or is in its stop hooks is not active again (`EndedIsNotActive`), and then
`SlotIsActive` says what is left: only a start that was dropped inside a parent's agent leaves
an active turn outside `active_turn`, and that one has no agent and gets none. Nothing says the
converse: `active_turn` may hold a turn that has ended, and an active turn may have no agent. `WithoutErrors` is
the part about agents: until an append fails, a task that lives was cancelled or is the active
turn's, and a stop that is about to complete the turn by force has cancelled it. Together
`TasksInv`; the steps are sorted into those that start no turn and, among these, those that
let go of the runtime, so that most of them share one lemma. Theorems: `TasksInvariance`,
`SpawnedIsInterruptible` (with all failures), `ActiveInterruptible` (when no client is a
parent's agent, which is the case the property is about; see section 4 for the other),
`AgentStopsUnlessError`.

The second part is the refinement of `TurnRecord`. What users are shown changes from memory to
file when a runtime goes, so the mapping needs two more facts (`RecordInv`): that the memory is
`Sound` even when the file cannot be read any more (`LogAndMemory` says so only while it can),
and that the file is `Ahead` of the memory by one event at most, a turn that began or one
that ended, because a writer appends, applies and lets go of the lock as one step, and is not
used again after a completion that failed. Then the loss of a runtime is a stutter, or the
`Begin` or `End` whose append was whole though it failed. Theorems: `RecordInvariance`,
`TurnsImplementRecord`, and the action property `AnnouncedOnce`, that no turn is announced
twice.

**ApprovalsProofs.** The log only grows, so a first decision stays the first and what
was remembered has its request before it. `FollowsFirst` is not inductive: that a call
which acts on a decision was asked for needs `VerdictFits`, that a decision has its
request before it needs what each decider has read (`DecidersRead`), and that a load
leaves nothing pending needs that recovery's list misses nothing (`NoneMissed`), also
when it failed half way and is done over. From `Invariance`: `TypeCorrect`,
`RequestBeforeDecision`, `FirstDecisionRules`, `OutcomesLogged`, `NothingLeftPending`,
and `Refinement`: a step maps to the request, to the first decision, to the call that
follows it, or, as every later decision does, to a stutter.

**ThreadCacheProofs.** `OneRuntime` carries the rest: `Open` is the only step that makes
a runtime, and the lock lets it happen only when no reference to an earlier one is left.
Who evicts by id holds a reference to an invalidated runtime (`Condemned`), so the one
in the map can be no other. `OneLoad` follows from the entry that a load makes and
nobody else removes. From `Invariance`: `TypeCorrect`, `OneRuntimeLives`,
`OneLoadRuns`, and the action property `EvictionSparesValid`. The refinement of `SoleRuntime`
needs besides that a load which has recovered the thread is alone with its runtime
(`LoaderIsAlone`): only then is its entry into the map the abstract `Share`. A step maps by what
it does to references: the first one is `Load`, a further one `Join`, the last one to go takes
the runtime with it, and an eviction is `Withdraw` by a user of a condemned runtime
(`Condemned` and `OneRuntime` make it that one). Theorem: `CacheIsSoleRuntime`.

**ProcessesProofs.** That a completion or an exit on record is true needs where the actor
is (`ActorFits`: past its loop the child is reaped) and what a kill from outside has seen
(`OutsideSaw`); that a request holds only what had an actor (`EntriesHadActor`), and where
it is on its way (`JobFits`), make `Tracked` inductive. Theorems: `Invariance`,
`TypeCorrect`, `ExitsAreTrue`, `CompletionsAreTrue`, `LivingAreTracked`, and the action property
`DrainLeavesQuiet`: at the moment a drain is left the map is empty, so by `Tracked` nobody with
an actor lives but who was mistaken for gone. That exception is kept because a status that was
settled as abandoned changes again only once the child is reaped (`ProcMistaken`). The refinement of `ProcessRecord` has an invariant of its own (`RecordFits`),
kept beside the first: who writes of a process was started after its start was recorded, or has
read of it (`WritersStarted`), a status other than running is that of a reaped child, or of a
`Disguised` one (`StatusOfDead`), and a process has no status before it is in the map (`Begun`). The death of
the server ages many children in one step, so `ProcessRecord` says of each process apart what a
step may do to it. Theorems: `RecordsBeginWithStart`, `StatusesAreTrue`, `ProcessesKeepRecord`.

**SubagentsProofs.** `WithinSlots` is about turns, the scheduler decides by what it
believes: `SlotsKept` says that of the tasks and of those counted at the spawn it believes in too
many, never in too few, and `TurnsFit`
ties status, turn and file together. `NothingLeft` needs that every undecided proxy is in
the map or about to be decided (`Tended`), that whoever claims a decision came from the
parent is right (`ForwardsFit`), and that proxies are made for running tasks only
(`ProxiesFit`). Theorems: `Invariance`, `TypeCorrect`, `DependenciesFirst`,
`LimitIsKept`, `StatusesAreTrue`, `ProxiesAreUnique`, `NothingIsLeft`. The refinement of
`TaskSchedule` maps a start by what the scheduler believes to what is so: a task it calls
done has a turn that completed (`StatusIsTrue`), and a slot it believes free is free
(`SlotIsFree`, from `SlotsKept`). `MarkBlocked` fails the least set of tasks that is closed
under waiting for a failed one; that each of them waits for one that fails is
`BlockedByFailed`, because the set without one that does not would be closed as well.
Every other step of the scheduler, its clients and the approvals tells something of a running
task or stutters. Theorem: `SchedulerKeepsSchedule`.

**ObservationProofs.** `GotAll` is kept by an answer because a page is a prefix of what
matches (`PageIsPrefix`, from the existence of least and greatest members of sets of
numbers). That a client which goes to sleep misses nothing needs that its receiver is older
than its read (`HearsNews`); `NotifyHeard` shows that a line is either there or known to be
lost. `MarkersDue` carries `MarkersAreEarned` through samples of any age, because tokens
only grow. Theorems: `Invariance`, `TypeCorrect`, `SubscribersGetAll`, `SleepersAreWoken`,
`EarnedMarkers`. The refinement of `EventFeed` needs besides that an answer holds no more than
a page (`PageIsBounded`); the place it moves
to is the last event of the page, or the end of what was read. Theorem: `SubscriptionIsFeed`.

The inductive invariants, and the safety properties that follow from others
(`AckedDurable`, `DeliveredIsPrefix`, `AnnouncedIsFinal`, `RequestedFirst`, `FollowsFirst`,
`OutcomeIsLogged`, `OneRuntime`, `OneLoad`, `EvictsOnlyInvalid`, `StartsAfterDeps`,
`StatusIsTrue`, `GotAll`, `ExitIsTrue`, `StartedFirst`, `StatusOfDead`, `DrainedIsQuiet`), are proved and are not in the runs.

Only model-checked: the liveness properties, which are out of the prover's reach. The
safety properties of `turns_live` are proved under its restrictions and not beyond them:
`ActiveIsInterruptible` with no parents, `AgentStopsWithTurn` until an append fails.

## 6. Not modelled, and what could follow

* **thread/attention, thread/list_meta** and their cached snapshots: views of the log and of
  directories. The snapshot is keyed by a signature that is read before the events, and by the
  times of directories; beside the subscription its state space is too large for one module,
  and a module of its own would need the artifacts.
* **Unforced pause, archive and delete** only refuse; worktrees and hooks are calls of git
  and of commands. **thread/delete** is modelled as far as its processes go, and its eviction
  of a valid runtime is not in `ThreadCache`.
* **Agent loop and tools** are the environment of a turn: they append events and return.
  Batches of read-only tools run in parallel, but each only appends.
* **Checkpoints, artifacts, MCP connections, process logs**: files and external programs,
  one operation at a time; their interesting part is a partial failure of I/O.
* **Router, modes, exec policy, redaction, protocols, repository index**: pure functions over
  strings and paths, covered by unit tests.
* **Command line client, TUI, packages, scripts**: presentation.

Next, in this order: eviction by `thread/delete` in `ThreadCache`; a module for the
attention snapshot; the merge of exec policies and modes (strictest wins) against a
reference definition; that the log of `TurnLifecycle` is what `EventLog` gives.
