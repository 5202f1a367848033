--------------------------- MODULE TurnLifecycle ---------------------------
(***************************************************************************)
(* The turns of one thread of the app server: ThreadRuntime's start_turn,  *)
(* interrupt_turn, run_turn and complete_turn, the requests that stop a    *)
(* thread (pause, archive), and the loading, recovery, invalidation and    *)
(* eviction of the runtime, with crashes and failing or dropped appends    *)
(* between them.                                                           *)
(*                                                                         *)
(* Requests and turns are tasks that interleave at their awaits.  What a   *)
(* task does while it holds the mutex of the thread handle is one step,    *)
(* except an append of the running agent, which may be dropped half way.   *)
(* The file lock of the event log (EventLog!LockHeld) allows one runtime   *)
(* at a time, so one set of variables stands for it.                       *)
(***************************************************************************)
EXTENDS Naturals

CONSTANTS
  Turns,        \* turn ids
  Clients,      \* tasks that serve requests
  Parents,      \* those that run inside a parent's agent and die with its turn
  NoTurn,
  Requests(_),  \* what each client may ask for, of RequestKinds
  MaxFailures,  \* bound: how many appends fail with an I/O error
  MaxCrashes    \* bound: how many times the server dies

ASSUME NoTurnAssumption == NoTurn \notin Turns
ASSUME ParentsAssumption == Parents \subseteq Clients

Stops == {"paused", "archived"}
RequestKinds == {"start", "interrupt", "resume"} \union Stops
ASSUME RequestsAssumption == \A c \in Clients : Requests(c) \subseteq RequestKinds
ASSUME BoundsAssumption == MaxFailures \in Nat /\ MaxCrashes \in Nat

VARIABLES
  disk,       \* the thread state that replaying events.jsonl gives, if it can be
  readable,   \* whether events.jsonl can be replayed
  open,       \* the runtime: closed, recovering, ready
  cached,     \* whether Server::threads holds it
  invalid,    \* ThreadRuntime::invalidated
  mem,        \* ThreadHandle::state
  dirty,      \* whether the file has more than the writer knows of
  lock,       \* the turn whose agent is appending, with the handle locked
  slot,       \* ThreadRuntime::active_turn
  cancelled,  \* the turns whose CancellationToken is cancelled
  task,       \* run_turn of each turn; a status, when it is to end the turn with it
  pc, op, arg,\* where each client is, what it was asked, about which turn
  fresh,      \* turn ids no event has
  accepted,   \* turns for which interrupt_turn returned Ok (history)
  announced,  \* the status in turn/completed of each turn (history)
  failures, crashes

log == <<disk, readable>>
runtime == <<open, cached, invalid, mem, dirty>>
turns == <<lock, slot, cancelled, task>>
clients == <<pc, op, arg>>
history == <<accepted, announced>>
vars == <<log, runtime, turns, clients, fresh, history, failures, crashes>>

-----------------------------------------------------------------------------
(* The thread state and the events that change it.                         *)

Statuses == {"completed", "failed", "interrupted"}
NoStatus == "none"

ThreadStates ==
  [active : Turns \union {NoTurn}, asked : BOOLEAN, paused : BOOLEAN,
   archived : BOOLEAN, outcome : [Turns -> Statuses \union {NoStatus}]]

NewThread ==
  [active |-> NoTurn, asked |-> FALSE, paused |-> FALSE,
   archived |-> FALSE, outcome |-> [t \in Turns |-> NoStatus]]

Started(t) == [type |-> "TurnStarted", turn |-> t]
InterruptRequested(t) == [type |-> "TurnInterruptRequested", turn |-> t]
Completed(t, s) == [type |-> "TurnCompleted", turn |-> t, status |-> s]
Flagged(f, on) == [type |-> f, on |-> on]
Other == [type |-> "Other"]

\* What ThreadState::apply accepts; an append it refuses writes nothing.
Legal(s, e) ==
  /\ e.type = "TurnStarted" => s.active = NoTurn
  /\ e.type \in {"TurnInterruptRequested", "TurnCompleted"} => s.active = e.turn

Apply(s, e) ==
  [active   |-> IF e.type = "TurnStarted" THEN e.turn
                ELSE IF e.type = "TurnCompleted" THEN NoTurn ELSE s.active,
   asked    |-> \/ e.type = "TurnInterruptRequested"
                \/ s.asked /\ e.type \notin {"TurnStarted", "TurnCompleted"},
   paused   |-> IF e.type = "paused" THEN e.on ELSE s.paused,
   archived |-> IF e.type = "archived" THEN e.on ELSE s.archived,
   outcome  |-> IF e.type = "TurnCompleted"
                THEN [s.outcome EXCEPT ![e.turn] = e.status] ELSE s.outcome]

\* An append that returns Ok.  After what a failed one left, it makes a line
\* that does not parse or an event with a number already taken.
Appended(e) ==
  /\ Legal(mem, e)
  /\ mem' = Apply(mem, e)
  /\ disk' = IF dirty THEN NewThread ELSE Apply(disk, e)
  /\ readable' = (readable /\ ~dirty)
  /\ dirty' = dirty

\* An append that stops before it is done: nothing, a piece of the line or the
\* whole event is in the file, and the writer does not know which.
Abandoned(e) ==
  /\ Legal(mem, e)
  /\ mem' = mem
  /\ \/ UNCHANGED <<disk, readable, dirty>>
     \/ /\ dirty' = TRUE
        /\ IF dirty
             THEN \/ disk' \in {disk, mem} /\ readable' = readable
                  \/ disk' = NewThread /\ readable' = FALSE
             ELSE disk' \in {disk, Apply(disk, e)} /\ readable' = readable

\* An append that returns an I/O error.
AppendFails(e) ==
  /\ failures < MaxFailures
  /\ failures' = failures + 1
  /\ Abandoned(e)

Succeeds(e) == Appended(e) /\ failures' = failures

-----------------------------------------------------------------------------
(* Moves of one task.                                                      *)

HandleFree == lock = NoTurn

Usable == cached /\ ~invalid

At(c, label) == pc[c] = label
Goto(c, label) == pc' = [pc EXCEPT ![c] = label] /\ UNCHANGED <<op, arg>>
Begin(c, label, what, t) ==
  /\ pc' = [pc EXCEPT ![c] = label]
  /\ op' = [op EXCEPT ![c] = what]
  /\ arg' = [arg EXCEPT ![c] = t]
Answer(c) == Begin(c, "idle", "none", NoTurn)

\* active_turn without t, which may no longer be there.
SlotWithout_Any(t) == NoTurn
SlotWithout(t) == IF slot = t THEN NoTurn ELSE slot

\* The handle without the agent of t, which may or may not hold it.
LockWithout_Kept(t) == lock
LockWithout(t) == IF lock = t THEN NoTurn ELSE lock

-----------------------------------------------------------------------------
(* turn/start                                                              *)

BeginStart(c) ==
  /\ At(c, "idle") /\ Usable
  /\ Begin(c, "start", "start", NoTurn)
  /\ UNCHANGED <<log, runtime, turns, fresh, history, failures, crashes>>

MayStart(s) == ~s.archived /\ ~s.paused /\ s.active = NoTurn

\* Also the end of the model's turn ids.
RefuseStart(c) ==
  /\ At(c, "start") /\ HandleFree
  /\ ~MayStart(mem) \/ fresh = {}
  /\ Answer(c)
  /\ UNCHANGED <<log, runtime, turns, fresh, history, failures, crashes>>

\* TurnStarted is appended and active_turn set under the handle's mutex.
StartTurn(c, t) ==
  /\ At(c, "start") /\ HandleFree
  /\ MayStart(mem)
  /\ t \in fresh
  /\ fresh' = fresh \ {t}
  /\ \/ /\ Succeeds(Started(t))
        /\ slot' = t
        /\ Begin(c, "spawn", "start", t)
     \/ AppendFails(Started(t)) /\ Answer(c) /\ slot' = slot
  /\ UNCHANGED <<open, cached, invalid, lock, cancelled, task, history, crashes>>

\* The events have been announced; run_turn becomes a task of its own.
SpawnTurn(c) ==
  /\ At(c, "spawn")
  /\ task' = [task EXCEPT ![arg[c]] = "agent"]
  /\ Answer(c)
  /\ UNCHANGED <<log, runtime, lock, slot, cancelled, fresh, history, failures, crashes>>

\* A parent's turn ends while it is starting its child's: the future is dropped
\* inside the append, after it and before active_turn is set, or before the spawn.
DropStart(c) ==
  /\ c \in Parents
  /\ \/ /\ At(c, "start") /\ HandleFree /\ MayStart(mem)
        /\ \E t \in fresh : /\ fresh' = fresh \ {t}
                            /\ Appended(Started(t)) \/ Abandoned(Started(t))
     \/ At(c, "spawn") /\ UNCHANGED <<disk, readable, mem, dirty, fresh>>
  /\ Answer(c)
  /\ UNCHANGED <<open, cached, invalid, turns, history, failures, crashes>>

-----------------------------------------------------------------------------
(* turn/interrupt, also the first half of stopping an active thread.       *)

BeginInterrupt(c, t) ==
  /\ At(c, "idle") /\ Usable
  /\ t \notin fresh
  /\ Begin(c, "interrupt", "interrupt", t)
  /\ UNCHANGED <<log, runtime, turns, fresh, history, failures, crashes>>

\* Who asked goes on without the answer when it was pause or archive.
Interrupted(c) == IF op[c] = "interrupt" THEN Answer(c) ELSE Goto(c, "wait")

RefuseInterrupt(c) ==
  /\ At(c, "interrupt") /\ HandleFree
  /\ \/ slot # arg[c]
     \/ ~mem.asked /\ ~Legal(mem, InterruptRequested(arg[c]))
  /\ Interrupted(c)
  /\ UNCHANGED <<log, runtime, turns, fresh, history, failures, crashes>>

\* The tokens cancelled when the interrupt of t is found recorded already.
CancelledAgain_Not(t) == cancelled
CancelledAgain(t) == cancelled \union {t}

InterruptAgain(c) ==
  /\ At(c, "interrupt") /\ HandleFree
  /\ slot = arg[c] /\ mem.asked
  /\ cancelled' = CancelledAgain(arg[c])
  /\ accepted' = accepted \union {arg[c]}
  /\ Interrupted(c)
  /\ UNCHANGED <<log, runtime, lock, slot, task, fresh, announced, failures, crashes>>

RequestInterrupt(c) ==
  /\ At(c, "interrupt") /\ HandleFree
  /\ slot = arg[c] /\ ~mem.asked
  /\ \/ Succeeds(InterruptRequested(arg[c])) /\ Goto(c, "cancel")
     \/ AppendFails(InterruptRequested(arg[c])) /\ Interrupted(c)
  /\ UNCHANGED <<open, cached, invalid, turns, fresh, history, crashes>>

CancelTurn(c) ==
  /\ At(c, "cancel")
  /\ cancelled' = cancelled \union {arg[c]}
  /\ accepted' = accepted \union {arg[c]}
  /\ Interrupted(c)
  /\ UNCHANGED <<log, runtime, lock, slot, task, fresh, announced, failures, crashes>>

-----------------------------------------------------------------------------
(* run_turn: the agent against the cancellation token, then complete_turn. *)

AgentAppends(t) ==
  /\ task[t] = "agent" /\ HandleFree /\ ~invalid
  /\ lock' = t
  /\ UNCHANGED <<log, runtime, slot, cancelled, task, clients, fresh, history,
                 failures, crashes>>

AgentAppended(t) ==
  /\ lock = t
  /\ Succeeds(Other) \/ AppendFails(Other)
  /\ lock' = NoTurn
  /\ UNCHANGED <<open, cached, invalid, slot, cancelled, task, clients, fresh,
                 history, crashes>>

\* The agent returns, perhaps because it saw the token cancelled; run_turn turns its
\* result into a status.
AgentReturns(t) ==
  /\ task[t] = "agent" /\ lock # t
  /\ \E s \in Statuses : /\ s = "interrupted" => t \in cancelled
                         /\ task' = [task EXCEPT ![t] = s]
  /\ UNCHANGED <<log, runtime, lock, slot, cancelled, clients, fresh, history,
                 failures, crashes>>

CancelArm_Missing(t) == FALSE
CancelArm(t) == t \in cancelled

\* select! takes the other branch and drops the agent, an append with it.
AgentDropped(t) ==
  /\ task[t] = "agent" /\ CancelArm(t)
  /\ IF lock = t THEN Abandoned(Other) ELSE UNCHANGED <<disk, readable, mem, dirty>>
  /\ lock' = LockWithout(t)
  /\ task' = [task EXCEPT ![t] = "interrupted"]
  /\ UNCHANGED <<open, cached, invalid, slot, cancelled, clients, fresh, history,
                 failures, crashes>>

\* A recorded interrupt decides the status, however the agent ended.
Resolve_Verdict(s) == s
Resolve(s) == IF mem.asked THEN "interrupted" ELSE s

\* turn/completed is sent for an event that was appended, not for one that was lost.
AnnouncedAfterError_Anyway(t, s) == [announced EXCEPT ![t] = s]
AnnouncedAfterError(t, s) == announced

\* complete_turn up to the stop hooks: CompletesTurn when TurnCompleted was
\* appended, and NothingToComplete, CompletionLost when it returns early.
CompletesTurn(t, s) ==
  /\ HandleFree /\ mem.active = t
  /\ Succeeds(Completed(t, Resolve(s)))
  /\ announced' = [announced EXCEPT ![t] = Resolve(s)]
  /\ UNCHANGED <<cached, invalid, slot>>

NothingToComplete(t) ==
  /\ HandleFree /\ mem.active # t
  /\ slot' = SlotWithout(t)
  /\ UNCHANGED <<log, cached, invalid, mem, dirty, announced, failures>>

CompletionLost(t, s) ==
  /\ HandleFree /\ mem.active = t
  /\ AppendFails(Completed(t, Resolve(s)))
  /\ announced' = AnnouncedAfterError(t, Resolve(s))
  /\ invalid' = TRUE
  /\ cached' = FALSE
  /\ slot' = SlotWithout(t)

CompleteTurn(t) ==
  /\ task[t] \in Statuses
  /\ \/ CompletesTurn(t, task[t]) /\ task' = [task EXCEPT ![t] = "hooks"]
     \/ /\ NothingToComplete(t) \/ CompletionLost(t, task[t])
        /\ task' = [task EXCEPT ![t] = "over"]
  /\ UNCHANGED <<open, lock, cancelled, clients, fresh, accepted, crashes>>

\* The stop hooks of t have run; a new turn may have started meanwhile.
HooksDone(t) ==
  /\ task[t] = "hooks"
  /\ task' = [task EXCEPT ![t] = "over"]
  /\ slot' = SlotWithout(t)
  /\ UNCHANGED <<log, runtime, lock, cancelled, clients, fresh, history,
                 failures, crashes>>

-----------------------------------------------------------------------------
(* thread/pause and thread/archive (with force), and their opposites.      *)

\* Where a stop goes when it has seen no active turn: pause appends at once,
\* archive first waits for the thread's processes; both refuse a runtime that
\* was invalidated.
SeenIdle(c, what) ==
  IF what = "archived" THEN "drain" ELSE IF invalid THEN "idle" ELSE "mark"

BeginStop(c, f) ==
  /\ At(c, "idle") /\ Usable /\ HandleFree
  /\ ~mem[f] /\ (f = "paused" => ~mem.archived)
  /\ IF mem.active = NoTurn
       THEN Begin(c, SeenIdle(c, f), f, NoTurn)
       ELSE Begin(c, "interrupt", f, mem.active)
  /\ UNCHANGED <<log, runtime, turns, fresh, history, failures, crashes>>

WaitOver(c) ==
  /\ At(c, "wait") /\ HandleFree
  /\ mem.active = NoTurn
  /\ Goto(c, SeenIdle(c, op[c]))
  /\ UNCHANGED <<log, runtime, turns, fresh, history, failures, crashes>>

DeadlinePasses_Never == FALSE
DeadlinePasses == TRUE

Deadline(c) ==
  /\ At(c, "wait") /\ HandleFree
  /\ mem.active # NoTurn /\ DeadlinePasses
  /\ Goto(c, "force")
  /\ UNCHANGED <<log, runtime, turns, fresh, history, failures, crashes>>

ForceComplete(c) ==
  /\ At(c, "force")
  /\ \/ CompletesTurn(arg[c], "interrupted") /\ Goto(c, "hooks")
     \/ /\ NothingToComplete(arg[c]) \/ CompletionLost(arg[c], "interrupted")
        /\ Goto(c, "recheck")
  /\ UNCHANGED <<open, lock, cancelled, task, fresh, accepted, crashes>>

ForcedHooksDone(c) ==
  /\ At(c, "hooks")
  /\ slot' = SlotWithout(arg[c])
  /\ Goto(c, "recheck")
  /\ UNCHANGED <<log, runtime, lock, cancelled, task, fresh, history,
                 failures, crashes>>

Recheck(c) ==
  /\ At(c, "recheck") /\ HandleFree
  /\ IF mem.active = NoTurn THEN Goto(c, SeenIdle(c, op[c])) ELSE Answer(c)
  /\ UNCHANGED <<log, runtime, turns, fresh, history, failures, crashes>>

\* The processes of the turn, or of the thread, did not stop in time.
GiveUp(c) ==
  /\ pc[c] \in {"wait", "drain"}
  /\ Answer(c)
  /\ UNCHANGED <<log, runtime, turns, fresh, history, failures, crashes>>

Drained(c) ==
  /\ At(c, "drain")
  /\ IF invalid THEN Answer(c) ELSE Goto(c, "mark")
  /\ UNCHANGED <<log, runtime, turns, fresh, history, failures, crashes>>

BeginResume(c, f) ==
  /\ At(c, "idle") /\ Usable /\ HandleFree
  /\ mem[f]
  /\ Begin(c, "clear", f, NoTurn)
  /\ UNCHANGED <<log, runtime, turns, fresh, history, failures, crashes>>

\* ThreadPaused, ThreadArchived or their opposite; nothing is looked at again.
SetFlag(c) ==
  /\ pc[c] \in {"mark", "clear"} /\ HandleFree
  /\ \/ Succeeds(Flagged(op[c], At(c, "mark")))
     \/ AppendFails(Flagged(op[c], At(c, "mark")))
  /\ Answer(c)
  /\ UNCHANGED <<open, cached, invalid, turns, fresh, history, crashes>>

-----------------------------------------------------------------------------
(* The runtime: load, recovery, eviction; and the crash of the server.     *)

\* The handle is opened and its state replayed; what the last writer left
\* behind is cut off or kept (EventLog!Sanitize).
LoadThread ==
  /\ open = "closed" /\ readable
  /\ open' = "recovering"
  /\ mem' = disk
  /\ UNCHANGED <<log, cached, invalid, dirty, turns, clients, fresh, history, failures, crashes>>

\* The end of a turn that was active when the last runtime went.
RecoveredStatus == IF mem.asked THEN "interrupted" ELSE "failed"

RecoverTurn ==
  /\ open = "recovering"
  /\ IF mem.active = NoTurn
       THEN /\ open' = "ready" /\ cached' = TRUE
            /\ UNCHANGED <<log, mem, dirty, announced, failures>>
       ELSE \/ /\ Succeeds(Completed(mem.active, RecoveredStatus))
               /\ announced' = [announced EXCEPT ![mem.active] = RecoveredStatus]
               /\ open' = "ready" /\ cached' = TRUE
            \/ /\ AppendFails(Completed(mem.active, RecoveredStatus))
               /\ open' = "ready" /\ UNCHANGED <<cached, announced>>
  /\ UNCHANGED <<invalid, turns, clients, fresh, accepted, crashes>>

Runs(t) == task[t] \in {"agent", "hooks"} \union Statuses

Referenced ==
  \/ \E c \in Clients : ~At(c, "idle")
  \/ \E t \in Turns : Runs(t)

\* The last reference to a runtime that is no longer cached is dropped.
DropRuntime ==
  /\ open = "ready" /\ ~cached /\ ~Referenced
  /\ open' = "closed" /\ mem' = NewThread /\ dirty' = FALSE /\ invalid' = FALSE
  /\ slot' = NoTurn
  /\ UNCHANGED <<log, cached, lock, cancelled, task, clients, fresh, history,
                 failures, crashes>>

Crash ==
  /\ open # "closed" /\ crashes < MaxCrashes
  /\ crashes' = crashes + 1
  /\ open' = "closed" /\ mem' = NewThread /\ dirty' = FALSE /\ invalid' = FALSE
  /\ cached' = FALSE
  /\ lock' = NoTurn /\ slot' = NoTurn /\ cancelled' = {}
  /\ task' = [t \in Turns |-> IF task[t] = "none" THEN "none" ELSE "over"]
  /\ pc' = [c \in Clients |-> "idle"]
  /\ op' = [c \in Clients |-> "none"]
  /\ arg' = [c \in Clients |-> NoTurn]
  /\ UNCHANGED <<log, fresh, history, failures>>

-----------------------------------------------------------------------------
Init ==
  /\ disk = NewThread /\ readable = TRUE
  /\ open = "closed" /\ cached = FALSE /\ invalid = FALSE
  /\ mem = NewThread /\ dirty = FALSE
  /\ lock = NoTurn /\ slot = NoTurn /\ cancelled = {}
  /\ task = [t \in Turns |-> "none"]
  /\ pc = [c \in Clients |-> "idle"]
  /\ op = [c \in Clients |-> "none"]
  /\ arg = [c \in Clients |-> NoTurn]
  /\ fresh = Turns
  /\ accepted = {} /\ announced = [t \in Turns |-> NoStatus]
  /\ failures = 0 /\ crashes = 0

StartStep(c) ==
  \/ RefuseStart(c)
  \/ \E t \in Turns : StartTurn(c, t)
  \/ SpawnTurn(c)

InterruptStep(c) ==
  \/ RefuseInterrupt(c)
  \/ InterruptAgain(c)
  \/ RequestInterrupt(c)
  \/ CancelTurn(c)

StopStep(c) ==
  \/ WaitOver(c)
  \/ Deadline(c)
  \/ ForceComplete(c)
  \/ ForcedHooksDone(c)
  \/ Recheck(c)
  \/ Drained(c)
  \/ SetFlag(c)

\* What a request does once it is being served.
Serve(c) == StartStep(c) \/ InterruptStep(c) \/ StopStep(c)

\* What a client asks for, and what may befall a request.
Ask(c) ==
  \/ "start" \in Requests(c) /\ BeginStart(c)
  \/ "interrupt" \in Requests(c) /\ \E t \in Turns : BeginInterrupt(c, t)
  \/ \E f \in Requests(c) \intersect Stops : BeginStop(c, f)
  \/ "resume" \in Requests(c) /\ \E f \in Stops : BeginResume(c, f)

\* What run_turn does whatever the agent does.
EndTurn(t) == AgentDropped(t) \/ CompleteTurn(t) \/ HooksDone(t)

RunTurn(t) == AgentAppends(t) \/ AgentAppended(t) \/ AgentReturns(t) \/ EndTurn(t)

Runtime == LoadThread \/ RecoverTurn \/ DropRuntime

Next ==
  \/ \E c \in Clients : Ask(c) \/ Serve(c) \/ DropStart(c) \/ GiveUp(c)
  \/ \E t \in Turns : RunTurn(t)
  \/ Runtime
  \/ Crash

Spec == Init /\ [][Next]_vars

\* Every task that can go on is polled.  tokio's mutex is FIFO, so whoever waits
\* for the handle gets it however often an agent takes it: strong fairness.
\* Nothing is assumed of the agent but that its appends return.
Fairness ==
  /\ \A c \in Clients : SF_vars(Serve(c))
  /\ \A t \in Turns : WF_vars(AgentAppended(t)) /\ SF_vars(EndTurn(t))
  /\ WF_vars(Runtime)

FairSpec == Spec /\ Fairness

-----------------------------------------------------------------------------
(* Properties.                                                             *)

Labels == {"idle", "start", "spawn", "interrupt", "cancel", "wait", "force", "hooks",
           "recheck", "drain", "mark", "clear"}
Asked == {"none", "start", "interrupt"} \union Stops

\* Every variable keeps to its type, and whoever holds the handle across steps
\* is an agent that still runs (run_turn's select! drops the guard with it).
TypeOK ==
  /\ disk \in ThreadStates /\ mem \in ThreadStates
  /\ {readable, cached, invalid, dirty} \subseteq BOOLEAN
  /\ open \in {"closed", "recovering", "ready"}
  /\ slot \in Turns \union {NoTurn}
  /\ lock # NoTurn => lock \in Turns /\ task[lock] = "agent"
  /\ cancelled \subseteq Turns
  /\ task \in [Turns -> {"none", "agent", "hooks", "over"} \union Statuses]
  /\ pc \in [Clients -> Labels]
  /\ op \in [Clients -> Asked]
  /\ arg \in [Clients -> Turns \union {NoTurn}]
  /\ fresh \subseteq Turns
  /\ accepted \subseteq Turns
  /\ announced \in [Turns -> Statuses \union {NoStatus}]
  /\ failures \in 0..MaxFailures /\ crashes \in 0..MaxCrashes

\* Once interrupt_turn has returned Ok, the turn ends as Interrupted and nothing
\* else: whether the agent finished first, another request completed the turn,
\* or the server died and recovery did (resolve_turn_completion).
InterruptWins ==
  readable => \A t \in accepted : disk.outcome[t] \in {NoStatus, "interrupted"}

\* The status sent in turn/completed is the one a replay gives, whatever crashes,
\* reloads or completes the turn again after that.
AnnouncedIsFinal ==
  readable => \A t \in Turns : announced[t] # NoStatus => disk.outcome[t] = announced[t]

\* An active turn can be interrupted: interrupt_turn finds it in active_turn, even
\* while the stop hooks of the turn before it have yet to clear theirs.
ActiveIsInterruptible ==
  Usable /\ HandleFree /\ mem.active # NoTurn => slot = mem.active

\* A turn that is over has no agent left running, unless it is about to be dropped.
AgentStopsWithTurn ==
  \A t \in Turns : task[t] = "agent" /\ t \notin cancelled => mem.active = t

\* An accepted interrupt ends the turn, as Interrupted, whatever the agent is doing.
InterruptEndsTurn == \A t \in Turns : t \in accepted ~> announced[t] = "interrupted"

\* Every request is answered: none waits for ever for the handle, for a turn to
\* end or for another request.
RequestsAnswered == \A c \in Clients : pc[c] # "idle" ~> pc[c] = "idle"

-----------------------------------------------------------------------------
(* The inductive invariant behind InterruptWins and AnnouncedIsFinal.      *)

\* Turns whose interrupt is on record and that interrupt_turn has answered Ok for,
\* or will.
Promised == {t \in Turns : t \in accepted \/ \E c \in Clients : At(c, "cancel") /\ arg[c] = t}

\* Whatever follows, t ends as Interrupted.
Recorded(s, t) == s.outcome[t] = "interrupted" \/ (s.active = t /\ s.asked)

\* A state that a replay may give, when ids are new, turns have been announced and
\* interrupts promised.
Sound(s, new, ann, promised) ==
  /\ s \in ThreadStates
  /\ s.active # NoTurn => s.active \notin new /\ s.outcome[s.active] = NoStatus
  /\ s.asked => s.active # NoTurn
  /\ \A t \in new : s.outcome[t] = NoStatus
  /\ \A t \in Turns : ann[t] # NoStatus => s.outcome[t] = ann[t]
  /\ \A t \in promised : Recorded(s, t)

\* The file replays to a sound state, and so does the memory of an open runtime; they
\* are the same unless a failed append left something behind.
LogAndMemory ==
  readable =>
    /\ Sound(disk, fresh, announced, Promised)
    /\ open # "closed" => /\ Sound(mem, fresh, announced, Promised)
                          /\ ~dirty => mem = disk
                          /\ mem.asked => Recorded(disk, mem.active)

\* Nothing runs without a runtime, and a new runtime has a clean file.
NoRuntimeNoWork ==
  open # "ready" => /\ ~cached /\ ~dirty /\ lock = NoTurn /\ slot = NoTurn
                    /\ \A c \in Clients : At(c, "idle")
                    /\ \A t \in Turns : ~Runs(t)

\* An interrupt on record is the interrupt of the turn in active_turn.
AskedOfSlot == mem.asked => slot \in {mem.active, NoTurn}

\* The turn a client is about to interrupt, cancel or complete is a turn.
AboutATurn == {"spawn", "interrupt", "cancel", "wait", "force", "hooks"}
ArgsAreTurns == \A c \in Clients : pc[c] \in AboutATurn => arg[c] \in Turns

IInv ==
  /\ TypeOK
  /\ LogAndMemory
  /\ NoRuntimeNoWork
  /\ AskedOfSlot
  /\ ArgsAreTurns

-----------------------------------------------------------------------------
(* The inductive invariant behind ActiveIsInterruptible and                *)
(* AgentStopsWithTurn; it holds together with IInv.                        *)

\* Nothing is about a turn whose id has not been given out.
FreshIsUnused ==
  \A t \in fresh :
    /\ task[t] = "none" /\ announced[t] = NoStatus
    /\ t \notin cancelled /\ slot # t /\ mem.active # t
    /\ \A c \in Clients : pc[c] \in AboutATurn => arg[c] # t

\* A turn in memory that was announced, or whose stop hooks run, is not active again.
EndedIsNotActive ==
  /\ open # "closed" => \A t \in Turns : announced[t] # NoStatus => mem.active # t
  /\ \A t \in Turns : task[t] = "hooks" => mem.active # t
  /\ \A c \in Clients : At(c, "hooks") => mem.active # arg[c]

\* A turn is spawned once, by the request that started it.
Spawns(c, t) == At(c, "spawn") /\ arg[c] = t
SpawnedOnce ==
  \A c \in Clients, t \in Turns :
    Spawns(c, t) => task[t] = "none" /\ \A d \in Clients : Spawns(d, t) => d = c

\* The agent of t runs, or will.
Lives(t) == task[t] = "agent" \/ \E c \in Clients : Spawns(c, t)

\* Only a start that was dropped leaves an active turn outside active_turn, and that
\* one has no agent and never will.
SlotIsActive ==
  Usable /\ mem.active # NoTurn /\ slot # mem.active =>
    Parents # {} /\ task[mem.active] = "none" /\ ~Lives(mem.active)

\* Only a ready runtime is invalidated.  Without I/O errors, none is: it stays in the
\* cache, and neither a turn nor a stop gets past an agent that has not been cancelled.
WithoutErrors ==
  /\ open # "ready" => ~invalid
  /\ failures = 0 =>
    /\ open = "ready" => Usable
    /\ \A t \in Turns : Lives(t) => t \in cancelled \/ mem.active = t
    /\ \A c \in Clients : pc[c] \in {"wait", "force"} /\ Lives(arg[c]) => arg[c] \in cancelled

TasksInv ==
  /\ FreshIsUnused
  /\ EndedIsNotActive
  /\ SpawnedOnce
  /\ SlotIsActive
  /\ WithoutErrors
-----------------------------------------------------------------------------
(* The turns as their users see them: in the memory of the runtime, and in *)
(* the file when there is none.                                            *)

Seen == IF open = "closed" THEN disk ELSE mem

\* A runtime goes on from its memory; it is the next one that cannot read the file.
Lost == open = "closed" /\ ~readable

Shown(t) ==
  IF Lost THEN NoStatus ELSE IF Seen.active = t THEN "active" ELSE Seen.outcome[t]

Record == INSTANCE TurnRecord WITH status <- [t \in Turns |-> Shown(t)], lost <- Lost

\* Whatever interleaves, fails, is dropped or crashes, the turns of the thread are begun,
\* interrupted, ended and announced as TurnRecord says: an end the users were shown is
\* not taken back when the runtime goes and the file is replayed.
ImplementsTurnRecord == Record!Spec

\* The memory of a runtime is sound, even when the file cannot be replayed any more.
MemorySound == open # "closed" => Sound(mem, fresh, announced, Promised)

\* The file is ahead of the memory by one event at most, a turn that began or one that
\* ended: what a replay shows next is a step of the turns.
Ahead(d, m) ==
  \/ d.active = m.active /\ d.outcome = m.outcome
  \/ m.active = NoTurn /\ d.active \in Turns /\ d.outcome = m.outcome
  \/ /\ m.active \in Turns /\ d.active = NoTurn
     /\ \E s \in Statuses : d.outcome = [m.outcome EXCEPT ![m.active] = s]
DiskIsNear == readable /\ open # "closed" => Ahead(disk, mem)

RecordInv == MemorySound /\ DiskIsNear
=============================================================================
