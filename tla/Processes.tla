------------------------------ MODULE Processes ------------------------------
(***************************************************************************)
(* The operating system processes of one thread: their start, the actor    *)
(* that owns each (run_process_actor) with its bounded command channel,    *)
(* the map of process entries, ProcessCompletion, and the tasks that stop  *)
(* processes: turn/interrupt with its delayed kill, thread/pause, archive  *)
(* and delete, process/kill and process/interrupt, and the shutdown.       *)
(*                                                                         *)
(* Actors run on the pool, so any step may come between two steps of a     *)
(* task.  A signal to a process tree reaches the child; that descendants   *)
(* may outlive it shows only where they keep its output open (Holders).    *)
(* A living process whose command line is not the argv on record           *)
(* (Disguised: a script, a process that has called exec) may be taken for  *)
(* one that is gone.                                                       *)
(***************************************************************************)
EXTENDS Naturals, Sequences, FiniteSets

CONSTANTS
  Procs,       \* processes that may be started
  InTurn,      \* those started by the agent of the turn that is to be stopped
  Timed,       \* those started with timeout_ms
  Holders,     \* those whose output a descendant may keep open for ever
  Disguised,   \* those whose command line may differ from the argv on record
  Tasks,       \* requests under way
  Jobs,        \* what they ask for
  Capacity,    \* of a command channel: 8 in the code
  MaxFaults    \* bound: appends that fail, starts dropped with their agent, and
               \* deaths of the server

AllJobs == {"turn", "pause", "archive", "delete", "kill", "interrupt", "shutdown"}

ASSUME ProcsAssumption ==
  /\ InTurn \subseteq Procs /\ Timed \subseteq Procs
  /\ Holders \subseteq Procs /\ Disguised \subseteq Procs
ASSUME JobsAssumption == Jobs \subseteq AllJobs
ASSUME CapacityAssumption == Capacity \in Nat \ {0}
ASSUME MaxFaultsAssumption == MaxFaults \in Nat

VARIABLES
  child,     \* the operating system's view: none, alive, zombie, reaped
  actor,     \* where the start or the actor of each process is
  log,       \* the types of the events about each process in events.jsonl
  asked,     \* what the actor has noted: interrupt, kill, and dropped control
  chan,      \* commands in the channel
  entries,   \* Server::processes
  status,    \* ProcessInfo::status
  complete,  \* completions that are marked
  timers,    \* timeout tasks, each with a sender of its own
  thread,    \* open, archived, removed, deleted
  job, phase,
  todo,      \* entries a task has still to send its command to
  watch,     \* entries whose completion it waits for
  faults

procVars == <<child, actor, log, asked, chan>>
mapVars == <<entries, status, complete, timers, thread>>
taskVars == <<job, phase, todo, watch>>
vars == <<procVars, mapVars, taskVars, faults>>

Commands == {"interrupt", "kill"}
Events == {"started", "exited"} \union Commands

-----------------------------------------------------------------------------
(* Children, channels and completions.                                     *)

\* The actor's end of the channel exists.
Receiving == {"running", "reaped", "logged"}
Open(p) == actor[p] \in Receiving

\* Someone keeps an end to send from.
Outside == {"out_log", "out_strike", "out_wait", "out_exit"}
Holding(c) == IF phase[c] \in Outside THEN {} ELSE todo[c] \union watch[c]
Sending(p) == p \in entries \union timers \/ \E c \in Tasks : p \in Holding(c)

Running(p) == p \in entries /\ status[p] = "running"

\* The thread can be loaded.
Loadable == thread \in {"open", "archived"}

\* Only the server that started a child has it as a zombie until it is reaped.
Corpse(p) == IF actor[p] \in {"starting", "started", "running"} THEN "zombie" ELSE "reaped"

Append1(f, p, e) == [f EXCEPT ![p] = Append(@, e)]

\* An append of the thread's runtime, which may fail.
Record(p, e) ==
  \/ log' = [log EXCEPT ![p] = @ \union {e}] /\ UNCHANGED faults
  \/ faults < MaxFaults /\ faults' = faults + 1 /\ UNCHANGED log

-----------------------------------------------------------------------------
(* process/start.                                                          *)

\* Nothing asks whether the thread is archived or its turn over.
Spawn(p) ==
  /\ actor[p] = "none" /\ Loadable
  /\ child' = [child EXCEPT ![p] = "alive"]
  /\ actor' = [actor EXCEPT ![p] = "starting"]
  /\ UNCHANGED <<log, asked, chan, mapVars, taskVars, faults>>

LogStarted(p) ==
  /\ actor[p] = "starting"
  /\ log' = [log EXCEPT ![p] = @ \union {"started"}]
  /\ actor' = [actor EXCEPT ![p] = "started"]
  /\ UNCHANGED <<child, asked, chan, mapVars, taskVars, faults>>

\* cleanup_untracked_spawned_process.
StartFails(p) ==
  /\ actor[p] = "starting" /\ faults < MaxFaults
  /\ faults' = faults + 1
  /\ child' = [child EXCEPT ![p] = "reaped"]
  /\ actor' = [actor EXCEPT ![p] = "gone"]
  /\ UNCHANGED <<log, asked, chan, mapVars, taskVars>>

Insert(p) ==
  /\ actor[p] = "started"
  /\ entries' = entries \union {p}
  /\ status' = [status EXCEPT ![p] = "running"]
  /\ timers' = IF p \in Timed THEN timers \union {p} ELSE timers
  /\ actor' = [actor EXCEPT ![p] = "running"]
  /\ UNCHANGED <<child, log, asked, chan, complete, thread, taskVars, faults>>

\* The agent's turn ends while its start waits for the append.
DropStart(p) ==
  /\ p \in InTurn /\ actor[p] \in {"starting", "started"} /\ faults < MaxFaults
  /\ faults' = faults + 1
  /\ actor' = [actor EXCEPT ![p] = "lost"]
  /\ child' = [child EXCEPT ![p] = IF @ = "zombie" THEN "reaped" ELSE @]
  /\ UNCHANGED <<log, asked, chan, mapVars, taskVars>>

\* The child exits by itself.
Exit(p) ==
  /\ child[p] = "alive"
  /\ child' = [child EXCEPT ![p] = Corpse(p)]
  /\ UNCHANGED <<actor, log, asked, chan, mapVars, taskVars, faults>>

-----------------------------------------------------------------------------
(* run_process_actor.                                                      *)

Killed(p) == IF child[p] = "alive" THEN Corpse(p) ELSE child[p]

\* A child may ignore SIGINT.
Struck_Ignored(p, cmd) == {child[p], Killed(p)}
Struck(p, cmd) == IF cmd = "kill" THEN {Killed(p)} ELSE {child[p], Killed(p)}

\* A request is logged once, also when its append has failed.
Receive(p) ==
  /\ actor[p] = "running" /\ chan[p] # <<>>
  /\ LET cmd == Head(chan[p]) IN
       /\ IF cmd \notin asked[p] THEN Record(p, cmd) ELSE UNCHANGED <<log, faults>>
       /\ asked' = [asked EXCEPT ![p] = @ \union {cmd}]
       /\ \E state \in Struck(p, cmd) : child' = [child EXCEPT ![p] = state]
  /\ chan' = [chan EXCEPT ![p] = Tail(@)]
  /\ UNCHANGED <<actor, mapVars, taskVars>>

\* The last sender is gone: "process control dropped".
WithoutControl_Waits(p) == child[p]
WithoutControl(p) == Killed(p)

LoseControl(p) ==
  /\ actor[p] = "running" /\ chan[p] = <<>> /\ ~Sending(p) /\ "dropped" \notin asked[p]
  /\ asked' = [asked EXCEPT ![p] = @ \union {"dropped"}]
  /\ child' = [child EXCEPT ![p] = WithoutControl(p)]
  /\ UNCHANGED <<actor, log, chan, mapVars, taskVars, faults>>

\* try_wait reports the status.
Reap(p) ==
  /\ actor[p] = "running" /\ child[p] = "zombie"
  /\ child' = [child EXCEPT ![p] = "reaped"]
  /\ actor' = [actor EXCEPT ![p] = "reaped"]
  /\ UNCHANGED <<log, asked, chan, mapVars, taskVars, faults>>

\* The output has ended, and so have the tasks that capture it.
LogExited(p) ==
  /\ actor[p] = "reaped"
  /\ Record(p, "exited")
  /\ status' = [status EXCEPT ![p] = IF faults' = faults THEN "exited" ELSE @]
  /\ actor' = [actor EXCEPT ![p] = "logged"]
  /\ UNCHANGED <<child, asked, chan, entries, complete, timers, thread, taskVars>>

\* finalize_process; also at once when try_wait fails, since someone else has
\* reaped the child.
MayFinalize_Exited(p) == actor[p] = "logged" \/ (actor[p] = "running" /\ child[p] = "zombie")
MayFinalize(p) ==
  actor[p] = "logged" \/ (actor[p] = "running" /\ child[p] = "reaped")

Finalize(p) ==
  /\ MayFinalize(p)
  /\ entries' = entries \ {p}
  /\ complete' = complete \union {p}
  /\ actor' = [actor EXCEPT ![p] = "gone"]
  /\ chan' = [chan EXCEPT ![p] = <<>>]
  /\ UNCHANGED <<child, log, asked, status, timers, thread, job, phase, todo, watch, faults>>

\* The task of timeout_ms; it waits while the channel is full.
TimerFires(p) ==
  /\ p \in timers
  /\ Open(p) => Len(chan[p]) < Capacity
  /\ chan' = [chan EXCEPT ![p] = IF Open(p) THEN Append(@, "kill") ELSE @]
  /\ timers' = timers \ {p}
  /\ UNCHANGED <<child, actor, log, asked, entries, status, complete, thread, taskVars, faults>>

-----------------------------------------------------------------------------
(* What the tasks that stop processes share.                               *)

Goto(c, label) == phase' = [phase EXCEPT ![c] = label]
Leave_KeepsTodo(c) ==
  /\ Goto(c, "done") /\ job' = [job EXCEPT ![c] = "none"]
  /\ UNCHANGED <<todo, watch>>

Leave(c) ==
  /\ Goto(c, "done") /\ job' = [job EXCEPT ![c] = "none"]
  /\ todo' = [todo EXCEPT ![c] = {}] /\ watch' = [watch EXCEPT ![c] = {}]

RunningAll == {p \in Procs : Running(p)}
RunningOfTurn == RunningAll \intersect InTurn

Stops == {"pause", "archive", "delete"}

\* Which requests are served in this state of the thread, and where they begin:
\* an archive or a delete finds a turn at work or none.
Served(j) ==
  CASE j = "shutdown" -> TRUE [] j = "delete" -> Loadable [] OTHER -> thread = "open"
First(j) ==
  CASE j = "shutdown" -> {"killall"} [] j \in {"archive", "delete"} -> {"interrupt", "look"}
    [] OTHER -> {"interrupt"}

Found(j, label) ==
  IF label = "killall" THEN RunningAll ELSE IF label = "look" THEN {} ELSE RunningOfTurn

Begin(c) ==
  /\ phase[c] = "new"
  /\ \E j \in Jobs \ Commands : Served(j) /\ \E label \in First(j) :
       /\ job' = [job EXCEPT ![c] = j]
       /\ todo' = [todo EXCEPT ![c] = Found(j, label)]
       /\ watch' = [watch EXCEPT ![c] = IF j = "turn" THEN {} ELSE Found(j, label)]
       /\ Goto(c, label)
  /\ UNCHANGED <<procVars, mapVars, faults>>

Command(c) ==
  CASE phase[c] = "interrupt" -> "interrupt"
    [] phase[c] \in {"kill", "killall"} -> "kill"
    [] phase[c] = "send" -> job[c]
    [] OTHER -> "none"

\* Sending waits while the channel is full, and finds it closed when the actor
\* has gone; reconcile_closed_process_entry then removes what is left.
Send(c, p) ==
  /\ Command(c) # "none" /\ p \in todo[c]
  /\ todo' = [todo EXCEPT ![c] = @ \ {p}]
  /\ \/ Open(p) /\ Len(chan[p]) < Capacity /\ chan' = Append1(chan, p, Command(c))
        /\ UNCHANGED <<entries, complete>>
     \/ ~Open(p) /\ job[c] \in Stops /\ entries' = entries \ {p}
        /\ complete' = complete \union {p} /\ UNCHANGED chan
     \/ ~Open(p) /\ job[c] \notin Stops /\ UNCHANGED <<chan, entries, complete>>
  /\ UNCHANGED <<child, actor, log, asked, status, timers, thread, job, phase, watch, faults>>

AfterSent(c) ==
  CASE phase[c] = "interrupt" -> IF job[c] = "turn" THEN "later" ELSE "grace"
    [] phase[c] = "kill" /\ job[c] \in Stops -> "wait"
    [] phase[c] = "killall" -> IF job[c] = "shutdown" THEN "wait" ELSE "drain"
    [] OTHER -> "done"

Sent(c) ==
  /\ Command(c) # "none" /\ todo[c] = {}
  /\ \/ AfterSent(c) = "done" /\ Leave(c)
     \/ AfterSent(c) # "done" /\ Goto(c, AfterSent(c)) /\ UNCHANGED <<job, todo, watch>>
  /\ UNCHANGED <<procVars, mapVars, faults>>

-----------------------------------------------------------------------------
(* ProcessCompletion::wait, for each entry in turn, under a timeout.  A     *)
(* completion marked between the test of the flag and the subscription to  *)
(* Notify is not heard: that wait, too, ends with its timeout.             *)

Waiting == {"grace", "wait", "draining"}

AfterWait(c) ==
  CASE phase[c] = "draining" -> "drain" [] job[c] = "pause" -> "done"
    [] job[c] = "shutdown" -> "exit" [] OTHER -> "look"

AllComplete(c) ==
  /\ phase[c] \in Waiting /\ watch[c] \subseteq complete
  /\ \/ AfterWait(c) = "done" /\ Leave(c)
     \/ AfterWait(c) # "done" /\ Goto(c, AfterWait(c)) /\ watch' = [watch EXCEPT ![c] = {}]
          /\ UNCHANGED <<job, todo>>
  /\ UNCHANGED <<procVars, mapVars, faults>>

\* The grace of STOP_TURN_INTERRUPT_GRACE is over: who is left is killed.
GraceOver(c) ==
  /\ phase[c] = "grace"
  /\ todo' = [todo EXCEPT ![c] = watch[c] \ complete]
  /\ watch' = [watch EXCEPT ![c] = @ \ complete]
  /\ Goto(c, "kill")
  /\ UNCHANGED <<procVars, mapVars, job, faults>>

MayTimeOut_NotDrain(c) == phase[c] = "wait"
MayTimeOut(c) == phase[c] \in {"wait", "draining"}

\* The request fails, and a shutdown goes on.
WaitTimesOut(c) ==
  /\ MayTimeOut(c)
  /\ \/ job[c] \in Stops /\ Leave(c)
     \/ /\ job[c] = "shutdown" /\ Goto(c, "exit")
        /\ watch' = [watch EXCEPT ![c] = {}]
        /\ UNCHANGED <<job, todo>>
  /\ UNCHANGED <<procVars, mapVars, faults>>

-----------------------------------------------------------------------------
(* turn/interrupt two seconds later; thread/archive and thread/delete      *)
(* after the turn.                                                         *)

\* kill_processes_for_turn.
LateTargets_None == {}
LateTargets == RunningOfTurn

Later(c) ==
  /\ phase[c] = "later"
  /\ todo' = [todo EXCEPT ![c] = LateTargets]
  /\ Goto(c, "kill")
  /\ UNCHANGED <<procVars, mapVars, job, watch, faults>>

Look(c) ==
  /\ phase[c] = "look"
  /\ todo' = [todo EXCEPT ![c] = RunningAll]
  /\ Goto(c, "killall")
  /\ UNCHANGED <<procVars, mapVars, job, watch, faults>>

\* wait_for_thread_process_entries_to_drain.
Drain(c) ==
  /\ phase[c] = "drain"
  /\ watch' = [watch EXCEPT ![c] = entries]
  /\ Goto(c, IF entries # {} THEN "draining" ELSE job[c])
  /\ UNCHANGED <<procVars, mapVars, job, todo, faults>>

Archive(c) ==
  /\ phase[c] = "archive"
  /\ thread' = IF thread = "open" THEN "archived" ELSE thread
  /\ Leave(c)
  /\ UNCHANGED <<procVars, entries, status, complete, timers, faults>>

\* remove_dir_all and evict_cached_thread.
Remove(c) ==
  /\ phase[c] = "delete"
  /\ thread' = IF thread = "deleted" THEN thread ELSE "removed"
  /\ Goto(c, "retain")
  /\ UNCHANGED <<procVars, entries, status, complete, timers, job, todo, watch, faults>>

\* What has been inserted since the drain is forgotten.
Retain(c) ==
  /\ phase[c] = "retain"
  /\ entries' = {}
  /\ thread' = "deleted"
  /\ Leave(c)
  /\ UNCHANGED <<procVars, status, complete, timers, faults>>

-----------------------------------------------------------------------------
(* process/kill and process/interrupt.                                     *)

\* load_process_signal_target finds the entry, and a process with its argv or a zombie.
Target(c, p) ==
  /\ phase[c] = "new" /\ Loadable /\ p \in entries
  /\ ~(status[p] = "running" /\ child[p] = "reaped")
  /\ \E j \in Jobs \intersect Commands : job' = [job EXCEPT ![c] = j]
  /\ todo' = [todo EXCEPT ![c] = {p}]
  /\ Goto(c, "check")
  /\ UNCHANGED <<procVars, mapVars, watch, faults>>

\* os_process_matches_argv is false: the pid is no longer there, or its command line is
\* another one, which was read before the map and the completion were reached.
MayReconcile_Zombie(p) == child[p] \in {"zombie", "reaped"} \/ p \in Disguised
MayReconcile(p) == child[p] = "reaped" \/ p \in Disguised

\* reconcile_stale_managed_process.  The child may live; its actor hears nothing of it.
TargetStale(c, p) ==
  /\ phase[c] = "new" /\ Loadable /\ Jobs \intersect Commands # {}
  /\ Running(p) /\ MayReconcile(p)
  /\ status' = [status EXCEPT ![p] = "abandoned"]
  /\ entries' = entries \ {p}
  /\ complete' = complete \union {p}
  /\ Goto(c, "done")
  /\ UNCHANGED <<procVars, timers, thread, job, todo, watch, faults>>

\* send_process_signal; the answer to an approval may have been waited for.
Check(c) ==
  /\ phase[c] = "check"
  /\ IF \A p \in todo[c] : status[p] = "running"
       THEN Goto(c, "send") /\ UNCHANGED <<job, todo, watch>>
       ELSE Leave(c)
  /\ UNCHANGED <<procVars, mapVars, faults>>

\* No entry, but the log says it runs, and its pid is there with its argv.
TargetOutside(c, p) ==
  /\ phase[c] = "new" /\ Loadable /\ p \notin entries
  /\ "started" \in log[p] /\ "exited" \notin log[p] /\ child[p] \in {"alive", "zombie"}
  /\ \E j \in Jobs \intersect Commands : job' = [job EXCEPT ![c] = j]
  /\ todo' = [todo EXCEPT ![c] = {p}]
  /\ Goto(c, "out_log")
  /\ UNCHANGED <<procVars, mapVars, watch, faults>>

LogOutside(c, p) ==
  /\ phase[c] = "out_log" /\ p \in todo[c]
  /\ Record(p, job[c])
  /\ IF faults' = faults
       THEN Goto(c, "out_strike") /\ UNCHANGED <<job, todo, watch>>
       ELSE Leave(c)
  /\ UNCHANGED <<child, actor, asked, chan, mapVars>>

StrikeOutside(c, p) ==
  /\ phase[c] = "out_strike" /\ p \in todo[c]
  /\ \E state \in Struck(p, job[c]) : child' = [child EXCEPT ![p] = state]
  /\ IF job[c] = "kill" /\ child[p] # "reaped"
       THEN Goto(c, "out_wait") /\ UNCHANGED <<job, todo, watch>>
       ELSE Leave(c)
  /\ UNCHANGED <<actor, log, asked, chan, mapVars, faults>>

\* waitpid reaps a child of this server, whoever owns it.
WaitOutside_Skipped(c, p) ==
  /\ phase[c] = "out_wait" /\ p \in todo[c]
  /\ Goto(c, "out_exit")
  /\ UNCHANGED <<procVars, mapVars, job, todo, watch, faults>>

WaitOutside(c, p) ==
  /\ phase[c] = "out_wait" /\ p \in todo[c] /\ child[p] \in {"zombie", "reaped"}
  /\ child' = [child EXCEPT ![p] = "reaped"]
  /\ Goto(c, "out_exit")
  /\ UNCHANGED <<actor, log, asked, chan, mapVars, job, todo, watch, faults>>

ExitOutside(c, p) ==
  /\ phase[c] = "out_exit" /\ p \in todo[c]
  /\ Record(p, "exited")
  /\ Leave(c)
  /\ UNCHANGED <<child, actor, asked, chan, mapVars>>

-----------------------------------------------------------------------------
(* The end of the server.                                                  *)

Die ==
  /\ actor' = [p \in Procs |-> IF actor[p] \in {"none", "gone"} THEN actor[p] ELSE "lost"]
  /\ child' = [p \in Procs |-> IF child[p] = "zombie" THEN "reaped" ELSE child[p]]
  /\ chan' = [p \in Procs |-> <<>>]
  /\ entries' = {} /\ timers' = {}
  /\ phase' = [c \in Tasks |-> IF phase[c] = "new" THEN "new" ELSE "done"]
  /\ job' = [c \in Tasks |-> "none"]
  /\ todo' = [c \in Tasks |-> {}] /\ watch' = [c \in Tasks |-> {}]
  /\ UNCHANGED <<log, asked, status, complete, thread>>

Crash ==
  /\ faults < MaxFaults /\ faults' = faults + 1
  /\ Die

\* After shutdown_running_processes.
ShutDown(c) == phase[c] = "exit" /\ Die /\ UNCHANGED faults

-----------------------------------------------------------------------------
Init ==
  /\ child = [p \in Procs |-> "none"] /\ actor = [p \in Procs |-> "none"]
  /\ log = [p \in Procs |-> {}] /\ asked = [p \in Procs |-> {}]
  /\ chan = [p \in Procs |-> <<>>]
  /\ entries = {} /\ status = [p \in Procs |-> "running"]
  /\ complete = {} /\ timers = {} /\ thread = "open"
  /\ job = [c \in Tasks |-> "none"] /\ phase = [c \in Tasks |-> "new"]
  /\ todo = [c \in Tasks |-> {}] /\ watch = [c \in Tasks |-> {}]
  /\ faults = 0

StartStep(p) == LogStarted(p) \/ StartFails(p) \/ Insert(p)
ActorStep(p) == Receive(p) \/ LoseControl(p) \/ Reap(p) \/ Finalize(p)

OutsideStep(c, p) ==
  LogOutside(c, p) \/ StrikeOutside(c, p) \/ WaitOutside(c, p) \/ ExitOutside(c, p)

\* What a request goes on with; its waits end, at the latest, with their timeout.
TaskStep(c) ==
  \/ \E p \in Procs : Send(c, p) \/ OutsideStep(c, p)
  \/ Sent(c) \/ AllComplete(c) \/ GraceOver(c) \/ WaitTimesOut(c)
  \/ Later(c) \/ Look(c) \/ Drain(c) \/ Archive(c) \/ Remove(c) \/ Retain(c)
  \/ Check(c) \/ ShutDown(c)

Request(c) ==
  Begin(c) \/ \E p \in Procs : Target(c, p) \/ TargetStale(c, p) \/ TargetOutside(c, p)

Next ==
  \/ \E p \in Procs :
       \/ Spawn(p) \/ StartStep(p) \/ DropStart(p) \/ Exit(p)
       \/ ActorStep(p) \/ LogExited(p) \/ TimerFires(p)
  \/ \E c \in Tasks : Request(c) \/ TaskStep(c)
  \/ Crash

Spec == Init /\ [][Next]_vars

\* The executor runs every task that can go on.  Nothing makes a child exit by
\* itself, a held output end, or a request come.
Fairness ==
  /\ \A p \in Procs : WF_vars(StartStep(p)) /\ WF_vars(ActorStep(p)) /\ WF_vars(TimerFires(p))
  /\ \A p \in Procs \ Holders : WF_vars(LogExited(p))
  /\ \A c \in Tasks : WF_vars(TaskStep(c))

FairSpec == Spec /\ Fairness

-----------------------------------------------------------------------------
(* Properties.                                                             *)

Phases ==
  {"new", "done", "interrupt", "later", "kill", "killall", "look", "drain", "retain",
   "archive", "delete", "exit", "check", "send"} \union Waiting \union Outside

TasksTyped ==
  /\ job \in [Tasks -> AllJobs \union {"none"}] /\ phase \in [Tasks -> Phases]
  /\ todo \in [Tasks -> SUBSET Procs] /\ watch \in [Tasks -> SUBSET Procs]
  /\ \A c \in Tasks : phase[c] \in {"new", "done"} => todo[c] = {} /\ watch[c] = {}

\* Every variable keeps to its type; no channel exceeds its capacity, and a request that
\* has not begun, or is done, holds no entry.
TypeOK ==
  /\ child \in [Procs -> {"none", "alive", "zombie", "reaped"}]
  /\ actor \in [Procs -> {"none", "starting", "started", "gone", "lost"} \union Receiving]
  /\ log \in [Procs -> SUBSET Events]
  /\ asked \in [Procs -> SUBSET (Commands \union {"dropped"})]
  /\ chan \in [Procs -> Seq(Commands)] /\ (\A p \in Procs : Len(chan[p]) <= Capacity)
  /\ entries \subseteq Procs /\ complete \subseteq Procs /\ timers \subseteq Procs
  /\ status \in [Procs -> {"running", "exited", "abandoned"}]
  /\ thread \in {"open", "archived", "removed", "deleted"}
  /\ TasksTyped
  /\ faults \in 0..MaxFaults

\* The log says that a process has exited only when it has, whoever wrote it.
ExitIsTrue == \A p \in Procs : "exited" \in log[p] => child[p] = "reaped"

\* Abandoned by a signal that did not recognise its command line.
Mistaken(p) == p \in Disguised /\ status[p] = "abandoned"

\* A completion is marked only for a process that is gone, or was mistaken for gone: a
\* pause, an archive or a delete that has waited for it goes on without it.
CompleteIsTrue == \A p \in complete : child[p] = "reaped" \/ Mistaken(p)

\* A process that lives and has an actor is in the map, where requests find it, unless
\* thread/delete has forgotten it or a signal has mistaken it for one that is gone.
Tracked ==
  \A p \in Procs :
    Open(p) /\ child[p] # "reaped" => p \in entries \/ thread = "deleted" \/ Mistaken(p)

\* A kill that was accepted is the end of the process, if the server lives on
\* (docs/v0.2.0_parity.md, process control).
QueuedKillEnds ==
  \A p \in Procs :
    (\E i \in DOMAIN chan[p] : chan[p][i] = "kill") ~> child[p] = "reaped" \/ ~Open(p)

\* Two seconds after an accepted turn/interrupt every process of the turn that is
\* in the map by then goes, also when it ignores the interrupt.
TurnStops ==
  \A c \in Tasks : \A p \in InTurn :
    (phase[c] = "later" /\ Running(p)) ~> child[p] = "reaped"
                                          \/ actor[p] = "lost"

\* A process that is no longer in the map does not live on: not one that thread/delete has
\* forgotten, and not one that was mistaken for gone.
ForgottenEnds == \A p \in Procs \ Holders : (Open(p) /\ p \notin entries) ~> ~Open(p)

Full(p) == Open(p) /\ Len(chan[p]) = Capacity

\* A request is answered, and only the full channel of an actor that waits for
\* output can hold it up.
Answered ==
  \A c \in Tasks :
    phase[c] # "new" ~> \/ phase[c] = "done"
                        \/ \E p \in todo[c] \intersect Holders : actor[p] = "reaped" /\ Full(p)

\* Nothing is recorded of a process before its start: not by its actor, and not by a
\* kill from outside, which may come after a start that was dropped or a dead server.
StartedFirst == \A p \in Procs : log[p] # {} => "started" \in log[p]

\* What process/list answers: a process that has exited has, and its exit is on record;
\* one that was abandoned as stale is gone, or has another command line than its argv.
StatusOfDead ==
  \A p \in Procs :
    /\ status[p] = "exited" => child[p] = "reaped" /\ "exited" \in log[p]
    /\ status[p] = "abandoned" => child[p] = "reaped" \/ p \in Disguised

\* wait_for_thread_process_entries_to_drain: archive and delete go on only from a moment at
\* which no process with an actor lives, whatever was started since they looked, but those
\* that were mistaken for gone.
DrainedIsQuiet ==
  [][\A c \in Tasks : phase[c] = "drain" /\ phase'[c] \in {"archive", "delete"} =>
       \/ thread = "deleted"
       \/ \A p \in Procs : Open(p) => child[p] = "reaped" \/ Mistaken(p)]_vars

-----------------------------------------------------------------------------
(* The inductive invariant behind the safety properties.                   *)

\* The actor is past its loop only when the child is reaped; nothing is known of a
\* process that has not been started.
ActorFits ==
  \A p \in Procs :
    /\ actor[p] \in {"reaped", "logged", "gone"} => child[p] = "reaped"
    /\ actor[p] = "none" => child[p] = "none"
    /\ actor[p] \in {"none", "starting", "started"} => status[p] = "running"

\* Whatever is in the map, or in the hands of a task, has once been given an actor,
\* and has not been lost.
EntriesHadActor ==
  \A p \in Procs :
    p \in entries \/ (\E c \in Tasks : p \in Holding(c)) => actor[p] \in Receiving \union {"gone"}

\* From outside one process is signalled, and who is about to write that it has exited
\* has seen it gone.
OutsideSaw ==
  \A c \in Tasks : phase[c] \in Outside =>
    \A p \in todo[c] : todo[c] = {p} /\ (phase[c] = "out_exit" => child[p] = "reaped")

\* The way of each request.
PhasesOf(j) ==
  CASE j = "turn" -> {"interrupt", "later", "kill"}
    [] j = "pause" -> {"interrupt", "grace", "kill", "wait"}
    [] j \in {"archive", "delete"} ->
         {"interrupt", "grace", "kill", "wait", "look", "killall", "drain", "draining",
          "retain", j}
    [] j = "shutdown" -> {"killall", "wait", "exit"}
    [] j \in Commands -> {"check", "send"} \union Outside
    [] OTHER -> {"new", "done"}

JobFits == \A c \in Tasks : phase[c] \in PhasesOf(job[c])

IInv ==
  /\ TypeOK
  /\ JobFits
  /\ ActorFits
  /\ EntriesHadActor
  /\ OutsideSaw
  /\ ExitIsTrue
  /\ CompleteIsTrue
  /\ Tracked
\* Whoever writes of a process was started after the start was recorded, or has read it.
WritersStarted ==
  /\ \A p \in Procs : actor[p] \in {"started"} \union Receiving => "started" \in log[p]
  /\ \A c \in Tasks : phase[c] \in Outside => \A p \in todo[c] : "started" \in log[p]

\* A process has a child from its spawn on.
Begun == \A p \in Procs : actor[p] # "none" => child[p] # "none"

\* What the log and the status say.
RecordFits == StartedFirst /\ WritersStarted /\ StatusOfDead /\ Begun

-----------------------------------------------------------------------------
(* What they keep is what can be relied on.                                *)

Kept == INSTANCE ProcessRecord

\* Starts, actors, requests, kills from outside and deaths of the server together do
\* nothing to a process, its events, its status and its completion that ProcessRecord does
\* not allow.
ImplementsProcessRecord == Kept!Spec
=============================================================================
