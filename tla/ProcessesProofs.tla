-------------------------- MODULE ProcessesProofs --------------------------
(***************************************************************************)
(* Proofs about Processes: what is recorded of a process, or told to those *)
(* who wait for it, is true of the child, and requests find every process  *)
(* that lives, but those that a signal has mistaken for gone by their      *)
(* command line, for any number of processes, requests and faults and for  *)
(* channels of any capacity; together the processes keep to ProcessRecord. *)
(***************************************************************************)
EXTENDS Processes, TLAPS

\* The steps of a process, its start and its actor.
ProcStep(p) ==
  \/ Spawn(p) \/ StartStep(p) \/ DropStart(p) \/ Exit(p)
  \/ ActorStep(p) \/ LogExited(p) \/ TimerFires(p)

\* The steps of a request that change nothing but the request.
OwnStep(c) ==
  \/ Begin(c) \/ Sent(c) \/ AllComplete(c) \/ GraceOver(c) \/ WaitTimesOut(c)
  \/ Later(c) \/ Look(c) \/ Drain(c) \/ Check(c)
  \/ \E p \in Procs : Target(c, p) \/ TargetOutside(c, p)

\* Those that reach for a process or for the thread.
OuterStep(c) ==
  \/ \E p \in Procs : Send(c, p) \/ TargetStale(c, p) \/ OutsideStep(c, p)
  \/ Archive(c) \/ Remove(c) \/ Retain(c)

LEMMA StepKinds ==
  ASSUME Next
  PROVE  \/ \E p \in Procs : ProcStep(p)
         \/ \E c \in Tasks : OwnStep(c) \/ OuterStep(c)
         \/ Crash
         \/ \E c \in Tasks : ShutDown(c)
<1>1. CASE \E p \in Procs : ProcStep(p)
  BY <1>1
<1>2. ASSUME NEW c \in Tasks, Request(c) \/ TaskStep(c)
      PROVE  OwnStep(c) \/ OuterStep(c) \/ ShutDown(c)
  BY <1>2 DEF Request, TaskStep, OwnStep, OuterStep
<1>3. CASE Crash
  BY <1>3
<1> QED
  BY <1>1, <1>2, <1>3 DEF Next, ProcStep

LEMMA InitInv == Init => IInv
<1> SUFFICES ASSUME Init
             PROVE  IInv
  OBVIOUS
<1>1. TypeOK
  BY CapacityAssumption, MaxFaultsAssumption
     DEF Init, TypeOK, TasksTyped, Receiving, Commands, Events, AllJobs, Phases
<1>2. JobFits /\ ActorFits /\ EntriesHadActor /\ OutsideSaw
  BY DEF Init, JobFits, PhasesOf, Commands, ActorFits, EntriesHadActor, OutsideSaw, Outside,
         Holding
<1>3. ExitIsTrue /\ CompleteIsTrue /\ Tracked
  BY DEF Init, ExitIsTrue, CompleteIsTrue, Tracked, Open, Receiving
<1> QED
  BY <1>1, <1>2, <1>3 DEF IInv

-----------------------------------------------------------------------------
(* Types.                                                                  *)

\* An append adds one event to the log of one process, or is a fault.
LEMMA RecordType ==
  ASSUME TypeOK, NEW p \in Procs, NEW e \in Events, Record(p, e)
  PROVE  log' \in [Procs -> SUBSET Events] /\ faults' \in 0..MaxFaults
<1>1. CASE log' = [log EXCEPT ![p] = @ \union {e}] /\ UNCHANGED faults
  BY <1>1 DEF TypeOK
<1>2. CASE faults < MaxFaults /\ faults' = faults + 1 /\ UNCHANGED log
  BY <1>2, MaxFaultsAssumption DEF TypeOK
<1> QED
  BY <1>1, <1>2 DEF Record

LEMMA RecordAdds ==
  ASSUME TypeOK, NEW p \in Procs, NEW e, Record(p, e)
  PROVE  \A q \in Procs : "exited" \in log'[q] => \/ "exited" \in log[q]
                                                  \/ q = p /\ e = "exited"
BY DEF Record, TypeOK

\* A signal leaves the child in one of its states.
LEMMA StruckType ==
  ASSUME TypeOK, NEW p \in Procs, NEW cmd, NEW state \in Struck(p, cmd)
  PROVE  state \in {"none", "alive", "zombie", "reaped"}
BY DEF TypeOK, Struck, Killed, Corpse

\* The steps of a process keep the types.
LEMMA ProcType ==
  ASSUME IInv, NEW p \in Procs, ProcStep(p)
  PROVE  TypeOK'
<1> USE ProcsAssumption, CapacityAssumption, MaxFaultsAssumption
    DEF IInv, TypeOK, procVars, mapVars, taskVars, Receiving, Commands, Events
<1>0. UNCHANGED taskVars => TasksTyped'
  BY DEF TasksTyped
<1>1. CASE Spawn(p)
  BY <1>0, <1>1 DEF Spawn
<1>2. CASE LogStarted(p)
  BY <1>0, <1>2 DEF LogStarted
<1>3. CASE StartFails(p)
  BY <1>0, <1>3 DEF StartFails
<1>4. CASE Insert(p)
  BY <1>0, <1>4 DEF Insert
<1>5. CASE DropStart(p)
  BY <1>0, <1>5 DEF DropStart
<1>6. CASE Exit(p)
  BY <1>0, <1>6 DEF Exit, Corpse
<1>7. CASE Receive(p)
  <2> DEFINE cmd == Head(chan[p])
  <2>1. cmd \in Commands /\ Tail(chan[p]) \in Seq(Commands) /\ Len(Tail(chan[p])) <= Capacity
    BY <1>7 DEF Receive
  <2>2. log' \in [Procs -> SUBSET Events] /\ faults' \in 0..MaxFaults
    BY <1>7, <2>1, RecordType DEF Receive
  <2>3. child' \in [Procs -> {"none", "alive", "zombie", "reaped"}]
    BY <1>7, StruckType DEF Receive
  <2>4. asked' \in [Procs -> SUBSET (Commands \union {"dropped"})]
    BY <1>7, <2>1 DEF Receive
  <2>5. chan' \in [Procs -> Seq(Commands)] /\ \A q \in Procs : Len(chan'[q]) <= Capacity
    BY <1>7, <2>1 DEF Receive
  <2> HIDE DEF cmd
  <2> QED
    BY <1>0, <1>7, <2>2, <2>3, <2>4, <2>5 DEF Receive
<1>8. CASE LoseControl(p)
  BY <1>0, <1>8 DEF LoseControl, WithoutControl, Killed, Corpse
<1>9. CASE Reap(p)
  BY <1>0, <1>9 DEF Reap
<1>10. CASE Finalize(p)
  BY <1>0, <1>10 DEF Finalize, MayFinalize
<1>11. CASE LogExited(p)
  <2>1. log' \in [Procs -> SUBSET Events] /\ faults' \in 0..MaxFaults
    BY <1>11, RecordType DEF LogExited
  <2> QED
    BY <1>0, <1>11, <2>1 DEF LogExited
<1>12. CASE TimerFires(p)
  BY <1>0, <1>12 DEF TimerFires, Open
<1> QED
  BY <1>1, <1>2, <1>3, <1>4, <1>5, <1>6, <1>7, <1>8, <1>9, <1>10, <1>11, <1>12
     DEF ProcStep, StartStep, ActorStep

\* What a step of request c does to the requests: it takes another place of its way,
\* with entries it had or has found in the map, or the one process it was asked for.
Moves(c) ==
  /\ job' \in [Tasks -> AllJobs \union {"none"}] /\ phase' \in [Tasks -> Phases]
  /\ todo' \in [Tasks -> SUBSET Procs] /\ watch' \in [Tasks -> SUBSET Procs]
  /\ \A d \in Tasks \ {c} :
       job'[d] = job[d] /\ phase'[d] = phase[d] /\ todo'[d] = todo[d] /\ watch'[d] = watch[d]
  /\ phase'[c] \in PhasesOf(job'[c])
  /\ \/ phase'[c] = "done" /\ todo'[c] = {} /\ watch'[c] = {}
     \/ /\ phase'[c] \notin {"new", "done"} \union Outside
        /\ todo'[c] \union watch'[c] \subseteq entries \union Holding(c)
     \/ /\ phase'[c] \in Outside \ {"out_exit"}
        /\ \A p, q \in todo'[c] : p = q
     \/ /\ phase'[c] = "out_exit"
        /\ \A p \in todo'[c] : child'[p] = "reaped"
        /\ \A p, q \in todo'[c] : p = q

LEMMA LeaveMoves ==
  ASSUME IInv, NEW c \in Tasks, Leave(c)
  PROVE  Moves(c)
BY DEF IInv, TypeOK, TasksTyped, Leave, Goto, Moves, PhasesOf, Phases, Commands

\* A request that goes on with its job, not from outside.
LEMMA GotoMoves ==
  ASSUME IInv, NEW c \in Tasks, NEW label \in Phases \ ({"new", "done"} \union Outside),
         phase[c] \notin Outside, Goto(c, label), label \in PhasesOf(job[c]), UNCHANGED job,
         todo' \in [Tasks -> SUBSET Procs], watch' \in [Tasks -> SUBSET Procs],
         \A d \in Tasks \ {c} : todo'[d] = todo[d] /\ watch'[d] = watch[d],
         todo'[c] \union watch'[c] \subseteq entries \union todo[c] \union watch[c]
  PROVE  Moves(c)
BY DEF IInv, TypeOK, TasksTyped, Goto, Moves, Holding

\* A request's own steps change nothing of the processes and of the map.
LEMMA OwnLeaves ==
  ASSUME NEW c \in Tasks, OwnStep(c)
  PROVE  UNCHANGED <<procVars, mapVars, faults>>
BY DEF OwnStep, Begin, Sent, AllComplete, GraceOver, WaitTimesOut, Later, Look, Drain, Check,
       Target, TargetOutside, procVars, mapVars

LEMMA OwnMoves ==
  ASSUME IInv, NEW c \in Tasks, OwnStep(c)
  PROVE  Moves(c)
<1>a. todo \in [Tasks -> SUBSET Procs] /\ watch \in [Tasks -> SUBSET Procs]
      /\ job \in [Tasks -> AllJobs \union {"none"}] /\ phase \in [Tasks -> Phases]
      /\ entries \subseteq Procs /\ phase[c] \in PhasesOf(job[c])
  BY DEF IInv, TypeOK, TasksTyped, JobFits
<1>1. CASE Begin(c)
  <2>0. PICK j \in Jobs \ Commands : \E label \in First(j) :
          /\ job' = [job EXCEPT ![c] = j]
          /\ todo' = [todo EXCEPT ![c] = Found(j, label)]
          /\ watch' = [watch EXCEPT ![c] = IF j = "turn" THEN {} ELSE Found(j, label)]
          /\ Goto(c, label)
    BY <1>1 DEF Begin
  <2>1. PICK label \in First(j) :
          /\ job' = [job EXCEPT ![c] = j]
          /\ todo' = [todo EXCEPT ![c] = Found(j, label)]
          /\ watch' = [watch EXCEPT ![c] = IF j = "turn" THEN {} ELSE Found(j, label)]
          /\ Goto(c, label)
    BY <2>0
  <2>2. Found(j, label) \subseteq entries
    BY DEF Found, RunningAll, RunningOfTurn, Running
  <2>3. /\ j \in AllJobs /\ j \notin Commands
        /\ label \in Phases \ ({"new", "done"} \union Outside) /\ label \in PhasesOf(j)
    BY JobsAssumption DEF First, AllJobs, Commands, Phases, Outside, PhasesOf
  <2> QED
    BY <1>a, <2>1, <2>2, <2>3 DEF Moves, Goto
<1>2. CASE Sent(c)
  <2>1. CASE Leave(c)
    BY <2>1, LeaveMoves
  <2>2. CASE AfterSent(c) # "done" /\ Goto(c, AfterSent(c)) /\ UNCHANGED <<job, todo, watch>>
    <3>1. /\ AfterSent(c) \in PhasesOf(job[c])
          /\ AfterSent(c) \in Phases \ ({"new", "done"} \union Outside)
      BY <1>a, <2>2 DEF AfterSent, PhasesOf, Phases, Outside, Stops, Waiting, Commands, AllJobs
    <3>2. phase[c] \notin Outside
      BY <1>2 DEF Sent, Command, Outside
    <3> QED
      BY <1>a, <2>2, <3>1, <3>2, GotoMoves
  <2> QED
    BY <1>2, <2>1, <2>2 DEF Sent
<1>3. CASE AllComplete(c)
  <2>1. CASE Leave(c)
    BY <2>1, LeaveMoves
  <2>2. CASE AfterWait(c) # "done" /\ Goto(c, AfterWait(c)) /\ watch' = [watch EXCEPT ![c] = {}]
               /\ UNCHANGED <<job, todo>>
    <3>1. /\ AfterWait(c) \in PhasesOf(job[c])
          /\ AfterWait(c) \in Phases \ ({"new", "done"} \union Outside)
      BY <1>3, <1>a, <2>2
         DEF AllComplete, AfterWait, PhasesOf, Phases, Outside, Stops, Waiting, Commands, AllJobs
    <3>2. phase[c] \notin Outside
      BY <1>3 DEF AllComplete, Waiting, Outside
    <3> QED
      BY <1>a, <2>2, <3>1, <3>2, GotoMoves
  <2> QED
    BY <1>3, <2>1, <2>2 DEF AllComplete
<1>4. CASE GraceOver(c)
  <2>1. "kill" \in PhasesOf(job[c]) /\ "kill" \in Phases \ ({"new", "done"} \union Outside)
        /\ phase[c] \notin Outside
    BY <1>4, <1>a DEF GraceOver, PhasesOf, Phases, Outside, Commands, AllJobs
  <2>2. /\ todo' = [todo EXCEPT ![c] = watch[c] \ complete]
        /\ watch' = [watch EXCEPT ![c] = @ \ complete]
        /\ Goto(c, "kill") /\ UNCHANGED job
    BY <1>4 DEF GraceOver
  <2> QED
    BY <1>a, <2>1, <2>2, GotoMoves
<1>5. CASE WaitTimesOut(c)
  <2>1. CASE Leave(c)
    BY <2>1, LeaveMoves
  <2>2. CASE job[c] = "shutdown" /\ Goto(c, "exit") /\ watch' = [watch EXCEPT ![c] = {}]
               /\ UNCHANGED <<job, todo>>
    <3>1. "exit" \in PhasesOf(job[c]) /\ "exit" \in Phases \ ({"new", "done"} \union Outside)
          /\ phase[c] \notin Outside
      BY <1>5, <2>2 DEF WaitTimesOut, MayTimeOut, PhasesOf, Phases, Outside, Commands
    <3> QED
      BY <1>a, <2>2, <3>1, GotoMoves
  <2> QED
    BY <1>5, <2>1, <2>2 DEF WaitTimesOut
<1>6. CASE Later(c)
  <2>1. "kill" \in PhasesOf(job[c]) /\ "kill" \in Phases \ ({"new", "done"} \union Outside)
        /\ phase[c] \notin Outside
    BY <1>6, <1>a DEF Later, PhasesOf, Phases, Outside, Commands, AllJobs
  <2>2. LateTargets \subseteq entries
    BY DEF LateTargets, RunningOfTurn, RunningAll, Running
  <2> QED
    BY <1>6, <1>a, <2>1, <2>2, GotoMoves DEF Later
<1>7. CASE Look(c)
  <2>1. "killall" \in PhasesOf(job[c]) /\ "killall" \in Phases \ ({"new", "done"} \union Outside)
        /\ phase[c] \notin Outside
    BY <1>7, <1>a DEF Look, PhasesOf, Phases, Outside, Commands, AllJobs
  <2>2. RunningAll \subseteq entries
    BY DEF RunningAll, Running
  <2> QED
    BY <1>7, <1>a, <2>1, <2>2, GotoMoves DEF Look
<1>8. CASE Drain(c)
  <2> DEFINE label == IF entries # {} THEN "draining" ELSE job[c]
  <2>1. label \in PhasesOf(job[c]) /\ label \in Phases \ ({"new", "done"} \union Outside)
        /\ phase[c] \notin Outside
    BY <1>8, <1>a DEF Drain, PhasesOf, Phases, Outside, Commands, AllJobs, Waiting
  <2>2. Goto(c, label) /\ watch' = [watch EXCEPT ![c] = entries] /\ UNCHANGED <<job, todo>>
    BY <1>8 DEF Drain
  <2> HIDE DEF label
  <2> QED
    BY <1>a, <2>1, <2>2, GotoMoves
<1>9. CASE Check(c)
  <2>1. CASE Leave(c)
    BY <2>1, LeaveMoves
  <2>2. CASE Goto(c, "send") /\ UNCHANGED <<job, todo, watch>>
    <3>1. "send" \in PhasesOf(job[c]) /\ "send" \in Phases \ ({"new", "done"} \union Outside)
          /\ phase[c] \notin Outside
      BY <1>9, <1>a DEF Check, PhasesOf, Phases, Outside, Commands, AllJobs
    <3> QED
      BY <1>a, <2>2, <3>1, GotoMoves
  <2> QED
    BY <1>9, <2>1, <2>2 DEF Check
<1>10. ASSUME NEW p \in Procs, Target(c, p)
       PROVE  Moves(c)
  <2>1. watch[c] = {}
    BY <1>10 DEF Target, IInv, TypeOK, TasksTyped
  <2> QED
    BY <1>10, <1>a, <2>1
       DEF Target, Moves, Goto, PhasesOf, Phases, Outside, Commands, AllJobs
<1>11. ASSUME NEW p \in Procs, TargetOutside(c, p)
       PROVE  Moves(c)
  BY <1>11, <1>a DEF TargetOutside, Moves, Goto, PhasesOf, Phases, Outside, Commands, AllJobs
<1> QED
  BY <1>1, <1>2, <1>3, <1>4, <1>5, <1>6, <1>7, <1>8, <1>9, <1>10, <1>11 DEF OwnStep

LEMMA OuterMoves ==
  ASSUME IInv, NEW c \in Tasks, OuterStep(c)
  PROVE  Moves(c)
<1>a. todo \in [Tasks -> SUBSET Procs] /\ watch \in [Tasks -> SUBSET Procs]
      /\ job \in [Tasks -> AllJobs \union {"none"}] /\ phase \in [Tasks -> Phases]
      /\ entries \subseteq Procs /\ phase[c] \in PhasesOf(job[c])
  BY DEF IInv, TypeOK, TasksTyped, JobFits
<1>b. phase[c] \in Outside => \A p, q \in todo[c] : p = q
  BY DEF IInv, OutsideSaw
<1>1. CASE Archive(c) \/ Retain(c)
  BY <1>1, LeaveMoves DEF Archive, Retain
<1>2. CASE Remove(c)
  <2>1. "retain" \in PhasesOf(job[c]) /\ "retain" \in Phases \ ({"new", "done"} \union Outside)
        /\ phase[c] \notin Outside
    BY <1>2, <1>a DEF Remove, PhasesOf, Phases, Outside, Commands, AllJobs
  <2> QED
    BY <1>2, <1>a, <2>1, GotoMoves DEF Remove
<1>3. ASSUME NEW p \in Procs, Send(c, p)
      PROVE  Moves(c)
  <2>1. phase[c] \notin {"new", "done"} \union Outside
    BY <1>3 DEF Send, Command, Outside
  <2> QED
    BY <1>3, <1>a, <2>1 DEF Send, Moves, Holding
<1>4. ASSUME NEW p \in Procs, TargetStale(c, p)
      PROVE  Moves(c)
  <2>1. job[c] \notin AllJobs
    BY <1>4, <1>a DEF TargetStale, PhasesOf, AllJobs, Commands, Outside
  <2>2. todo[c] = {} /\ watch[c] = {}
    BY <1>4 DEF TargetStale, IInv, TypeOK, TasksTyped
  <2> QED
    BY <1>4, <1>a, <2>1, <2>2 DEF TargetStale, Moves, Goto, PhasesOf, Phases, AllJobs, Commands
<1>5. ASSUME NEW p \in Procs, LogOutside(c, p)
      PROVE  Moves(c)
  <2>1. CASE Leave(c)
    BY <2>1, LeaveMoves
  <2>2. CASE Goto(c, "out_strike") /\ UNCHANGED <<job, todo, watch>>
    BY <1>5, <1>a, <1>b, <2>2
       DEF LogOutside, Moves, Goto, PhasesOf, Phases, Outside, Commands, AllJobs
  <2> QED
    BY <1>5, <2>1, <2>2 DEF LogOutside
<1>6. ASSUME NEW p \in Procs, StrikeOutside(c, p)
      PROVE  Moves(c)
  <2>1. CASE Leave(c)
    BY <2>1, LeaveMoves
  <2>2. CASE Goto(c, "out_wait") /\ UNCHANGED <<job, todo, watch>>
    BY <1>6, <1>a, <1>b, <2>2
       DEF StrikeOutside, Moves, Goto, PhasesOf, Phases, Outside, Commands, AllJobs
  <2> QED
    BY <1>6, <2>1, <2>2 DEF StrikeOutside
<1>7. ASSUME NEW p \in Procs, WaitOutside(c, p)
      PROVE  Moves(c)
  <2>1. child'[p] = "reaped"
    BY <1>7 DEF WaitOutside, IInv, TypeOK
  <2> QED
    BY <1>7, <1>a, <1>b, <2>1
       DEF WaitOutside, Moves, Goto, PhasesOf, Phases, Outside, Commands, AllJobs
<1>8. ASSUME NEW p \in Procs, ExitOutside(c, p)
      PROVE  Moves(c)
  BY <1>8, LeaveMoves DEF ExitOutside
<1> QED
  BY <1>1, <1>2, <1>3, <1>4, <1>5, <1>6, <1>7, <1>8 DEF OuterStep, OutsideStep

\* So the requests stay where they fit.
LEMMA MovesFit ==
  ASSUME IInv, NEW c \in Tasks, Moves(c)
  PROVE  TasksTyped' /\ JobFits'
BY DEF IInv, TypeOK, TasksTyped, JobFits, Moves, Outside

\* What the steps of a request that reach for a process or the thread do to the rest
\* keeps its type.
LEMMA OuterRest ==
  ASSUME IInv, NEW c \in Tasks, OuterStep(c)
  PROVE  TypeOK'
<1> USE CapacityAssumption, MaxFaultsAssumption DEF procVars, mapVars
<1>0. IInv /\ TypeOK /\ TasksTyped' /\ job[c] \in AllJobs \union {"none"}
      /\ phase[c] \in PhasesOf(job[c])
  BY OuterMoves, MovesFit DEF IInv, TypeOK, TasksTyped, JobFits
<1>1. CASE Archive(c) \/ Remove(c) \/ Retain(c)
  BY <1>0, <1>1 DEF Archive, Remove, Retain, TypeOK
<1>2. ASSUME NEW p \in Procs, Send(c, p)
      PROVE  TypeOK'
  <2>1. Command(c) \in Commands
    BY <1>0, <1>2 DEF Send, Command, Commands, PhasesOf, AllJobs, Outside
  <2>2. CASE Open(p) /\ Len(chan[p]) < Capacity /\ chan' = Append1(chan, p, Command(c))
             /\ UNCHANGED <<entries, complete>>
    BY <1>0, <1>2, <2>1, <2>2 DEF Send, Append1, TypeOK
  <2>3. CASE UNCHANGED chan /\ entries' \subseteq entries /\ complete' \subseteq Procs
    BY <1>0, <1>2, <2>3 DEF Send, TypeOK
  <2> QED
    BY <1>0, <1>2, <2>2, <2>3 DEF Send, TypeOK
<1>3. ASSUME NEW p \in Procs, TargetStale(c, p)
      PROVE  TypeOK'
  BY <1>0, <1>3 DEF TargetStale, TypeOK
<1>4. ASSUME NEW p \in Procs, LogOutside(c, p) \/ ExitOutside(c, p)
      PROVE  TypeOK'
  <2>1. phase[c] \in Outside => job[c] \in Events
    BY <1>0 DEF Outside, PhasesOf, AllJobs, Events, Commands
  <2>2. log' \in [Procs -> SUBSET Events] /\ faults' \in 0..MaxFaults
    BY <1>0, <1>4, <2>1, RecordType DEF LogOutside, ExitOutside, Outside, Events
  <2> QED
    BY <1>0, <1>4, <2>2 DEF LogOutside, ExitOutside, TypeOK
<1>5. ASSUME NEW p \in Procs, StrikeOutside(c, p) \/ WaitOutside(c, p)
      PROVE  TypeOK'
  <2>1. child' \in [Procs -> {"none", "alive", "zombie", "reaped"}]
    BY <1>0, <1>5, StruckType DEF StrikeOutside, WaitOutside, TypeOK
  <2> QED
    BY <1>0, <1>5, <2>1 DEF StrikeOutside, WaitOutside, TypeOK
<1> QED
  BY <1>1, <1>2, <1>3, <1>4, <1>5 DEF OuterStep, OutsideStep

LEMMA DieType ==
  ASSUME IInv, Die, faults' \in 0..MaxFaults
  PROVE  TypeOK'
BY CapacityAssumption
   DEF IInv, TypeOK, TasksTyped, Die, Receiving, Commands, Events, AllJobs, Phases

-----------------------------------------------------------------------------
(* What is true of the children.                                           *)

\* The dead do not rise.
ReapedStay == \A p \in Procs : child[p] = "reaped" => child'[p] = "reaped"

LEMMA ProcReaped ==
  ASSUME IInv, NEW p \in Procs, ProcStep(p)
  PROVE  ReapedStay
<1> USE DEF ReapedStay, IInv, TypeOK, ActorFits, mapVars, taskVars, procVars
<1>1. CASE Spawn(p)
  BY <1>1 DEF Spawn
<1>2. CASE LogStarted(p) \/ StartFails(p) \/ Insert(p) \/ DropStart(p)
  BY <1>2 DEF LogStarted, StartFails, Insert, DropStart
<1>3. CASE Exit(p)
  BY <1>3 DEF Exit
<1>4. CASE Receive(p)
  BY <1>4 DEF Receive, Struck, Killed
<1>5. CASE LoseControl(p)
  BY <1>5 DEF LoseControl, WithoutControl, Killed
<1>6. CASE Reap(p) \/ Finalize(p) \/ LogExited(p) \/ TimerFires(p)
  BY <1>6 DEF Reap, Finalize, LogExited, TimerFires
<1> QED
  BY <1>1, <1>2, <1>3, <1>4, <1>5, <1>6 DEF ProcStep, StartStep, ActorStep

LEMMA OuterReaped ==
  ASSUME IInv, NEW c \in Tasks, OuterStep(c)
  PROVE  ReapedStay
<1> USE DEF ReapedStay, IInv, TypeOK, mapVars, procVars
<1>1. CASE Archive(c) \/ Remove(c) \/ Retain(c)
  BY <1>1 DEF Archive, Remove, Retain
<1>2. ASSUME NEW p \in Procs,
             Send(c, p) \/ TargetStale(c, p) \/ LogOutside(c, p) \/ ExitOutside(c, p)
      PROVE  ReapedStay
  BY <1>2 DEF Send, TargetStale, LogOutside, ExitOutside
<1>3. ASSUME NEW p \in Procs, StrikeOutside(c, p) \/ WaitOutside(c, p)
      PROVE  ReapedStay
  BY <1>3 DEF StrikeOutside, WaitOutside, Struck, Killed
<1> QED
  BY <1>1, <1>2, <1>3 DEF OuterStep, OutsideStep

\* Who has an actor keeps it until it is gone, and who enters the map has one.
LEMMA ProcLives ==
  ASSUME IInv, NEW p \in Procs, ProcStep(p)
  PROVE  /\ \A q \in Procs : q \in entries' => q \in entries \/ actor'[q] \in Receiving
         /\ \A q \in Procs :
              actor[q] \in Receiving \union {"gone"} => actor'[q] \in Receiving \union {"gone"}
<1> USE DEF IInv, TypeOK, Receiving, mapVars
<1>1. CASE Spawn(p)
  BY <1>1 DEF Spawn
<1>2. CASE LogStarted(p)
  BY <1>2 DEF LogStarted
<1>3. CASE StartFails(p)
  BY <1>3 DEF StartFails
<1>4. CASE Insert(p)
  BY <1>4 DEF Insert
<1>5. CASE DropStart(p)
  BY <1>5 DEF DropStart
<1>6. CASE Exit(p)
  BY <1>6 DEF Exit, Corpse
<1>7. CASE Receive(p)
  BY <1>7 DEF Receive, Struck, Killed, Corpse
<1>8. CASE LoseControl(p)
  BY <1>8 DEF LoseControl, WithoutControl, Killed, Corpse
<1>9. CASE Reap(p)
  BY <1>9 DEF Reap
<1>10. CASE Finalize(p)
  BY <1>10 DEF Finalize, MayFinalize
<1>11. CASE LogExited(p)
  BY <1>11 DEF LogExited
<1>12. CASE TimerFires(p)
  BY <1>12 DEF TimerFires
<1> QED
  BY <1>1, <1>2, <1>3, <1>4, <1>5, <1>6, <1>7, <1>8, <1>9, <1>10, <1>11, <1>12
     DEF ProcStep, StartStep, ActorStep

\* Who leaves its loop, completes or is said to have exited is reaped.
LEMMA ProcFits ==
  ASSUME IInv, NEW p \in Procs, ProcStep(p)
  PROVE  /\ ActorFits'
         /\ \A q \in Procs : "exited" \in log'[q] => "exited" \in log[q] \/ actor'[q] = "logged"
         /\ \A q \in Procs : q \in complete' => q \in complete \/ actor'[q] = "gone"
<1> USE DEF IInv, TypeOK, ActorFits, Receiving, mapVars
<1>1. CASE Spawn(p)
  BY <1>1 DEF Spawn
<1>2. CASE LogStarted(p)
  BY <1>2 DEF LogStarted
<1>3. CASE StartFails(p)
  BY <1>3 DEF StartFails
<1>4. CASE Insert(p)
  BY <1>4 DEF Insert
<1>5. CASE DropStart(p)
  BY <1>5 DEF DropStart
<1>6. CASE Exit(p)
  BY <1>6 DEF Exit, Corpse
<1>7. CASE Receive(p)
  <2>1. Head(chan[p]) # "exited"
    <3>1. chan[p] \in Seq(Commands) /\ chan[p] # <<>>
      BY <1>7 DEF Receive
    <3> HIDE DEF IInv, TypeOK
    <3>2. Head(chan[p]) \in Commands
      BY <3>1
    <3> QED
      BY <3>2 DEF Commands
  <2>2. \A q \in Procs : "exited" \in log'[q] => "exited" \in log[q]
    BY <1>7, <2>1, RecordAdds DEF Receive
  <2>3. \A q \in Procs \ {p} : child'[q] = child[q]
    BY <1>7 DEF Receive
  <2>4. child[p] = "reaped" => child'[p] = "reaped"
    BY <1>7 DEF Receive, Struck, Killed
  <2> HIDE DEF IInv, TypeOK
  <2>5. actor[p] = "running" /\ UNCHANGED <<actor, complete, status>>
    BY <1>7 DEF Receive
  <2>6. ActorFits
    BY DEF IInv
  <2> QED
    BY <2>2, <2>3, <2>4, <2>5, <2>6
<1>8. CASE LoseControl(p)
  BY <1>8 DEF LoseControl, WithoutControl, Killed, Corpse
<1>9. CASE Reap(p)
  BY <1>9 DEF Reap
<1>10. CASE Finalize(p)
  BY <1>10 DEF Finalize, MayFinalize
<1>11. CASE LogExited(p)
  BY <1>11, RecordAdds DEF LogExited
<1>12. CASE TimerFires(p)
  BY <1>12 DEF TimerFires
<1> QED
  BY <1>1, <1>2, <1>3, <1>4, <1>5, <1>6, <1>7, <1>8, <1>9, <1>10, <1>11, <1>12
     DEF ProcStep, StartStep, ActorStep

\* The actor of a process that was mistaken for gone says so only when it is.
LEMMA ProcMistaken ==
  ASSUME IInv, NEW p \in Procs, ProcStep(p)
  PROVE  \A q \in Procs : Mistaken(q) => Mistaken(q)' \/ child'[q] = "reaped"
<1> USE DEF IInv, TypeOK, ActorFits, Mistaken, mapVars
<1>1. CASE \/ Spawn(p) \/ LogStarted(p) \/ StartFails(p) \/ DropStart(p) \/ Exit(p)
           \/ Receive(p) \/ LoseControl(p) \/ Reap(p) \/ Finalize(p) \/ TimerFires(p)
  BY <1>1 DEF Spawn, LogStarted, StartFails, DropStart, Exit, Receive, LoseControl, Reap,
              Finalize, TimerFires
<1>2. CASE Insert(p)
  BY <1>2 DEF Insert
<1>3. CASE LogExited(p)
  BY <1>3 DEF LogExited
<1> QED
  BY <1>1, <1>2, <1>3 DEF ProcStep, StartStep, ActorStep

\* Who lives and has an actor is not lost from the map.
LEMMA ProcTracked ==
  ASSUME IInv, NEW p \in Procs, ProcStep(p)
  PROVE  Tracked'
<1> USE ProcMistaken DEF IInv, TypeOK, ActorFits, Tracked, Open, Receiving, mapVars
<1>1. CASE Spawn(p)
  BY <1>1, ProcReaped DEF Spawn, ReapedStay
<1>2. CASE LogStarted(p)
  BY <1>2 DEF LogStarted
<1>3. CASE StartFails(p)
  BY <1>3 DEF StartFails
<1>4. CASE Insert(p)
  BY <1>4 DEF Insert
<1>5. CASE DropStart(p)
  BY <1>5 DEF DropStart
<1>6. CASE Exit(p)
  BY <1>6 DEF Exit, Corpse
<1>7. CASE Receive(p)
  <2>1. UNCHANGED <<actor, entries, thread>> /\ actor[p] = "running"
    BY <1>7 DEF Receive
  <2>2. \A q \in Procs : child[q] = "reaped" => child'[q] = "reaped"
    BY ProcReaped DEF ReapedStay
  <2> QED
    BY <2>1, <2>2
<1>8. CASE LoseControl(p)
  BY <1>8 DEF LoseControl, WithoutControl, Killed, Corpse
<1>9. CASE Reap(p)
  BY <1>9 DEF Reap
<1>10. CASE Finalize(p)
  BY <1>10 DEF Finalize, MayFinalize
<1>11. CASE LogExited(p)
  BY <1>11 DEF LogExited
<1>12. CASE TimerFires(p)
  BY <1>12 DEF TimerFires
<1> QED
  BY <1>1, <1>2, <1>3, <1>4, <1>5, <1>6, <1>7, <1>8, <1>9, <1>10, <1>11, <1>12
     DEF ProcStep, StartStep, ActorStep

\* What the steps of a process do to the map and to the log fits what they know of
\* the child.
ProcConjuncts ==
  ActorFits' /\ EntriesHadActor' /\ ExitIsTrue' /\ CompleteIsTrue' /\ Tracked'

LEMMA ProcKeeps ==
  ASSUME IInv, NEW p \in Procs, ProcStep(p)
  PROVE  JobFits' /\ OutsideSaw' /\ ProcConjuncts
<1>0. UNCHANGED taskVars
  BY DEF ProcStep, StartStep, ActorStep, Spawn, LogStarted, StartFails, Insert, DropStart, Exit,
         Receive, LoseControl, Reap, Finalize, LogExited, TimerFires, taskVars
<1>1. JobFits' /\ OutsideSaw'
  BY <1>0, ProcReaped DEF IInv, TypeOK, TasksTyped, JobFits, OutsideSaw, ReapedStay, taskVars
<1>2. \A c \in Tasks : Holding(c)' = Holding(c)
  BY <1>0 DEF Holding, taskVars
<1>3. ReapedStay
  BY ProcReaped
<1>4. EntriesHadActor'
  <2>1. \A q \in Procs : q \in entries' => q \in entries \/ actor'[q] \in Receiving
    BY ProcLives
  <2>2. \A q \in Procs :
          actor[q] \in Receiving \union {"gone"} => actor'[q] \in Receiving \union {"gone"}
    BY ProcLives
  <2> QED
    BY <1>2, <2>1, <2>2 DEF IInv, EntriesHadActor
<1>5. ActorFits'
  BY <1>3, ProcFits
<1>6. ExitIsTrue'
  BY <1>3, <1>5, ProcFits DEF IInv, ExitIsTrue, ReapedStay, ActorFits
<1>7. CompleteIsTrue'
  <2>1. \A q \in complete' : q \in Procs /\ (q \in complete \/ child'[q] = "reaped")
    BY <1>5, ProcFits, ProcType DEF TypeOK, ActorFits
  <2>2. \A q \in complete : child[q] = "reaped" \/ Mistaken(q)
    BY DEF IInv, CompleteIsTrue
  <2> QED
    BY <1>3, <2>1, <2>2, ProcMistaken DEF CompleteIsTrue, ReapedStay
<1>8. Tracked'
  BY ProcTracked
<1> QED
  BY <1>1, <1>4, <1>5, <1>6, <1>7, <1>8 DEF ProcConjuncts

\* A request holds what it had, or what it has found in the map.
LEMMA MovesHold ==
  ASSUME IInv, NEW c \in Tasks, Moves(c)
  PROVE  \A d \in Tasks : Holding(d)' \subseteq entries \union Holding(d)
<1>1. \A d \in Tasks \ {c} : Holding(d)' = Holding(d)
  BY DEF Moves, Holding
<1>2. Holding(c)' \subseteq entries \union Holding(c)
  BY DEF Moves, Holding, Outside
<1> QED
  BY <1>1, <1>2

LEMMA MovesSaw ==
  ASSUME IInv, NEW c \in Tasks, Moves(c), ReapedStay
  PROVE  OutsideSaw'
<1>1. ASSUME NEW d \in Tasks \ {c}, phase'[d] \in Outside, NEW p \in todo'[d]
      PROVE  todo'[d] = {p} /\ (phase'[d] = "out_exit" => child'[p] = "reaped")
  BY <1>1 DEF Moves, IInv, OutsideSaw, ReapedStay, TypeOK, TasksTyped
<1>2. ASSUME phase'[c] \in Outside, NEW p \in todo'[c]
      PROVE  todo'[c] = {p} /\ (phase'[c] = "out_exit" => child'[p] = "reaped")
  BY <1>2 DEF Moves, Outside
<1> QED
  BY <1>1, <1>2 DEF OutsideSaw

LEMMA OwnKeeps ==
  ASSUME IInv, NEW c \in Tasks, OwnStep(c)
  PROVE  IInv'
<1>1. Moves(c) /\ UNCHANGED <<procVars, mapVars, faults>>
  BY OwnMoves, OwnLeaves
<1>2. TasksTyped' /\ JobFits'
  BY <1>1, MovesFit
<1>3. TypeOK'
  BY <1>1, <1>2 DEF IInv, TypeOK, procVars, mapVars
<1>4. EntriesHadActor'
  BY <1>1, MovesHold DEF IInv, EntriesHadActor, procVars, mapVars
<1>5. OutsideSaw'
  BY <1>1, MovesSaw DEF ReapedStay, procVars
<1>6. ActorFits' /\ ExitIsTrue' /\ CompleteIsTrue' /\ Tracked'
  BY <1>1 DEF IInv, ActorFits, ExitIsTrue, CompleteIsTrue, Tracked, Mistaken, Open, procVars,
              mapVars
<1> QED
  BY <1>2, <1>3, <1>4, <1>5, <1>6 DEF IInv

LEMMA OuterKeeps ==
  ASSUME IInv, NEW c \in Tasks, OuterStep(c)
  PROVE  IInv'
<1>1. Moves(c) /\ ReapedStay /\ TypeOK'
  BY OuterMoves, OuterReaped, OuterRest
<1>2. JobFits' /\ OutsideSaw'
  BY <1>1, MovesFit, MovesSaw
<1>3. \A d \in Tasks : Holding(d)' \subseteq entries \union Holding(d)
  BY <1>1, MovesHold
<1>4. SUFFICES ProcConjuncts
  BY <1>1, <1>2 DEF IInv, ProcConjuncts
<1> USE <1>1, <1>3 DEF IInv, TypeOK, ReapedStay, ProcConjuncts, ActorFits, EntriesHadActor,
        ExitIsTrue, CompleteIsTrue, Tracked, Mistaken, Open, Receiving, procVars, mapVars
<1>5. CASE Archive(c) \/ Remove(c) \/ Retain(c)
  BY <1>5 DEF Archive, Remove, Retain
<1>6. ASSUME NEW p \in Procs, Send(c, p)
      PROVE  ProcConjuncts
  <2>1. p \in Holding(c)
    BY <1>6 DEF Send, Command, Holding, Outside
  <2>2. ~Open(p) => child[p] = "reaped"
    BY <2>1
  <2> QED
    BY <1>6, <2>2 DEF Send
<1>7. ASSUME NEW p \in Procs, TargetStale(c, p)
      PROVE  ProcConjuncts
  <2>1. actor[p] \in Receiving \union {"gone"}
    BY <1>7 DEF TargetStale, Running
  <2> QED
    BY <1>7, <2>1 DEF TargetStale, MayReconcile
<1>8. ASSUME NEW p \in Procs, LogOutside(c, p)
      PROVE  ProcConjuncts
  <2>1. job[c] # "exited"
    BY <1>8 DEF LogOutside, JobFits, PhasesOf, Outside, AllJobs, TasksTyped
  <2>2. \A q \in Procs : "exited" \in log'[q] => "exited" \in log[q]
    BY <1>8, <2>1, RecordAdds DEF LogOutside
  <2> QED
    BY <1>8, <2>2 DEF LogOutside
<1>9. ASSUME NEW p \in Procs, StrikeOutside(c, p)
      PROVE  ProcConjuncts
  BY <1>9 DEF StrikeOutside, Struck, Killed, Corpse
<1>10. ASSUME NEW p \in Procs, WaitOutside(c, p)
       PROVE  ProcConjuncts
  BY <1>10 DEF WaitOutside
<1>11. ASSUME NEW p \in Procs, ExitOutside(c, p)
       PROVE  ProcConjuncts
  <2>1. child[p] = "reaped"
    BY <1>11 DEF ExitOutside, OutsideSaw, Outside
  <2>2. \A q \in Procs : "exited" \in log'[q] => "exited" \in log[q] \/ q = p
    BY <1>11 DEF ExitOutside, Record
  <2> QED
    BY <1>11, <2>1, <2>2 DEF ExitOutside
<1> QED
  BY <1>5, <1>6, <1>7, <1>8, <1>9, <1>10, <1>11 DEF OuterStep, OutsideStep

LEMMA DieKeeps ==
  ASSUME IInv, Die, faults' \in 0..MaxFaults
  PROVE  IInv'
<1>1. TypeOK'
  BY DieType
<1>2. JobFits' /\ OutsideSaw'
  BY DEF Die, JobFits, OutsideSaw, Outside, PhasesOf, Commands
<1>3. ActorFits' /\ EntriesHadActor'
  BY DEF IInv, Die, ActorFits, EntriesHadActor, Holding, TypeOK
<1>4. ExitIsTrue' /\ CompleteIsTrue' /\ Tracked'
  BY DEF IInv, Die, ExitIsTrue, CompleteIsTrue, Tracked, Mistaken, Open, Receiving, TypeOK
<1> QED
  BY <1>1, <1>2, <1>3, <1>4 DEF IInv

-----------------------------------------------------------------------------
(* The theorems.                                                           *)

LEMMA StepInv ==
  ASSUME IInv, [Next]_vars
  PROVE  IInv'
<1>1. ASSUME NEW p \in Procs, ProcStep(p)
      PROVE  IInv'
  BY <1>1, ProcType, ProcKeeps DEF IInv, ProcConjuncts
<1>2. ASSUME NEW c \in Tasks, OwnStep(c) \/ OuterStep(c)
      PROVE  IInv'
  BY <1>2, OwnKeeps, OuterKeeps
<1>3. CASE Crash
  BY <1>3, DieKeeps, MaxFaultsAssumption DEF Crash, IInv, TypeOK
<1>4. ASSUME NEW c \in Tasks, ShutDown(c)
      PROVE  IInv'
  BY <1>4, DieKeeps DEF ShutDown, IInv, TypeOK
<1>5. CASE UNCHANGED vars
  BY <1>5 DEF vars, procVars, mapVars, taskVars, IInv, TypeOK, TasksTyped, JobFits, ActorFits,
              EntriesHadActor, OutsideSaw, ExitIsTrue, CompleteIsTrue, Tracked, Mistaken, Open,
              Holding
<1> QED
  BY <1>1, <1>2, <1>3, <1>4, <1>5, StepKinds

\* The inductive invariant holds of every behaviour.
THEOREM Invariance == Spec => []IInv
BY InitInv, StepInv, PTL DEF Spec

\* Every variable keeps to its type, and no command channel exceeds its capacity.
THEOREM TypeCorrect == Spec => []TypeOK
<1>1. IInv => TypeOK
  BY DEF IInv
<1> QED
  BY <1>1, Invariance, PTL

\* The log says that a process has exited only when it has: run_process_actor, a kill from
\* outside and any number of deaths of the server agree on it.
THEOREM ExitsAreTrue == Spec => []ExitIsTrue
<1>1. IInv => ExitIsTrue
  BY DEF IInv
<1> QED
  BY <1>1, Invariance, PTL

\* ProcessCompletion is marked only when the child has been reaped, or a signal has taken
\* another command line for its end.
THEOREM CompletionsAreTrue == Spec => []CompleteIsTrue
<1>1. IInv => CompleteIsTrue
  BY DEF IInv
<1> QED
  BY <1>1, Invariance, PTL

\* A process that lives and has an actor can be found in Server::processes, unless
\* thread/delete has forgotten it, or a signal has taken another command line for its end.
THEOREM LivingAreTracked == Spec => []Tracked
<1>1. IInv => Tracked
  BY DEF IInv
<1> QED
  BY <1>1, Invariance, PTL

-----------------------------------------------------------------------------
(* What the log and the status say of a process, in the order of things.   *)

\* An append leaves what was there, and adds to one log.
LEMMA RecordKeeps ==
  ASSUME TypeOK, NEW p \in Procs, NEW e, Record(p, e)
  PROVE  /\ \A q \in Procs : log[q] \subseteq log'[q]
         /\ \A q \in Procs \ {p} : log'[q] = log[q]
         /\ faults' = faults => e \in log'[p]
<1>1. CASE log' = [log EXCEPT ![p] = @ \union {e}]
  BY <1>1 DEF TypeOK
<1>2. CASE faults' = faults + 1 /\ UNCHANGED log
  <2>1. faults' # faults
    BY <1>2, MaxFaultsAssumption DEF TypeOK
  <2> QED
    BY <1>2, <2>1
<1> QED
  BY <1>1, <1>2 DEF Record

\* Who has an actor after a step of a process has been recorded as started.
LEMMA ProcStarted ==
  ASSUME IInv, RecordFits, NEW p \in Procs, ProcStep(p)
  PROVE  /\ \A q \in Procs : log[q] \subseteq log'[q]
         /\ StartedFirst'
         /\ \A q \in Procs : actor'[q] \in {"started"} \union Receiving => "started" \in log'[q]
<1> USE DEF IInv, TypeOK, RecordFits, StartedFirst, WritersStarted, Receiving, mapVars
<1>1. CASE Spawn(p)
  BY <1>1 DEF Spawn
<1>2. CASE LogStarted(p)
  BY <1>2 DEF LogStarted
<1>3. CASE StartFails(p) \/ Insert(p) \/ DropStart(p)
  BY <1>3 DEF StartFails, Insert, DropStart
<1>4. CASE Exit(p) \/ LoseControl(p) \/ Reap(p) \/ Finalize(p) \/ TimerFires(p)
  BY <1>4 DEF Exit, LoseControl, Reap, Finalize, MayFinalize, TimerFires
<1>5. CASE Receive(p)
  <2>1. actor' = actor /\ "started" \in log[p]
    BY <1>5 DEF Receive
  <2>2. \/ Record(p, Head(chan[p])) \/ UNCHANGED log
    BY <1>5 DEF Receive
  <2>3. \A q \in Procs : log[q] \subseteq log'[q] /\ (q # p => log'[q] = log[q])
    BY <2>2, RecordKeeps
  <2> QED
    BY <2>1, <2>3
<1>6. CASE LogExited(p)
  <2>1. actor' = [actor EXCEPT ![p] = "logged"] /\ "started" \in log[p]
    BY <1>6 DEF LogExited
  <2>2. \A q \in Procs : log[q] \subseteq log'[q] /\ (q # p => log'[q] = log[q])
    BY <1>6, RecordKeeps DEF LogExited
  <2> QED
    BY <2>1, <2>2
<1> QED
  BY <1>1, <1>2, <1>3, <1>4, <1>5, <1>6 DEF ProcStep, StartStep, ActorStep

\* The status changes when the process enters the map, and when its exit was recorded.
LEMMA ProcStatus ==
  ASSUME IInv, NEW p \in Procs, ProcStep(p)
  PROVE  \A q \in Procs :
           \/ status'[q] = status[q]
           \/ status'[q] = "running"
           \/ status'[q] = "exited" /\ "exited" \in log'[q] /\ child'[q] = "reaped"
<1> USE DEF IInv, TypeOK, mapVars
<1>1. CASE \/ Spawn(p) \/ LogStarted(p) \/ StartFails(p) \/ DropStart(p) \/ Exit(p)
           \/ Receive(p) \/ LoseControl(p) \/ Reap(p) \/ Finalize(p) \/ TimerFires(p)
  BY <1>1 DEF Spawn, LogStarted, StartFails, DropStart, Exit, Receive, LoseControl, Reap,
              Finalize, TimerFires
<1>2. CASE Insert(p)
  BY <1>2 DEF Insert
<1>3. CASE LogExited(p)
  <2>1. faults' = faults => "exited" \in log'[p]
    BY <1>3, RecordKeeps DEF LogExited
  <2>2. child'[p] = "reaped"
    BY <1>3 DEF LogExited, ActorFits
  <2> QED
    BY <1>3, <2>1, <2>2 DEF LogExited
<1> QED
  BY <1>1, <1>2, <1>3 DEF ProcStep, StartStep, ActorStep

\* A step of a process moves its child on.
LEMMA ProcBegins ==
  ASSUME IInv, Begun, NEW p \in Procs, ProcStep(p)
  PROVE  /\ Begun'
         /\ \A q \in Procs : child'[q] = child[q] \/ Kept!Ages(q)
<1> USE DEF IInv, TypeOK, Begun, Kept!Ages, Receiving, mapVars
<1>1. CASE Spawn(p)
  BY <1>1 DEF Spawn, ActorFits
<1>2. CASE LogStarted(p)
  BY <1>2 DEF LogStarted
<1>3. CASE StartFails(p)
  BY <1>3 DEF StartFails
<1>4. CASE Insert(p)
  BY <1>4 DEF Insert
<1>5. CASE DropStart(p)
  BY <1>5 DEF DropStart
<1>6. CASE Exit(p)
  BY <1>6 DEF Exit, Corpse
<1>7. CASE Receive(p)
  <2>1. UNCHANGED <<actor, status>>
    BY <1>7 DEF Receive
  <2>2. \E state \in {child[p], Killed(p)} : child' = [child EXCEPT ![p] = state]
    BY <1>7 DEF Receive, Struck
  <2> QED
    BY <2>1, <2>2 DEF Killed, Corpse
<1>8. CASE LoseControl(p)
  BY <1>8 DEF LoseControl, WithoutControl, Killed, Corpse
<1>9. CASE Reap(p)
  BY <1>9 DEF Reap
<1>10. CASE Finalize(p)
  BY <1>10 DEF Finalize, MayFinalize
<1>11. CASE LogExited(p)
  BY <1>11 DEF LogExited
<1>12. CASE TimerFires(p)
  BY <1>12 DEF TimerFires
<1> QED
  BY <1>1, <1>2, <1>3, <1>4, <1>5, <1>6, <1>7, <1>8, <1>9, <1>10, <1>11, <1>12
     DEF ProcStep, StartStep, ActorStep

\* So does a request that reaches for one.
LEMMA OuterBegins ==
  ASSUME IInv, Begun, NEW c \in Tasks, OuterStep(c)
  PROVE  /\ Begun'
         /\ \A q \in Procs : child'[q] = child[q] \/ Kept!Ages(q)
<1> USE DEF IInv, TypeOK, Begun, Kept!Ages, Receiving, mapVars, procVars
<1>1. CASE Archive(c) \/ Remove(c) \/ Retain(c)
  BY <1>1 DEF Archive, Remove, Retain
<1>2. ASSUME NEW p \in Procs, Send(c, p) \/ LogOutside(c, p) \/ ExitOutside(c, p)
      PROVE  Begun' /\ \A q \in Procs : child'[q] = child[q]
  BY <1>2 DEF Send, LogOutside, ExitOutside
<1>3. ASSUME NEW p \in Procs, TargetStale(c, p)
      PROVE  Begun' /\ \A q \in Procs : child'[q] = child[q]
  BY <1>3 DEF TargetStale
<1>4. ASSUME NEW p \in Procs, StrikeOutside(c, p)
      PROVE  Begun' /\ \A q \in Procs : child'[q] = child[q] \/ Kept!Ages(q)
  <2>1. UNCHANGED <<actor, status>>
    BY <1>4 DEF StrikeOutside
  <2>2. \E state \in {child[p], Killed(p)} : child' = [child EXCEPT ![p] = state]
    BY <1>4 DEF StrikeOutside, Struck
  <2> QED
    BY <2>1, <2>2 DEF Killed, Corpse
<1>5. ASSUME NEW p \in Procs, WaitOutside(c, p)
      PROVE  Begun' /\ \A q \in Procs : child'[q] = child[q] \/ Kept!Ages(q)
  BY <1>5 DEF WaitOutside
<1> QED
  BY <1>1, <1>2, <1>3, <1>4, <1>5 DEF OuterStep, OutsideStep

LEMMA ProcRecords ==
  ASSUME IInv, RecordFits, NEW p \in Procs, ProcStep(p)
  PROVE  RecordFits'
<1>1. /\ \A q \in Procs : log[q] \subseteq log'[q]
      /\ StartedFirst'
      /\ \A q \in Procs : actor'[q] \in {"started"} \union Receiving => "started" \in log'[q]
  BY ProcStarted
<1>2. UNCHANGED taskVars
  BY DEF ProcStep, StartStep, ActorStep, Spawn, LogStarted, StartFails, Insert, DropStart, Exit,
         Receive, LoseControl, Reap, Finalize, LogExited, TimerFires, taskVars
<1>3. WritersStarted'
  BY <1>1, <1>2 DEF IInv, TypeOK, TasksTyped, RecordFits, WritersStarted, taskVars
<1>4. StatusOfDead'
  BY <1>1, ProcStatus, ProcReaped DEF RecordFits, StatusOfDead, ReapedStay
<1>5. Begun'
  BY ProcBegins DEF RecordFits
<1> QED
  BY <1>1, <1>3, <1>4, <1>5 DEF RecordFits

\* A request that reaches for a process from outside has read of its start.
LEMMA OwnRecords ==
  ASSUME IInv, RecordFits, NEW c \in Tasks, OwnStep(c)
  PROVE  RecordFits'
<1>1. UNCHANGED <<procVars, mapVars, faults>> /\ Moves(c)
  BY OwnLeaves, OwnMoves
<1>2. phase'[c] \in Outside => \E p \in Procs : TargetOutside(c, p)
  BY DEF OwnStep, Begin, First, Sent, AllComplete, GraceOver, WaitTimesOut, Later, Look, Drain,
         Check, Target, Leave, Goto, AfterSent, AfterWait, Outside, IInv, TypeOK, TasksTyped,
         JobFits, PhasesOf, Commands, AllJobs, Waiting, Stops
<1>3. phase'[c] \in Outside => \A p \in todo'[c] : "started" \in log[p]
  BY <1>2 DEF TargetOutside, IInv, TypeOK, TasksTyped
<1>4. \A d \in Tasks \ {c} : phase'[d] = phase[d] /\ todo'[d] = todo[d]
  BY <1>1 DEF Moves
<1>5. WritersStarted'
  BY <1>1, <1>3, <1>4 DEF RecordFits, WritersStarted, procVars
<1> QED
  BY <1>1, <1>5 DEF RecordFits, StartedFirst, StatusOfDead, Begun, procVars, mapVars

LEMMA OuterRecords ==
  ASSUME IInv, RecordFits, NEW c \in Tasks, OuterStep(c)
  PROVE  RecordFits'
<1>1. Moves(c) /\ ReapedStay
  BY OuterMoves, OuterReaped
<1>2. \A d \in Tasks \ {c} : phase'[d] = phase[d] /\ todo'[d] = todo[d]
  BY <1>1 DEF Moves
<1>3. actor' = actor
  BY DEF OuterStep, OutsideStep, Send, TargetStale, LogOutside, StrikeOutside, WaitOutside,
         ExitOutside, Archive, Remove, Retain, procVars
<1>4. /\ \A q \in Procs : log[q] \subseteq log'[q]
      /\ \A q \in Procs : log'[q] # {} => "started" \in log'[q]
  <2>1. ASSUME NEW p \in Procs, LogOutside(c, p) \/ ExitOutside(c, p)
        PROVE  <1>4!1 /\ <1>4!2
    <3>1. "started" \in log[p]
      BY <2>1 DEF LogOutside, ExitOutside, RecordFits, WritersStarted, Outside
    <3>2. \A q \in Procs : log[q] \subseteq log'[q] /\ (q # p => log'[q] = log[q])
      BY <2>1, RecordKeeps DEF LogOutside, ExitOutside, IInv
    <3> QED
      BY <3>1, <3>2 DEF RecordFits, StartedFirst
  <2>2. CASE log' = log
    BY <2>2 DEF RecordFits, StartedFirst
  <2> QED
    BY <2>1, <2>2 DEF OuterStep, OutsideStep, Send, TargetStale, StrikeOutside, WaitOutside,
                      Archive, Remove, Retain, procVars
<1>5. phase'[c] \in Outside => phase[c] \in Outside /\ todo'[c] = todo[c]
  BY DEF OuterStep, OutsideStep, Send, Command, TargetStale, LogOutside, StrikeOutside,
         WaitOutside, ExitOutside, Archive, Remove, Retain, Leave, Goto, Outside, IInv, TypeOK,
         TasksTyped
<1>6. WritersStarted'
  BY <1>2, <1>3, <1>4, <1>5 DEF RecordFits, WritersStarted, IInv, TypeOK, TasksTyped
<1>7. \A q \in Procs : \/ status'[q] = status[q]
                       \/ /\ status'[q] = "abandoned"
                          /\ child'[q] = "reaped" \/ q \in Disguised
  BY DEF OuterStep, OutsideStep, Send, TargetStale, MayReconcile, LogOutside, StrikeOutside,
         WaitOutside, ExitOutside, Archive, Remove, Retain, IInv, TypeOK, procVars, mapVars
<1>8. StatusOfDead'
  BY <1>1, <1>4, <1>7 DEF RecordFits, StatusOfDead, ReapedStay
<1>9. Begun'
  BY OuterBegins DEF RecordFits
<1> QED
  BY <1>4, <1>6, <1>8, <1>9 DEF RecordFits, StartedFirst

LEMMA RecordStep ==
  ASSUME IInv, RecordFits, [Next]_vars
  PROVE  RecordFits'
<1>1. ASSUME NEW p \in Procs, ProcStep(p)
      PROVE  RecordFits'
  BY <1>1, ProcRecords
<1>2. ASSUME NEW c \in Tasks, OwnStep(c) \/ OuterStep(c)
      PROVE  RecordFits'
  BY <1>2, OwnRecords, OuterRecords
<1>3. CASE Die
  <2>1. \A q \in Procs : child[q] = "reaped" => child'[q] = "reaped"
    BY <1>3 DEF Die
  <2>2. \A q \in Procs : actor'[q] \notin {"started"} \union Receiving
    BY <1>3 DEF Die, Receiving
  <2>3. \A c \in Tasks : phase'[c] \notin Outside
    BY <1>3 DEF Die, Outside
  <2>4. Begun'
    BY <1>3 DEF Die, RecordFits, Begun
  <2> QED
    BY <1>3, <2>1, <2>2, <2>3, <2>4 DEF Die, RecordFits, StartedFirst, WritersStarted, StatusOfDead
<1>4. CASE UNCHANGED vars
  BY <1>4 DEF vars, procVars, mapVars, taskVars, RecordFits, StartedFirst, WritersStarted,
              StatusOfDead, Begun
<1> QED
  BY <1>1, <1>2, <1>3, <1>4, StepKinds DEF Crash, ShutDown

LEMMA InitRecords == Init => RecordFits
BY DEF Init, RecordFits, StartedFirst, WritersStarted, StatusOfDead, Begun, Receiving, Outside

\* Whatever the actors, the kills from outside and the deaths of the server are: nothing is
\* recorded of a process before ProcessStarted.
THEOREM RecordsBeginWithStart == Spec => []StartedFirst
<1>1. RecordFits => StartedFirst
  BY DEF RecordFits
<1> QED
  BY <1>1, InitRecords, RecordStep, Invariance, PTL DEF Spec

\* process/list says of a process that it has exited only with its exit on record, and that
\* it was abandoned only when it is gone, or its command line may differ from its argv.
THEOREM StatusesAreTrue == Spec => []StatusOfDead
<1>1. RecordFits => StatusOfDead
  BY DEF RecordFits
<1> QED
  BY <1>1, InitRecords, RecordStep, Invariance, PTL DEF Spec

\* thread/archive and thread/delete leave the drain at a moment at which every process with
\* an actor has been reaped, or was abandoned by mistake: who else lives is in the map, and
\* the map was empty.
THEOREM DrainLeavesQuiet == Spec => DrainedIsQuiet
<1> DEFINE Quiet ==
      \A c \in Tasks : phase[c] = "drain" /\ phase'[c] \in {"archive", "delete"} =>
        \/ thread = "deleted"
        \/ \A p \in Procs : Open(p) => child[p] = "reaped" \/ Mistaken(p)
<1>1. ASSUME IInv, [Next]_vars
      PROVE  Quiet
  <2> SUFFICES ASSUME NEW c \in Tasks, phase[c] = "drain", phase'[c] \in {"archive", "delete"}
               PROVE  \/ thread = "deleted"
                      \/ \A p \in Procs : Open(p) => child[p] = "reaped" \/ Mistaken(p)
    OBVIOUS
  <2>1. entries = {}
    <3>1. ASSUME NEW d \in Tasks, OwnStep(d) \/ OuterStep(d)
          PROVE  Drain(c)
      <4>1. d = c
        BY <3>1, OwnMoves, OuterMoves, <1>1 DEF Moves
      <4> QED
        BY <3>1, <4>1
           DEF OwnStep, OuterStep, OutsideStep, Begin, Sent, Command, AllComplete, Waiting,
               GraceOver, WaitTimesOut, MayTimeOut, Later, Look, Check, Target, TargetOutside,
               Send, TargetStale, LogOutside, StrikeOutside, WaitOutside, ExitOutside, Archive,
               Remove, Retain
    <3>2. ASSUME NEW p \in Procs, ProcStep(p)
          PROVE  FALSE
      BY <3>2 DEF ProcStep, StartStep, ActorStep, Spawn, LogStarted, StartFails, Insert,
                  DropStart, Exit, Receive, LoseControl, Reap, Finalize, LogExited, TimerFires,
                  taskVars
    <3>3. ~Die
      BY DEF Die
    <3>4. ~UNCHANGED vars
      BY DEF vars, taskVars
    <3>5. Drain(c)
      BY <1>1, <3>1, <3>2, <3>3, <3>4, StepKinds DEF Crash, ShutDown
    <3> QED
      BY <3>5 DEF Drain, Goto, IInv, TypeOK, TasksTyped
  <2> QED
    BY <1>1, <2>1 DEF IInv, Tracked
<1> QED
  BY <1>1, Invariance, PTL DEF Spec, DrainedIsQuiet

-----------------------------------------------------------------------------
(* The processes keep to ProcessRecord.                                    *)

\* What a step does to one process, as ProcessRecord sees it.
KeepsTo(q) ==
  /\ child'[q] = child[q] \/ Kept!Ages(q)
  /\ log'[q] = log[q] \/ \E e \in Kept!Events : Kept!Notes(q, e)
  /\ status'[q] = status[q] \/ Kept!Settles(q)
  /\ q \in complete => q \in complete'
  /\ q \in complete' \ complete => Kept!Completes(q)

\* An append by who may write is one that may be noted.
LEMMA RecordNotes ==
  ASSUME TypeOK, NEW p \in Procs, NEW e \in Events, Record(p, e),
         "started" \in log[p], e # "started", e = "exited" => child[p] = "reaped"
  PROVE  \A q \in Procs : log'[q] = log[q] \/ \E f \in Kept!Events : Kept!Notes(q, f)
<1>1. e \in Kept!Events
  BY DEF Events, Commands, Kept!Events
<1>2. CASE log' = [log EXCEPT ![p] = @ \union {e}]
  BY <1>1, <1>2 DEF TypeOK, Kept!Notes
<1> QED
  BY <1>2 DEF Record

LEMMA ProcNotes ==
  ASSUME IInv, RecordFits, NEW p \in Procs, ProcStep(p)
  PROVE  \A q \in Procs : log'[q] = log[q] \/ \E e \in Kept!Events : Kept!Notes(q, e)
<1> USE DEF IInv, TypeOK
<1>1. CASE \/ Spawn(p) \/ StartFails(p) \/ Insert(p) \/ DropStart(p) \/ Exit(p)
           \/ LoseControl(p) \/ Reap(p) \/ Finalize(p) \/ TimerFires(p)
  BY <1>1 DEF Spawn, StartFails, Insert, DropStart, Exit, LoseControl, Reap, Finalize,
              TimerFires, procVars
<1>2. CASE LogStarted(p)
  <2>1. child[p] # "none" /\ "started" \in Kept!Events
    BY <1>2 DEF LogStarted, RecordFits, Begun, Kept!Events
  <2> QED
    BY <1>2, <2>1 DEF LogStarted, Kept!Notes
<1>3. CASE Receive(p)
  <2>1. "started" \in log[p]
    BY <1>3 DEF Receive, RecordFits, WritersStarted, Receiving
  <2>2. Head(chan[p]) \in Commands
    <3>1. chan[p] \in Seq(Commands) /\ chan[p] # <<>>
      BY <1>3 DEF Receive
    <3> HIDE DEF IInv, TypeOK
    <3> QED
      BY <3>1
  <2>3. Record(p, Head(chan[p])) \/ UNCHANGED log
    BY <1>3 DEF Receive
  <2> HIDE DEF IInv, TypeOK
  <2>4. TypeOK
    BY DEF IInv
  <2> QED
    BY <2>1, <2>2, <2>3, <2>4, RecordNotes DEF Commands, Events
<1>4. CASE LogExited(p)
  <2>1. "started" \in log[p] /\ child[p] = "reaped"
    BY <1>4 DEF LogExited, RecordFits, WritersStarted, Receiving, ActorFits
  <2> HIDE DEF IInv, TypeOK
  <2>2. TypeOK /\ Record(p, "exited")
    BY <1>4 DEF IInv, LogExited
  <2> QED
    BY <2>1, <2>2, RecordNotes DEF Events
<1> QED
  BY <1>1, <1>2, <1>3, <1>4 DEF ProcStep, StartStep, ActorStep

LEMMA ProcKeepsTo ==
  ASSUME IInv, RecordFits, NEW p \in Procs, ProcStep(p)
  PROVE  \A q \in Procs : KeepsTo(q)
<1>1. \A q \in Procs : child'[q] = child[q] \/ Kept!Ages(q)
  BY ProcBegins DEF RecordFits
<1>2. \A q \in Procs : log'[q] = log[q] \/ \E e \in Kept!Events : Kept!Notes(q, e)
  BY ProcNotes
<1>3. \A q \in Procs : status'[q] = status[q] \/ Kept!Settles(q)
  <2>1. CASE Insert(p)
    BY <2>1 DEF Insert, IInv, TypeOK, ActorFits
  <2>2. CASE LogExited(p)
    <3>1. faults' = faults => "exited" \in log'[p]
      BY <2>2, RecordKeeps DEF LogExited, IInv
    <3> QED
      BY <2>2, <3>1 DEF LogExited, IInv, TypeOK, Kept!Settles
  <2> QED
    BY <2>1, <2>2 DEF ProcStep, StartStep, ActorStep, Spawn, LogStarted, StartFails, DropStart,
                      Exit, Receive, LoseControl, Reap, Finalize, TimerFires, mapVars
<1>4. \A q \in Procs : /\ q \in complete => q \in complete'
                       /\ q \in complete' \ complete => Kept!Completes(q)
  <2>1. CASE Finalize(p)
    BY <2>1 DEF Finalize, MayFinalize, IInv, ActorFits, Kept!Completes
  <2> QED
    BY <2>1 DEF ProcStep, StartStep, ActorStep, Spawn, LogStarted, StartFails, Insert, DropStart,
                Exit, Receive, LoseControl, Reap, LogExited, TimerFires, mapVars
<1> QED
  BY <1>1, <1>2, <1>3, <1>4 DEF KeepsTo

LEMMA OuterKeepsTo ==
  ASSUME IInv, RecordFits, NEW c \in Tasks, OuterStep(c)
  PROVE  \A q \in Procs : KeepsTo(q)
<1>1. \A q \in Procs : child'[q] = child[q] \/ Kept!Ages(q)
  BY OuterBegins DEF RecordFits
<1>2. \A q \in Procs : log'[q] = log[q] \/ \E e \in Kept!Events : Kept!Notes(q, e)
  <2>1. ASSUME NEW p \in Procs, LogOutside(c, p)
        PROVE  <1>2
    <3>1. job[c] \in Commands
      BY <2>1 DEF LogOutside, IInv, TypeOK, TasksTyped, JobFits, PhasesOf, Outside, AllJobs,
                  Commands
    <3>2. "started" \in log[p] /\ TypeOK /\ Record(p, job[c])
      BY <2>1 DEF LogOutside, RecordFits, WritersStarted, Outside, IInv
    <3> QED
      BY <3>1, <3>2, RecordNotes DEF Commands, Events
  <2>2. ASSUME NEW p \in Procs, ExitOutside(c, p)
        PROVE  <1>2
    <3>1. "started" \in log[p] /\ child[p] = "reaped"
      BY <2>2 DEF ExitOutside, RecordFits, WritersStarted, Outside, IInv, OutsideSaw
    <3>2. TypeOK /\ Record(p, "exited")
      BY <2>2 DEF ExitOutside, IInv
    <3> QED
      BY <3>1, <3>2, RecordNotes DEF Events
  <2> QED
    BY <2>1, <2>2 DEF OuterStep, OutsideStep, Send, TargetStale, StrikeOutside, WaitOutside,
                      Archive, Remove, Retain, procVars
<1>3. \A q \in Procs : /\ status'[q] = status[q] \/ Kept!Settles(q)
                       /\ q \in complete => q \in complete'
                       /\ q \in complete' \ complete => Kept!Completes(q)
  <2>1. ASSUME NEW p \in Procs, TargetStale(c, p)
        PROVE  <1>3
    BY <2>1 DEF TargetStale, MayReconcile, Running, IInv, TypeOK, Kept!Settles, Kept!Completes
  <2>2. ASSUME NEW p \in Procs, Send(c, p)
        PROVE  <1>3
    <3>1. p \in Holding(c)
      BY <2>2 DEF Send, Command, Holding, Outside
    <3>2. ~Open(p) => child[p] = "reaped"
      BY <3>1 DEF IInv, EntriesHadActor, ActorFits, Open
    <3> QED
      BY <2>2, <3>2 DEF Send, Kept!Completes
  <2> QED
    BY <2>1, <2>2 DEF OuterStep, OutsideStep, LogOutside, StrikeOutside, WaitOutside,
                      ExitOutside, Archive, Remove, Retain, mapVars
<1> QED
  BY <1>1, <1>2, <1>3 DEF KeepsTo

LEMMA StepKeepsTo ==
  ASSUME IInv, RecordFits, [Next]_vars, IInv'
  PROVE  Kept!Next \/ UNCHANGED Kept!vars
<1>1. /\ child' \in [Procs -> Kept!Lives] /\ log' \in [Procs -> SUBSET Kept!Events]
      /\ status' \in [Procs -> Kept!Statuses] /\ complete' \in SUBSET Procs
  BY DEF IInv, TypeOK, Kept!Lives, Kept!Events, Kept!Statuses, Events, Commands
<1>2. CASE \A q \in Procs : KeepsTo(q)
  BY <1>1, <1>2 DEF Kept!Next, KeepsTo
<1>3. ASSUME NEW c \in Tasks, OwnStep(c)
      PROVE  UNCHANGED Kept!vars
  BY <1>3, OwnLeaves DEF Kept!vars, procVars, mapVars
<1>4. CASE Die
  <2>1. \A q \in Procs : child'[q] = child[q] \/ Kept!Ages(q)
    BY <1>4 DEF Die, Kept!Ages
  <2>2. UNCHANGED <<log, status, complete>>
    BY <1>4 DEF Die
  <2> QED
    BY <1>2, <2>1, <2>2 DEF KeepsTo
<1>5. CASE UNCHANGED vars
  BY <1>5 DEF vars, procVars, mapVars, Kept!vars
<1> QED
  BY <1>2, <1>3, <1>4, <1>5, StepKinds, ProcKeepsTo, OuterKeepsTo DEF Crash, ShutDown

\* Starts, actors, requests, kills from outside and deaths of the server do nothing to a
\* process, its events, its status and its completion that ProcessRecord does not allow.
THEOREM ProcessesKeepRecord == Spec => ImplementsProcessRecord
<1>1. Init => Kept!Init
  BY DEF Init, Kept!Init
<1> QED
  BY <1>1, InitRecords, RecordStep, StepKeepsTo, Invariance, PTL
     DEF Spec, ImplementsProcessRecord, Kept!Spec

=============================================================================
