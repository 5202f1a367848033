-------------------------- MODULE TurnTasksProofs --------------------------
(***************************************************************************)
(* The tasks behind the turns: an active turn can be interrupted, and no   *)
(* agent goes on after its turn unless an append failed.  Then the turns   *)
(* as users see them: TurnLifecycle implements TurnRecord.  Proofs for any *)
(* number of turns, clients, failures and crashes.                         *)
(***************************************************************************)
EXTENDS TurnLifecycleProofs

-----------------------------------------------------------------------------
(* Steps that start no turn.                                               *)

\* What such a step may make of client c ...
ClientFits(c) ==
  /\ \A t \in Turns : Spawns(c, t)' => Spawns(c, t)
  /\ pc'[c] \in AboutATurn => arg'[c] \notin fresh'
  /\ pc'[c] = "hooks" => mem'.active # arg'[c]
  /\ failures' = 0 /\ pc'[c] \in {"wait", "force"} /\ Lives(arg[c])' => arg'[c] \in cancelled'

\* ... of turn t and its task ...
TurnFits(t) ==
  /\ task'[t] = "agent" => task[t] = "agent"
  /\ task'[t] = "none" <=> task[t] = "none"
  /\ task'[t] = "hooks" => mem'.active # t
  /\ announced'[t] # NoStatus => mem'.active # t /\ t \notin fresh'
  /\ t \in cancelled' => t \notin fresh'
  /\ failures' = 0 /\ Lives(t)' => t \in cancelled' \/ mem'.active = t

\* ... and of the runtime.
RuntimeFits ==
  /\ open = "ready" /\ open' = "ready"
  /\ fresh' \subseteq fresh
  /\ mem'.active \in {mem.active, NoTurn}
  /\ slot' \in {slot, NoTurn}
  /\ Usable' /\ mem'.active # NoTurn => Usable /\ (slot = mem.active => slot' = slot)
  /\ failures' = 0 => failures = 0 /\ UNCHANGED <<cached, invalid>>

\* Such a step keeps the invariant.
LEMMA FitKeeps ==
  ASSUME TypeOK, TasksInv, RuntimeFits,
         \A c \in Clients : ClientFits(c), \A t \in Turns : TurnFits(t)
  PROVE  TasksInv'
<1>1. fresh \subseteq Turns /\ mem.active \in Turns \union {NoTurn}
  BY DEF TypeOK, ThreadStates
<1>2. FreshIsUnused'
  <2> SUFFICES ASSUME NEW t \in fresh'
               PROVE  /\ task'[t] = "none" /\ announced'[t] = NoStatus
                      /\ t \notin cancelled' /\ slot' # t /\ mem'.active # t
                      /\ \A c \in Clients : pc'[c] \in AboutATurn => arg'[c] # t
    BY DEF FreshIsUnused
  <2>1. t \in fresh /\ t \in Turns /\ t # NoTurn
    BY <1>1, NoTurnAssumption DEF RuntimeFits
  <2>2. task[t] = "none" /\ slot # t /\ mem.active # t
    BY <2>1 DEF TasksInv, FreshIsUnused
  <2> QED
    BY <2>1, <2>2 DEF RuntimeFits, TurnFits, ClientFits
<1>3. EndedIsNotActive'
  BY DEF EndedIsNotActive, TurnFits, ClientFits, At
<1>4. SpawnedOnce'
  BY DEF TasksInv, SpawnedOnce, TurnFits, ClientFits
<1>5. ASSUME NEW t \in Turns, ~Lives(t)
      PROVE  ~Lives(t)'
  BY <1>5 DEF Lives, TurnFits, ClientFits
<1>6. SlotIsActive'
  <2> SUFFICES ASSUME Usable', mem'.active # NoTurn, slot' # mem'.active
               PROVE  Parents # {} /\ task'[mem'.active] = "none" /\ ~Lives(mem.active)'
    BY DEF SlotIsActive
  <2>1. mem'.active = mem.active /\ Usable /\ mem.active \in Turns /\ slot # mem.active
    BY <1>1 DEF RuntimeFits
  <2>2. Parents # {} /\ task[mem.active] = "none" /\ ~Lives(mem.active)
    BY <2>1 DEF TasksInv, SlotIsActive
  <2>3. ~Lives(mem.active)'
    <3> DEFINE m == mem.active
    <3>1. \A t \in Turns : ~Lives(t) => ~Lives(t)'
      BY <1>5
    <3>2. \A t \in Turns : t = m' => (Lives(t)' <=> Lives(mem.active)')
      BY DEF Lives, Spawns
    <3> QED
      BY <2>1, <2>2, <3>1, <3>2
  <2> QED
    BY <2>1, <2>2, <2>3 DEF TurnFits
<1>7. WithoutErrors'
  <2>1. open' = "ready"
    BY DEF RuntimeFits
  <2> SUFFICES ASSUME failures' = 0
               PROVE  /\ Usable'
                      /\ \A t \in Turns : Lives(t)' => t \in cancelled' \/ mem'.active = t
                      /\ \A c \in Clients : pc'[c] \in {"wait", "force"} /\ Lives(arg[c])'
                                              => arg'[c] \in cancelled'
    BY <2>1 DEF WithoutErrors
  <2>2. Usable'
    BY DEF RuntimeFits, TasksInv, WithoutErrors, Usable
  <2> QED
    BY <2>2 DEF TurnFits, ClientFits
<1> QED
  BY <1>2, <1>3, <1>4, <1>6, <1>7 DEF TasksInv

\* A client that does not move fits when no agent is new.
LEMMA ClientStays ==
  ASSUME TypeOK, ArgsAreTurns, TasksInv, RuntimeFits, NEW c \in Clients,
         pc'[c] = pc[c], arg'[c] = arg[c], cancelled \subseteq cancelled',
         \A t \in Turns : Lives(t)' => Lives(t)
  PROVE  ClientFits(c)
<1>1. \A t \in Turns : Spawns(c, t)' => Spawns(c, t)
  BY DEF Spawns, At
<1>2. pc'[c] \in AboutATurn => arg'[c] \in Turns /\ arg'[c] \notin fresh'
  BY DEF TasksInv, FreshIsUnused, RuntimeFits, ArgsAreTurns
<1>3. pc'[c] = "hooks" => mem'.active # arg'[c]
  BY <1>2, NoTurnAssumption DEF TasksInv, EndedIsNotActive, RuntimeFits, At, AboutATurn
<1>4. ASSUME failures' = 0, pc'[c] \in {"wait", "force"}, Lives(arg[c])'
      PROVE  arg'[c] \in cancelled'
  <2>1. arg[c] \in Turns
    BY <1>2, <1>4 DEF AboutATurn
  <2>2. Lives(arg[c])
    <3>1. \A t \in Turns : t = arg'[c] => (Lives(t)' <=> Lives(arg[c])')
      BY DEF Lives, Spawns
    <3> QED
      BY <1>4, <2>1, <3>1
  <2> QED
    BY <1>4, <2>2 DEF TasksInv, WithoutErrors, RuntimeFits
<1> QED
  BY <1>1, <1>2, <1>3, <1>4 DEF ClientFits

\* So does a turn about which nothing happens.
LEMMA TurnStays ==
  ASSUME TypeOK, TasksInv, RuntimeFits, NEW t \in Turns,
         task'[t] = task[t], announced'[t] = announced[t], cancelled \subseteq cancelled',
         t \in cancelled' => t \notin fresh', mem'.active = mem.active,
         Lives(t)' => Lives(t)
  PROVE  TurnFits(t)
<1>1. announced[t] # NoStatus => mem'.active # t /\ t \notin fresh'
  BY DEF TasksInv, EndedIsNotActive, FreshIsUnused, RuntimeFits
<1>2. task[t] = "hooks" => mem'.active # t
  BY DEF TasksInv, EndedIsNotActive
<1>3. failures' = 0 /\ Lives(t)' => t \in cancelled' \/ mem'.active = t
  BY DEF TasksInv, WithoutErrors, RuntimeFits
<1> QED
  BY <1>1, <1>2, <1>3 DEF TurnFits

\* A client moves; tasks, slot and ids stay as they are.
LEMMA MoveKeeps ==
  ASSUME IInv, TasksInv, NEW c \in Clients, NEW label, Moves(c, label),
         label \notin {"spawn", "hooks"}, open = "ready",
         UNCHANGED <<open, cached, invalid, slot, task, announced>>, fresh' \subseteq fresh,
         mem'.active = mem.active, failures' = 0 => failures = 0,
         cancelled \subseteq cancelled', cancelled' \intersect fresh = {},
         label \in AboutATurn => arg'[c] \notin fresh,
         failures' = 0 /\ label \in {"wait", "force"} /\ Lives(arg'[c]) => arg'[c] \in cancelled'
  PROVE  TasksInv'
<1>1. TypeOK /\ ArgsAreTurns
  BY DEF IInv
<1>2. pc'[c] = label /\ \A d \in Clients \ {c} : pc'[d] = pc[d] /\ arg'[d] = arg[d]
  BY <1>1 DEF Moves, TypeOK
<1>3. \A d \in Clients, t \in Turns : Spawns(d, t)' => Spawns(d, t)
  BY <1>2 DEF Spawns, At
<1>4. \A t \in Turns : Lives(t)' => Lives(t)
  BY <1>3 DEF Lives
<1>5. RuntimeFits
  BY <1>1 DEF RuntimeFits, Usable
<1>6. \A t \in Turns : TurnFits(t)
  BY <1>1, <1>4, <1>5, TurnStays
<1>7. ASSUME NEW d \in Clients
      PROVE  ClientFits(d)
  <2>1. CASE d # c
    BY <1>1, <1>2, <1>4, <1>5, <2>1, ClientStays
  <2>2. CASE d = c
    <3>1. ASSUME failures' = 0, label \in {"wait", "force"}, Lives(arg[c])'
          PROVE  arg'[c] \in cancelled'
      <4>1. arg'[c] \in Turns
        BY <3>1 DEF Moves, AboutATurn
      <4>2. Lives(arg'[c])
        <5>1. \A t \in Turns : t = arg'[c] => (Lives(t)' <=> Lives(arg[c])')
          BY DEF Lives, Spawns
        <5> QED
          BY <1>4, <3>1, <4>1, <5>1
      <4> QED
        BY <3>1, <4>2
    <3> QED
      BY <1>2, <1>3, <2>2, <3>1 DEF ClientFits
  <2> QED
    BY <2>1, <2>2
<1> QED
  BY <1>1, <1>5, <1>6, <1>7, FitKeeps

\* A client that moves and touches nothing else.
LEMMA ClientTasks ==
  ASSUME IInv, TasksInv, NEW c \in Clients, NEW label, Moves(c, label),
         label \notin {"spawn", "hooks"}, open = "ready",
         UNCHANGED <<log, runtime, turns, fresh, history, failures, crashes>>,
         label \in AboutATurn => arg'[c] \notin fresh,
         failures = 0 /\ label \in {"wait", "force"} /\ Lives(arg'[c]) => arg'[c] \in cancelled
  PROVE  TasksInv'
<1>1. cancelled \intersect fresh = {}
  BY DEF TasksInv, FreshIsUnused
<1> QED
  BY <1>1, MoveKeeps DEF runtime, turns, history

-----------------------------------------------------------------------------
(* The steps of a request.                                                 *)

\* Requests begin.
LEMMA AskTasks ==
  ASSUME IInv, TasksInv, NEW c \in Clients, Ask(c)
  PROVE  TasksInv'
<1>1. TypeOK /\ NoRuntimeNoWork
  BY DEF IInv
<1>2. open = "ready"
  BY <1>1, UsableMeansReady DEF Ask, BeginStart, BeginInterrupt, BeginStop, BeginResume
<1>3. CASE BeginStart(c)
  <2>1. Moves(c, "start")
    BY <1>1, <1>3, BeginMoves DEF BeginStart, Asked, AboutATurn
  <2> QED
    BY <1>2, <1>3, <2>1, ClientTasks DEF BeginStart, AboutATurn
<1>4. ASSUME NEW t \in Turns, BeginInterrupt(c, t)
      PROVE  TasksInv'
  <2>1. Moves(c, "interrupt") /\ arg'[c] = t
    BY <1>1, <1>4, BeginMoves DEF BeginInterrupt, Asked, Begin, TypeOK
  <2> QED
    BY <1>2, <1>4, <2>1, ClientTasks DEF BeginInterrupt
<1>5. ASSUME NEW f \in Stops, BeginStop(c, f)
      PROVE  TasksInv'
  <2>1. f \in Asked
    BY DEF Asked
  <2>2. CASE mem.active = NoTurn
    <3>1. SeenIdle(c, f) \in {"idle", "drain", "mark"}
      BY DEF SeenIdle
    <3>2. Moves(c, SeenIdle(c, f))
      BY <1>1, <1>5, <2>1, <2>2, <3>1, BeginMoves DEF BeginStop, AboutATurn
    <3> QED
      BY <1>2, <1>5, <3>1, <3>2, ClientTasks DEF BeginStop, AboutATurn
  <2>3. CASE mem.active # NoTurn
    <3>1. mem.active \in Turns
      BY <1>1, <2>3 DEF TypeOK, ThreadStates
    <3>2. Moves(c, "interrupt") /\ arg'[c] = mem.active
      BY <1>1, <1>5, <2>1, <2>3, <3>1, BeginMoves DEF BeginStop, Begin, TypeOK
    <3>3. mem.active \notin fresh
      BY DEF TasksInv, FreshIsUnused
    <3> QED
      BY <1>2, <1>5, <3>2, <3>3, ClientTasks DEF BeginStop
  <2> QED
    BY <2>2, <2>3
<1>6. ASSUME NEW f \in Stops, BeginResume(c, f)
      PROVE  TasksInv'
  <2>1. f \in Asked
    BY DEF Asked
  <2>2. Moves(c, "clear")
    BY <1>1, <1>6, <2>1, BeginMoves DEF BeginResume, AboutATurn
  <2> QED
    BY <1>2, <1>6, <2>2, ClientTasks DEF BeginResume, AboutATurn
<1> QED
  BY <1>3, <1>4, <1>5, <1>6 DEF Ask

\* A request in hand is about a turn that has been started.
LEMMA ArgIsUsed ==
  ASSUME TasksInv, NEW c \in Clients, pc[c] \in AboutATurn
  PROVE  arg[c] \notin fresh
  BY DEF TasksInv, FreshIsUnused

\* interrupt_turn refuses, without an I/O error, only what has no agent to be cancelled.
LEMMA RefusedHasNoAgent ==
  ASSUME IInv, TasksInv, NEW c \in Clients, RefuseInterrupt(c), failures = 0, Lives(arg[c])
  PROVE  arg[c] \in cancelled
<1>1. arg[c] \in Turns /\ open = "ready"
  BY BusyMeansReady DEF IInv, ArgsAreTurns, AboutATurn, RefuseInterrupt, At
<1>2. SUFFICES ASSUME mem.active = arg[c]
               PROVE  FALSE
  BY <1>1 DEF TasksInv, WithoutErrors
<1>3. slot # arg[c]
  BY <1>2 DEF RefuseInterrupt, Legal, InterruptRequested
<1> QED
  BY <1>1, <1>2, <1>3, NoTurnAssumption DEF TasksInv, WithoutErrors, SlotIsActive

\* Requests that wait, give up, are refused or go on.
LEMMA WaitingTasks ==
  ASSUME IInv, TasksInv, NEW c \in Clients,
         \/ WaitOver(c) \/ Deadline(c) \/ Recheck(c) \/ Drained(c)
         \/ GiveUp(c) \/ RefuseStart(c) \/ RefuseInterrupt(c)
  PROVE  TasksInv'
<1>1. TypeOK /\ ArgsAreTurns /\ NoRuntimeNoWork
  BY DEF IInv
<1>2. pc[c] # "idle"
  BY DEF WaitOver, Deadline, Recheck, Drained, GiveUp, RefuseStart, RefuseInterrupt, At
<1>3. open = "ready"
  BY <1>1, <1>2, BusyMeansReady
<1>4. UNCHANGED <<log, runtime, turns, fresh, history, failures, crashes>>
  BY DEF WaitOver, Deadline, Recheck, Drained, GiveUp, RefuseStart, RefuseInterrupt
<1>5. ASSUME Answer(c) PROVE TasksInv'
  <2>1. Moves(c, "idle")
    BY <1>1, <1>5, AnswerMoves
  <2> QED
    BY <1>3, <1>4, <2>1, ClientTasks DEF AboutATurn
<1>6. ASSUME NEW label \in {"idle", "drain", "mark"}, Goto(c, label) PROVE TasksInv'
  <2>1. Moves(c, label)
    BY <1>1, <1>6, GotoMoves DEF AboutATurn
  <2> QED
    BY <1>3, <1>4, <2>1, ClientTasks DEF AboutATurn
<1>7. SeenIdle(c, op[c]) \in {"idle", "drain", "mark"}
  BY DEF SeenIdle
<1>8. CASE Deadline(c)
  <2>1. At(c, "wait") /\ Goto(c, "force") /\ arg[c] \in Turns
    BY <1>1, <1>8 DEF Deadline, At, ArgsAreTurns, AboutATurn
  <2>2. Moves(c, "force") /\ arg'[c] = arg[c]
    BY <1>1, <2>1, GotoMoves DEF Goto
  <2>3. arg[c] \notin fresh
    BY <2>1, ArgIsUsed DEF At, AboutATurn
  <2>4. failures = 0 /\ Lives(arg[c]) => arg[c] \in cancelled
    BY <2>1 DEF TasksInv, WithoutErrors, At
  <2> QED
    BY <1>3, <1>4, <2>2, <2>3, <2>4, ClientTasks
<1>9. CASE RefuseInterrupt(c)
  <2>1. CASE op[c] = "interrupt"
    BY <1>5, <1>9, <2>1 DEF RefuseInterrupt, Interrupted
  <2>2. CASE op[c] # "interrupt"
    <3>1. Goto(c, "wait") /\ pc[c] = "interrupt" /\ arg[c] \in Turns
      BY <1>1, <1>9, <2>2 DEF RefuseInterrupt, Interrupted, At, ArgsAreTurns, AboutATurn
    <3>2. Moves(c, "wait") /\ arg'[c] = arg[c]
      BY <1>1, <3>1, GotoMoves DEF Goto
    <3>3. arg[c] \notin fresh
      BY <3>1, ArgIsUsed DEF AboutATurn
    <3> QED
      BY <1>3, <1>4, <1>9, <3>2, <3>3, RefusedHasNoAgent, ClientTasks
  <2> QED
    BY <2>1, <2>2
<1>10. CASE WaitOver(c)
  BY <1>6, <1>7, <1>10 DEF WaitOver
<1>11. CASE Recheck(c)
  BY <1>5, <1>6, <1>7, <1>11 DEF Recheck
<1>12. CASE Drained(c)
  BY <1>5, <1>6, <1>12 DEF Drained
<1>13. CASE GiveUp(c) \/ RefuseStart(c)
  BY <1>5, <1>13 DEF GiveUp, RefuseStart
<1> QED
  BY <1>8, <1>9, <1>10, <1>11, <1>12, <1>13

\* An append that succeeds applies its event in memory; one that fails is counted.
LEMMA CountedAppend ==
  ASSUME TypeOK, NEW e, Succeeds(e) \/ AppendFails(e)
  PROVE  /\ failures' = 0 => failures = 0 /\ Succeeds(e)
         /\ Succeeds(e) => mem' = Apply(mem, e) /\ failures' = failures
         /\ AppendFails(e) => mem' = mem /\ failures' # 0
  BY BoundsAssumption DEF TypeOK, Succeeds, AppendFails, Appended, Abandoned

\* The interrupt of the turn was on record.
LEMMA InterruptAgainTasks ==
  ASSUME IInv, TasksInv, NEW c \in Clients, InterruptAgain(c)
  PROVE  TasksInv'
<1>1. TypeOK /\ ArgsAreTurns /\ pc[c] = "interrupt"
  BY DEF IInv, InterruptAgain, At
<1>2. open = "ready" /\ arg[c] \in Turns /\ arg[c] \notin fresh
  BY <1>1, BusyMeansReady, ArgIsUsed DEF IInv, ArgsAreTurns, AboutATurn
<1>3. cancelled' = cancelled \union {arg[c]} /\ cancelled \intersect fresh = {}
  BY DEF InterruptAgain, CancelledAgain, TasksInv, FreshIsUnused
<1>4. UNCHANGED <<open, cached, invalid, slot, task, fresh, announced, failures, mem>>
  BY DEF InterruptAgain, runtime
<1>5. CASE Answer(c)
  <2>1. Moves(c, "idle")
    BY <1>1, <1>5, AnswerMoves
  <2> QED
    BY <1>2, <1>3, <1>4, <2>1, MoveKeeps DEF AboutATurn
<1>6. CASE Goto(c, "wait")
  <2>1. Moves(c, "wait") /\ arg'[c] = arg[c]
    BY <1>1, <1>2, <1>6, GotoMoves DEF Goto
  <2> QED
    BY <1>2, <1>3, <1>4, <2>1, MoveKeeps
<1> QED
  BY <1>5, <1>6 DEF InterruptAgain, Interrupted

\* The token of the turn is cancelled.
LEMMA CancelTurnTasks ==
  ASSUME IInv, TasksInv, NEW c \in Clients, CancelTurn(c)
  PROVE  TasksInv'
<1>1. TypeOK /\ ArgsAreTurns /\ pc[c] = "cancel"
  BY DEF IInv, CancelTurn, At
<1>2. open = "ready" /\ arg[c] \in Turns /\ arg[c] \notin fresh
  BY <1>1, BusyMeansReady, ArgIsUsed DEF IInv, ArgsAreTurns, AboutATurn
<1>3. cancelled' = cancelled \union {arg[c]} /\ cancelled \intersect fresh = {}
  BY DEF CancelTurn, TasksInv, FreshIsUnused
<1>4. UNCHANGED <<open, cached, invalid, slot, task, fresh, announced, failures, mem>>
  BY DEF CancelTurn, runtime
<1>5. CASE Answer(c)
  <2>1. Moves(c, "idle")
    BY <1>1, <1>5, AnswerMoves
  <2> QED
    BY <1>2, <1>3, <1>4, <2>1, MoveKeeps DEF AboutATurn
<1>6. CASE Goto(c, "wait")
  <2>1. Moves(c, "wait") /\ arg'[c] = arg[c]
    BY <1>1, <1>2, <1>6, GotoMoves DEF Goto
  <2> QED
    BY <1>2, <1>3, <1>4, <2>1, MoveKeeps
<1> QED
  BY <1>5, <1>6 DEF CancelTurn, Interrupted

\* The interrupt is appended, or the append fails.
LEMMA RequestInterruptTasks ==
  ASSUME IInv, TasksInv, NEW c \in Clients, RequestInterrupt(c)
  PROVE  TasksInv'
<1> DEFINE e == InterruptRequested(arg[c])
<1>1. TypeOK /\ ArgsAreTurns /\ pc[c] = "interrupt"
  BY DEF IInv, RequestInterrupt, At
<1>2. open = "ready" /\ arg[c] \in Turns /\ arg[c] \notin fresh
  BY <1>1, BusyMeansReady, ArgIsUsed DEF IInv, ArgsAreTurns, AboutATurn
<1>3. UNCHANGED <<open, cached, invalid, slot, cancelled, task, fresh, announced>>
      /\ cancelled \intersect fresh = {}
  BY DEF RequestInterrupt, turns, history, TasksInv, FreshIsUnused
<1>4. CASE Succeeds(e) /\ Goto(c, "cancel")
  <2>1. failures' = failures /\ mem'.active = mem.active
    BY <1>1, <1>2, <1>4, CountedAppend, ApplyRequested DEF TypeOK
  <2>2. Moves(c, "cancel") /\ arg'[c] = arg[c]
    BY <1>1, <1>2, <1>4, GotoMoves DEF Goto
  <2> QED
    BY <1>2, <1>3, <2>1, <2>2, MoveKeeps
<1>5. ASSUME AppendFails(e), Interrupted(c)
      PROVE  TasksInv'
  <2>1. failures' # 0 /\ mem' = mem
    BY <1>1, <1>5, CountedAppend
  <2>2. CASE Answer(c)
    <3>1. Moves(c, "idle")
      BY <1>1, <2>2, AnswerMoves
    <3> QED
      BY <1>2, <1>3, <2>1, <3>1, MoveKeeps DEF AboutATurn
  <2>3. CASE Goto(c, "wait")
    <3>1. Moves(c, "wait") /\ arg'[c] = arg[c] /\ pc'[c] = "wait"
      BY <1>1, <1>2, <2>3, GotoMoves DEF Goto, TypeOK
    <3> QED
      BY <1>2, <1>3, <2>1, <3>1, MoveKeeps
  <2> QED
    BY <1>5, <2>2, <2>3 DEF Interrupted
<1> QED
  BY <1>4, <1>5 DEF RequestInterrupt

\* The thread is paused or archived, or is not any more.
LEMMA SetFlagTasks ==
  ASSUME IInv, TasksInv, NEW c \in Clients, SetFlag(c)
  PROVE  TasksInv'
<1> DEFINE e == Flagged(op[c], At(c, "mark"))
<1>1. TypeOK /\ pc[c] # "idle"
  BY DEF IInv, SetFlag
<1>2. open = "ready" /\ Moves(c, "idle")
  BY <1>1, BusyMeansReady, AnswerMoves DEF IInv, SetFlag
<1>3. Succeeds(e) \/ AppendFails(e)
  BY DEF SetFlag
<1>4. mem'.active = mem.active /\ (failures' = 0 => failures = 0)
  <2>1. op[c] \in Asked /\ At(c, "mark") \in BOOLEAN
    BY <1>1 DEF TypeOK, At
  <2> QED
    BY <1>1, <1>3, <2>1, CountedAppend, ApplyFlagged DEF TypeOK
<1>5. UNCHANGED <<open, cached, invalid, slot, cancelled, task, fresh, announced>>
      /\ cancelled \intersect fresh = {}
  BY DEF SetFlag, turns, history, TasksInv, FreshIsUnused
<1> QED
  BY <1>2, <1>4, <1>5, MoveKeeps DEF AboutATurn

-----------------------------------------------------------------------------
(* turn/start.                                                             *)

\* A new turn becomes active in memory, with active_turn set and its request about to
\* spawn it, or, when the start is dropped, without either.
LEMMA NewTurnTasks ==
  ASSUME IInv, TasksInv, open = "ready", NEW c \in Clients, NEW t \in fresh,
         fresh' = fresh \ {t}, mem.active = NoTurn, mem'.active = t,
         \A d \in Clients \ {c} : pc'[d] = pc[d] /\ arg'[d] = arg[d],
         UNCHANGED <<open, cached, invalid, cancelled, task, announced, failures>>,
         \/ slot' = t /\ pc'[c] = "spawn" /\ arg'[c] = t
         \/ slot' = slot /\ pc'[c] = "idle" /\ Parents # {}
  PROVE  TasksInv'
<1>1. TypeOK /\ ArgsAreTurns /\ t \in Turns /\ fresh \subseteq Turns
  BY DEF IInv, TypeOK
<1>2. /\ task[t] = "none" /\ announced[t] = NoStatus /\ t \notin cancelled
      /\ \A d \in Clients : pc[d] \in AboutATurn => arg[d] # t
  BY DEF TasksInv, FreshIsUnused
<1>3. \A d \in Clients \ {c}, u \in Turns : Spawns(d, u)' <=> Spawns(d, u)
  BY DEF Spawns, At
<1>4. \A d \in Clients : ~Spawns(d, t)
  BY <1>2 DEF Spawns, At, AboutATurn
<1>5. \A u \in Turns : Spawns(c, u)' => u = t /\ slot' = t
  BY DEF Spawns, At
<1>6. FreshIsUnused'
  <2> SUFFICES ASSUME NEW u \in fresh'
               PROVE  /\ task'[u] = "none" /\ announced'[u] = NoStatus
                      /\ u \notin cancelled' /\ slot' # u /\ mem'.active # u
                      /\ \A d \in Clients : pc'[d] \in AboutATurn => arg'[d] # u
    BY DEF FreshIsUnused
  <2>1. u \in fresh /\ u # t
    OBVIOUS
  <2>2. \A d \in Clients : pc'[d] \in AboutATurn => arg'[d] # u
    BY <2>1 DEF TasksInv, FreshIsUnused, AboutATurn
  <2> QED
    BY <2>1, <2>2 DEF TasksInv, FreshIsUnused
<1>7. EndedIsNotActive'
  <2>1. \A u \in Turns : announced'[u] # NoStatus => mem'.active # u
    BY <1>2
  <2>2. \A u \in Turns : task'[u] = "hooks" => mem'.active # u
    BY <1>2
  <2>3. \A d \in Clients : pc'[d] = "hooks" => mem'.active # arg'[d]
    BY <1>2 DEF AboutATurn
  <2> QED
    BY <2>1, <2>2, <2>3 DEF EndedIsNotActive, At
<1>8. SpawnedOnce'
  <2> SUFFICES ASSUME NEW d \in Clients, NEW u \in Turns, Spawns(d, u)'
               PROVE  task'[u] = "none" /\ \A f \in Clients : Spawns(f, u)' => f = d
    BY DEF SpawnedOnce
  <2>1. CASE d = c
    BY <1>2, <1>3, <1>4, <1>5, <2>1
  <2>2. CASE d # c
    <3>1. Spawns(d, u) /\ u # t
      BY <1>3, <1>4, <2>2
    <3> QED
      BY <1>3, <1>5, <3>1 DEF TasksInv, SpawnedOnce
  <2> QED
    BY <2>1, <2>2
<1>9. SlotIsActive'
  <2> SUFFICES ASSUME slot' # t
               PROVE  Parents # {} /\ task'[t] = "none" /\ ~Lives(mem.active)'
    BY DEF SlotIsActive
  <2>1. pc'[c] = "idle" /\ Parents # {}
    OBVIOUS
  <2>2. \A d \in Clients : ~(pc'[d] = "spawn" /\ arg'[d] = t)
    BY <1>2, <2>1 DEF AboutATurn
  <2> QED
    BY <1>2, <2>1, <2>2 DEF Lives, Spawns, At
<1>10. WithoutErrors'
  <2> SUFFICES ASSUME failures = 0
               PROVE  /\ Usable'
                      /\ \A u \in Turns : Lives(u)' => u \in cancelled' \/ mem'.active = u
                      /\ \A d \in Clients : pc'[d] \in {"wait", "force"} /\ Lives(arg[d])'
                                              => arg'[d] \in cancelled'
    BY DEF WithoutErrors
  <2>1. Usable'
    BY DEF TasksInv, WithoutErrors, Usable
  <2>2. \A u \in Turns : Lives(u)' => Lives(u) \/ u = t
    BY <1>3, <1>5 DEF Lives
  <2>3. ASSUME NEW u \in Turns, Lives(u)'
        PROVE  u \in cancelled' \/ mem'.active = u
    <3>1. CASE u = t
      BY <3>1
    <3>2. CASE Lives(u)
      BY <1>1, <3>2, NoTurnAssumption DEF TasksInv, WithoutErrors
    <3> QED
      BY <2>2, <2>3, <3>1, <3>2
  <2>4. ASSUME NEW d \in Clients, pc'[d] \in {"wait", "force"}, Lives(arg[d])'
        PROVE  arg'[d] \in cancelled'
    <3>1. d # c /\ pc[d] = pc'[d] /\ arg'[d] = arg[d]
      BY <2>4
    <3>2. arg[d] \in Turns /\ arg[d] # t
      BY <1>1, <1>2, <2>4, <3>1 DEF ArgsAreTurns, AboutATurn
    <3>3. \A u \in Turns : u = arg'[d] => (Lives(u)' <=> Lives(arg[d])')
      BY DEF Lives, Spawns
    <3>4. Lives(arg[d])
      BY <2>2, <2>4, <3>1, <3>2, <3>3
    <3> QED
      BY <2>4, <3>1, <3>4 DEF TasksInv, WithoutErrors
  <2> QED
    BY <2>1, <2>3, <2>4
<1> QED
  BY <1>6, <1>7, <1>8, <1>9, <1>10 DEF TasksInv

\* start_turn appends TurnStarted, or fails.
LEMMA StartTurnTasks ==
  ASSUME IInv, TasksInv, NEW c \in Clients, NEW t \in Turns, StartTurn(c, t)
  PROVE  TasksInv'
<1>1. TypeOK /\ NoRuntimeNoWork /\ t \in fresh /\ mem.active = NoTurn
  BY DEF IInv, StartTurn, MayStart
<1>2. open = "ready"
  BY <1>1, BusyMeansReady DEF StartTurn, At
<1>3. UNCHANGED <<open, cached, invalid, cancelled, task, announced>> /\ fresh' = fresh \ {t}
  BY DEF StartTurn, history
<1>4. ASSUME Succeeds(Started(t)), slot' = t, Begin(c, "spawn", "start", t)
      PROVE  TasksInv'
  <2>1. mem'.active = t /\ failures' = failures
    BY <1>1, <1>4, CountedAppend, ApplyStarted DEF TypeOK
  <2>2. /\ pc'[c] = "spawn" /\ arg'[c] = t
        /\ \A d \in Clients \ {c} : pc'[d] = pc[d] /\ arg'[d] = arg[d]
    BY <1>1, <1>4 DEF Begin, TypeOK
  <2> QED
    BY <1>1, <1>2, <1>3, <1>4, <2>1, <2>2, NewTurnTasks
<1>5. ASSUME AppendFails(Started(t)), Answer(c), slot' = slot
      PROVE  TasksInv'
  <2>1. mem' = mem /\ failures' # 0
    BY <1>1, <1>5, CountedAppend
  <2>2. Moves(c, "idle")
    BY <1>1, <1>5, AnswerMoves
  <2>3. cancelled \intersect fresh = {}
    BY DEF TasksInv, FreshIsUnused
  <2> QED
    BY <1>2, <1>3, <1>5, <2>1, <2>2, <2>3, MoveKeeps DEF AboutATurn
<1> QED
  BY <1>4, <1>5 DEF StartTurn

\* The parent's turn ends while it starts its child's.
LEMMA DropStartTasks ==
  ASSUME IInv, TasksInv, NEW c \in Clients, DropStart(c)
  PROVE  TasksInv'
<1>1. TypeOK /\ NoRuntimeNoWork /\ Parents # {}
  BY DEF IInv, DropStart
<1>2. open = "ready" /\ Moves(c, "idle")
  BY <1>1, BusyMeansReady, AnswerMoves DEF DropStart, At
<1>3. /\ UNCHANGED <<open, cached, invalid, slot, cancelled, task, announced, failures>>
      /\ cancelled \intersect fresh = {}
  BY DEF DropStart, turns, history, TasksInv, FreshIsUnused
<1>4. CASE mem' = mem /\ fresh' \subseteq fresh
  BY <1>2, <1>3, <1>4, MoveKeeps DEF AboutATurn
<1>5. ASSUME NEW t \in fresh, fresh' = fresh \ {t}, Appended(Started(t)), MayStart(mem)
      PROVE  TasksInv'
  <2>1. mem.active = NoTurn /\ mem'.active = t
    BY <1>1, <1>5, ApplyStarted DEF MayStart, Appended, TypeOK
  <2>2. /\ pc'[c] = "idle"
        /\ \A d \in Clients \ {c} : pc'[d] = pc[d] /\ arg'[d] = arg[d]
    BY <1>1, <1>2 DEF Moves, TypeOK
  <2> QED
    BY <1>1, <1>2, <1>3, <1>5, <2>1, <2>2, NewTurnTasks
<1>6. \/ mem' = mem /\ fresh' \subseteq fresh
      \/ \E t \in fresh : fresh' = fresh \ {t} /\ Appended(Started(t)) /\ MayStart(mem)
  BY DEF DropStart, Abandoned
<1> QED
  BY <1>4, <1>5, <1>6

\* run_turn becomes a task of its own.
LEMMA SpawnTurnTasks ==
  ASSUME IInv, TasksInv, NEW c \in Clients, SpawnTurn(c)
  PROVE  TasksInv'
<1> DEFINE t == arg[c]
<1>1. TypeOK /\ ArgsAreTurns /\ pc[c] = "spawn"
  BY DEF IInv, SpawnTurn, At
<1>2. t \in Turns /\ t \notin fresh /\ Spawns(c, t)
  BY <1>1, ArgIsUsed DEF ArgsAreTurns, AboutATurn, Spawns, At
<1>3. /\ pc'[c] = "idle" /\ \A d \in Clients \ {c} : pc'[d] = pc[d] /\ arg'[d] = arg[d]
      /\ task' = [task EXCEPT ![t] = "agent"]
      /\ UNCHANGED <<open, cached, invalid, mem, slot, cancelled, fresh, announced, failures>>
  BY <1>1 DEF SpawnTurn, Answer, Begin, TypeOK, runtime, history
<1>4. task'[t] = "agent" /\ \A u \in Turns \ {t} : task'[u] = task[u]
  BY <1>1, <1>2, <1>3 DEF TypeOK
<1>5. \A d \in Clients, u \in Turns : Spawns(d, u)' => d # c /\ u # t /\ Spawns(d, u)
  <2> SUFFICES ASSUME NEW d \in Clients, NEW u \in Turns, Spawns(d, u)'
               PROVE  d # c /\ u # t /\ Spawns(d, u)
    OBVIOUS
  <2>1. d # c /\ Spawns(d, u)
    BY <1>3 DEF Spawns, At
  <2> QED
    BY <1>2, <2>1 DEF TasksInv, SpawnedOnce
<1>6. ASSUME NEW u \in Turns, Lives(u)'
      PROVE  Lives(u)
  BY <1>2, <1>4, <1>5, <1>6 DEF Lives
<1>7. FreshIsUnused'
  <2>1. \A u \in fresh : u # t /\ u \in Turns
    BY <1>1, <1>2 DEF TypeOK
  <2>2. \A u \in fresh, d \in Clients : pc'[d] \in AboutATurn => arg'[d] # u
    BY <1>3 DEF TasksInv, FreshIsUnused, AboutATurn
  <2> QED
    BY <1>3, <1>4, <2>1, <2>2 DEF TasksInv, FreshIsUnused
<1>8. EndedIsNotActive'
  <2>1. \A d \in Clients : pc'[d] = "hooks" => mem'.active # arg'[d]
    BY <1>3 DEF TasksInv, EndedIsNotActive, At
  <2> QED
    BY <1>3, <1>4, <2>1 DEF TasksInv, EndedIsNotActive, At
<1>9. SpawnedOnce'
  BY <1>4, <1>5 DEF TasksInv, SpawnedOnce
<1>10. SlotIsActive'
  <2> SUFFICES ASSUME Usable, mem.active # NoTurn, slot # mem.active
               PROVE  Parents # {} /\ task'[mem.active] = "none" /\ ~Lives(mem.active)'
    BY <1>3 DEF SlotIsActive, Usable
  <2>1. mem.active \in Turns /\ Parents # {} /\ task[mem.active] = "none" /\ ~Lives(mem.active)
    BY <1>1 DEF TasksInv, SlotIsActive, TypeOK, ThreadStates
  <2>2. mem.active # t
    BY <1>2, <2>1 DEF Lives
  <2>3. \A u \in Turns : u = mem'.active => (Lives(u)' <=> Lives(mem.active)')
    BY DEF Lives, Spawns
  <2> QED
    BY <1>3, <1>4, <1>6, <2>1, <2>2, <2>3
<1>11. WithoutErrors'
  <2>1. ASSUME failures = 0, NEW d \in Clients, pc'[d] \in {"wait", "force"}, Lives(arg[d])'
        PROVE  arg'[d] \in cancelled'
    <3>1. pc[d] = pc'[d] /\ arg'[d] = arg[d] /\ arg[d] \in Turns
      BY <1>1, <1>3, <2>1 DEF ArgsAreTurns, AboutATurn
    <3>2. \A u \in Turns : u = arg'[d] => (Lives(u)' <=> Lives(arg[d])')
      BY DEF Lives, Spawns
    <3>3. Lives(arg[d])
      BY <1>6, <2>1, <3>1, <3>2
    <3> QED
      BY <1>3, <2>1, <3>1, <3>3 DEF TasksInv, WithoutErrors
  <2>2. ASSUME failures = 0, NEW u \in Turns, Lives(u)'
        PROVE  u \in cancelled' \/ mem'.active = u
    BY <1>3, <1>6, <2>2 DEF TasksInv, WithoutErrors
  <2> QED
    BY <1>3, <2>1, <2>2 DEF TasksInv, WithoutErrors, Usable
<1> QED
  BY <1>7, <1>8, <1>9, <1>10, <1>11 DEF TasksInv

-----------------------------------------------------------------------------
(* run_turn.                                                               *)

\* Tasks that run are not about to be spawned, and their turns have an id in use.
LEMMA RunningIsSpawned ==
  ASSUME TasksInv, NEW t \in Turns, task[t] # "none"
  PROVE  t \notin fresh /\ \A c \in Clients : ~Spawns(c, t)
  BY DEF TasksInv, FreshIsUnused, SpawnedOnce

\* Clients that do not move are about the same turns.
LEMMA SameSpawns ==
  ASSUME UNCHANGED clients, NEW c \in Clients, NEW t
  PROVE  Spawns(c, t)' <=> Spawns(c, t)
  BY DEF clients, Spawns, At

\* One task goes on and no client moves: what is left to show is about that task.
LEMMA TaskKeeps ==
  ASSUME IInv, TasksInv, RuntimeFits, UNCHANGED <<clients, cancelled>>,
         NEW t \in Turns, task[t] # "none", task'[t] \notin {"none", "agent"} \/ task'[t] = task[t],
         \A u \in Turns \ {t} : task'[u] = task[u],
         task'[t] = "hooks" => mem'.active # t,
         \A u \in Turns : announced'[u] # NoStatus => mem'.active # u /\ u \notin fresh',
         failures' = 0 => mem'.active = mem.active \/ (mem.active = t /\ task'[t] # "agent")
  PROVE  TasksInv'
<1>1. TypeOK /\ ArgsAreTurns /\ fresh \subseteq Turns
  BY DEF IInv, TypeOK
<1>2. \A u \in Turns : Lives(u)' => Lives(u) /\ (u = t => task'[t] = "agent")
  BY RunningIsSpawned, SameSpawns DEF Lives
<1>3. ASSUME NEW c \in Clients PROVE ClientFits(c)
  BY <1>1, <1>2, ClientStays DEF clients
<1>4. ASSUME NEW u \in Turns PROVE TurnFits(u)
  <2>1. task'[u] = "agent" => task[u] = "agent"
    OBVIOUS
  <2>2. task'[u] = "none" <=> task[u] = "none"
    OBVIOUS
  <2>3. task'[u] = "hooks" => mem'.active # u
    BY NoTurnAssumption DEF TasksInv, EndedIsNotActive, RuntimeFits
  <2>4. u \in cancelled' => u \notin fresh'
    BY DEF TasksInv, FreshIsUnused, RuntimeFits
  <2>5. ASSUME failures' = 0, Lives(u)' PROVE u \in cancelled' \/ mem'.active = u
    <3>1. Lives(u) /\ (u = t => task'[t] = "agent")
      BY <1>2, <2>5
    <3>2. u \in cancelled \/ mem.active = u
      BY <2>5, <3>1 DEF TasksInv, WithoutErrors, RuntimeFits
    <3> QED
      BY <2>5, <3>1, <3>2
  <2> QED
    BY <2>1, <2>2, <2>3, <2>4, <2>5 DEF TurnFits
<1> QED
  BY <1>1, <1>3, <1>4, FitKeeps

\* The agent appends, returns, or is dropped.
LEMMA AgentTasks ==
  ASSUME IInv, TasksInv, NEW t \in Turns,
         AgentAppends(t) \/ AgentAppended(t) \/ AgentReturns(t) \/ AgentDropped(t)
  PROVE  TasksInv'
<1>1. TypeOK /\ NoRuntimeNoWork
  BY DEF IInv
<1>2. task[t] = "agent"
  BY <1>1, NoTurnAssumption DEF AgentAppends, AgentAppended, AgentReturns, AgentDropped, TypeOK
<1>3. open = "ready"
  BY <1>1, <1>2, RunningMeansReady DEF Runs
<1>4. UNCHANGED <<open, cached, invalid, slot, clients, cancelled, fresh, announced>>
  BY DEF AgentAppends, AgentAppended, AgentReturns, AgentDropped, runtime, history
<1>5. mem'.active = mem.active /\ (failures' = 0 => failures = 0)
  <2>1. \/ mem' = mem /\ failures' = failures
        \/ Succeeds(Other) \/ AppendFails(Other)
        \/ Abandoned(Other) /\ failures' = failures
    BY DEF AgentAppends, AgentAppended, AgentReturns, AgentDropped, log, runtime
  <2>2. Succeeds(Other) \/ AppendFails(Other) => mem'.active = mem.active
    BY <1>1, OtherAsked DEF Succeeds, AppendFails
  <2> QED
    BY <1>1, <2>1, <2>2, CountedAppend DEF Abandoned
<1>6. RuntimeFits
  BY <1>1, <1>3, <1>4, <1>5 DEF RuntimeFits, Usable
<1>7. /\ task'[t] \in Statuses \/ task'[t] = task[t]
      /\ \A u \in Turns \ {t} : task'[u] = task[u]
  BY <1>1 DEF AgentAppends, AgentAppended, AgentReturns, AgentDropped, TypeOK, Statuses
<1>8. \A u \in Turns : announced'[u] # NoStatus => mem'.active # u /\ u \notin fresh'
  BY <1>3, <1>4, <1>5 DEF TasksInv, EndedIsNotActive, FreshIsUnused
<1>9. task'[t] \notin {"none", "agent", "hooks"} \/ task'[t] = "agent"
  BY <1>2, <1>7 DEF Statuses
<1> QED
  BY <1>2, <1>4, <1>5, <1>6, <1>7, <1>8, <1>9, TaskKeeps

\* What complete_turn makes of the runtime, whoever calls it: nobody else's turn ends,
\* and this one goes on only after an error.
LEMMA CompletesFits ==
  ASSUME IInv, TasksInv, NEW t \in Turns \ fresh, NEW s \in Statuses, Completes(t, s),
         open = "ready", open' = "ready", fresh' = fresh
  PROVE  /\ RuntimeFits
         /\ \A u \in Turns : announced'[u] # NoStatus => mem'.active # u /\ u \notin fresh'
         /\ mem'.active = mem.active \/ mem.active = t
         /\ CompletesTurn(t, s) => mem'.active = NoTurn
<1>1. TypeOK /\ t # NoTurn
  BY NoTurnAssumption DEF IInv
<1>2. \A u \in Turns : announced[u] # NoStatus => mem.active # u /\ u \notin fresh
  BY DEF TasksInv, EndedIsNotActive, FreshIsUnused
<1>3. CASE NothingToComplete(t)
  <2>1. mem' = mem /\ slot' = SlotWithout(t) /\ mem.active # t
        /\ UNCHANGED <<cached, invalid, announced, failures>>
    BY <1>3 DEF NothingToComplete
  <2>2. RuntimeFits
    BY <2>1 DEF RuntimeFits, SlotWithout, Usable
  <2> QED
    BY <1>1, <1>2, <1>3, <2>1, <2>2 DEF CompletesTurn
<1>4. CASE CompletesTurn(t, s)
  <2>1. Resolve(s) \in Statuses
    BY DEF Resolve, Statuses
  <2>2. mem'.active = NoTurn /\ failures' = failures
    <3>1. Succeeds(Completed(t, Resolve(s)))
      BY <1>4 DEF CompletesTurn
    <3>2. mem' = Apply(mem, Completed(t, Resolve(s))) /\ failures' = failures
      BY <1>1, <3>1, CountedAppend
    <3>3. mem \in ThreadStates /\ t \in Turns
      BY <1>1 DEF TypeOK
    <3> QED
      BY <2>1, <3>2, <3>3, ApplyCompleted
  <2>3. mem.active = t /\ announced' = [announced EXCEPT ![t] = Resolve(s)]
        /\ UNCHANGED <<cached, invalid, slot>>
    BY <1>4 DEF CompletesTurn
  <2>4. RuntimeFits
    BY <2>2, <2>3 DEF RuntimeFits
  <2>5. \A u \in Turns : announced'[u] # NoStatus => u \notin fresh
    BY <1>1, <1>2, <2>3 DEF TypeOK
  <2> QED
    BY <2>2, <2>3, <2>4, <2>5, NoTurnAssumption
<1>5. CASE CompletionLost(t, s)
  <2>1. mem' = mem /\ failures' # 0 /\ announced' = announced /\ mem.active = t /\ ~cached'
        /\ slot' = SlotWithout(t)
    BY <1>1, <1>5, CountedAppend DEF CompletionLost, AnnouncedAfterError
  <2>2. RuntimeFits
    BY <2>1 DEF RuntimeFits, SlotWithout, Usable
  <2>3. ~CompletesTurn(t, s)
    <3>1. failures \in Nat /\ failures' = failures + 1
      BY <1>1, <1>5, BoundsAssumption DEF CompletionLost, AppendFails, TypeOK
    <3> QED
      BY <3>1 DEF CompletesTurn, Succeeds
  <2> QED
    BY <1>2, <2>1, <2>2, <2>3
<1> QED
  BY <1>3, <1>4, <1>5 DEF Completes

\* complete_turn at the end of run_turn.
LEMMA CompleteTurnTasks ==
  ASSUME IInv, TasksInv, NEW t \in Turns, CompleteTurn(t)
  PROVE  TasksInv'
<1>1. task[t] \in Statuses /\ Completes(t, task[t]) /\ TypeOK
  BY DEF CompleteTurn, Completes, IInv
<1>2. open = "ready" /\ open' = "ready" /\ fresh' = fresh /\ t \notin fresh
  <2>1. task[t] # "none" /\ Runs(t)
    BY <1>1 DEF Statuses, Runs
  <2> QED
    BY <2>1, RunningMeansReady, RunningIsSpawned DEF IInv, CompleteTurn
<1>3. /\ RuntimeFits
      /\ \A u \in Turns : announced'[u] # NoStatus => mem'.active # u /\ u \notin fresh'
      /\ mem'.active = mem.active \/ mem.active = t
      /\ CompletesTurn(t, task[t]) => mem'.active = NoTurn
  BY <1>1, <1>2, CompletesFits
<1>4. /\ task'[t] \in {"hooks", "over"} /\ \A u \in Turns \ {t} : task'[u] = task[u]
      /\ task'[t] = "hooks" => CompletesTurn(t, task[t])
      /\ UNCHANGED <<clients, cancelled>>
  BY <1>1 DEF CompleteTurn, TypeOK
<1> QED
  BY <1>1, <1>3, <1>4, NoTurnAssumption, TaskKeeps DEF Statuses

\* The stop hooks of a turn are done.
LEMMA HooksDoneTasks ==
  ASSUME IInv, TasksInv, NEW t \in Turns, HooksDone(t)
  PROVE  TasksInv'
<1>1. TypeOK /\ task[t] = "hooks" /\ open = "ready"
  BY RunningMeansReady DEF IInv, HooksDone, Runs
<1>2. mem.active # t
  BY <1>1 DEF TasksInv, EndedIsNotActive
<1>3. /\ UNCHANGED <<open, cached, invalid, mem, clients, cancelled, fresh, announced, failures>>
      /\ slot' = SlotWithout(t)
  BY DEF HooksDone, runtime, history
<1>4. task'[t] = "over" /\ \A u \in Turns \ {t} : task'[u] = task[u]
  BY <1>1 DEF HooksDone, TypeOK
<1>5. RuntimeFits
  BY <1>1, <1>2, <1>3 DEF RuntimeFits, SlotWithout, Usable
<1>6. \A u \in Turns : announced'[u] # NoStatus => mem'.active # u /\ u \notin fresh'
  BY <1>1, <1>3 DEF TasksInv, EndedIsNotActive, FreshIsUnused
<1> QED
  BY <1>1, <1>3, <1>4, <1>5, <1>6, TaskKeeps

-----------------------------------------------------------------------------
(* Pause and archive complete a turn.                                      *)

\* The turn is completed by force: without errors, its agent has been cancelled.
LEMMA ForceCompleteTasks ==
  ASSUME IInv, TasksInv, NEW c \in Clients, ForceComplete(c)
  PROVE  TasksInv'
<1> DEFINE t == arg[c]
<1>1. TypeOK /\ ArgsAreTurns /\ pc[c] = "force"
  BY DEF IInv, ForceComplete, At
<1>2. t \in Turns /\ t \notin fresh /\ open = "ready"
  BY <1>1, ArgIsUsed, BusyMeansReady DEF IInv, ArgsAreTurns, AboutATurn
<1>3. "interrupted" \in Statuses /\ Completes(t, "interrupted") /\ open' = "ready" /\ fresh' = fresh
  BY <1>2 DEF ForceComplete, Completes, Statuses
<1>4. /\ RuntimeFits
      /\ \A u \in Turns : announced'[u] # NoStatus => mem'.active # u /\ u \notin fresh'
      /\ mem'.active = mem.active \/ mem.active = t
      /\ CompletesTurn(t, "interrupted") => mem'.active = NoTurn
  BY <1>2, <1>3, CompletesFits
<1>5. /\ pc'[c] \in {"hooks", "recheck"} /\ arg' = arg
      /\ pc'[c] = "hooks" => CompletesTurn(t, "interrupted")
      /\ \A d \in Clients \ {c} : pc'[d] = pc[d]
      /\ UNCHANGED <<task, cancelled>>
  BY <1>1 DEF ForceComplete, Goto, TypeOK
<1>6. \A d \in Clients, u \in Turns : Spawns(d, u)' => Spawns(d, u)
  BY <1>5 DEF Spawns, At
<1>7. \A u \in Turns : Lives(u)' => Lives(u)
  BY <1>5, <1>6 DEF Lives
<1>8. ASSUME NEW d \in Clients PROVE ClientFits(d)
  <2>1. CASE d = c
    BY <1>2, <1>3, <1>4, <1>5, <1>6, <2>1, NoTurnAssumption DEF ClientFits
  <2>2. CASE d # c
    BY <1>1, <1>4, <1>5, <1>7, <2>2, ClientStays
  <2> QED
    BY <2>1, <2>2
<1>9. ASSUME NEW u \in Turns PROVE TurnFits(u)
  <2>1. task[u] = "hooks" => mem'.active # u
    BY <1>4, NoTurnAssumption DEF TasksInv, EndedIsNotActive, RuntimeFits
  <2>2. u \in cancelled => u \notin fresh'
    BY <1>3 DEF TasksInv, FreshIsUnused
  <2>3. ASSUME failures' = 0, Lives(u)' PROVE u \in cancelled \/ mem'.active = u
    <3>1. u \in cancelled \/ mem.active = u
      BY <1>4, <1>7, <2>3 DEF TasksInv, WithoutErrors, RuntimeFits
    <3>2. u = t => u \in cancelled
      BY <1>1, <1>4, <1>7, <2>3 DEF TasksInv, WithoutErrors, RuntimeFits
    <3> QED
      BY <1>4, <3>1, <3>2
  <2> QED
    BY <1>4, <1>5, <2>1, <2>2, <2>3 DEF TurnFits
<1> QED
  BY <1>1, <1>4, <1>8, <1>9, FitKeeps

\* The stop hooks that the request ran are done.
LEMMA ForcedHooksDoneTasks ==
  ASSUME IInv, TasksInv, NEW c \in Clients, ForcedHooksDone(c)
  PROVE  TasksInv'
<1>1. TypeOK /\ ArgsAreTurns /\ pc[c] = "hooks"
  BY DEF IInv, ForcedHooksDone, At
<1>2. open = "ready" /\ mem.active # arg[c]
  BY <1>1, BusyMeansReady DEF IInv, TasksInv, EndedIsNotActive, At
<1>3. /\ UNCHANGED <<open, cached, invalid, mem, cancelled, task, fresh, announced, failures>>
      /\ slot' = SlotWithout(arg[c])
      /\ pc'[c] = "recheck" /\ arg' = arg /\ \A d \in Clients \ {c} : pc'[d] = pc[d]
  BY <1>1 DEF ForcedHooksDone, Goto, TypeOK, runtime, history
<1>4. RuntimeFits
  BY <1>2, <1>3 DEF RuntimeFits, SlotWithout, Usable
<1>5. \A d \in Clients, u \in Turns : Spawns(d, u)' => Spawns(d, u)
  BY <1>3 DEF Spawns, At
<1>6. \A u \in Turns : Lives(u)' => Lives(u)
  BY <1>3, <1>5 DEF Lives
<1>7. ASSUME NEW d \in Clients PROVE ClientFits(d)
  <2>1. CASE d = c
    BY <1>3, <1>5, <2>1 DEF ClientFits, AboutATurn
  <2>2. CASE d # c
    BY <1>1, <1>3, <1>4, <1>6, <2>2, ClientStays
  <2> QED
    BY <2>1, <2>2
<1>8. ASSUME NEW u \in Turns PROVE TurnFits(u)
  <2>1. u \in cancelled => u \notin fresh
    BY DEF TasksInv, FreshIsUnused
  <2> QED
    BY <1>1, <1>3, <1>4, <1>6, <2>1, TurnStays
<1> QED
  BY <1>1, <1>4, <1>7, <1>8, FitKeeps

-----------------------------------------------------------------------------
(* The runtime comes and goes.                                             *)

\* When nobody works, what is left of the invariant is about ids and the memory.
LEMMA IdleTasks ==
  ASSUME \A c \in Clients : pc'[c] = "idle", \A t \in Turns : ~Runs(t)', fresh' \subseteq Turns,
         \A t \in fresh' : task'[t] = "none" /\ announced'[t] = NoStatus /\ t \notin cancelled',
         \A t \in fresh' : slot' # t /\ mem'.active # t,
         open' # "closed" => \A t \in Turns : announced'[t] # NoStatus => mem'.active # t,
         Usable' => mem'.active = NoTurn,
         ~invalid', failures' = 0 /\ open' = "ready" => cached'
  PROVE  TasksInv'
<1>1. \A c \in Clients : pc'[c] \notin AboutATurn \union {"hooks", "spawn", "wait", "force"}
  BY DEF AboutATurn
<1>2. \A t \in Turns : ~Lives(t)'
  BY <1>1 DEF Lives, Spawns, At, Runs
<1>3. FreshIsUnused'
  BY <1>1 DEF FreshIsUnused
<1>4. EndedIsNotActive'
  BY <1>1 DEF EndedIsNotActive, Runs, At
<1>5. SpawnedOnce'
  BY <1>1 DEF SpawnedOnce, Spawns, At
<1>6. SlotIsActive'
  BY DEF SlotIsActive
<1>7. WithoutErrors'
  BY <1>1, <1>2 DEF WithoutErrors, Usable
<1> QED
  BY <1>3, <1>4, <1>5, <1>6, <1>7 DEF TasksInv

\* The thread is loaded: what is active in the file was not announced.
LEMMA LoadThreadTasks ==
  ASSUME IInv, TasksInv, LoadThread
  PROVE  TasksInv'
<1>1. TypeOK /\ NoRuntimeNoWork /\ open # "ready" /\ readable
  BY DEF IInv, LoadThread
<1>2. Sound(disk, fresh, announced, Promised)
  BY <1>1 DEF IInv, LogAndMemory
<1>3. /\ open' = "recovering" /\ mem' = disk
      /\ UNCHANGED <<cached, invalid, slot, cancelled, task, pc, fresh, announced, failures>>
  BY DEF LoadThread, turns, clients, history
<1>4. \A t \in Turns : (t \in fresh \/ announced[t] # NoStatus) => disk.active # t
  BY <1>1, <1>2, NoTurnAssumption DEF Sound
<1>5. fresh \subseteq Turns /\ ~Usable /\ ~invalid
  BY <1>1 DEF TypeOK, NoRuntimeNoWork, Usable, TasksInv, WithoutErrors
<1>6. /\ \A c \in Clients : pc[c] = "idle"
      /\ \A t \in Turns : ~Runs(t)
      /\ \A t \in fresh : task[t] = "none" /\ announced[t] = NoStatus /\ t \notin cancelled /\ slot # t
  BY <1>1 DEF NoRuntimeNoWork, At, TasksInv, FreshIsUnused
<1>7. /\ \A c \in Clients : pc'[c] = "idle"
      /\ \A t \in Turns : ~Runs(t)'
  BY <1>3, <1>6 DEF Runs
<1>8. ~Usable' /\ ~invalid' /\ open' # "ready"
  BY <1>3, <1>5 DEF Usable
<1> QED
  BY <1>3, <1>4, <1>5, <1>6, <1>7, <1>8, IdleTasks

\* Recovery ends the turn that is active in the file, or leaves the runtime uncached.
LEMMA RecoverTurnTasks ==
  ASSUME IInv, TasksInv, RecoverTurn
  PROVE  TasksInv'
<1>1. TypeOK /\ NoRuntimeNoWork /\ open = "recovering"
  BY DEF IInv, RecoverTurn
<1>2. /\ open' = "ready"
      /\ UNCHANGED <<invalid, slot, cancelled, task, pc, fresh>>
  BY DEF RecoverTurn, turns, clients
<1>3. /\ \A c \in Clients : pc'[c] = "idle"
      /\ \A t \in Turns : ~Runs(t)'
      /\ ~cached /\ ~invalid'
  BY <1>1, <1>2 DEF NoRuntimeNoWork, At, Runs, TasksInv, WithoutErrors
<1>4. /\ fresh \subseteq Turns /\ NoTurn \notin fresh
      /\ \A t \in fresh : /\ task[t] = "none" /\ announced[t] = NoStatus /\ t \notin cancelled
                          /\ slot # t /\ mem.active # t
      /\ \A t \in Turns : announced[t] # NoStatus => mem.active # t
  BY <1>1, NoTurnAssumption DEF TasksInv, FreshIsUnused, EndedIsNotActive, TypeOK
<1>5. CASE mem.active = NoTurn
  <2>1. mem' = mem /\ announced' = announced /\ cached'
    BY <1>5 DEF RecoverTurn
  <2> QED
    BY <1>2, <1>3, <1>4, <1>5, <2>1, IdleTasks
<1>6. ASSUME mem.active # NoTurn, Succeeds(Completed(mem.active, RecoveredStatus)), cached',
             announced' = [announced EXCEPT ![mem.active] = RecoveredStatus]
      PROVE  TasksInv'
  <2>1. mem.active \in Turns /\ mem \in ThreadStates /\ RecoveredStatus \in Statuses
    BY <1>1, <1>6 DEF TypeOK, ThreadStates, RecoveredStatus, Statuses
  <2>2. mem' = Apply(mem, Completed(mem.active, RecoveredStatus))
    BY <1>1, <1>6, CountedAppend
  <2>3. mem'.active = NoTurn
    BY <2>1, <2>2, ApplyCompleted
  <2>4. \A t \in fresh : announced'[t] = NoStatus
    BY <1>1, <1>4, <1>6 DEF TypeOK
  <2>5. \A t \in Turns : mem'.active # t
    BY <2>3, NoTurnAssumption
  <2> QED
    BY <1>2, <1>3, <1>4, <1>6, <2>3, <2>4, <2>5, IdleTasks
<1>7. ASSUME AppendFails(Completed(mem.active, RecoveredStatus)), UNCHANGED <<cached, announced>>
      PROVE  TasksInv'
  <2>1. mem' = mem /\ failures' # 0
    BY <1>1, <1>7, CountedAppend
  <2>2. ~Usable'
    BY <1>3, <1>7 DEF Usable
  <2> QED
    BY <1>2, <1>3, <1>4, <1>7, <2>1, <2>2, IdleTasks
<1> QED
  BY <1>5, <1>6, <1>7 DEF RecoverTurn

\* The runtime goes, with everything in it.
LEMMA ClosedTasks ==
  ASSUME IInv, TasksInv, DropRuntime \/ Crash
  PROVE  TasksInv'
<1>1. TypeOK
  BY DEF IInv
<1>2. /\ open' = "closed" /\ mem' = NewThread /\ invalid' = FALSE /\ slot' = NoTurn /\ ~cached'
      /\ UNCHANGED <<fresh, announced>>
  BY DEF DropRuntime, Crash, history
<1>3. \A t \in Turns \union fresh : mem'.active # t /\ slot' # t
  BY <1>1, <1>2, NoTurnAssumption DEF NewThread, TypeOK
<1>4. \A t \in fresh : t \in Turns /\ task[t] = "none" /\ announced[t] = NoStatus /\ t \notin cancelled
  BY <1>1 DEF TasksInv, FreshIsUnused, TypeOK
<1>5. CASE DropRuntime
  <2>1. UNCHANGED <<cancelled, task, pc>>
    BY <1>5 DEF DropRuntime, clients
  <2>2. (\A c \in Clients : pc'[c] = "idle") /\ (\A t \in Turns : ~Runs(t)')
    BY <1>5, <2>1 DEF DropRuntime, Referenced, Runs, At
  <2> QED
    BY <1>2, <1>3, <1>4, <2>1, <2>2, IdleTasks DEF Usable
<1>6. CASE Crash
  <2>1. /\ cancelled' = {} /\ pc' = [c \in Clients |-> "idle"]
        /\ task' = [t \in Turns |-> IF task[t] = "none" THEN "none" ELSE "over"]
    BY <1>6 DEF Crash
  <2>2. (\A c \in Clients : pc'[c] = "idle") /\ (\A t \in Turns : ~Runs(t)')
    BY <2>1 DEF Runs, Statuses
  <2>3. \A t \in fresh : task'[t] = "none"
    BY <1>4, <2>1
  <2> QED
    BY <1>2, <1>3, <1>4, <2>1, <2>2, <2>3, IdleTasks DEF Usable
<1> QED
  BY <1>5, <1>6

-----------------------------------------------------------------------------
(* The theorems.                                                           *)

\* Before the first turn, nothing is about any.
LEMMA InitTasks ==
  ASSUME Init
  PROVE  TasksInv
<1>1. \A t \in Turns : t # NoTurn
  BY NoTurnAssumption
<1> QED
  BY <1>1 DEF Init, NewThread, TasksInv, FreshIsUnused, EndedIsNotActive, SpawnedOnce, Spawns,
              SlotIsActive, WithoutErrors, Usable, Lives, At, AboutATurn

\* Every step keeps the invariant.
LEMMA NextTasks ==
  ASSUME IInv, TasksInv, Next
  PROVE  TasksInv'
<1>1. ASSUME NEW c \in Clients, Ask(c)
      PROVE  TasksInv'
  BY <1>1, AskTasks
<1>2. ASSUME NEW c \in Clients, StartStep(c)
      PROVE  TasksInv'
  BY <1>2, WaitingTasks, StartTurnTasks, SpawnTurnTasks DEF StartStep
<1>3. ASSUME NEW c \in Clients, InterruptStep(c)
      PROVE  TasksInv'
  BY <1>3, WaitingTasks, InterruptAgainTasks, RequestInterruptTasks, CancelTurnTasks
  DEF InterruptStep
<1>4. ASSUME NEW c \in Clients, StopStep(c)
      PROVE  TasksInv'
  BY <1>4, WaitingTasks, ForceCompleteTasks, ForcedHooksDoneTasks, SetFlagTasks DEF StopStep
<1>5. ASSUME NEW c \in Clients, DropStart(c) \/ GiveUp(c)
      PROVE  TasksInv'
  BY <1>5, WaitingTasks, DropStartTasks
<1>6. ASSUME NEW t \in Turns, RunTurn(t)
      PROVE  TasksInv'
  BY <1>6, AgentTasks, CompleteTurnTasks, HooksDoneTasks DEF RunTurn, EndTurn
<1>7. CASE Runtime
  BY <1>7, LoadThreadTasks, RecoverTurnTasks, ClosedTasks DEF Runtime
<1>8. CASE Crash
  BY <1>8, ClosedTasks
<1> QED
  BY <1>1, <1>2, <1>3, <1>4, <1>5, <1>6, <1>7, <1>8 DEF Next, Serve

\* A turn id is used by nothing before it is given out and spawned by one request, before
\* which it has no task; a turn that was announced, or whose stop hooks run, is not active
\* again; an active turn that is not the one in active_turn has no task and no request that
\* will spawn one; and until an append fails, a turn that has its agent, or will,
\* is active or cancelled.
THEOREM TasksInvariance == Spec => []TasksInv
<1>1. Init => TasksInv
  BY InitTasks
<1>2. IInv /\ TasksInv /\ [Next]_vars => TasksInv'
  <2>1. ASSUME TasksInv, UNCHANGED vars PROVE TasksInv'
    BY <2>1 DEF vars, log, runtime, turns, clients, history, TasksInv, FreshIsUnused,
                EndedIsNotActive, SpawnedOnce, Spawns, SlotIsActive, WithoutErrors, Usable,
                Lives, At
  <2> QED
    BY <2>1, NextTasks
<1> QED
  BY <1>1, <1>2, Invariance, PTL DEF Spec

\* In a runtime that is in the cache and not invalidated, an active turn whose agent runs,
\* or will, is the one in active_turn, where interrupt_turn looks for it, whatever fails,
\* crashes or is dropped.  The converse does not hold: active_turn may keep a turn that has
\* ended, and an active turn whose start was dropped has no agent.
THEOREM SpawnedIsInterruptible ==
  Spec => [](Usable /\ mem.active # NoTurn /\ Lives(mem.active) => slot = mem.active)
<1>1. TasksInv => (Usable /\ mem.active # NoTurn /\ Lives(mem.active) => slot = mem.active)
  BY DEF TasksInv, SlotIsActive
<1> QED
  BY <1>1, TasksInvariance, PTL

\* When no start can be dropped, every active turn can be interrupted.
THEOREM ActiveInterruptible ==
  ASSUME Parents = {}
  PROVE  Spec => []ActiveIsInterruptible
<1>1. TasksInv => ActiveIsInterruptible
  BY DEF TasksInv, SlotIsActive, ActiveIsInterruptible
<1> QED
  BY <1>1, TasksInvariance, PTL

\* Until an append fails, no agent goes on after its turn, whoever completes it.
THEOREM AgentStopsUnlessError == Spec => [](failures = 0 => AgentStopsWithTurn)
<1>1. TasksInv => (failures = 0 => AgentStopsWithTurn)
  BY DEF TasksInv, WithoutErrors, AgentStopsWithTurn, Lives
<1> QED
  BY <1>1, TasksInvariance, PTL

-----------------------------------------------------------------------------
(* What the steps do to the record of the turns: they are of seven kinds.  *)

\* Nothing in the file, the memory or the history, and no runtime comes or goes.
Quiet ==
  /\ UNCHANGED <<disk, readable, mem, dirty, fresh, history>>
  /\ open' = "closed" <=> open = "closed"
  /\ Promised' \subseteq Promised

\* interrupt_turn returns Ok.
Accepts(t) ==
  /\ UNCHANGED <<disk, readable, mem, dirty, open, fresh, announced>>
  /\ accepted' = accepted \union {t}
  /\ Promised' \subseteq Promised \union {t}
  /\ open # "closed" /\ Recorded(mem, t)

\* A runtime appends, or stops while appending.
Writes(e) ==
  /\ open # "closed" /\ open' # "closed" /\ accepted' = accepted
  /\ Appended(e) \/ Abandoned(e)

\* An event that neither begins nor ends a turn ...
Notes(e) ==
  /\ Writes(e)
  /\ e \in {Other} \union {Flagged(f, on) : f \in Asked, on \in BOOLEAN}
  /\ fresh' = fresh /\ announced' = announced /\ Promised' \subseteq Promised

\* ... that requests the interrupt of t ...
Asks(t) ==
  /\ Writes(InterruptRequested(t))
  /\ fresh' = fresh /\ announced' = announced
  /\ Promised' \subseteq IF Appended(InterruptRequested(t)) THEN Promised \union {t} ELSE Promised

\* ... that begins t ...
Begins(t) ==
  /\ Writes(Started(t))
  /\ t \in fresh /\ fresh' = fresh \ {t}
  /\ announced' = announced /\ Promised' \subseteq Promised

\* ... and that ends it; when the append succeeds, the end is announced.
Finishes(t, s) ==
  /\ Writes(Completed(t, s))
  /\ mem.active = t /\ (mem.asked => s = "interrupted")
  /\ announced' = IF mem' = mem THEN announced ELSE [announced EXCEPT ![t] = s]
  /\ fresh' = fresh /\ Promised' \subseteq Promised

\* The runtime goes.
Closes ==
  /\ open # "closed" /\ open' = "closed"
  /\ UNCHANGED <<disk, readable, fresh, history>>
  /\ Promised' \subseteq Promised

\* A step of one of these kinds, or a load.
OfAKind ==
  \/ Quiet
  \/ \E e \in {Other} \union {Flagged(f, on) : f \in Asked, on \in BOOLEAN} : Notes(e)
  \/ \E t \in Turns : Accepts(t) \/ Asks(t) \/ Begins(t) \/ \E s \in Statuses : Finishes(t, s)
  \/ LoadThread
  \/ Closes

\* A client that moves and leaves file, memory and history alone.
LEMMA MoveIsQuiet ==
  ASSUME TypeOK, NEW c \in Clients, NEW label, Moves(c, label), label # "cancel",
         UNCHANGED <<log, runtime, fresh, history>>
  PROVE  OfAKind
<1>1. Promised' \subseteq Promised
  BY MovesPromise DEF history
<1> QED
  BY <1>1 DEF OfAKind, Quiet, log, runtime

\* Requests begin.
LEMMA AskKind ==
  ASSUME IInv, NEW c \in Clients, Ask(c)
  PROVE  OfAKind
<1>1. TypeOK
  BY DEF IInv
<1>2. CASE BeginStart(c)
  <2>1. Moves(c, "start")
    BY <1>1, <1>2, BeginMoves DEF BeginStart, Asked, AboutATurn
  <2> QED
    BY <1>1, <1>2, <2>1, MoveIsQuiet DEF BeginStart
<1>3. ASSUME NEW t \in Turns, BeginInterrupt(c, t)
      PROVE  OfAKind
  <2>1. Moves(c, "interrupt")
    BY <1>1, <1>3, BeginMoves DEF BeginInterrupt, Asked
  <2> QED
    BY <1>1, <1>3, <2>1, MoveIsQuiet DEF BeginInterrupt
<1>4. ASSUME NEW f \in Stops, BeginStop(c, f)
      PROVE  OfAKind
  <2>1. f \in Asked
    BY DEF Asked
  <2>2. CASE mem.active = NoTurn
    <3>1. SeenIdle(c, f) \in {"idle", "drain", "mark"}
      BY DEF SeenIdle
    <3>2. Moves(c, SeenIdle(c, f))
      BY <1>1, <1>4, <2>1, <2>2, <3>1, BeginMoves DEF BeginStop, AboutATurn
    <3> QED
      BY <1>1, <1>4, <3>1, <3>2, MoveIsQuiet DEF BeginStop
  <2>3. CASE mem.active # NoTurn
    <3>1. mem.active \in Turns
      BY <1>1, <2>3 DEF TypeOK, ThreadStates
    <3>2. Moves(c, "interrupt")
      BY <1>1, <1>4, <2>1, <2>3, <3>1, BeginMoves DEF BeginStop
    <3> QED
      BY <1>1, <1>4, <3>2, MoveIsQuiet DEF BeginStop
  <2> QED
    BY <2>2, <2>3
<1>5. ASSUME NEW f \in Stops, BeginResume(c, f)
      PROVE  OfAKind
  <2>1. f \in Asked
    BY DEF Asked
  <2>2. Moves(c, "clear")
    BY <1>1, <1>5, <2>1, BeginMoves DEF BeginResume, AboutATurn
  <2> QED
    BY <1>1, <1>5, <2>2, MoveIsQuiet DEF BeginResume
<1> QED
  BY <1>2, <1>3, <1>4, <1>5 DEF Ask

\* Requests wait, are refused or go on, turns are spawned, hooks are done.
LEMMA WaitingKind ==
  ASSUME IInv, NEW c \in Clients,
         \/ WaitOver(c) \/ Deadline(c) \/ Recheck(c) \/ Drained(c) \/ GiveUp(c)
         \/ RefuseStart(c) \/ RefuseInterrupt(c) \/ SpawnTurn(c) \/ ForcedHooksDone(c)
  PROVE  OfAKind
<1>1. TypeOK /\ ArgsAreTurns
  BY DEF IInv
<1>2. UNCHANGED <<log, runtime, fresh, history>>
  BY DEF WaitOver, Deadline, Recheck, Drained, GiveUp, RefuseStart, RefuseInterrupt, SpawnTurn,
         ForcedHooksDone
<1>3. SeenIdle(c, op[c]) \in {"idle", "drain", "mark"}
  BY DEF SeenIdle
<1>4. \/ Answer(c)
      \/ Interrupted(c) /\ pc[c] = "interrupt"
      \/ \E label \in {"idle", "drain", "mark", "recheck"} : Goto(c, label)
      \/ Goto(c, "force") /\ pc[c] = "wait"
  BY <1>3 DEF WaitOver, Deadline, Recheck, Drained, GiveUp, RefuseStart, RefuseInterrupt, SpawnTurn,
              ForcedHooksDone, At
<1>5. PICK label : Moves(c, label) /\ label # "cancel"
  <2>1. CASE Answer(c)
    BY <1>1, <2>1, AnswerMoves
  <2>2. CASE Interrupted(c) /\ pc[c] = "interrupt"
    <3>1. arg[c] \in Turns
      BY <1>1, <2>2 DEF ArgsAreTurns, AboutATurn
    <3> QED
      BY <1>1, <2>2, <3>1, InterruptedMoves
  <2>3. ASSUME NEW label \in {"idle", "drain", "mark", "recheck"}, Goto(c, label)
        PROVE  Moves(c, label) /\ label # "cancel"
    BY <1>1, <2>3, GotoMoves DEF AboutATurn
  <2>4. CASE Goto(c, "force") /\ pc[c] = "wait"
    <3>1. arg[c] \in Turns
      BY <1>1, <2>4 DEF ArgsAreTurns, AboutATurn
    <3> QED
      BY <1>1, <2>4, <3>1, GotoMoves
  <2> QED
    BY <1>4, <2>1, <2>2, <2>3, <2>4
<1> QED
  BY <1>1, <1>2, <1>5, MoveIsQuiet

\* interrupt_turn finds the interrupt on record, or has put it there.
LEMMA AcceptKind ==
  ASSUME IInv, MemorySound, NEW c \in Clients, InterruptAgain(c) \/ CancelTurn(c)
  PROVE  OfAKind
<1>1. TypeOK /\ NoRuntimeNoWork /\ AskedOfSlot /\ ArgsAreTurns
  BY DEF IInv
<1>2. open = "ready"
  BY <1>1, BusyMeansReady DEF InterruptAgain, CancelTurn, At
<1>3. arg[c] \in Turns
  BY <1>1 DEF ArgsAreTurns, AboutATurn, InterruptAgain, CancelTurn, At
<1>4. Interrupted(c) /\ accepted' = accepted \union {arg[c]}
  BY DEF InterruptAgain, CancelTurn
<1>5. PICK label \in Labels \ {"cancel"} : Moves(c, label)
  BY <1>1, <1>3, <1>4, InterruptedMoves
<1>6. Promised' \subseteq Promised \union {arg[c]}
  BY <1>1, <1>3, <1>4, <1>5, PromiseOne
<1>7. Recorded(mem, arg[c])
  <2>1. CASE InterruptAgain(c)
    BY <1>1, <1>3, <2>1, NoTurnAssumption DEF InterruptAgain, AskedOfSlot, Recorded
  <2>2. CASE CancelTurn(c)
    <3>1. arg[c] \in Promised
      BY <1>3, <2>2 DEF Promised, CancelTurn
    <3> QED
      BY <1>2, <3>1 DEF MemorySound, Sound
  <2> QED
    BY <2>1, <2>2
<1>8. UNCHANGED <<disk, readable, mem, dirty, open, fresh, announced>>
  BY DEF InterruptAgain, CancelTurn, log, runtime
<1>9. Accepts(arg[c])
  BY <1>2, <1>4, <1>6, <1>7, <1>8 DEF Accepts
<1> QED
  BY <1>3, <1>9 DEF OfAKind

\* interrupt_turn appends TurnInterruptRequested, or fails.
LEMMA RequestInterruptKind ==
  ASSUME IInv, NEW c \in Clients, RequestInterrupt(c)
  PROVE  OfAKind
<1> DEFINE t == arg[c]
           e == InterruptRequested(t)
<1>1. TypeOK /\ NoRuntimeNoWork /\ ArgsAreTurns
  BY DEF IInv
<1>2. open = "ready" /\ open' = open /\ UNCHANGED <<fresh, accepted, announced>>
  BY <1>1, BusyMeansReady DEF RequestInterrupt, At, history
<1>3. t \in Turns
  BY <1>1 DEF ArgsAreTurns, AboutATurn, RequestInterrupt, At
<1>4. Writes(e)
  BY <1>2 DEF Writes, RequestInterrupt, Succeeds, AppendFails
<1>5. CASE Succeeds(e) /\ Goto(c, "cancel")
  <2>1. Moves(c, "cancel") /\ arg'[c] = t
    BY <1>1, <1>3, <1>5, GotoMoves DEF Goto
  <2>2. Promised' \subseteq Promised \union {t}
    BY <1>1, <1>2, <1>3, <2>1, PromiseOne
  <2>3. Asks(t)
    BY <1>2, <1>4, <1>5, <2>2 DEF Asks, Succeeds
  <2> QED
    BY <1>3, <2>3 DEF OfAKind
<1>6. CASE AppendFails(e) /\ Interrupted(c)
  <2>1. PICK label \in Labels \ {"cancel"} : Moves(c, label)
    BY <1>1, <1>3, <1>6, InterruptedMoves
  <2>2. Promised' \subseteq Promised
    BY <1>1, <1>2, <2>1, MovesPromise
  <2>3. Asks(t)
    BY <1>2, <1>4, <2>2 DEF Asks
  <2> QED
    BY <1>3, <2>3 DEF OfAKind
<1> QED
  BY <1>5, <1>6 DEF RequestInterrupt

\* The thread is paused or archived, or is not any more.
LEMMA SetFlagKind ==
  ASSUME IInv, NEW c \in Clients, SetFlag(c)
  PROVE  OfAKind
<1> DEFINE e == Flagged(op[c], At(c, "mark"))
<1>1. TypeOK /\ NoRuntimeNoWork
  BY DEF IInv
<1>2. open = "ready" /\ open' = open /\ UNCHANGED <<fresh, accepted, announced>>
  BY <1>1, BusyMeansReady DEF SetFlag, history
<1>3. Moves(c, "idle")
  BY <1>1, AnswerMoves DEF SetFlag
<1>4. Promised' \subseteq Promised
  BY <1>1, <1>2, <1>3, MovesPromise
<1>5. op[c] \in Asked /\ At(c, "mark") \in BOOLEAN
  BY <1>1 DEF TypeOK, At
<1>6. Notes(e)
  BY <1>2, <1>4, <1>5 DEF Notes, Writes, SetFlag, Succeeds, AppendFails
<1>7. e \in {Flagged(f, on) : f \in Asked, on \in BOOLEAN}
  BY <1>5
<1> QED
  BY <1>6, <1>7 DEF OfAKind

\* A turn is started, perhaps for a parent that does not live to see it.
LEMMA StartKind ==
  ASSUME IInv, NEW c \in Clients, DropStart(c) \/ \E t \in Turns : StartTurn(c, t)
  PROVE  OfAKind
<1>1. TypeOK /\ NoRuntimeNoWork
  BY DEF IInv
<1>2. open = "ready" /\ open' = open /\ UNCHANGED <<accepted, announced>>
  BY <1>1, BusyMeansReady DEF StartTurn, DropStart, At, history
<1>3. Answer(c) \/ (Begin(c, "spawn", "start", arg'[c]) /\ arg'[c] \in Turns)
  BY <1>1 DEF StartTurn, DropStart, Begin, TypeOK
<1>4. \E label \in {"idle", "spawn"} : Moves(c, label)
  BY <1>1, <1>3, BeginMoves, AnswerMoves DEF Asked
<1>5. Promised' \subseteq Promised
  BY <1>1, <1>2, <1>4, MovesPromise
<1>6. \/ UNCHANGED <<disk, readable, mem, dirty, fresh>>
      \/ \E t \in fresh : fresh' = fresh \ {t} /\ (Appended(Started(t)) \/ Abandoned(Started(t)))
  BY DEF StartTurn, DropStart, Succeeds, AppendFails
<1>7. CASE UNCHANGED <<disk, readable, mem, dirty, fresh>>
  BY <1>2, <1>5, <1>7 DEF OfAKind, Quiet, history
<1>8. ASSUME NEW t \in fresh, fresh' = fresh \ {t}, Appended(Started(t)) \/ Abandoned(Started(t))
      PROVE  OfAKind
  <2>1. Begins(t)
    BY <1>2, <1>5, <1>8 DEF Begins, Writes
  <2> QED
    BY <1>1, <2>1 DEF OfAKind, TypeOK
<1> QED
  BY <1>6, <1>7, <1>8

\* The agent appends, returns, is dropped, and the stop hooks are done.
LEMMA AgentKind ==
  ASSUME IInv, NEW t \in Turns,
         AgentAppends(t) \/ AgentAppended(t) \/ AgentReturns(t) \/ AgentDropped(t) \/ HooksDone(t)
  PROVE  OfAKind
<1>1. TypeOK /\ NoRuntimeNoWork
  BY DEF IInv
<1>2. Runs(t)
  BY <1>1, NoTurnAssumption
  DEF AgentAppends, AgentAppended, AgentReturns, AgentDropped, HooksDone, TypeOK, Runs
<1>3. open = "ready" /\ open' = open
  BY <1>1, <1>2, RunningMeansReady
  DEF AgentAppends, AgentAppended, AgentReturns, AgentDropped, HooksDone, runtime
<1>4. UNCHANGED <<clients, fresh, accepted, announced>>
  BY DEF AgentAppends, AgentAppended, AgentReturns, AgentDropped, HooksDone, history
<1>5. Promised' = Promised
  BY <1>4, SamePromises
<1>6. \/ UNCHANGED <<disk, readable, mem, dirty>>
      \/ Appended(Other) \/ Abandoned(Other)
  BY DEF AgentAppends, AgentAppended, AgentReturns, AgentDropped, HooksDone, log, runtime,
         Succeeds, AppendFails
<1>7. CASE UNCHANGED <<disk, readable, mem, dirty>>
  BY <1>3, <1>4, <1>5, <1>7 DEF OfAKind, Quiet, history
<1>8. CASE Appended(Other) \/ Abandoned(Other)
  <2>1. Notes(Other)
    BY <1>3, <1>4, <1>5, <1>8 DEF Notes, Writes
  <2> QED
    BY <2>1 DEF OfAKind
<1> QED
  BY <1>6, <1>7, <1>8

\* An end that is recorded changes the memory; it is announced then, and only then.
LEMMA EndIsFinished ==
  ASSUME TypeOK, open # "closed", open' # "closed", UNCHANGED <<fresh, accepted>>,
         Promised' \subseteq Promised,
         NEW t \in Turns, NEW s \in Statuses, mem.active = t, mem.asked => s = "interrupted",
         \/ Appended(Completed(t, s)) /\ announced' = [announced EXCEPT ![t] = s]
         \/ Abandoned(Completed(t, s)) /\ announced' = announced
  PROVE  Finishes(t, s)
<1>1. mem \in ThreadStates /\ t # NoTurn
  BY NoTurnAssumption DEF TypeOK
<1>2. Apply(mem, Completed(t, s)).active = NoTurn
  BY <1>1, ApplyCompleted
<1>3. CASE Appended(Completed(t, s)) /\ announced' = [announced EXCEPT ![t] = s]
  BY <1>1, <1>2, <1>3 DEF Finishes, Writes, Appended
<1>4. CASE Abandoned(Completed(t, s)) /\ announced' = announced
  BY <1>4 DEF Finishes, Writes, Abandoned
<1> QED
  BY <1>3, <1>4

\* complete_turn, whoever calls it.
LEMMA CompletesKind ==
  ASSUME IInv, open # "closed", open' # "closed", UNCHANGED <<fresh, accepted>>,
         Promised' \subseteq Promised,
         NEW t \in Turns, NEW s \in Statuses, Completes(t, s)
  PROVE  OfAKind
<1>1. TypeOK
  BY DEF IInv
<1>2. CASE NothingToComplete(t)
  BY <1>2 DEF NothingToComplete, OfAKind, Quiet, log, history
<1>3. CASE CompletesTurn(t, s) \/ CompletionLost(t, s)
  <2>1. Resolve(s) \in Statuses /\ (mem.asked => Resolve(s) = "interrupted")
    BY DEF Resolve, Statuses
  <2>2. Finishes(t, Resolve(s))
    BY <1>1, <1>3, <2>1, EndIsFinished
    DEF CompletesTurn, CompletionLost, Succeeds, AppendFails, AnnouncedAfterError
  <2> QED
    BY <2>1, <2>2 DEF OfAKind
<1> QED
  BY <1>2, <1>3 DEF Completes

\* run_turn, pause and archive end a turn.
LEMMA CompleteKind ==
  ASSUME IInv, (\E t \in Turns : CompleteTurn(t)) \/ (\E c \in Clients : ForceComplete(c))
  PROVE  OfAKind
<1>1. TypeOK /\ NoRuntimeNoWork /\ ArgsAreTurns
  BY DEF IInv
<1>2. ASSUME NEW t \in Turns, CompleteTurn(t)
      PROVE  OfAKind
  <2>1. Completes(t, task[t]) /\ task[t] \in Statuses /\ UNCHANGED <<open, clients, fresh, accepted>>
    BY <1>2 DEF CompleteTurn, Completes
  <2>2. open = "ready"
    BY <1>1, <2>1, RunningMeansReady DEF Runs
  <2>3. Promised' = Promised
    BY <2>1, SamePromises
  <2> QED
    BY <2>1, <2>2, <2>3, CompletesKind
<1>3. ASSUME NEW c \in Clients, ForceComplete(c)
      PROVE  OfAKind
  <2>1. Completes(arg[c], "interrupted") /\ UNCHANGED <<open, fresh, accepted>>
    BY <1>3 DEF ForceComplete, Completes
  <2>2. arg[c] \in Turns /\ open = "ready" /\ "interrupted" \in Statuses
    BY <1>1, <1>3, BusyMeansReady DEF ForceComplete, At, ArgsAreTurns, AboutATurn, Statuses
  <2>3. \E label \in {"hooks", "recheck"} : Goto(c, label)
    BY <1>3 DEF ForceComplete
  <2>4. \E label \in {"hooks", "recheck"} : Moves(c, label)
    BY <1>1, <2>2, <2>3, GotoMoves
  <2>5. Promised' \subseteq Promised
    BY <1>1, <2>1, <2>4, MovesPromise
  <2> QED
    BY <2>1, <2>2, <2>5, CompletesKind
<1> QED
  BY <1>2, <1>3

\* Recovery ends the turn that was active, and a runtime goes or dies.
LEMMA RuntimeKind ==
  ASSUME IInv, RecoverTurn \/ DropRuntime \/ Crash
  PROVE  OfAKind
<1>1. TypeOK
  BY DEF IInv
<1>2. CASE RecoverTurn
  <2>1. Promised' = Promised
    BY <1>2, SamePromises DEF RecoverTurn
  <2>2. open = "recovering" /\ open' = "ready" /\ UNCHANGED <<fresh, accepted>>
    BY <1>2 DEF RecoverTurn
  <2>3. CASE mem.active = NoTurn
    BY <1>2, <2>1, <2>2, <2>3 DEF RecoverTurn, OfAKind, Quiet, log, history
  <2>4. CASE mem.active # NoTurn
    <3>1. mem.active \in Turns
      BY <1>1, <2>4 DEF TypeOK, ThreadStates
    <3>2. RecoveredStatus \in Statuses /\ (mem.asked => RecoveredStatus = "interrupted")
      BY DEF RecoveredStatus, Statuses
    <3>3. Finishes(mem.active, RecoveredStatus)
      BY <1>1, <1>2, <2>1, <2>2, <2>4, <3>1, <3>2, EndIsFinished
      DEF RecoverTurn, Succeeds, AppendFails
    <3> QED
      BY <3>1, <3>2, <3>3 DEF OfAKind
  <2> QED
    BY <2>3, <2>4
<1>3. CASE DropRuntime
  <2>1. Promised' = Promised
    BY <1>3, SamePromises DEF DropRuntime, history
  <2> QED
    BY <1>3, <2>1 DEF OfAKind, Closes, DropRuntime, log, history
<1>4. CASE Crash
  <2>1. Promised' \subseteq Promised
    BY <1>4 DEF Promised, Crash, At, history
  <2> QED
    BY <1>4, <2>1 DEF OfAKind, Closes, Crash, log, history
<1> QED
  BY <1>2, <1>3, <1>4

\* Every step is of a kind.
LEMMA NextKind ==
  ASSUME IInv, MemorySound, Next
  PROVE  OfAKind
<1>1. ASSUME NEW c \in Clients, Serve(c) \/ DropStart(c) \/ GiveUp(c)
      PROVE  OfAKind
  BY <1>1, WaitingKind, AcceptKind, StartKind, RequestInterruptKind, CompleteKind, SetFlagKind
  DEF Serve, StartStep, InterruptStep, StopStep
<1>2. ASSUME NEW t \in Turns, RunTurn(t)
      PROVE  OfAKind
  BY <1>2, AgentKind, CompleteKind DEF RunTurn, EndTurn
<1>3. CASE Runtime \/ Crash
  BY <1>3, RuntimeKind DEF Runtime, OfAKind
<1> QED
  BY <1>1, <1>2, <1>3, AskKind DEF Next

-----------------------------------------------------------------------------
(* The memory stays sound and the file near it.                            *)

\* What an event that is written may make of the memory.
LEMMA WrittenMemory ==
  ASSUME NEW e, Writes(e)
  PROVE  /\ Legal(mem, e)
         /\ mem' = mem \/ (Appended(e) /\ mem' = Apply(mem, e))
         /\ Appended(e) => mem' = Apply(mem, e)
  BY DEF Writes, Appended, Abandoned

\* Whatever is written, the memory stays sound.
LEMMA MemoryStaysSound ==
  ASSUME IInv, MemorySound, OfAKind
  PROVE  MemorySound'
<1> USE DEF MemorySound
<1>1. TypeOK /\ LogAndMemory /\ fresh \subseteq Turns
      /\ announced \in [Turns -> Statuses \union {NoStatus}]
  BY DEF IInv, TypeOK
<1>2. CASE Quiet
  BY <1>2, WeakerSound DEF Quiet, history
<1>3. ASSUME NEW t \in Turns, Accepts(t) PROVE MemorySound'
  BY <1>3 DEF Accepts, Sound
<1>4. ASSUME NEW e \in {Other} \union {Flagged(f, on) : f \in Asked, on \in BOOLEAN}, Notes(e)
      PROVE  MemorySound'
  <2>1. Writes(e) /\ fresh' = fresh /\ announced' = announced /\ Promised' \subseteq Promised
        /\ Sound(mem, fresh, announced, Promised)
    BY <1>4 DEF Notes, Writes
  <2>2. Sound(Apply(mem, e), fresh, announced, Promised)
    BY <2>1, OtherSound, FlaggedSound
  <2> QED
    BY <2>1, <2>2, WrittenMemory, WeakerSound
<1>5. ASSUME NEW t \in Turns, Asks(t) PROVE MemorySound'
  <2>1. Writes(InterruptRequested(t)) /\ fresh' = fresh /\ announced' = announced
        /\ Sound(mem, fresh, announced, Promised)
    BY <1>5 DEF Asks, Writes
  <2>2. CASE Appended(InterruptRequested(t))
    <3>1. Sound(Apply(mem, InterruptRequested(t)), fresh, announced, Promised \union {t})
      BY <1>1, <2>1, WrittenMemory, RequestedSound
    <3>2. Promised' \subseteq Promised \union {t}
      BY <1>5, <2>2 DEF Asks
    <3> QED
      BY <2>1, <2>2, <3>1, <3>2, WrittenMemory, WeakerSound
  <2>3. CASE ~Appended(InterruptRequested(t))
    <3>1. Promised' \subseteq Promised /\ mem' = mem
      BY <1>5, <2>1, <2>3, WrittenMemory DEF Asks
    <3> QED
      BY <2>1, <3>1, WeakerSound
  <2> QED
    BY <2>2, <2>3
<1>6. ASSUME NEW t \in Turns, Begins(t) PROVE MemorySound'
  <2>1. Writes(Started(t)) /\ fresh' = fresh \ {t} /\ announced' = announced /\ t \in fresh
        /\ Promised' \subseteq Promised /\ Sound(mem, fresh, announced, Promised)
    BY <1>6 DEF Begins, Writes
  <2>2. Sound(Apply(mem, Started(t)), fresh \ {t}, announced, Promised)
    BY <1>1, <2>1, WrittenMemory, StartedSound
  <2> QED
    BY <2>1, <2>2, WrittenMemory, WeakerSound
<1>7. ASSUME NEW t \in Turns, NEW s \in Statuses, Finishes(t, s) PROVE MemorySound'
  <2>1. Writes(Completed(t, s)) /\ fresh' = fresh /\ mem.active = t
        /\ (mem.asked => s = "interrupted")
        /\ Promised' \subseteq Promised /\ Sound(mem, fresh, announced, Promised)
    BY <1>7 DEF Finishes, Writes
  <2>2. CASE mem' = mem
    BY <1>7, <2>1, <2>2, WeakerSound DEF Finishes
  <2>3. CASE mem' # mem
    <3>1. announced' = [announced EXCEPT ![t] = s] /\ mem' = Apply(mem, Completed(t, s))
      BY <1>7, <2>1, <2>3, WrittenMemory DEF Finishes
    <3>2. Sound(Apply(mem, Completed(t, s)), fresh, [announced EXCEPT ![t] = s], Promised)
      BY <1>1, <2>1, CompletedSound
    <3> QED
      BY <2>1, <3>1, <3>2, WeakerSound
  <2> QED
    BY <2>2, <2>3
<1>8. CASE LoadThread
  <2>1. Promised' = Promised
    BY <1>8, SamePromises DEF LoadThread, history
  <2> QED
    BY <1>1, <1>8, <2>1 DEF LoadThread, LogAndMemory, history
<1>9. CASE Closes
  BY <1>9 DEF Closes
<1> QED
  BY <1>2, <1>3, <1>4, <1>5, <1>6, <1>7, <1>8, <1>9 DEF OfAKind

\* An event that may be in the file while the memory lacks it puts the file one event
\* ahead.
LEMMA WritesNear ==
  ASSUME IInv, DiskIsNear, NEW e, Writes(e), Ahead(Apply(mem, e), mem)
  PROVE  DiskIsNear'
<1> SUFFICES ASSUME readable' PROVE Ahead(disk', mem')
  BY DEF DiskIsNear
<1>1. open # "closed" /\ LogAndMemory
  BY DEF Writes, IInv
<1>2. CASE Appended(e)
  <2>1. readable /\ ~dirty /\ mem = disk
    BY <1>1, <1>2 DEF Appended, LogAndMemory
  <2> QED
    BY <1>2, <2>1 DEF Appended, Ahead
<1>3. CASE Abandoned(e)
  <2>1. readable /\ mem' = mem /\ Ahead(disk, mem)
    BY <1>1, <1>3 DEF Abandoned, DiskIsNear
  <2>2. \/ disk' \in {disk, mem}
        \/ mem = disk /\ disk' = Apply(disk, e)
    BY <1>1, <1>3, <2>1 DEF Abandoned, LogAndMemory
  <2>3. Ahead(mem, mem)
    BY DEF Ahead
  <2> QED
    BY <2>1, <2>2, <2>3
<1> QED
  BY <1>2, <1>3 DEF Writes

\* Every event is one step of the turns at most.
LEMMA EventIsAhead ==
  ASSUME TypeOK
  PROVE  /\ \A e \in {Other} \union {Flagged(f, on) : f \in Asked, on \in BOOLEAN} :
              Ahead(Apply(mem, e), mem)
         /\ \A t \in Turns : Ahead(Apply(mem, InterruptRequested(t)), mem)
         /\ \A t \in Turns : Legal(mem, Started(t)) => Ahead(Apply(mem, Started(t)), mem)
         /\ \A t \in Turns, s \in Statuses :
              mem.active = t => Ahead(Apply(mem, Completed(t, s)), mem)
<1>1. mem \in ThreadStates
  BY DEF TypeOK
<1>2. ASSUME NEW e \in {Other} \union {Flagged(f, on) : f \in Asked, on \in BOOLEAN}
      PROVE  Ahead(Apply(mem, e), mem)
  BY <1>1, ApplyOther, ApplyFlagged DEF Ahead
<1>3. ASSUME NEW t \in Turns
      PROVE  Ahead(Apply(mem, InterruptRequested(t)), mem)
  BY <1>1, ApplyRequested DEF Ahead
<1>4. ASSUME NEW t \in Turns, Legal(mem, Started(t))
      PROVE  Ahead(Apply(mem, Started(t)), mem)
  <2>1. mem.active = NoTurn
    BY <1>4 DEF Legal, Started
  <2> QED
    BY <1>1, <2>1, ApplyStarted DEF Ahead
<1>5. ASSUME NEW t \in Turns, NEW s \in Statuses, mem.active = t
      PROVE  Ahead(Apply(mem, Completed(t, s)), mem)
  <2> DEFINE r == Apply(mem, Completed(t, s))
  <2>1. r.active = NoTurn /\ r.outcome = [mem.outcome EXCEPT ![mem.active] = s]
    BY <1>1, <1>5, ApplyCompleted
  <2> QED
    BY <1>5, <2>1 DEF Ahead
<1> QED
  BY <1>2, <1>3, <1>4, <1>5

\* The file stays near.
LEMMA DiskStaysNear ==
  ASSUME IInv, DiskIsNear, OfAKind
  PROVE  DiskIsNear'
<1>1. TypeOK
  BY DEF IInv
<1>2. CASE Quiet \/ \E t \in Turns : Accepts(t)
  BY <1>2 DEF Quiet, Accepts, DiskIsNear
<1>3. ASSUME NEW e \in {Other} \union {Flagged(f, on) : f \in Asked, on \in BOOLEAN}, Notes(e)
      PROVE  DiskIsNear'
  BY <1>1, <1>3, EventIsAhead, WritesNear DEF Notes
<1>4. ASSUME NEW t \in Turns, Asks(t) PROVE DiskIsNear'
  BY <1>1, <1>4, EventIsAhead, WritesNear DEF Asks
<1>5. ASSUME NEW t \in Turns, Begins(t) PROVE DiskIsNear'
  <2>1. Writes(Started(t)) /\ Legal(mem, Started(t))
    BY <1>5, WrittenMemory DEF Begins
  <2> QED
    BY <1>1, <2>1, EventIsAhead, WritesNear
<1>6. ASSUME NEW t \in Turns, NEW s \in Statuses, Finishes(t, s) PROVE DiskIsNear'
  BY <1>1, <1>6, EventIsAhead, WritesNear DEF Finishes
<1>7. CASE LoadThread
  BY <1>7 DEF LoadThread, log, DiskIsNear, Ahead
<1>8. CASE Closes
  BY <1>8 DEF Closes, DiskIsNear
<1> QED
  BY <1>2, <1>3, <1>4, <1>5, <1>6, <1>7, <1>8 DEF OfAKind

-----------------------------------------------------------------------------
(* The turns of the thread implement TurnRecord.                           *)

\* What users are shown of turn t in thread state s, and of all turns.
Shows(s, t) == IF s.active = t THEN "active" ELSE s.outcome[t]
ShowsAll(s) == [t \in Turns |-> Shows(s, t)]
Status == [t \in Turns |-> Shown(t)]

\* A running thread shows its memory.
LEMMA ShownOfMemory ==
  /\ open # "closed" => Status = ShowsAll(mem) /\ Lost = FALSE
  /\ open' # "closed" => Status' = ShowsAll(mem') /\ Lost' = FALSE
  /\ open' = "closed" /\ readable' => Status' = ShowsAll(disk') /\ Lost' = FALSE
  /\ open' = "closed" /\ ~readable' => Status' = [t \in Turns |-> "none"] /\ Lost' = TRUE
  BY DEF Status, ShowsAll, Shown, Shows, Lost, Seen, NoStatus

\* A turn begins where none was active, and had no end.
LEMMA TurnBegins ==
  ASSUME NEW m \in ThreadStates, NEW d \in ThreadStates, m.active = NoTurn,
         d.active \in Turns, d.outcome = m.outcome, m.outcome[d.active] = NoStatus
  PROVE  /\ ShowsAll(m)[d.active] = "none"
         /\ \A u \in Turns : ShowsAll(m)[u] # "active"
         /\ ShowsAll(d) = [ShowsAll(m) EXCEPT ![d.active] = "active"]
<1>1. \A u \in Turns : u # NoTurn /\ m.outcome[u] # "active"
  BY NoTurnAssumption DEF ThreadStates, Statuses, NoStatus
<1> QED
  BY <1>1 DEF ShowsAll, Shows, NoStatus

\* The active turn ends.
LEMMA TurnEnds ==
  ASSUME NEW m \in ThreadStates, NEW d \in ThreadStates, NEW s, m.active \in Turns,
         d.active = NoTurn, d.outcome = [m.outcome EXCEPT ![m.active] = s]
  PROVE  /\ ShowsAll(m)[m.active] = "active"
         /\ ShowsAll(d) = [ShowsAll(m) EXCEPT ![m.active] = s]
<1>1. \A u \in Turns : u # NoTurn
  BY NoTurnAssumption
<1>2. m.outcome \in [Turns -> Statuses \union {NoStatus}]
  BY DEF ThreadStates
<1> QED
  BY <1>1, <1>2 DEF ShowsAll, Shows

\* Steps that leave what is shown as it is.
LEMMA StutterMaps ==
  ASSUME TypeOK,
         \/ Quiet
         \/ LoadThread
         \/ \E e \in {Other} \union {Flagged(f, on) : f \in Asked, on \in BOOLEAN} : Notes(e)
         \/ \E t \in Turns : Asks(t)
  PROVE  UNCHANGED Record!vars
<1>1. mem \in ThreadStates
  BY DEF TypeOK
<1>2. CASE Quiet
  BY <1>2 DEF Quiet, history, Record!vars, Shown, Seen, Lost
<1>3. CASE LoadThread
  BY <1>3 DEF LoadThread, log, history, Record!vars, Shown, Seen, Lost
<1>4. ASSUME open # "closed", open' # "closed", accepted' = accepted, announced' = announced,
             mem'.active = mem.active, mem'.outcome = mem.outcome
      PROVE  UNCHANGED Record!vars
  BY <1>4 DEF Record!vars, Shown, Seen, Lost
<1>5. ASSUME NEW e \in {Other} \union {Flagged(f, on) : f \in Asked, on \in BOOLEAN}, Notes(e)
      PROVE  UNCHANGED Record!vars
  <2>1. mem'.active = mem.active /\ mem'.outcome = mem.outcome
    BY <1>1, <1>5, WrittenMemory, ApplyOther, ApplyFlagged DEF Notes
  <2> QED
    BY <1>4, <1>5, <2>1 DEF Notes, Writes
<1>6. ASSUME NEW t \in Turns, Asks(t)
      PROVE  UNCHANGED Record!vars
  <2>1. mem'.active = mem.active /\ mem'.outcome = mem.outcome
    BY <1>1, <1>6, WrittenMemory, ApplyRequested DEF Asks
  <2> QED
    BY <1>4, <1>6, <2>1 DEF Asks, Writes
<1> QED
  BY <1>2, <1>3, <1>5, <1>6

\* interrupt_turn returns Ok for a turn that is active or has ended as Interrupted.
LEMMA AcceptMaps ==
  ASSUME TypeOK, MemorySound, NEW t \in Turns, Accepts(t)
  PROVE  Record!Accept(t) /\ ~Lost
<1>1. open # "closed" /\ open' = open /\ mem' = mem /\ readable' = readable
      /\ announced' = announced /\ accepted' = accepted \union {t} /\ Recorded(mem, t)
  BY DEF Accepts
<1>2. Shown(t) \in {"active", "interrupted"}
  BY <1>1 DEF Shown, Seen, Lost, Recorded
<1>3. UNCHANGED <<Status, Lost>>
  BY <1>1 DEF Status, Shown, Seen, Lost
<1> QED
  BY <1>1, <1>2, <1>3 DEF Record!Accept, Status, Lost

\* A turn begins, unless its append stops early.
LEMMA BeginMaps ==
  ASSUME TypeOK, MemorySound, NEW t \in Turns, Begins(t)
  PROVE  (Record!Begin(t) /\ ~Lost) \/ UNCHANGED Record!vars
<1>1. Writes(Started(t)) /\ open # "closed" /\ open' # "closed" /\ t \in fresh
      /\ UNCHANGED <<accepted, announced>>
  BY DEF Begins, Writes
<1>2. mem \in ThreadStates /\ mem.active = NoTurn /\ mem.outcome[t] = NoStatus
  BY <1>1, WrittenMemory DEF TypeOK, MemorySound, Sound, Legal, Started
<1>3. CASE mem' = mem
  BY <1>1, <1>3 DEF Record!vars, Shown, Seen, Lost
<1>4. CASE mem' = Apply(mem, Started(t))
  <2>1. mem' \in ThreadStates /\ mem'.active = t /\ mem'.outcome = mem.outcome
    BY <1>2, <1>4, ApplyStarted
  <2>2. /\ ShowsAll(mem)[t] = "none" /\ \A u \in Turns : ShowsAll(mem)[u] # "active"
        /\ ShowsAll(mem') = [ShowsAll(mem) EXCEPT ![t] = "active"]
    BY <1>2, <2>1, TurnBegins
  <2>3. Status = ShowsAll(mem) /\ Status' = ShowsAll(mem') /\ Lost = FALSE /\ Lost' = FALSE
    BY <1>1, ShownOfMemory
  <2> QED
    BY <1>1, <2>2, <2>3 DEF Record!Begin, Status
<1> QED
  BY <1>1, <1>3, <1>4, WrittenMemory

\* The active turn ends and its end is announced, unless the append stops early.
LEMMA FinishMaps ==
  ASSUME TypeOK, MemorySound, NEW t \in Turns, NEW s \in Statuses, Finishes(t, s)
  PROVE  (Record!End(t, s) /\ ~Lost) \/ UNCHANGED Record!vars
<1>1. Writes(Completed(t, s)) /\ open # "closed" /\ open' # "closed" /\ accepted' = accepted
      /\ mem.active = t /\ (mem.asked => s = "interrupted")
      /\ Sound(mem, fresh, announced, Promised)
  BY DEF Finishes, Writes, MemorySound
<1>2. CASE mem' = mem
  BY <1>1, <1>2 DEF Finishes, Record!vars, Shown, Seen, Lost
<1>3. CASE mem' # mem
  <2>1. mem' = Apply(mem, Completed(t, s)) /\ announced' = [announced EXCEPT ![t] = s]
    BY <1>1, <1>3, WrittenMemory DEF Finishes
  <2>2. mem \in ThreadStates
    BY DEF TypeOK
  <2>3. mem' \in ThreadStates /\ mem'.active = NoTurn
        /\ mem'.outcome = [mem.outcome EXCEPT ![t] = s]
    BY <2>1, <2>2, ApplyCompleted
  <2>4. ShowsAll(mem)[t] = "active" /\ ShowsAll(mem') = [ShowsAll(mem) EXCEPT ![t] = s]
    BY <1>1, <2>2, <2>3, TurnEnds
  <2>5. Status = ShowsAll(mem) /\ Status' = ShowsAll(mem') /\ Lost = FALSE /\ Lost' = FALSE
    BY <1>1, ShownOfMemory
  <2>6. t \in accepted => s = "interrupted"
    <3>1. t \in accepted => Recorded(mem, t)
      BY <1>1 DEF Promised, Sound
    <3>2. mem.outcome[t] = NoStatus
      BY <1>1, NoTurnAssumption DEF Sound
    <3> QED
      BY <1>1, <3>1, <3>2 DEF Recorded, NoStatus
  <2> QED
    BY <1>1, <2>1, <2>4, <2>5, <2>6 DEF Record!End, Status
<1> QED
  BY <1>2, <1>3

\* The runtime goes: what the file shows now is a step of the turns, or the record is lost.
LEMMA CloseMaps ==
  ASSUME IInv, RecordInv, Closes
  PROVE  (Record!Next /\ ~Lost) \/ UNCHANGED Record!vars
<1>1. open # "closed" /\ open' = "closed" /\ UNCHANGED <<disk, readable, accepted, announced>>
  BY DEF Closes, history
<1>2. mem \in ThreadStates /\ disk \in ThreadStates
  BY DEF IInv, TypeOK
<1>3. Status = ShowsAll(mem) /\ Lost = FALSE
  BY <1>1, ShownOfMemory
<1>4. CASE ~readable
  <2>1. Status' = [t \in Turns |-> "none"] /\ Lost' = TRUE
    BY <1>1, <1>4, ShownOfMemory
  <2>2. Record!Lose
    BY <1>1, <2>1 DEF Record!Lose, Status
  <2> QED
    BY <1>3, <2>2 DEF Record!Next
<1>5. CASE readable
  <2>1. Status' = ShowsAll(disk) /\ Lost' = FALSE
    BY <1>1, <1>5, ShownOfMemory
  <2>2. Ahead(disk, mem) /\ Sound(disk, fresh, announced, Promised)
    BY <1>1, <1>5 DEF RecordInv, DiskIsNear, IInv, LogAndMemory
  <2>3. CASE disk.active = mem.active /\ disk.outcome = mem.outcome
    <3>1. ShowsAll(disk) = ShowsAll(mem)
      BY <2>3 DEF ShowsAll, Shows
    <3> QED
      BY <1>1, <1>3, <2>1, <3>1 DEF Record!vars, Status
  <2>4. CASE mem.active = NoTurn /\ disk.active \in Turns /\ disk.outcome = mem.outcome
    <3>1. mem.outcome[disk.active] = NoStatus
      BY <2>2, <2>4, NoTurnAssumption DEF Sound
    <3>2. /\ ShowsAll(mem)[disk.active] = "none" /\ \A u \in Turns : ShowsAll(mem)[u] # "active"
          /\ ShowsAll(disk) = [ShowsAll(mem) EXCEPT ![disk.active] = "active"]
      BY <1>2, <2>4, <3>1, TurnBegins
    <3>3. Record!Begin(disk.active)
      BY <1>1, <1>3, <2>1, <2>4, <3>2 DEF Record!Begin, Status
    <3> QED
      BY <1>3, <2>4, <3>3 DEF Record!Next
  <2>5. ASSUME NEW s \in Statuses, mem.active \in Turns, disk.active = NoTurn,
               disk.outcome = [mem.outcome EXCEPT ![mem.active] = s]
        PROVE  Record!Next
    <3> DEFINE t == mem.active
    <3>1. ShowsAll(mem)[t] = "active" /\ ShowsAll(disk) = [ShowsAll(mem) EXCEPT ![t] = s]
      BY <1>2, <2>5, TurnEnds
    <3>2. t \in accepted => s = "interrupted"
      <4>1. t \in accepted => Recorded(disk, t)
        BY <2>2, <2>5 DEF Promised, Sound
      <4>2. disk.outcome[t] = s /\ disk.active # t
        BY <1>2, <2>5, NoTurnAssumption DEF ThreadStates
      <4> QED
        BY <4>1, <4>2 DEF Recorded
    <3>3. Record!End(t, s)
      BY <1>1, <1>3, <2>1, <2>5, <3>1, <3>2 DEF Record!End, Status
    <3> QED
      BY <1>3, <2>5, <3>3 DEF Record!Next, Record!Ends, Statuses
  <2> QED
    BY <1>3, <2>2, <2>3, <2>4, <2>5 DEF Ahead
<1> QED
  BY <1>4, <1>5

\* Every step of the thread is a step of its record, or none.
LEMMA StepMaps ==
  ASSUME IInv, RecordInv, Next
  PROVE  (Record!Next /\ ~Lost) \/ UNCHANGED Record!vars
<1>1. TypeOK /\ MemorySound /\ OfAKind
  BY NextKind DEF IInv, RecordInv
<1>2. ASSUME NEW t \in Turns, Accepts(t) \/ Begins(t)
      PROVE  (Record!Next /\ ~Lost) \/ UNCHANGED Record!vars
  <2>1. CASE Accepts(t)
    BY <1>1, <2>1, AcceptMaps DEF Record!Next
  <2>2. CASE Begins(t)
    BY <1>1, <2>2, BeginMaps DEF Record!Next
  <2> QED
    BY <1>2, <2>1, <2>2
<1>3. ASSUME NEW t \in Turns, NEW s \in Statuses, Finishes(t, s)
      PROVE  (Record!Next /\ ~Lost) \/ UNCHANGED Record!vars
  BY <1>1, <1>3, FinishMaps DEF Record!Next, Record!Ends, Statuses
<1>4. CASE Closes
  BY <1>4, CloseMaps
<1>5. CASE \/ Quiet
           \/ LoadThread
           \/ \E e \in {Other} \union {Flagged(f, on) : f \in Asked, on \in BOOLEAN} : Notes(e)
           \/ \E t \in Turns : Asks(t)
  BY <1>1, <1>5, StutterMaps
<1> QED
  BY <1>1, <1>2, <1>3, <1>4, <1>5 DEF OfAKind

\* The memory is sound even when the file is not readable any more, and the file is
\* never further than one event from it.
THEOREM RecordInvariance == Spec => []RecordInv
<1>1. Init => RecordInv
  BY DEF Init, RecordInv, MemorySound, DiskIsNear
<1>2. IInv /\ RecordInv /\ [Next]_vars => RecordInv'
  <2>1. ASSUME IInv, RecordInv, Next PROVE RecordInv'
    BY <2>1, NextKind, MemoryStaysSound, DiskStaysNear DEF RecordInv
  <2>2. ASSUME RecordInv, UNCHANGED vars PROVE RecordInv'
    BY <2>2 DEF vars, log, runtime, clients, history, RecordInv, MemorySound, DiskIsNear,
                Promised, At
  <2> QED
    BY <2>1, <2>2
<1> QED
  BY <1>1, <1>2, Invariance, PTL DEF Spec

\* Whatever interleaves, fails, is dropped or crashes, the turns of the thread are begun,
\* interrupted, ended and announced as TurnRecord says.
THEOREM TurnsImplementRecord == Spec => ImplementsTurnRecord
<1>1. Init => Record!Init
  BY NoTurnAssumption DEF Init, NewThread, NoStatus, Record!Init, Shown, Seen, Lost
<1>2. IInv /\ RecordInv /\ [Next]_vars => [Record!Next]_Record!vars
  <2>1. ASSUME IInv, RecordInv, Next PROVE [Record!Next]_Record!vars
    BY <2>1, StepMaps
  <2>2. ASSUME UNCHANGED vars PROVE UNCHANGED Record!vars
    BY <2>2 DEF vars, log, runtime, history, Record!vars, Shown, Seen, Lost
  <2> QED
    BY <2>1, <2>2
<1> QED
  BY <1>1, <1>2, Invariance, RecordInvariance, PTL DEF Spec, ImplementsTurnRecord, Record!Spec

\* turn/completed is sent once for a turn: no second completion, by run_turn, a stop or
\* recovery, announces another end.
THEOREM AnnouncedOnce ==
  Spec => [][\A t \in Turns : announced[t] # NoStatus => announced'[t] = announced[t]]_vars
<1> DEFINE Keeps == \A t \in Turns : announced[t] # NoStatus => announced'[t] = announced[t]
<1>1. ASSUME IInv, RecordInv, Next PROVE Keeps
  <2>1. OfAKind /\ MemorySound /\ announced \in [Turns -> Statuses \union {NoStatus}]
    BY <1>1, NextKind DEF RecordInv, IInv, TypeOK
  <2>2. ASSUME NEW t \in Turns, NEW s \in Statuses, Finishes(t, s) PROVE Keeps
    <3>1. Sound(mem, fresh, announced, Promised) /\ mem.active = t
      BY <2>1, <2>2 DEF Finishes, Writes, MemorySound
    <3>2. announced[t] = NoStatus
      BY <3>1, NoTurnAssumption DEF Sound
    <3> QED
      BY <2>1, <2>2, <3>2 DEF Finishes
  <2> QED
    BY <2>1, <2>2 DEF OfAKind, Quiet, Notes, Accepts, Asks, Begins, LoadThread, Closes, history
<1>2. IInv /\ RecordInv /\ [Next]_vars => [Keeps]_vars
  BY <1>1
<1> QED
  BY <1>2, Invariance, RecordInvariance, PTL DEF Spec
=============================================================================
