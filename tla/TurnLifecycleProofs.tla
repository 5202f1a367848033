------------------------ MODULE TurnLifecycleProofs ------------------------
(***************************************************************************)
(* An accepted interrupt wins, and an announced status is final: proofs    *)
(* about TurnLifecycle for any number of turns, clients, failures and      *)
(* crashes.                                                                *)
(***************************************************************************)
EXTENDS TurnLifecycle, TLAPS

-----------------------------------------------------------------------------
(* What applying each event gives.                                         *)

\* ThreadState::apply on TurnStarted.
LEMMA ApplyStarted ==
  ASSUME NEW s \in ThreadStates, NEW t \in Turns
  PROVE  LET r == Apply(s, Started(t))
         IN /\ r \in ThreadStates
            /\ r.active = t /\ ~r.asked /\ r.outcome = s.outcome
  BY DEF Apply, Started, ThreadStates

\* ThreadState::apply on TurnInterruptRequested.
LEMMA ApplyRequested ==
  ASSUME NEW s \in ThreadStates, NEW t \in Turns
  PROVE  LET r == Apply(s, InterruptRequested(t))
         IN /\ r \in ThreadStates
            /\ r.active = s.active /\ r.asked /\ r.outcome = s.outcome
  BY DEF Apply, InterruptRequested, ThreadStates

\* ThreadState::apply on TurnCompleted.
LEMMA ApplyCompleted ==
  ASSUME NEW s \in ThreadStates, NEW t \in Turns, NEW st \in Statuses
  PROVE  LET r == Apply(s, Completed(t, st))
         IN /\ r \in ThreadStates
            /\ r.active = NoTurn /\ ~r.asked
            /\ r.outcome = [s.outcome EXCEPT ![t] = st]
  BY DEF Apply, Completed, ThreadStates

\* ThreadState::apply on the events that pause or archive, or undo it.
LEMMA ApplyFlagged ==
  ASSUME NEW s \in ThreadStates, NEW f \in Asked, NEW on \in BOOLEAN
  PROVE  LET r == Apply(s, Flagged(f, on))
         IN /\ r \in ThreadStates
            /\ r.active = s.active /\ r.asked = s.asked /\ r.outcome = s.outcome
  BY DEF Apply, Flagged, ThreadStates, Asked, Stops

\* ThreadState::apply on an event of the agent's work.
LEMMA ApplyOther ==
  ASSUME NEW s \in ThreadStates
  PROVE  LET r == Apply(s, Other)
         IN /\ r \in ThreadStates
            /\ r.active = s.active /\ r.asked = s.asked /\ r.outcome = s.outcome
  BY DEF Apply, Other, ThreadStates

-----------------------------------------------------------------------------
(* Every event keeps the state sound.                                      *)

\* Fewer new ids and fewer promises ask less.
LEMMA WeakerSound ==
  ASSUME NEW s, NEW new, NEW ann, NEW promised,
         NEW new2 \in SUBSET new, NEW promised2 \in SUBSET promised,
         Sound(s, new, ann, promised)
  PROVE  Sound(s, new2, ann, promised2)
  BY DEF Sound

\* start_turn uses a new id, on a thread without an active turn.
LEMMA StartedSound ==
  ASSUME NEW s, NEW new \in SUBSET Turns, NEW ann, NEW promised, NEW t \in new,
         Sound(s, new, ann, promised), Legal(s, Started(t))
  PROVE  Sound(Apply(s, Started(t)), new \ {t}, ann, promised)
<1> DEFINE r == Apply(s, Started(t))
<1>1. s \in ThreadStates /\ t \in Turns
  BY DEF Sound
<1>2. r \in ThreadStates /\ r.active = t /\ ~r.asked /\ r.outcome = s.outcome
  BY <1>1, ApplyStarted
<1>3. s.active = NoTurn
  BY DEF Legal, Started
<1>4. ASSUME NEW u \in promised PROVE Recorded(r, u)
  <2>1. ~s.asked
    BY <1>3 DEF Sound
  <2> QED
    BY <1>2, <2>1 DEF Sound, Recorded
<1> QED
  BY <1>1, <1>2, <1>4 DEF Sound

\* interrupt_turn records the interrupt of the active turn.
LEMMA RequestedSound ==
  ASSUME NEW s, NEW new \in SUBSET Turns, NEW ann, NEW promised, NEW t \in Turns,
         Sound(s, new, ann, promised), Legal(s, InterruptRequested(t))
  PROVE  Sound(Apply(s, InterruptRequested(t)), new, ann, promised \union {t})
<1> DEFINE r == Apply(s, InterruptRequested(t))
<1>1. s \in ThreadStates
  BY DEF Sound
<1>2. r \in ThreadStates /\ r.active = s.active /\ r.asked /\ r.outcome = s.outcome
  BY <1>1, ApplyRequested
<1>3. s.active = t
  BY DEF Legal, InterruptRequested
<1> QED
  BY <1>2, <1>3, NoTurnAssumption DEF Sound, Recorded

\* TurnCompleted of the active turn, with the status resolve_turn_completion gives;
\* announced or, when the append failed, not.
LEMMA CompletedSound ==
  ASSUME NEW s, NEW new \in SUBSET Turns, NEW promised, NEW t \in Turns, NEW st \in Statuses,
         NEW ann \in [Turns -> Statuses \union {NoStatus}],
         Sound(s, new, ann, promised), s.active = t, s.asked => st = "interrupted"
  PROVE  /\ Sound(Apply(s, Completed(t, st)), new, ann, promised)
         /\ Sound(Apply(s, Completed(t, st)), new, [ann EXCEPT ![t] = st], promised)
         /\ s.asked => Recorded(Apply(s, Completed(t, st)), t)
<1> DEFINE r == Apply(s, Completed(t, st))
<1>1. s \in ThreadStates
  BY DEF Sound
<1>2. r \in ThreadStates /\ r.active = NoTurn /\ ~r.asked
  BY <1>1, ApplyCompleted
<1>3. s.outcome \in [Turns -> Statuses \union {NoStatus}] /\ r.outcome = [s.outcome EXCEPT ![t] = st]
  BY <1>1, ApplyCompleted DEF ThreadStates
<1>4. t \notin new /\ s.outcome[t] = NoStatus
  BY NoTurnAssumption DEF Sound
<1>5. ASSUME NEW u \in promised PROVE Recorded(r, u)
  <2>1. Recorded(s, u)
    BY DEF Sound
  <2>2. CASE u = t
    <3>1. s.asked
      BY <1>4, <2>1, <2>2 DEF Recorded, NoStatus
    <3> QED
      BY <1>3, <2>2, <3>1 DEF Recorded
  <2>3. CASE u # t
    <3>1. s.outcome[u] = "interrupted"
      BY <2>1, <2>3 DEF Recorded
    <3>2. u \in DOMAIN s.outcome => r.outcome[u] = s.outcome[u]
      BY <1>3, <2>3
    <3> QED
      BY <1>3, <3>1, <3>2, <2>3 DEF Recorded
  <2> QED
    BY <2>2, <2>3
<1>6. \A u \in new : r.outcome[u] = NoStatus
  BY <1>3, <1>4 DEF Sound
<1>7. \A u \in Turns : ann[u] # NoStatus => r.outcome[u] = ann[u]
  BY <1>3, <1>4 DEF Sound
<1>8. \A u \in Turns : [ann EXCEPT ![t] = st][u] # NoStatus => r.outcome[u] = [ann EXCEPT ![t] = st][u]
  BY <1>3, <1>7
<1>9. s.asked => Recorded(r, t)
  BY <1>3 DEF Recorded
<1> QED
  BY <1>2, <1>5, <1>6, <1>7, <1>8, <1>9 DEF Sound

\* Pausing, archiving and their opposites leave the turns alone.
LEMMA FlaggedSound ==
  ASSUME NEW s, NEW new, NEW ann, NEW promised, NEW f \in Asked, NEW on \in BOOLEAN,
         Sound(s, new, ann, promised)
  PROVE  /\ Sound(Apply(s, Flagged(f, on)), new, ann, promised)
         /\ s.asked => Recorded(Apply(s, Flagged(f, on)), s.active)
<1> DEFINE r == Apply(s, Flagged(f, on))
<1>1. r \in ThreadStates /\ r.active = s.active /\ r.asked = s.asked /\ r.outcome = s.outcome
  BY ApplyFlagged DEF Sound
<1> QED
  BY <1>1 DEF Sound, Recorded

\* So do the events of the agent's work.
LEMMA OtherSound ==
  ASSUME NEW s, NEW new, NEW ann, NEW promised,
         Sound(s, new, ann, promised)
  PROVE  /\ Sound(Apply(s, Other), new, ann, promised)
         /\ s.asked => Recorded(Apply(s, Other), s.active)
<1> DEFINE r == Apply(s, Other)
<1>1. r \in ThreadStates /\ r.active = s.active /\ r.asked = s.asked /\ r.outcome = s.outcome
  BY ApplyOther DEF Sound
<1> QED
  BY <1>1 DEF Sound, Recorded

-----------------------------------------------------------------------------
(* What each kind of step does to the file and the memory.                 *)

\* A step that appends nothing and promises nothing new keeps them in order.
LEMMA QuietKeeps ==
  ASSUME LogAndMemory, UNCHANGED <<disk, readable, mem, dirty, open, fresh, announced>>,
         Promised' \subseteq Promised
  PROVE  LogAndMemory'
<1> SUFFICES ASSUME readable PROVE LogAndMemory'
  BY DEF LogAndMemory
<1>1. Sound(disk, fresh, announced, Promised')
  BY WeakerSound DEF LogAndMemory
<1>2. open # "closed" => Sound(mem, fresh, announced, Promised')
  BY WeakerSound DEF LogAndMemory
<1> QED
  BY <1>1, <1>2 DEF LogAndMemory

\* An append that succeeds leaves the file as the memory, or unreadable.
LEMMA AppendedKeeps ==
  ASSUME LogAndMemory, open # "closed", NEW e, Appended(e),
         readable /\ mem = disk => Sound(Apply(mem, e), fresh', announced', Promised')
  PROVE  LogAndMemory'
<1> SUFFICES ASSUME readable' PROVE LogAndMemory'
  BY DEF LogAndMemory
<1>1. readable /\ ~dirty /\ mem = disk
  BY DEF Appended, LogAndMemory
<1>2. mem' = Apply(mem, e) /\ disk' = mem'
  BY <1>1 DEF Appended
<1>3. Sound(mem', fresh', announced', Promised')
  BY <1>1, <1>2
<1> QED
  BY <1>2, <1>3 DEF LogAndMemory, Recorded

\* An append that stops early leaves the file as it was, as the memory, or with
\* the event that the memory lacks.
LEMMA AbandonedKeeps ==
  ASSUME LogAndMemory, open # "closed", NEW e, Abandoned(e),
         fresh' \subseteq fresh, announced' = announced, Promised' \subseteq Promised,
         readable /\ mem = disk =>
           /\ Sound(Apply(mem, e), fresh', announced', Promised')
           /\ mem.asked => Recorded(Apply(mem, e), mem.active)
  PROVE  LogAndMemory'
<1> SUFFICES ASSUME readable' PROVE LogAndMemory'
  BY DEF LogAndMemory
<1>1. readable /\ mem' = mem
  BY DEF Abandoned
<1>2. Sound(disk, fresh', announced', Promised') /\ Sound(mem, fresh', announced', Promised')
  BY <1>1, WeakerSound DEF LogAndMemory
<1>3. mem.asked => Recorded(disk, mem.active) /\ Recorded(mem, mem.active)
  BY <1>1 DEF LogAndMemory, Recorded
<1>4. ~dirty => mem = disk
  BY <1>1 DEF LogAndMemory
<1>5. \/ disk' = disk /\ dirty' = dirty
      \/ disk' \in {disk, mem} /\ dirty'
      \/ ~dirty /\ disk' = Apply(disk, e) /\ dirty'
  BY DEF Abandoned
<1>6. Sound(disk', fresh', announced', Promised')
  BY <1>1, <1>2, <1>4, <1>5
<1>7. mem'.asked => Recorded(disk', mem'.active)
  BY <1>1, <1>3, <1>4, <1>5
<1>8. ~dirty' => mem' = disk'
  BY <1>1, <1>4, <1>5
<1> QED
  BY <1>1, <1>2, <1>6, <1>7, <1>8 DEF LogAndMemory

-----------------------------------------------------------------------------
(* Types, and the moves of one client.                                     *)

\* The state of a thread without events.
LEMMA NewThreadType == NewThread \in ThreadStates
  BY DEF NewThread, ThreadStates

\* What an append leaves has the types of the file and the memory.
LEMMA AppendTypes ==
  ASSUME TypeOK, NEW e, Appended(e) \/ Abandoned(e),
         \A s \in ThreadStates : Apply(s, e) \in ThreadStates
  PROVE  disk' \in ThreadStates /\ mem' \in ThreadStates /\ {readable', dirty'} \subseteq BOOLEAN
<1>1. disk \in ThreadStates /\ mem \in ThreadStates /\ {readable, dirty} \subseteq BOOLEAN
  BY DEF TypeOK
<1>2. CASE Appended(e)
  BY <1>1, <1>2, NewThreadType DEF Appended
<1>3. CASE Abandoned(e)
  BY <1>1, <1>3, NewThreadType DEF Abandoned
<1> QED
  BY <1>2, <1>3

\* The types of what an append that counts failures leaves.
LEMMA CountedTypes ==
  ASSUME TypeOK, NEW e, Succeeds(e) \/ AppendFails(e),
         \A s \in ThreadStates : Apply(s, e) \in ThreadStates
  PROVE  /\ disk' \in ThreadStates /\ mem' \in ThreadStates
         /\ {readable', dirty'} \subseteq BOOLEAN
         /\ failures' \in 0..MaxFailures
<1>1. disk' \in ThreadStates /\ mem' \in ThreadStates /\ {readable', dirty'} \subseteq BOOLEAN
  BY AppendTypes DEF Succeeds, AppendFails
<1>2. failures' \in 0..MaxFailures
  BY BoundsAssumption DEF TypeOK, Succeeds, AppendFails
<1> QED
  BY <1>1, <1>2

\* Client c goes to a label, about a turn where the label needs one.
Moves(c, label) ==
  /\ pc' = [pc EXCEPT ![c] = label]
  /\ op' \in [Clients -> Asked]
  /\ arg' \in [Clients -> Turns \union {NoTurn}]
  /\ \A d \in Clients \ {c} : arg'[d] = arg[d]
  /\ label \in AboutATurn => arg'[c] \in Turns

\* A request begins, or ends.
LEMMA BeginMoves ==
  ASSUME TypeOK, NEW c \in Clients, NEW label, NEW what \in Asked,
         NEW t \in Turns \union {NoTurn}, label \in AboutATurn => t \in Turns,
         Begin(c, label, what, t)
  PROVE  Moves(c, label)
  BY DEF TypeOK, Begin, Moves

\* A request is answered.
LEMMA AnswerMoves ==
  ASSUME TypeOK, NEW c \in Clients, Answer(c)
  PROVE  Moves(c, "idle")
  BY BeginMoves DEF Answer, Asked, AboutATurn

\* A request goes on.
LEMMA GotoMoves ==
  ASSUME TypeOK, NEW c \in Clients, NEW label, label \in AboutATurn => arg[c] \in Turns,
         Goto(c, label)
  PROVE  Moves(c, label)
  BY DEF TypeOK, Goto, Moves

\* The clients' part of the invariant after a move.
LEMMA MovesTypes ==
  ASSUME TypeOK, ArgsAreTurns, NEW c \in Clients, NEW label \in Labels, Moves(c, label)
  PROVE  /\ pc' \in [Clients -> Labels] /\ op' \in [Clients -> Asked]
         /\ arg' \in [Clients -> Turns \union {NoTurn}]
         /\ ArgsAreTurns'
  BY DEF TypeOK, Moves, ArgsAreTurns

\* A move elsewhere than to the cancellation of a turn promises nothing.
LEMMA MovesPromise ==
  ASSUME TypeOK, NEW c \in Clients, NEW label, Moves(c, label), label # "cancel",
         accepted' = accepted
  PROVE  Promised' \subseteq Promised
<1> SUFFICES ASSUME NEW t \in Turns, NEW d \in Clients, At(d, "cancel")', (arg[d] = t)'
             PROVE  At(d, "cancel") /\ arg[d] = t
  BY DEF Promised
<1>1. d # c
  BY DEF At, Moves, TypeOK
<1> QED
  BY <1>1 DEF At, Moves, TypeOK

\* A client that moves and touches nothing else keeps the invariant.
LEMMA ClientKeeps ==
  ASSUME IInv, NEW c \in Clients, NEW label \in Labels, Moves(c, label),
         label # "cancel", open = "ready" \/ label = "idle",
         UNCHANGED <<log, runtime, turns, fresh, history, failures, crashes>>
  PROVE  IInv'
<1> USE DEF log, runtime, turns, history
<1>1. TypeOK /\ LogAndMemory /\ NoRuntimeNoWork /\ AskedOfSlot /\ ArgsAreTurns
  BY DEF IInv
<1>2. pc' \in [Clients -> Labels] /\ op' \in [Clients -> Asked]
      /\ arg' \in [Clients -> Turns \union {NoTurn}] /\ ArgsAreTurns'
  BY <1>1, MovesTypes
<1>3. TypeOK'
  BY <1>1, <1>2 DEF TypeOK
<1>4. LogAndMemory'
  <2>1. Promised' \subseteq Promised
    BY <1>1, MovesPromise
  <2> QED
    BY <1>1, <2>1, QuietKeeps
<1>5. NoRuntimeNoWork'
  BY <1>1 DEF Runs, NoRuntimeNoWork, At, Moves, TypeOK
<1>6. AskedOfSlot'
  BY <1>1 DEF AskedOfSlot
<1> QED
  BY <1>2, <1>3, <1>4, <1>5, <1>6 DEF IInv

-----------------------------------------------------------------------------
(* The steps of a request that append nothing.                             *)

\* A client with a request in hand has a runtime.
LEMMA BusyMeansReady ==
  ASSUME NoRuntimeNoWork, NEW c \in Clients, pc[c] # "idle"
  PROVE  open = "ready"
  BY DEF NoRuntimeNoWork, At

\* So has whoever finds a usable runtime.
LEMMA UsableMeansReady ==
  ASSUME NoRuntimeNoWork, Usable
  PROVE  open = "ready"
  BY DEF NoRuntimeNoWork, Usable

\* A request that is answered without touching anything else.
LEMMA AnswerKeeps ==
  ASSUME IInv, NEW c \in Clients, Answer(c),
         UNCHANGED <<log, runtime, turns, fresh, history, failures, crashes>>
  PROVE  IInv'
<1>1. Moves(c, "idle")
  BY AnswerMoves DEF IInv
<1> QED
  BY <1>1, ClientKeeps DEF Labels

\* A request in hand that goes on without touching anything else.
LEMMA GotoKeeps ==
  ASSUME IInv, NEW c \in Clients, pc[c] # "idle", NEW label \in Labels \ {"cancel"},
         label \in AboutATurn => arg[c] \in Turns, Goto(c, label),
         UNCHANGED <<log, runtime, turns, fresh, history, failures, crashes>>
  PROVE  IInv'
<1>1. Moves(c, label)
  BY GotoMoves DEF IInv
<1>2. open = "ready"
  BY BusyMeansReady DEF IInv
<1> QED
  BY <1>1, <1>2, ClientKeeps

\* A request that begins.
LEMMA BeginKeeps ==
  ASSUME IInv, NEW c \in Clients, Usable, NEW label \in Labels \ {"cancel"},
         NEW what \in Asked, NEW t \in Turns \union {NoTurn},
         label \in AboutATurn => t \in Turns, Begin(c, label, what, t),
         UNCHANGED <<log, runtime, turns, fresh, history, failures, crashes>>
  PROVE  IInv'
<1>1. Moves(c, label)
  BY BeginMoves DEF IInv
<1>2. open = "ready"
  BY UsableMeansReady DEF IInv
<1> QED
  BY <1>1, <1>2, ClientKeeps

\* turn/start, turn/interrupt, thread/pause and their like begin.
LEMMA AskKeeps ==
  ASSUME IInv, NEW c \in Clients, Ask(c)
  PROVE  IInv'
<1>1. CASE BeginStart(c)
  <2>1. "start" \in Labels \ {"cancel"} /\ "start" \in Asked /\ "start" \notin AboutATurn
    BY DEF Labels, Asked, AboutATurn
  <2> QED
    BY <1>1, <2>1, BeginKeeps DEF BeginStart
<1>2. ASSUME NEW t \in Turns, BeginInterrupt(c, t) PROVE IInv'
  <2>1. "interrupt" \in Labels \ {"cancel"} /\ "interrupt" \in Asked
    BY DEF Labels, Asked
  <2> QED
    BY <1>2, <2>1, BeginKeeps DEF BeginInterrupt
<1>3. ASSUME NEW f \in Stops, BeginStop(c, f) PROVE IInv'
  <2>1. f \in Asked /\ mem.active \in Turns \union {NoTurn}
    BY DEF Asked, IInv, TypeOK, ThreadStates
  <2>2. SeenIdle(c, f) \in Labels \ {"cancel"} /\ SeenIdle(c, f) \notin AboutATurn
    BY DEF SeenIdle, Labels, AboutATurn
  <2>3. "interrupt" \in Labels \ {"cancel"}
    BY DEF Labels
  <2>4. CASE mem.active = NoTurn
    <3>1. Begin(c, SeenIdle(c, f), f, NoTurn)
      BY <1>3, <2>4 DEF BeginStop
    <3> QED
      BY <1>3, <2>1, <2>2, <3>1, BeginKeeps DEF BeginStop
  <2>5. CASE mem.active # NoTurn
    <3>1. Begin(c, "interrupt", f, mem.active)
      BY <1>3, <2>5 DEF BeginStop
    <3> QED
      BY <1>3, <2>1, <2>3, <2>5, <3>1, BeginKeeps DEF BeginStop
  <2> QED
    BY <2>4, <2>5
<1>4. ASSUME NEW f \in Stops, BeginResume(c, f) PROVE IInv'
  <2>1. "clear" \in Labels \ {"cancel"} /\ f \in Asked /\ "clear" \notin AboutATurn
    BY DEF Labels, Asked, AboutATurn
  <2> QED
    BY <1>4, <2>1, BeginKeeps DEF BeginResume
<1> QED
  BY <1>1, <1>2, <1>3, <1>4 DEF Ask

\* The steps of a stop between its first look and its event, and refusals.
LEMMA WaitingKeeps ==
  ASSUME IInv, NEW c \in Clients,
         \/ WaitOver(c) \/ Deadline(c) \/ Recheck(c) \/ Drained(c)
         \/ GiveUp(c) \/ RefuseStart(c) \/ RefuseInterrupt(c)
  PROVE  IInv'
<1>1. ArgsAreTurns
  BY DEF IInv
<1>2. SeenIdle(c, op[c]) \in Labels \ {"cancel"} /\ SeenIdle(c, op[c]) \notin AboutATurn
  BY DEF SeenIdle, Labels, AboutATurn
<1>3. {"wait", "force", "mark"} \subseteq Labels \ {"cancel"} /\ "mark" \notin AboutATurn
  BY DEF Labels, AboutATurn
<1>4. CASE WaitOver(c)
  BY <1>2, <1>4, GotoKeeps DEF WaitOver, At
<1>5. CASE Deadline(c)
  <2>1. arg[c] \in Turns
    BY <1>1, <1>5 DEF Deadline, At, ArgsAreTurns, AboutATurn
  <2> QED
    BY <1>3, <1>5, <2>1, GotoKeeps DEF Deadline, At
<1>6. CASE Recheck(c)
  <2>1. CASE mem.active = NoTurn
    BY <1>2, <1>6, <2>1, GotoKeeps DEF Recheck, At
  <2>2. CASE mem.active # NoTurn
    BY <1>6, <2>2, AnswerKeeps DEF Recheck
  <2> QED
    BY <2>1, <2>2
<1>7. CASE Drained(c)
  <2>1. CASE invalid
    BY <1>7, <2>1, AnswerKeeps DEF Drained
  <2>2. CASE ~invalid
    BY <1>3, <1>7, <2>2, GotoKeeps DEF Drained, At
  <2> QED
    BY <2>1, <2>2
<1>8. CASE GiveUp(c)
  BY <1>8, AnswerKeeps DEF GiveUp
<1>9. CASE RefuseStart(c)
  BY <1>9, AnswerKeeps DEF RefuseStart
<1>10. CASE RefuseInterrupt(c)
  <2>1. arg[c] \in Turns
    BY <1>1, <1>10 DEF RefuseInterrupt, At, ArgsAreTurns, AboutATurn
  <2>2. CASE op[c] = "interrupt"
    BY <1>10, <2>2, AnswerKeeps DEF RefuseInterrupt, Interrupted
  <2>3. CASE op[c] # "interrupt"
    BY <1>3, <1>10, <2>1, <2>3, GotoKeeps DEF RefuseInterrupt, Interrupted, At
  <2> QED
    BY <2>2, <2>3
<1> QED
  BY <1>4, <1>5, <1>6, <1>7, <1>8, <1>9, <1>10

-----------------------------------------------------------------------------
(* turn/start.                                                             *)

\* Each event maps thread states to thread states.
LEMMA EventTypes ==
  /\ \A s \in ThreadStates, t \in Turns : Apply(s, Started(t)) \in ThreadStates
  /\ \A s \in ThreadStates, t \in Turns : Apply(s, InterruptRequested(t)) \in ThreadStates
  /\ \A s \in ThreadStates, t \in Turns, st \in Statuses : Apply(s, Completed(t, st)) \in ThreadStates
  /\ \A s \in ThreadStates, f \in Asked, on \in BOOLEAN : Apply(s, Flagged(f, on)) \in ThreadStates
  /\ \A s \in ThreadStates : Apply(s, Other) \in ThreadStates
  BY ApplyStarted, ApplyRequested, ApplyCompleted, ApplyFlagged, ApplyOther

\* TurnStarted, whether the append succeeds or stops early.
LEMMA StartedKeeps ==
  ASSUME LogAndMemory, TypeOK, open # "closed", NEW t \in fresh, fresh' = fresh \ {t},
         announced' = announced, Promised' \subseteq Promised,
         Appended(Started(t)) \/ Abandoned(Started(t))
  PROVE  LogAndMemory'
<1>1. Legal(mem, Started(t)) /\ fresh \subseteq Turns
  BY DEF Appended, Abandoned, TypeOK
<1>2. ASSUME readable
      PROVE  /\ Sound(Apply(mem, Started(t)), fresh', announced', Promised')
             /\ ~mem.asked
  <2>1. Sound(mem, fresh, announced, Promised)
    BY <1>2 DEF LogAndMemory
  <2>2. Sound(Apply(mem, Started(t)), fresh \ {t}, announced, Promised)
    BY <1>1, <2>1, StartedSound
  <2>3. Sound(Apply(mem, Started(t)), fresh', announced', Promised')
    BY <2>2, WeakerSound
  <2>4. ~mem.asked
    BY <1>1, <2>1 DEF Legal, Started, Sound
  <2> QED
    BY <2>3, <2>4
<1>3. CASE Appended(Started(t))
  BY <1>2, <1>3, AppendedKeeps
<1>4. CASE Abandoned(Started(t))
  BY <1>2, <1>4, AbandonedKeeps
<1> QED
  BY <1>3, <1>4

\* start_turn appends TurnStarted and sets active_turn, or fails.
LEMMA StartTurnKeeps ==
  ASSUME IInv, NEW c \in Clients, NEW t \in Turns, StartTurn(c, t)
  PROVE  IInv'
<1>1. TypeOK /\ LogAndMemory /\ NoRuntimeNoWork /\ AskedOfSlot /\ ArgsAreTurns
  BY DEF IInv
<1>2. open = "ready" /\ open' = "ready"
  BY <1>1, BusyMeansReady DEF StartTurn, At
<1>3. PICK label \in {"spawn", "idle"} : Moves(c, label)
  <2>1. "start" \in Asked
    BY DEF Asked
  <2> QED
    BY <1>1, <2>1, BeginMoves, AnswerMoves DEF StartTurn
<1>4. label \in Labels /\ label # "cancel"
  BY DEF Labels
<1>5. TypeOK'
  <2>1. pc' \in [Clients -> Labels] /\ op' \in [Clients -> Asked]
        /\ arg' \in [Clients -> Turns \union {NoTurn}]
    BY <1>1, <1>3, <1>4, MovesTypes
  <2>2. /\ disk' \in ThreadStates /\ mem' \in ThreadStates
        /\ {readable', dirty'} \subseteq BOOLEAN /\ failures' \in 0..MaxFailures
    BY <1>1, CountedTypes, EventTypes DEF StartTurn
  <2> QED
    BY <1>1, <2>1, <2>2 DEF TypeOK, StartTurn, history
<1>6. LogAndMemory'
  <2>1. Promised' \subseteq Promised
    BY <1>1, <1>3, <1>4, MovesPromise DEF StartTurn, history
  <2>2. Appended(Started(t)) \/ Abandoned(Started(t))
    BY DEF StartTurn, Succeeds, AppendFails
  <2> QED
    BY <1>1, <1>2, <2>1, <2>2, StartedKeeps DEF StartTurn, history
<1>7. NoRuntimeNoWork'
  BY <1>2 DEF NoRuntimeNoWork
<1>8. AskedOfSlot'
  <2>1. CASE Succeeds(Started(t))
    <3>1. ~mem'.asked
      BY <1>1, <2>1, ApplyStarted DEF Succeeds, Appended, TypeOK
    <3> QED
      BY <3>1 DEF AskedOfSlot
  <2>2. CASE AppendFails(Started(t)) /\ slot' = slot
    BY <1>1, <2>2 DEF AppendFails, Abandoned, AskedOfSlot
  <2> QED
    BY <2>1, <2>2 DEF StartTurn
<1>9. ArgsAreTurns'
  BY <1>1, <1>3, <1>4, MovesTypes
<1> QED
  BY <1>5, <1>6, <1>7, <1>8, <1>9 DEF IInv

\* The task of the turn is spawned.
LEMMA SpawnTurnKeeps ==
  ASSUME IInv, NEW c \in Clients, SpawnTurn(c)
  PROVE  IInv'
<1>1. TypeOK /\ LogAndMemory /\ NoRuntimeNoWork /\ AskedOfSlot /\ ArgsAreTurns
  BY DEF IInv
<1>2. open = "ready" /\ open' = "ready"
  BY <1>1, BusyMeansReady DEF SpawnTurn, At, runtime
<1>3. Moves(c, "idle") /\ "idle" \in Labels
  BY <1>1, AnswerMoves DEF SpawnTurn, Labels
<1>4. TypeOK'
  <2>1. pc' \in [Clients -> Labels] /\ op' \in [Clients -> Asked]
        /\ arg' \in [Clients -> Turns \union {NoTurn}]
    BY <1>1, <1>3, MovesTypes
  <2> QED
    BY <1>1, <2>1 DEF TypeOK, SpawnTurn, log, runtime, history
<1>5. LogAndMemory'
  <2>1. Promised' \subseteq Promised
    BY <1>1, <1>3, MovesPromise DEF SpawnTurn, history
  <2> QED
    BY <1>1, <2>1, QuietKeeps DEF SpawnTurn, log, runtime, history
<1>6. NoRuntimeNoWork'
  BY <1>2 DEF NoRuntimeNoWork
<1>7. AskedOfSlot'
  BY <1>1 DEF SpawnTurn, AskedOfSlot, runtime
<1>8. ArgsAreTurns'
  BY <1>1, <1>3, MovesTypes
<1> QED
  BY <1>4, <1>5, <1>6, <1>7, <1>8 DEF IInv

\* The future that starts a turn is dropped.
LEMMA DropStartKeeps ==
  ASSUME IInv, NEW c \in Clients, DropStart(c)
  PROVE  IInv'
<1>1. TypeOK /\ LogAndMemory /\ NoRuntimeNoWork /\ AskedOfSlot /\ ArgsAreTurns
  BY DEF IInv
<1>2. open = "ready" /\ open' = "ready"
  BY <1>1, BusyMeansReady DEF DropStart, At
<1>3. Moves(c, "idle") /\ "idle" \in Labels
  BY <1>1, AnswerMoves DEF DropStart, Labels
<1>4. Promised' \subseteq Promised
  BY <1>1, <1>3, MovesPromise DEF DropStart, history
<1>5. pc' \in [Clients -> Labels] /\ op' \in [Clients -> Asked]
      /\ arg' \in [Clients -> Turns \union {NoTurn}] /\ ArgsAreTurns'
  BY <1>1, <1>3, MovesTypes
<1>6. NoRuntimeNoWork'
  BY <1>2 DEF NoRuntimeNoWork
<1>7. CASE UNCHANGED <<disk, readable, mem, dirty, fresh>>
  <2>1. TypeOK'
    BY <1>1, <1>5, <1>7 DEF TypeOK, DropStart, turns, history
  <2>2. LogAndMemory'
    BY <1>1, <1>4, <1>7, QuietKeeps DEF DropStart, history
  <2>3. AskedOfSlot'
    BY <1>1, <1>7 DEF AskedOfSlot, DropStart, turns
  <2> QED
    BY <1>5, <1>6, <2>1, <2>2, <2>3 DEF IInv
<1>8. ASSUME NEW t \in fresh, fresh' = fresh \ {t},
             Appended(Started(t)) \/ Abandoned(Started(t))
      PROVE  IInv'
  <2>1. t \in Turns
    BY <1>1 DEF TypeOK
  <2>2. TypeOK'
    <3>1. disk' \in ThreadStates /\ mem' \in ThreadStates /\ {readable', dirty'} \subseteq BOOLEAN
      BY <1>1, <1>8, <2>1, AppendTypes, EventTypes
    <3> QED
      BY <1>1, <1>5, <1>8, <3>1 DEF TypeOK, DropStart, turns, history
  <2>3. LogAndMemory'
    BY <1>1, <1>2, <1>4, <1>8, StartedKeeps DEF DropStart, history
  <2>4. AskedOfSlot'
    <3>1. CASE Appended(Started(t))
      <4>1. ~mem'.asked
        BY <1>1, <2>1, <3>1, ApplyStarted DEF Appended, TypeOK
      <4> QED
        BY <4>1 DEF AskedOfSlot
    <3>2. CASE Abandoned(Started(t))
      BY <1>1, <3>2 DEF Abandoned, AskedOfSlot, DropStart, turns
    <3> QED
      BY <1>8, <3>1, <3>2
  <2> QED
    BY <1>5, <1>6, <2>2, <2>3, <2>4 DEF IInv
<1> QED
  BY <1>7, <1>8 DEF DropStart

-----------------------------------------------------------------------------
(* turn/interrupt.                                                         *)

\* Where interrupt_turn's caller goes when it returns.
LEMMA InterruptedMoves ==
  ASSUME TypeOK, NEW c \in Clients, Interrupted(c), arg[c] \in Turns
  PROVE  \E label \in Labels \ {"cancel"} : Moves(c, label)
<1>1. {"idle", "wait"} \subseteq Labels \ {"cancel"}
  BY DEF Labels
<1> QED
  BY <1>1, AnswerMoves, GotoMoves DEF Interrupted

\* Promises change by the turn that is accepted or on its way to be.
LEMMA PromiseOne ==
  ASSUME TypeOK, NEW c \in Clients, NEW label, Moves(c, label), NEW t \in Turns,
         accepted' \subseteq accepted \union {t}, label = "cancel" => arg'[c] = t
  PROVE  Promised' \subseteq Promised \union {t}
<1> SUFFICES ASSUME NEW u \in Turns, u # t,
                    u \in accepted' \/ \E d \in Clients : (At(d, "cancel") /\ arg[d] = u)'
             PROVE  u \in accepted \/ \E d \in Clients : At(d, "cancel") /\ arg[d] = u
  BY DEF Promised
<1>1. CASE u \in accepted'
  BY <1>1
<1>2. ASSUME NEW d \in Clients, (At(d, "cancel") /\ arg[d] = u)'
      PROVE  At(d, "cancel") /\ arg[d] = u
  <2>1. d # c
    BY <1>2 DEF At, Moves, TypeOK
  <2> QED
    BY <1>2, <2>1 DEF At, Moves, TypeOK
<1> QED
  BY <1>1, <1>2

\* A promise that is on record in file and memory may be made.
LEMMA RecordedMayBePromised ==
  ASSUME LogAndMemory, UNCHANGED <<disk, readable, mem, dirty, open, fresh, announced>>,
         NEW t, Promised' \subseteq Promised \union {t},
         readable => Recorded(disk, t) /\ (open # "closed" => Recorded(mem, t))
  PROVE  LogAndMemory'
  BY DEF LogAndMemory, Sound

\* The interrupt of the turn was recorded by another request already.
LEMMA InterruptAgainKeeps ==
  ASSUME IInv, NEW c \in Clients, InterruptAgain(c)
  PROVE  IInv'
<1>1. TypeOK /\ LogAndMemory /\ NoRuntimeNoWork /\ AskedOfSlot /\ ArgsAreTurns
  BY DEF IInv
<1>2. open = "ready" /\ open' = "ready"
  BY <1>1, BusyMeansReady DEF InterruptAgain, At, runtime
<1>3. arg[c] \in Turns
  BY <1>1 DEF ArgsAreTurns, AboutATurn, InterruptAgain, At
<1>4. PICK label \in Labels \ {"cancel"} : Moves(c, label)
  BY <1>1, <1>3, InterruptedMoves DEF InterruptAgain
<1>5. pc' \in [Clients -> Labels] /\ op' \in [Clients -> Asked]
      /\ arg' \in [Clients -> Turns \union {NoTurn}] /\ ArgsAreTurns'
  BY <1>1, <1>4, MovesTypes
<1>6. mem.active = arg[c]
  BY <1>1, <1>3, NoTurnAssumption DEF InterruptAgain, AskedOfSlot
<1>7. TypeOK'
  BY <1>1, <1>3, <1>5 DEF TypeOK, InterruptAgain, CancelledAgain, log, runtime
<1>8. LogAndMemory'
  <2>1. Promised' \subseteq Promised \union {arg[c]}
    BY <1>1, <1>3, <1>4, PromiseOne DEF InterruptAgain
  <2>2. readable => Recorded(disk, arg[c]) /\ Recorded(mem, arg[c])
    BY <1>1, <1>2, <1>6 DEF LogAndMemory, InterruptAgain, Recorded
  <2> QED
    BY <1>1, <2>1, <2>2, RecordedMayBePromised DEF InterruptAgain, log, runtime
<1>9. NoRuntimeNoWork'
  BY <1>2 DEF NoRuntimeNoWork
<1>10. AskedOfSlot'
  BY <1>1 DEF AskedOfSlot, InterruptAgain, runtime
<1> QED
  BY <1>5, <1>7, <1>8, <1>9, <1>10 DEF IInv

\* The token is cancelled and interrupt_turn returns Ok.
LEMMA CancelTurnKeeps ==
  ASSUME IInv, NEW c \in Clients, CancelTurn(c)
  PROVE  IInv'
<1>1. TypeOK /\ LogAndMemory /\ NoRuntimeNoWork /\ AskedOfSlot /\ ArgsAreTurns
  BY DEF IInv
<1>2. open = "ready" /\ open' = "ready"
  BY <1>1, BusyMeansReady DEF CancelTurn, At, runtime
<1>3. arg[c] \in Turns
  BY <1>1 DEF ArgsAreTurns, AboutATurn, CancelTurn, At
<1>4. PICK label \in Labels \ {"cancel"} : Moves(c, label)
  BY <1>1, <1>3, InterruptedMoves DEF CancelTurn
<1>5. pc' \in [Clients -> Labels] /\ op' \in [Clients -> Asked]
      /\ arg' \in [Clients -> Turns \union {NoTurn}] /\ ArgsAreTurns'
  BY <1>1, <1>4, MovesTypes
<1>6. TypeOK'
  BY <1>1, <1>3, <1>5 DEF TypeOK, CancelTurn, log, runtime
<1>7. LogAndMemory'
  <2>1. Promised' \subseteq Promised \union {arg[c]}
    BY <1>1, <1>3, <1>4, PromiseOne DEF CancelTurn
  <2>2. arg[c] \in Promised
    BY <1>3 DEF Promised, CancelTurn
  <2> QED
    BY <1>1, <2>1, <2>2, QuietKeeps DEF CancelTurn, log, runtime
<1>8. NoRuntimeNoWork'
  BY <1>2 DEF NoRuntimeNoWork
<1>9. AskedOfSlot'
  BY <1>1 DEF AskedOfSlot, CancelTurn, runtime
<1> QED
  BY <1>5, <1>6, <1>7, <1>8, <1>9 DEF IInv

\* interrupt_turn appends TurnInterruptRequested, or fails.
LEMMA RequestInterruptKeeps ==
  ASSUME IInv, NEW c \in Clients, RequestInterrupt(c)
  PROVE  IInv'
<1> DEFINE t == arg[c]
           e == InterruptRequested(t)
<1>1. TypeOK /\ LogAndMemory /\ NoRuntimeNoWork /\ AskedOfSlot /\ ArgsAreTurns
  BY DEF IInv
<1>2. open = "ready" /\ open' = "ready"
  BY <1>1, BusyMeansReady DEF RequestInterrupt, At
<1>3. t \in Turns /\ fresh \subseteq Turns
  BY <1>1 DEF ArgsAreTurns, AboutATurn, RequestInterrupt, At, TypeOK
<1>4. PICK label \in Labels : /\ Moves(c, label)
                              /\ label = "cancel" => Succeeds(e) /\ arg'[c] = t
                              /\ AppendFails(e) => label # "cancel"
  <2>1. CASE Succeeds(e) /\ Goto(c, "cancel")
    <3>1. Moves(c, "cancel") /\ "cancel" \in Labels
      BY <1>1, <1>3, <2>1, GotoMoves DEF Labels
    <3>2. arg'[c] = t
      BY <2>1 DEF Goto
    <3>3. ~AppendFails(e)
      BY <1>1, <2>1, BoundsAssumption DEF Succeeds, AppendFails, TypeOK
    <3> QED
      BY <2>1, <3>1, <3>2, <3>3
  <2>2. CASE AppendFails(e) /\ Interrupted(c)
    BY <1>1, <1>3, <2>2, InterruptedMoves
  <2> QED
    BY <2>1, <2>2 DEF RequestInterrupt
<1>5. pc' \in [Clients -> Labels] /\ op' \in [Clients -> Asked]
      /\ arg' \in [Clients -> Turns \union {NoTurn}] /\ ArgsAreTurns'
  BY <1>1, <1>4, MovesTypes
<1>6. TypeOK'
  <2>1. /\ disk' \in ThreadStates /\ mem' \in ThreadStates
        /\ {readable', dirty'} \subseteq BOOLEAN /\ failures' \in 0..MaxFailures
    BY <1>1, <1>3, CountedTypes, EventTypes DEF RequestInterrupt
  <2> QED
    BY <1>1, <1>5, <2>1 DEF TypeOK, RequestInterrupt, turns, history
<1>7. LogAndMemory'
  <2>1. Promised' \subseteq Promised \union {t}
    BY <1>1, <1>3, <1>4, PromiseOne DEF RequestInterrupt, history
  <2>2. CASE Succeeds(e)
    <3>1. ASSUME readable PROVE Sound(Apply(mem, e), fresh', announced', Promised')
      <4>1. Sound(mem, fresh, announced, Promised)
        BY <1>1, <1>2, <3>1 DEF LogAndMemory
      <4>2. Sound(Apply(mem, e), fresh, announced, Promised \union {t})
        BY <1>3, <2>2, <4>1, RequestedSound DEF Succeeds, Appended
      <4>3. Sound(Apply(mem, e), fresh, announced, Promised')
        BY <2>1, <4>2, WeakerSound
      <4> QED
        BY <4>3 DEF RequestInterrupt, history
    <3> QED
      BY <1>1, <1>2, <2>2, <3>1, AppendedKeeps DEF Succeeds
  <2>3. CASE AppendFails(e)
    <3>1. Promised' \subseteq Promised
      BY <1>1, <1>4, <2>3, MovesPromise DEF RequestInterrupt, history
    <3>2. ASSUME readable PROVE Sound(Apply(mem, e), fresh', announced', Promised')
      <4>1. Sound(mem, fresh, announced, Promised)
        BY <1>1, <1>2, <3>2 DEF LogAndMemory
      <4>2. Sound(Apply(mem, e), fresh, announced, Promised \union {t})
        BY <1>3, <2>3, <4>1, RequestedSound DEF AppendFails, Abandoned
      <4>3. Sound(Apply(mem, e), fresh, announced, Promised')
        BY <3>1, <4>2, WeakerSound
      <4> QED
        BY <4>3 DEF RequestInterrupt, history
    <3> QED
      BY <1>1, <1>2, <2>3, <3>1, <3>2, AbandonedKeeps
      DEF AppendFails, RequestInterrupt, history
  <2> QED
    BY <2>2, <2>3 DEF RequestInterrupt
<1>8. NoRuntimeNoWork'
  BY <1>2 DEF NoRuntimeNoWork
<1>9. AskedOfSlot'
  <2>1. slot' = slot /\ slot = t
    BY DEF RequestInterrupt, turns
  <2>2. CASE Succeeds(e)
    <3>1. mem.active = t
      BY <2>2 DEF Succeeds, Appended, Legal, InterruptRequested
    <3>2. mem'.active = t
      BY <1>1, <1>3, <2>2, <3>1, ApplyRequested DEF Succeeds, Appended, TypeOK
    <3> QED
      BY <2>1, <3>2 DEF AskedOfSlot
  <2>3. CASE AppendFails(e)
    BY <1>1, <2>1, <2>3 DEF AppendFails, Abandoned, AskedOfSlot
  <2> QED
    BY <2>2, <2>3 DEF RequestInterrupt
<1> QED
  BY <1>5, <1>6, <1>7, <1>8, <1>9 DEF IInv

-----------------------------------------------------------------------------
(* run_turn and complete_turn.                                             *)

\* Without a client's move, the promises stay.
LEMMA SamePromises ==
  ASSUME UNCHANGED clients, accepted' = accepted
  PROVE  Promised' = Promised
  BY DEF Promised, clients, At

\* An event of the agent's work, appended or dropped half way.
LEMMA OtherKeeps ==
  ASSUME LogAndMemory, TypeOK, open # "closed", Promised' \subseteq Promised,
         UNCHANGED <<fresh, announced>>, Appended(Other) \/ Abandoned(Other)
  PROVE  LogAndMemory'
<1>1. ASSUME readable
      PROVE  /\ Sound(Apply(mem, Other), fresh', announced', Promised')
             /\ mem.asked => Recorded(Apply(mem, Other), mem.active)
  <2>1. Sound(mem, fresh, announced, Promised)
    BY <1>1 DEF LogAndMemory
  <2>2. /\ Sound(Apply(mem, Other), fresh, announced, Promised)
        /\ mem.asked => Recorded(Apply(mem, Other), mem.active)
    BY <2>1, OtherSound
  <2> QED
    BY <2>2, WeakerSound
<1>2. CASE Appended(Other)
  BY <1>1, <1>2, AppendedKeeps
<1>3. CASE Abandoned(Other)
  BY <1>1, <1>3, AbandonedKeeps
<1> QED
  BY <1>2, <1>3

\* The agent's work leaves active turn and interrupt alone.
LEMMA OtherAsked ==
  ASSUME TypeOK, Appended(Other) \/ Abandoned(Other)
  PROVE  mem'.active = mem.active /\ mem'.asked = mem.asked
  BY ApplyOther DEF TypeOK, Appended, Abandoned

\* A turn's task that runs has a runtime.
LEMMA RunningMeansReady ==
  ASSUME NoRuntimeNoWork, NEW t \in Turns, Runs(t)
  PROVE  open = "ready"
  BY DEF NoRuntimeNoWork

\* The agent, and run_turn's select! over it.
LEMMA AgentKeeps ==
  ASSUME IInv, NEW t \in Turns,
         AgentAppends(t) \/ AgentAppended(t) \/ AgentReturns(t) \/ AgentDropped(t)
  PROVE  IInv'
<1>1. TypeOK /\ LogAndMemory /\ NoRuntimeNoWork /\ AskedOfSlot /\ ArgsAreTurns
  BY DEF IInv
<1>2. task[t] = "agent"
  BY <1>1, NoTurnAssumption DEF AgentAppends, AgentAppended, AgentReturns, AgentDropped, TypeOK
<1>3. open = "ready" /\ open' = "ready"
  BY <1>1, <1>2, RunningMeansReady
  DEF Runs, AgentAppends, AgentAppended, AgentReturns, AgentDropped, runtime
<1>4. UNCHANGED <<clients, fresh, accepted, announced, slot, crashes>>
  BY DEF AgentAppends, AgentAppended, AgentReturns, AgentDropped, history
<1>5. Promised' = Promised
  BY <1>4, SamePromises
<1>6. \/ UNCHANGED <<disk, readable, mem, dirty, failures>>
      \/ Succeeds(Other) \/ AppendFails(Other)
      \/ Abandoned(Other) /\ failures' = failures
  BY DEF AgentAppends, AgentAppended, AgentReturns, AgentDropped, log, runtime
<1>7. /\ disk' \in ThreadStates /\ mem' \in ThreadStates
      /\ {readable', dirty'} \subseteq BOOLEAN /\ failures' \in 0..MaxFailures
  <2>1. CASE UNCHANGED <<disk, readable, mem, dirty, failures>>
    BY <1>1, <2>1 DEF TypeOK
  <2>2. CASE Succeeds(Other) \/ AppendFails(Other)
    BY <1>1, <2>2, CountedTypes, EventTypes
  <2>3. CASE Abandoned(Other) /\ failures' = failures
    <3>1. disk' \in ThreadStates /\ mem' \in ThreadStates /\ {readable', dirty'} \subseteq BOOLEAN
      BY <1>1, <2>3, AppendTypes, EventTypes
    <3> QED
      BY <1>1, <2>3, <3>1 DEF TypeOK
  <2> QED
    BY <1>6, <2>1, <2>2, <2>3
<1>8. /\ {cached', invalid'} \subseteq BOOLEAN /\ cancelled' = cancelled
      /\ task' \in [Turns -> {"none", "agent", "hooks", "over"} \union Statuses]
      /\ lock' # NoTurn => lock' \in Turns /\ task'[lock'] = "agent"
  BY <1>1, <1>2 DEF AgentAppends, AgentAppended, AgentReturns, AgentDropped, TypeOK, runtime,
                    Statuses, LockWithout, HandleFree
<1>9. TypeOK'
  BY <1>1, <1>3, <1>4, <1>7, <1>8 DEF TypeOK, clients
<1>10. LogAndMemory'
  <2>1. CASE UNCHANGED <<disk, readable, mem, dirty, failures>>
    BY <1>1, <1>3, <1>4, <1>5, <2>1, QuietKeeps
  <2>2. CASE Appended(Other) \/ Abandoned(Other)
    BY <1>1, <1>3, <1>4, <1>5, <2>2, OtherKeeps
  <2> QED
    BY <1>6, <2>1, <2>2 DEF Succeeds, AppendFails
<1>11. NoRuntimeNoWork'
  BY <1>3 DEF NoRuntimeNoWork
<1>12. AskedOfSlot'
  <2>1. mem'.active = mem.active /\ mem'.asked = mem.asked
    BY <1>1, <1>6, OtherAsked DEF Succeeds, AppendFails
  <2> QED
    BY <1>1, <1>4, <2>1 DEF AskedOfSlot
<1>13. ArgsAreTurns'
  BY <1>1, <1>4 DEF ArgsAreTurns, clients
<1> QED
  BY <1>9, <1>10, <1>11, <1>12, <1>13 DEF IInv

\* What complete_turn does to file, memory and slot, whoever calls it.
Completes(t, s) == CompletesTurn(t, s) \/ NothingToComplete(t) \/ CompletionLost(t, s)

\* The types of what complete_turn leaves.
LEMMA CompletesTypes ==
  ASSUME TypeOK, NEW t \in Turns, NEW s \in Statuses, Completes(t, s)
  PROVE  /\ disk' \in ThreadStates /\ mem' \in ThreadStates
         /\ {readable', dirty', cached', invalid'} \subseteq BOOLEAN
         /\ failures' \in 0..MaxFailures
         /\ slot' \in Turns \union {NoTurn}
         /\ announced' \in [Turns -> Statuses \union {NoStatus}]
<1>1. Resolve(s) \in Statuses
  BY DEF Resolve, Statuses
<1>2. CASE NothingToComplete(t)
  BY <1>2 DEF TypeOK, NothingToComplete, SlotWithout, log
<1>3. CASE CompletesTurn(t, s)
  <2>1. /\ disk' \in ThreadStates /\ mem' \in ThreadStates
        /\ {readable', dirty'} \subseteq BOOLEAN /\ failures' \in 0..MaxFailures
    BY <1>1, <1>3, CountedTypes, EventTypes DEF CompletesTurn
  <2> QED
    BY <1>1, <1>3, <2>1 DEF TypeOK, CompletesTurn
<1>4. CASE CompletionLost(t, s)
  <2>1. /\ disk' \in ThreadStates /\ mem' \in ThreadStates
        /\ {readable', dirty'} \subseteq BOOLEAN /\ failures' \in 0..MaxFailures
    BY <1>1, <1>4, CountedTypes, EventTypes DEF CompletionLost
  <2> QED
    BY <1>4, <2>1 DEF TypeOK, CompletionLost, SlotWithout, AnnouncedAfterError
<1> QED
  BY <1>2, <1>3, <1>4 DEF Completes

\* TurnCompleted keeps file and memory sound.
LEMMA CompletedKeeps ==
  ASSUME LogAndMemory, TypeOK, open # "closed", Promised' \subseteq Promised, fresh' = fresh,
         NEW t \in Turns, NEW st \in Statuses, mem.active = t,
         mem.asked => st = "interrupted",
         \/ Appended(Completed(t, st)) /\ announced' = [announced EXCEPT ![t] = st]
         \/ Abandoned(Completed(t, st)) /\ announced' = announced
  PROVE  LogAndMemory'
<1> DEFINE e == Completed(t, st)
<1>1. fresh \subseteq Turns /\ announced \in [Turns -> Statuses \union {NoStatus}]
  BY DEF TypeOK
<1>2. ASSUME readable
      PROVE  /\ Sound(Apply(mem, e), fresh', announced, Promised')
             /\ Sound(Apply(mem, e), fresh', [announced EXCEPT ![t] = st], Promised')
             /\ mem.asked => Recorded(Apply(mem, e), mem.active)
  <2>1. Sound(mem, fresh, announced, Promised)
    BY <1>2 DEF LogAndMemory
  <2>2. /\ Sound(Apply(mem, e), fresh, announced, Promised)
        /\ Sound(Apply(mem, e), fresh, [announced EXCEPT ![t] = st], Promised)
        /\ mem.asked => Recorded(Apply(mem, e), t)
    BY <1>1, <2>1, CompletedSound
  <2> QED
    BY <2>2, WeakerSound
<1>3. CASE Appended(e) /\ announced' = [announced EXCEPT ![t] = st]
  BY <1>2, <1>3, AppendedKeeps
<1>4. CASE Abandoned(e) /\ announced' = announced
  BY <1>2, <1>4, AbandonedKeeps
<1> QED
  BY <1>3, <1>4

\* complete_turn keeps file and memory sound, and the slot.
LEMMA CompletesKeeps ==
  ASSUME LogAndMemory, TypeOK, AskedOfSlot, open # "closed", open' = open,
         Promised' \subseteq Promised, fresh' = fresh,
         NEW t \in Turns, NEW s \in Statuses, Completes(t, s)
  PROVE  LogAndMemory' /\ AskedOfSlot'
<1>1. Resolve(s) \in Statuses /\ (mem.asked => Resolve(s) = "interrupted")
  BY DEF Resolve, Statuses
<1>2. CASE NothingToComplete(t)
  <2>1. LogAndMemory'
    BY <1>2, QuietKeeps DEF NothingToComplete, log
  <2>2. AskedOfSlot'
    BY <1>2 DEF AskedOfSlot, NothingToComplete, SlotWithout
  <2> QED
    BY <2>1, <2>2
<1>3. CASE CompletesTurn(t, s)
  <2>1. LogAndMemory'
    BY <1>1, <1>3, CompletedKeeps DEF CompletesTurn, Succeeds
  <2>2. ~mem'.asked
    BY <1>1, <1>3, ApplyCompleted DEF CompletesTurn, Succeeds, Appended, TypeOK
  <2> QED
    BY <2>1, <2>2 DEF AskedOfSlot
<1>4. CASE CompletionLost(t, s)
  <2>1. LogAndMemory'
    BY <1>1, <1>4, CompletedKeeps DEF CompletionLost, AppendFails, AnnouncedAfterError
  <2>2. AskedOfSlot'
    BY <1>4 DEF AskedOfSlot, CompletionLost, AppendFails, Abandoned, SlotWithout
  <2> QED
    BY <2>1, <2>2
<1> QED
  BY <1>2, <1>3, <1>4 DEF Completes

\* complete_turn at the end of run_turn.
LEMMA CompleteTurnKeeps ==
  ASSUME IInv, NEW t \in Turns, CompleteTurn(t)
  PROVE  IInv'
<1>1. TypeOK /\ LogAndMemory /\ NoRuntimeNoWork /\ AskedOfSlot /\ ArgsAreTurns
  BY DEF IInv
<1>2. task[t] \in Statuses /\ Completes(t, task[t])
  BY DEF CompleteTurn, Completes
<1>3. open = "ready" /\ open' = "ready"
  BY <1>1, <1>2, RunningMeansReady DEF CompleteTurn, Runs
<1>4. Promised' = Promised
  BY SamePromises DEF CompleteTurn
<1>5. LogAndMemory' /\ AskedOfSlot'
  BY <1>1, <1>2, <1>3, <1>4, CompletesKeeps DEF CompleteTurn
<1>6. TypeOK'
  <2>1. /\ disk' \in ThreadStates /\ mem' \in ThreadStates
        /\ {readable', dirty', cached', invalid'} \subseteq BOOLEAN
        /\ failures' \in 0..MaxFailures
        /\ slot' \in Turns \union {NoTurn}
        /\ announced' \in [Turns -> Statuses \union {NoStatus}]
    BY <1>1, <1>2, CompletesTypes
  <2>2. HandleFree
    BY DEF CompleteTurn, CompletesTurn, NothingToComplete, CompletionLost
  <2>3. task' \in [Turns -> {"none", "agent", "hooks", "over"} \union Statuses]
    BY <1>1 DEF CompleteTurn, TypeOK
  <2> QED
    BY <1>1, <1>3, <2>1, <2>2, <2>3 DEF TypeOK, CompleteTurn, clients, HandleFree
<1>7. NoRuntimeNoWork'
  BY <1>3 DEF NoRuntimeNoWork
<1>8. ArgsAreTurns'
  BY <1>1 DEF ArgsAreTurns, CompleteTurn, clients
<1> QED
  BY <1>5, <1>6, <1>7, <1>8 DEF IInv

\* The stop hooks have run; the slot is cleared if it is still this turn's.
LEMMA HooksDoneKeeps ==
  ASSUME IInv, NEW t \in Turns, HooksDone(t)
  PROVE  IInv'
<1>1. TypeOK /\ LogAndMemory /\ NoRuntimeNoWork /\ AskedOfSlot /\ ArgsAreTurns
  BY DEF IInv
<1>2. open = "ready" /\ open' = "ready"
  BY <1>1, RunningMeansReady DEF HooksDone, Runs, runtime
<1>3. TypeOK'
  BY <1>1 DEF TypeOK, HooksDone, SlotWithout, log, runtime, clients, history
<1>4. LogAndMemory'
  <2>1. Promised' = Promised
    BY SamePromises DEF HooksDone, history
  <2> QED
    BY <1>1, <2>1, QuietKeeps DEF HooksDone, log, runtime, history
<1>5. NoRuntimeNoWork'
  BY <1>2 DEF NoRuntimeNoWork
<1>6. AskedOfSlot'
  BY <1>1 DEF AskedOfSlot, HooksDone, SlotWithout, runtime
<1>7. ArgsAreTurns'
  BY <1>1 DEF ArgsAreTurns, HooksDone, clients
<1> QED
  BY <1>3, <1>4, <1>5, <1>6, <1>7 DEF IInv

-----------------------------------------------------------------------------
(* Pause and archive.                                                      *)

\* force_complete_turn is complete_turn with Interrupted, by a request.
LEMMA ForceCompleteKeeps ==
  ASSUME IInv, NEW c \in Clients, ForceComplete(c)
  PROVE  IInv'
<1>1. TypeOK /\ LogAndMemory /\ NoRuntimeNoWork /\ AskedOfSlot /\ ArgsAreTurns
  BY DEF IInv
<1>2. arg[c] \in Turns
  BY <1>1 DEF ArgsAreTurns, AboutATurn, ForceComplete, At
<1>3. "interrupted" \in Statuses /\ Completes(arg[c], "interrupted")
  BY DEF ForceComplete, Completes, Statuses
<1>4. open = "ready" /\ open' = "ready"
  BY <1>1, BusyMeansReady DEF ForceComplete, At
<1>5. PICK label \in Labels \ {"cancel"} : Moves(c, label)
  BY <1>1, <1>2, GotoMoves DEF ForceComplete, Labels
<1>6. pc' \in [Clients -> Labels] /\ op' \in [Clients -> Asked]
      /\ arg' \in [Clients -> Turns \union {NoTurn}] /\ ArgsAreTurns'
  BY <1>1, <1>5, MovesTypes
<1>7. Promised' \subseteq Promised
  BY <1>1, <1>5, MovesPromise DEF ForceComplete
<1>8. LogAndMemory' /\ AskedOfSlot'
  BY <1>1, <1>2, <1>3, <1>4, <1>7, CompletesKeeps DEF ForceComplete
<1>9. TypeOK'
  <2>1. /\ disk' \in ThreadStates /\ mem' \in ThreadStates
        /\ {readable', dirty', cached', invalid'} \subseteq BOOLEAN
        /\ failures' \in 0..MaxFailures
        /\ slot' \in Turns \union {NoTurn}
        /\ announced' \in [Turns -> Statuses \union {NoStatus}]
    BY <1>1, <1>2, <1>3, CompletesTypes
  <2> QED
    BY <1>1, <1>4, <1>6, <2>1 DEF TypeOK, ForceComplete
<1>10. NoRuntimeNoWork'
  BY <1>4 DEF NoRuntimeNoWork
<1> QED
  BY <1>6, <1>8, <1>9, <1>10 DEF IInv

\* The stop hooks that force_complete_turn ran are done.
LEMMA ForcedHooksDoneKeeps ==
  ASSUME IInv, NEW c \in Clients, ForcedHooksDone(c)
  PROVE  IInv'
<1>1. TypeOK /\ LogAndMemory /\ NoRuntimeNoWork /\ AskedOfSlot /\ ArgsAreTurns
  BY DEF IInv
<1>2. open = "ready" /\ open' = "ready"
  BY <1>1, BusyMeansReady DEF ForcedHooksDone, At, runtime
<1>3. Moves(c, "recheck") /\ "recheck" \in Labels
  BY <1>1, GotoMoves DEF ForcedHooksDone, Labels, AboutATurn
<1>4. pc' \in [Clients -> Labels] /\ op' \in [Clients -> Asked]
      /\ arg' \in [Clients -> Turns \union {NoTurn}] /\ ArgsAreTurns'
  BY <1>1, <1>3, MovesTypes
<1>5. TypeOK'
  BY <1>1, <1>4 DEF TypeOK, ForcedHooksDone, SlotWithout, log, runtime, history
<1>6. LogAndMemory'
  <2>1. Promised' \subseteq Promised
    BY <1>1, <1>3, MovesPromise DEF ForcedHooksDone, history
  <2> QED
    BY <1>1, <2>1, QuietKeeps DEF ForcedHooksDone, log, runtime, history
<1>7. NoRuntimeNoWork'
  BY <1>2 DEF NoRuntimeNoWork
<1>8. AskedOfSlot'
  BY <1>1 DEF AskedOfSlot, ForcedHooksDone, SlotWithout, runtime
<1> QED
  BY <1>4, <1>5, <1>6, <1>7, <1>8 DEF IInv

\* ThreadPaused, ThreadUnpaused and the like leave file and memory sound.
LEMMA SetFlagKeeps ==
  ASSUME IInv, NEW c \in Clients, SetFlag(c)
  PROVE  IInv'
<1> DEFINE e == Flagged(op[c], At(c, "mark"))
<1>1. TypeOK /\ LogAndMemory /\ NoRuntimeNoWork /\ AskedOfSlot /\ ArgsAreTurns
  BY DEF IInv
<1>2. op[c] \in Asked /\ At(c, "mark") \in BOOLEAN
  BY <1>1 DEF TypeOK, At
<1>3. Succeeds(e) \/ AppendFails(e)
  BY DEF SetFlag
<1>4. open = "ready" /\ open' = "ready"
  BY <1>1, BusyMeansReady DEF SetFlag
<1>5. Moves(c, "idle") /\ "idle" \in Labels
  BY <1>1, AnswerMoves DEF SetFlag, Labels
<1>6. pc' \in [Clients -> Labels] /\ op' \in [Clients -> Asked]
      /\ arg' \in [Clients -> Turns \union {NoTurn}] /\ ArgsAreTurns'
  BY <1>1, <1>5, MovesTypes
<1>7. TypeOK'
  <2>1. /\ disk' \in ThreadStates /\ mem' \in ThreadStates
        /\ {readable', dirty'} \subseteq BOOLEAN /\ failures' \in 0..MaxFailures
    BY <1>1, <1>2, <1>3, CountedTypes, EventTypes
  <2> QED
    BY <1>1, <1>6, <2>1 DEF TypeOK, SetFlag, turns, history
<1>8. LogAndMemory'
  <2>1. Promised' \subseteq Promised
    BY <1>1, <1>5, MovesPromise DEF SetFlag, history
  <2>2. ASSUME readable
        PROVE  /\ Sound(Apply(mem, e), fresh', announced', Promised')
               /\ mem.asked => Recorded(Apply(mem, e), mem.active)
    <3>1. Sound(mem, fresh, announced, Promised)
      BY <1>1, <1>4, <2>2 DEF LogAndMemory
    <3>2. /\ Sound(Apply(mem, e), fresh, announced, Promised)
          /\ mem.asked => Recorded(Apply(mem, e), mem.active)
      BY <1>2, <3>1, FlaggedSound
    <3>3. Sound(Apply(mem, e), fresh, announced, Promised')
      BY <2>1, <3>2, WeakerSound
    <3> QED
      BY <3>2, <3>3 DEF SetFlag, history
  <2>3. CASE Succeeds(e)
    BY <1>1, <1>4, <2>2, <2>3, AppendedKeeps DEF Succeeds
  <2>4. CASE AppendFails(e)
    BY <1>1, <1>4, <2>1, <2>2, <2>4, AbandonedKeeps DEF AppendFails, SetFlag, history
  <2> QED
    BY <1>3, <2>3, <2>4
<1>9. NoRuntimeNoWork'
  BY <1>4 DEF NoRuntimeNoWork
<1>10. AskedOfSlot'
  <2>1. mem'.active = mem.active /\ mem'.asked = mem.asked
    BY <1>1, <1>2, <1>3, ApplyFlagged DEF TypeOK, Succeeds, Appended, AppendFails, Abandoned
  <2> QED
    BY <1>1, <2>1 DEF AskedOfSlot, SetFlag, turns
<1> QED
  BY <1>6, <1>7, <1>8, <1>9, <1>10 DEF IInv

-----------------------------------------------------------------------------
(* The runtime.                                                            *)

\* The state a load replays is the file's.
LEMMA LoadThreadKeeps ==
  ASSUME IInv, LoadThread
  PROVE  IInv'
<1>1. TypeOK /\ LogAndMemory /\ NoRuntimeNoWork /\ AskedOfSlot /\ ArgsAreTurns
  BY DEF IInv
<1>2. Promised' = Promised
  BY SamePromises DEF LoadThread, history
<1>3. TypeOK'
  BY <1>1 DEF TypeOK, LoadThread, log, turns, clients, history
<1>4. LogAndMemory'
  BY <1>1, <1>2 DEF LogAndMemory, LoadThread, log, history, Sound, Recorded
<1>5. NoRuntimeNoWork'
  BY <1>1 DEF NoRuntimeNoWork, LoadThread, turns, clients, At, Runs
<1>6. AskedOfSlot'
  BY <1>1 DEF NoRuntimeNoWork, AskedOfSlot, LoadThread, turns
<1>7. ArgsAreTurns'
  BY <1>1 DEF ArgsAreTurns, LoadThread, clients
<1> QED
  BY <1>3, <1>4, <1>5, <1>6, <1>7 DEF IInv

\* A turn found active is completed, as Interrupted when that was asked.
LEMMA RecoverTurnKeeps ==
  ASSUME IInv, RecoverTurn
  PROVE  IInv'
<1> DEFINE t == mem.active
           e == Completed(t, RecoveredStatus)
<1>1. TypeOK /\ LogAndMemory /\ NoRuntimeNoWork /\ AskedOfSlot /\ ArgsAreTurns
  BY DEF IInv
<1>2. open = "recovering" /\ open' = "ready" /\ slot' = slot /\ fresh' = fresh
  BY DEF RecoverTurn, turns
<1>3. Promised' = Promised
  BY SamePromises DEF RecoverTurn
<1>4. RecoveredStatus \in Statuses /\ (mem.asked => RecoveredStatus = "interrupted")
  BY DEF RecoveredStatus, Statuses
<1>5. CASE t = NoTurn
  <2>1. UNCHANGED <<log, mem, dirty, announced, failures>> /\ cached'
    BY <1>5 DEF RecoverTurn
  <2>2. TypeOK'
    BY <1>1, <1>2, <2>1 DEF TypeOK, RecoverTurn, log, turns, clients
  <2>3. LogAndMemory'
    BY <1>1, <1>2, <1>3, <2>1 DEF LogAndMemory, log
  <2>4. AskedOfSlot'
    BY <1>1, <1>2, <2>1 DEF AskedOfSlot
  <2> QED
    BY <1>1, <1>2, <2>2, <2>3, <2>4 DEF IInv, NoRuntimeNoWork, ArgsAreTurns, RecoverTurn, clients
<1>6. CASE t # NoTurn
  <2>1. t \in Turns
    BY <1>1, <1>6 DEF TypeOK, ThreadStates
  <2>2. \/ Succeeds(e) /\ announced' = [announced EXCEPT ![t] = RecoveredStatus] /\ cached' = TRUE
        \/ AppendFails(e) /\ announced' = announced /\ cached' = cached
    BY <1>6 DEF RecoverTurn
  <2>3. TypeOK'
    <3>1. /\ disk' \in ThreadStates /\ mem' \in ThreadStates
          /\ {readable', dirty'} \subseteq BOOLEAN /\ failures' \in 0..MaxFailures
      BY <1>1, <1>4, <2>1, <2>2, CountedTypes, EventTypes
    <3>2. announced' \in [Turns -> Statuses \union {NoStatus}]
      BY <1>1, <1>4, <2>1, <2>2 DEF TypeOK
    <3> QED
      BY <1>1, <1>2, <2>2, <3>1, <3>2 DEF TypeOK, RecoverTurn, turns, clients
  <2>4. LogAndMemory'
    <3>1. \/ Appended(e) /\ announced' = [announced EXCEPT ![t] = RecoveredStatus]
          \/ Abandoned(e) /\ announced' = announced
      BY <2>2 DEF Succeeds, AppendFails
    <3> QED
      BY <1>1, <1>2, <1>3, <1>4, <2>1, <3>1, CompletedKeeps
  <2>5. AskedOfSlot'
    <3>1. slot = NoTurn
      BY <1>1, <1>2 DEF NoRuntimeNoWork
    <3> QED
      BY <1>2, <3>1 DEF AskedOfSlot
  <2> QED
    BY <1>1, <1>2, <2>3, <2>4, <2>5 DEF IInv, NoRuntimeNoWork, ArgsAreTurns, RecoverTurn, clients
<1> QED
  BY <1>5, <1>6

\* The runtime goes when nothing refers to it.
LEMMA DropRuntimeKeeps ==
  ASSUME IInv, DropRuntime
  PROVE  IInv'
<1>1. TypeOK /\ LogAndMemory /\ NoRuntimeNoWork /\ AskedOfSlot /\ ArgsAreTurns
  BY DEF IInv
<1>2. Promised' = Promised
  BY SamePromises DEF DropRuntime, history
<1>3. lock = NoTurn
  BY <1>1 DEF TypeOK, DropRuntime, Referenced, Runs
<1>4. TypeOK'
  BY <1>1, NewThreadType DEF TypeOK, DropRuntime, log, clients, history
<1>5. LogAndMemory'
  BY <1>1, <1>2 DEF LogAndMemory, DropRuntime, log, history
<1>6. NoRuntimeNoWork'
  BY <1>3 DEF NoRuntimeNoWork, DropRuntime, Referenced, Runs, At, clients
<1>7. AskedOfSlot'
  BY DEF AskedOfSlot, DropRuntime
<1>8. ArgsAreTurns'
  BY <1>1 DEF ArgsAreTurns, DropRuntime, clients
<1> QED
  BY <1>4, <1>5, <1>6, <1>7, <1>8 DEF IInv

\* The server dies: what it had promised it has promised still, or nobody heard.
LEMMA CrashKeeps ==
  ASSUME IInv, Crash
  PROVE  IInv'
<1>1. TypeOK /\ LogAndMemory /\ NoRuntimeNoWork /\ AskedOfSlot /\ ArgsAreTurns
  BY DEF IInv
<1>2. Promised' \subseteq Promised
  BY DEF Promised, Crash, At, history
<1>3. TypeOK'
  <2>1. crashes' \in 0..MaxCrashes
    BY <1>1, BoundsAssumption DEF TypeOK, Crash
  <2>2. task' \in [Turns -> {"none", "agent", "hooks", "over"} \union Statuses]
    BY DEF Crash
  <2>3. /\ pc' \in [Clients -> Labels] /\ op' \in [Clients -> Asked]
        /\ arg' \in [Clients -> Turns \union {NoTurn}]
    BY DEF Crash, Labels, Asked
  <2>4. /\ mem' \in ThreadStates /\ open' = "closed" /\ lock' = NoTurn /\ slot' = NoTurn
        /\ {cached', invalid', dirty'} \subseteq BOOLEAN /\ cancelled' = {}
        /\ UNCHANGED <<disk, readable, fresh, accepted, announced, failures>>
    BY NewThreadType DEF Crash, log, history
  <2> QED
    BY <1>1, <2>1, <2>2, <2>3, <2>4 DEF TypeOK
<1>4. LogAndMemory'
  <2>1. readable => Sound(disk, fresh, announced, Promised')
    BY <1>1, <1>2, WeakerSound DEF LogAndMemory
  <2> QED
    BY <2>1 DEF LogAndMemory, Crash, log, history
<1>5. NoRuntimeNoWork'
  BY DEF NoRuntimeNoWork, Crash, At, Runs, Statuses
<1>6. AskedOfSlot'
  BY DEF AskedOfSlot, Crash
<1>7. ArgsAreTurns'
  BY DEF ArgsAreTurns, Crash, AboutATurn
<1> QED
  BY <1>3, <1>4, <1>5, <1>6, <1>7 DEF IInv

-----------------------------------------------------------------------------
(* The theorems.                                                           *)

\* A new server has a thread without events.
LEMMA InitHolds ==
  ASSUME Init
  PROVE  IInv
<1>1. TypeOK
  <2>1. /\ pc \in [Clients -> Labels] /\ op \in [Clients -> Asked]
        /\ arg \in [Clients -> Turns \union {NoTurn}]
    BY DEF Init, Labels, Asked
  <2>2. /\ announced \in [Turns -> Statuses \union {NoStatus}]
        /\ task \in [Turns -> {"none", "agent", "hooks", "over"} \union Statuses]
    BY DEF Init
  <2>3. failures \in 0..MaxFailures /\ crashes \in 0..MaxCrashes
    BY BoundsAssumption DEF Init
  <2> QED
    BY <2>1, <2>2, <2>3, NewThreadType DEF Init, TypeOK
<1>2. LogAndMemory
  <2>1. Promised = {}
    BY DEF Init, Promised, At
  <2> QED
    BY <2>1, NewThreadType DEF Init, LogAndMemory, Sound, NewThread
<1>3. NoRuntimeNoWork
  BY DEF Init, NoRuntimeNoWork, At, Runs, Statuses
<1>4. AskedOfSlot /\ ArgsAreTurns
  BY DEF Init, AskedOfSlot, ArgsAreTurns, AboutATurn, NewThread
<1> QED
  BY <1>1, <1>2, <1>3, <1>4 DEF IInv

\* Every step keeps the invariant.
LEMMA NextKeeps ==
  ASSUME IInv, Next
  PROVE  IInv'
<1>1. ASSUME NEW c \in Clients, Ask(c)
      PROVE  IInv'
  BY <1>1, AskKeeps
<1>2. ASSUME NEW c \in Clients, StartStep(c)
      PROVE  IInv'
  BY <1>2, WaitingKeeps, StartTurnKeeps, SpawnTurnKeeps DEF StartStep
<1>3. ASSUME NEW c \in Clients, InterruptStep(c)
      PROVE  IInv'
  BY <1>3, WaitingKeeps, InterruptAgainKeeps, RequestInterruptKeeps, CancelTurnKeeps
  DEF InterruptStep
<1>4. ASSUME NEW c \in Clients, StopStep(c)
      PROVE  IInv'
  BY <1>4, WaitingKeeps, ForceCompleteKeeps, ForcedHooksDoneKeeps, SetFlagKeeps DEF StopStep
<1>5. ASSUME NEW c \in Clients, DropStart(c) \/ GiveUp(c)
      PROVE  IInv'
  BY <1>5, WaitingKeeps, DropStartKeeps
<1>6. ASSUME NEW t \in Turns, RunTurn(t)
      PROVE  IInv'
  BY <1>6, AgentKeeps, CompleteTurnKeeps, HooksDoneKeeps DEF RunTurn, EndTurn
<1>7. CASE Runtime
  BY <1>7, LoadThreadKeeps, RecoverTurnKeeps, DropRuntimeKeeps DEF Runtime
<1>8. CASE Crash
  BY <1>8, CrashKeeps
<1> QED
  BY <1>1, <1>2, <1>3, <1>4, <1>5, <1>6, <1>7, <1>8 DEF Next, Serve

\* The file and the memory of the thread stay sound through every interleaving,
\* failure and crash.
THEOREM Invariance == Spec => []IInv
<1>1. Init => IInv
  BY InitHolds
<1>2. IInv /\ [Next]_vars => IInv'
  <2>1. ASSUME IInv, UNCHANGED vars PROVE IInv'
    BY <2>1 DEF vars, log, runtime, turns, clients, history, IInv, TypeOK, LogAndMemory,
                NoRuntimeNoWork, AskedOfSlot, ArgsAreTurns, Promised, At, Runs
  <2> QED
    BY <2>1, NextKeeps
<1> QED
  BY <1>1, <1>2, PTL DEF Spec

\* Every variable keeps to its type, and only a running agent holds the handle.
THEOREM TypeCorrect == Spec => []TypeOK
<1>1. IInv => TypeOK
  BY DEF IInv
<1> QED
  BY <1>1, Invariance, PTL

\* After interrupt_turn has returned Ok, the turn ends as Interrupted.
THEOREM AcceptedInterruptWins == Spec => []InterruptWins
<1>1. IInv => InterruptWins
  <2> SUFFICES ASSUME IInv, readable, NEW t \in accepted
               PROVE  disk.outcome[t] \in {NoStatus, "interrupted"}
    BY DEF InterruptWins
  <2>1. Sound(disk, fresh, announced, Promised) /\ t \in Turns
    BY DEF IInv, LogAndMemory, TypeOK
  <2>2. Recorded(disk, t)
    BY <2>1 DEF Promised, Sound
  <2> QED
    BY <2>1, <2>2, NoTurnAssumption DEF Recorded, Sound
<1> QED
  BY <1>1, Invariance, PTL

\* The status that turn/completed announced is the one a replay gives.
THEOREM AnnouncementIsFinal == Spec => []AnnouncedIsFinal
<1>1. IInv => AnnouncedIsFinal
  BY DEF IInv, LogAndMemory, Sound, AnnouncedIsFinal
<1> QED
  BY <1>1, Invariance, PTL
=============================================================================
