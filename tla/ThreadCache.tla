----------------------------- MODULE ThreadCache -----------------------------
(***************************************************************************)
(* The runtimes of one thread in the server: the map of loaded threads,    *)
(* the map of loads under way with the Notify that others wait for, the    *)
(* references that tasks hold, and the lock on the event log's file, which *)
(* a runtime keeps until its last reference is gone.                       *)
(*                                                                         *)
(* Connections and turns are tasks of one LocalSet: between two of their   *)
(* awaits no other of them runs.  Subagent schedulers and process actors   *)
(* run on the threads of the pool: with Parallel, any step may come        *)
(* between any two.                                                        *)
(***************************************************************************)
EXTENDS Naturals, FiniteSets

CONSTANTS
  Tasks,       \* tasks that ask for the thread
  Agents,      \* those that keep its runtime while they ask again: turns
  Peekers,     \* those that ask for it without recovery: process/list
  Runtimes,    \* names for the runtimes of the thread
  Loads,       \* names for the entries of thread_loads, each with its Notify
  None,
  Parallel,    \* whether tasks run on several threads
  AgentsStop,  \* whether an agent has stopped when its turn is completed by force
  MaxFaults,   \* bound: loads and completions of a turn that fail
  MaxDrops     \* bound: agents dropped inside a call

ASSUME TasksAssumption == Agents \subseteq Tasks /\ Peekers \subseteq Tasks \ Agents
ASSUME NoneAssumption == None \notin Runtimes \union Loads
ASSUME FlagsAssumption == Parallel \in BOOLEAN /\ AgentsStop \in BOOLEAN
ASSUME BoundsAssumption == MaxFaults \in Nat /\ MaxDrops \in Nat

VARIABLES
  cached,      \* the runtime in Server::threads, or None
  loading,     \* the entry in Server::thread_loads, or None
  invalid,     \* runtimes whose turn could not be completed
  kept,        \* the runtime an agent holds for the length of its turn
  got,         \* the runtime a call has in hand
  entry,       \* the entry a call has made, or whose Notify it has taken
  pc,          \* where each call is
  faults, drops

vars == <<cached, loading, invalid, kept, got, entry, pc, faults, drops>>

-----------------------------------------------------------------------------
(* References, the lock, and the executor.                                 *)

Alive(r) == cached = r \/ \E t \in Tasks : kept[t] = r \/ got[t] = r

\* Arc::strong_count.
References(r) ==
  Cardinality({t \in Tasks : kept[t] = r}) + Cardinality({t \in Tasks : got[t] = r})
    + (IF cached = r THEN 1 ELSE 0)

\* The lock on the file is free when no runtime lives, cached or not.
LockFree_Evicted == cached = None
LockFree == \A r \in Runtimes : ~Alive(r)

\* Steps that follow the one before without giving way to the same thread's tasks.
Running == {"check", "evict", "claim", "took", "finish", "evict_own"}
MayRun(t) == Parallel \/ \A u \in Tasks \ {t} : pc[u] \notin Running

\* A reference goes out of scope.
LetGo_Leaks(f, t) == f
LetGo(f, t) == [f EXCEPT ![t] = None]

Goto(t, label) == pc' = [pc EXCEPT ![t] = label]

-----------------------------------------------------------------------------
(* get_or_load_thread, and load_thread_without_recovery for the peekers.   *)

\* An agent may ask while it keeps a runtime.
Call(t) ==
  /\ MayRun(t) /\ pc[t] = "idle"
  /\ kept[t] \in invalid => ~AgentsStop
  /\ Goto(t, "look")
  /\ UNCHANGED <<cached, loading, invalid, kept, got, entry, faults, drops>>

Miss(t) == IF t \in Peekers THEN "open" ELSE "claim"

Look(t) ==
  /\ MayRun(t) /\ pc[t] = "look"
  /\ got' = [got EXCEPT ![t] = cached]
  /\ Goto(t, IF cached = None THEN Miss(t) ELSE "check")
  /\ UNCHANGED <<cached, loading, invalid, kept, entry, faults, drops>>

\* An invalidated runtime is replaced only if nobody else holds it.
Check(t) ==
  /\ MayRun(t) /\ pc[t] = "check"
  /\ \/ got[t] \notin invalid /\ Goto(t, "done") /\ UNCHANGED got
     \/ /\ got[t] \in invalid /\ References(got[t]) > 2
        /\ Goto(t, "idle") /\ got' = LetGo(got, t)
     \/ got[t] \in invalid /\ References(got[t]) <= 2 /\ Goto(t, "evict") /\ UNCHANGED got
  /\ UNCHANGED <<cached, loading, invalid, kept, entry, faults, drops>>

\* The map's entry goes by the id of the thread, whatever is in it by now.
Evict(t) ==
  /\ MayRun(t) /\ pc[t] = "evict"
  /\ cached' = None
  /\ got' = LetGo(got, t)
  /\ Goto(t, IF t \in Peekers THEN "open" ELSE "look")
  /\ UNCHANGED <<loading, invalid, kept, entry, faults, drops>>

\* What a call that finds no runtime does about the loads under way.
MayClaim == loading = None

FreeLoads == {n \in Loads : n # loading /\ \A t \in Tasks : entry[t] # n}

Claim(t) ==
  /\ MayRun(t) /\ pc[t] = "claim"
  /\ \/ /\ MayClaim
        /\ \E n \in FreeLoads : loading' = n /\ entry' = [entry EXCEPT ![t] = n]
        /\ Goto(t, "open")
     \/ /\ ~MayClaim
        /\ entry' = [entry EXCEPT ![t] = loading]
        /\ Goto(t, "took") /\ UNCHANGED loading
  /\ UNCHANGED <<cached, invalid, kept, got, faults, drops>>

\* The map is unlocked by now; a Notify that has fired meanwhile does not fire again.
Listen(t) ==
  /\ MayRun(t) /\ pc[t] = "took"
  /\ Goto(t, "waiting")
  /\ UNCHANGED <<cached, loading, invalid, kept, got, entry, faults, drops>>

\* The thread's file is locked, on a thread of the pool, and then read and replayed: a
\* new runtime.
Open(t) ==
  /\ pc[t] = "open" /\ LockFree
  /\ \E r \in Runtimes :
       ~Alive(r) /\ got' = [got EXCEPT ![t] = r] /\ invalid' = invalid \ {r}
  /\ Goto(t, IF t \in Peekers THEN "done" ELSE "insert")
  /\ UNCHANGED <<cached, loading, kept, entry, faults, drops>>

\* Opening or recovering the thread fails.
LoadFails(t) ==
  /\ MayRun(t) /\ pc[t] \in {"open", "insert"} /\ faults < MaxFaults
  /\ faults' = faults + 1
  /\ got' = LetGo(got, t)
  /\ Goto(t, IF t \in Peekers THEN "idle" ELSE "finish")
  /\ UNCHANGED <<cached, loading, invalid, kept, entry, drops>>

\* Someone else's runtime would be taken instead, if there were one.
Insert(t) ==
  /\ MayRun(t) /\ pc[t] = "insert"
  /\ IF cached = None THEN cached' = got[t] /\ UNCHANGED got
                      ELSE got' = [got EXCEPT ![t] = cached] /\ UNCHANGED cached
  /\ Goto(t, "finish")
  /\ UNCHANGED <<loading, invalid, kept, entry, faults, drops>>

\* Those that notify_waiters reaches.
Woken(n) == {u \in Tasks : pc[u] = "waiting" /\ entry[u] = n}

\* The entry is removed by the id of the thread, whether the load succeeded or not.
EntryAfter_Loaded(t) == IF got[t] = None THEN loading ELSE None
EntryAfter(t) == None

\* Those who wait look again.
Finish(t) ==
  /\ MayRun(t) /\ pc[t] = "finish"
  /\ loading' = EntryAfter(t)
  /\ pc' = [u \in Tasks |-> IF u = t THEN IF got[t] = None THEN "idle" ELSE "done"
                            ELSE IF u \in Woken(loading) THEN "look" ELSE pc[u]]
  /\ entry' = [u \in Tasks |-> IF u \in Woken(loading) \union {t} THEN None ELSE entry[u]]
  /\ UNCHANGED <<cached, invalid, kept, got, faults, drops>>

-----------------------------------------------------------------------------
(* What tasks do with a runtime.                                           *)

Release(t) ==
  /\ MayRun(t) /\ pc[t] = "done"
  /\ got' = LetGo(got, t)
  /\ Goto(t, "idle")
  /\ UNCHANGED <<cached, loading, invalid, kept, entry, faults, drops>>

\* A turn begins: its task keeps the runtime, which must not be invalidated.
StartTurn(t) ==
  /\ MayRun(t) /\ pc[t] = "done" /\ t \in Agents /\ kept[t] = None
  /\ got[t] \notin invalid
  /\ kept' = [kept EXCEPT ![t] = got[t]]
  /\ got' = LetGo(got, t)
  /\ Goto(t, "idle")
  /\ UNCHANGED <<cached, loading, invalid, entry, faults, drops>>

EndTurn(t) ==
  /\ MayRun(t) /\ pc[t] = "idle" /\ kept[t] # None
  /\ kept' = LetGo(kept, t)
  /\ UNCHANGED <<cached, loading, invalid, got, entry, pc, faults, drops>>

\* TurnCompleted cannot be appended, at the end of a turn or by force.
Invalidate(t) ==
  /\ MayRun(t) /\ faults < MaxFaults
  /\ \E r \in Runtimes :
       /\ \/ pc[t] = "idle" /\ kept[t] = r
          \/ pc[t] = "done" /\ got[t] = r /\ t \notin Peekers
       /\ AgentsStop => \A u \in Tasks \ {t} : kept[u] = r => pc[u] = "idle"
       /\ invalid' = invalid \union {r}
  /\ faults' = faults + 1
  /\ Goto(t, "evict_own")
  /\ UNCHANGED <<cached, loading, kept, got, entry, drops>>

\* Whether who has invalidated the runtime also takes it out of the map.
EvictOwn(t) ==
  /\ MayRun(t) /\ pc[t] = "evict_own"
  /\ cached' = None
  /\ Goto(t, IF got[t] = None THEN "idle" ELSE "done")
  /\ UNCHANGED <<loading, invalid, kept, got, entry, faults, drops>>

InCall == {"look", "check", "evict", "claim", "took", "waiting", "open", "insert", "finish"}

\* The turn is interrupted and its agent dropped, wherever it is in its call.
DropAgent(t) ==
  /\ MayRun(t) /\ t \in Agents /\ pc[t] \in InCall /\ drops < MaxDrops
  /\ drops' = drops + 1
  /\ got' = LetGo(got, t)
  /\ entry' = [entry EXCEPT ![t] = None]
  /\ Goto(t, "idle")
  /\ UNCHANGED <<cached, loading, invalid, kept, faults>>

-----------------------------------------------------------------------------
Init ==
  /\ cached = None /\ loading = None /\ invalid = {}
  /\ kept = [t \in Tasks |-> None]
  /\ got = [t \in Tasks |-> None]
  /\ entry = [t \in Tasks |-> None]
  /\ pc = [t \in Tasks |-> "idle"]
  /\ faults = 0 /\ drops = 0

\* Steps a call takes when it is polled.
CallStep(t) ==
  Look(t) \/ Check(t) \/ Evict(t) \/ Claim(t) \/ Listen(t) \/ Insert(t) \/ Finish(t)

\* Steps of those who hold a runtime; a turn that has been completed ends.
HolderStep(t) ==
  Release(t) \/ StartTurn(t) \/ EvictOwn(t) \/ (kept[t] \in invalid /\ EndTurn(t))

Next ==
  \E t \in Tasks :
    \/ Call(t) \/ CallStep(t) \/ Open(t) \/ LoadFails(t)
    \/ HolderStep(t) \/ EndTurn(t) \/ Invalidate(t) \/ DropAgent(t)

Spec == Init /\ [][Next]_vars

\* A task that is ready is polled in its turn, so it cannot always miss the moments
\* when no other runs.  A lock that stays free is taken, a request lets go of its
\* runtime, and the task of a turn that was completed ends.
Fairness ==
  \A t \in Tasks : SF_vars(CallStep(t)) /\ SF_vars(HolderStep(t)) /\ WF_vars(Open(t))

FairSpec == Spec /\ Fairness

-----------------------------------------------------------------------------
(* Properties.                                                             *)

Loading == {"open", "insert", "finish"}
Loaders == {t \in Tasks \ Peekers : pc[t] \in Loading}

\* Every variable keeps to its type; a call has a runtime in hand, and an entry, where
\* it should.
TypeOK ==
  /\ cached \in Runtimes \union {None} /\ loading \in Loads \union {None}
  /\ invalid \subseteq Runtimes
  /\ kept \in [Tasks -> Runtimes \union {None}] /\ \A t \in Tasks \ Agents : kept[t] = None
  /\ got \in [Tasks -> Runtimes \union {None}] /\ entry \in [Tasks -> Loads \union {None}]
  /\ pc \in [Tasks -> InCall \union {"idle", "done", "evict_own"}]
  /\ faults \in 0..MaxFaults /\ drops \in 0..MaxDrops
  /\ \A t \in Tasks :
       /\ pc[t] \in {"check", "evict", "insert", "done"} => got[t] # None
       /\ pc[t] \in {"idle", "look", "claim", "took", "waiting", "open"} => got[t] = None
       /\ t \in Peekers => pc[t] \notin {"claim", "took", "waiting", "insert", "finish"}
       /\ entry[t] # None <=> pc[t] \in {"took", "waiting"} \/ t \in Loaders

\* There is never more than one runtime of the thread alive, so nothing is cached by
\* the time a load puts its own into the map, and none is put there by two.
OneRuntime ==
  /\ \A r, s \in Runtimes : Alive(r) /\ Alive(s) => r = s
  /\ \A t \in Tasks : pc[t] = "insert" => cached = None

\* One load of the thread is under way at most, and the entry is its own.
OneLoad ==
  \A t \in Loaders : loading = entry[t] /\ Loaders = {t}

\* Whoever takes a runtime out of the map, by the id of the thread, takes out one that
\* was invalidated, and never the one loaded in its place.
EvictsOnlyInvalid == [][cached' # cached /\ cached # None => cached \in invalid]_vars

\* Whoever asks for the thread gets it or an error, and does not wait for ever.
LoadAnswered == \A t \in Tasks : pc[t] = "look" ~> pc[t] \in {"idle", "done"}

\* Whoever is about to evict holds a runtime that was invalidated.
Condemned ==
  \A t \in Tasks :
    /\ pc[t] = "evict" => got[t] \in invalid
    /\ pc[t] = "evict_own" => kept[t] \in invalid \/ got[t] \in invalid

IInv == TypeOK /\ OneRuntime /\ OneLoad /\ Condemned

\* The task that has a runtime no other can have: it has loaded it and not yet put it
\* into the map.
LoaderAlone ==
  \A t \in Tasks : pc[t] = "insert" =>
    /\ got[t] \notin invalid /\ kept[t] = None
    /\ \A u \in Tasks \ {t} : got[u] = None /\ kept[u] = None

Users == {t \in Tasks : kept[t] # None \/ got[t] # None}

Sole == INSTANCE SoleRuntime WITH
  live <- {r \in Runtimes : Alive(r)}, users <- Users,
  shared <- cached # None, condemned <- \E r \in invalid : Alive(r)

\* The maps, the references and the file's lock make what SoleRuntime promises: nobody
\* is given a runtime beside a living one, and one that works stays in the map.
ImplementsSoleRuntime == Sole!Spec
=============================================================================
