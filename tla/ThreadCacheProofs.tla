------------------------- MODULE ThreadCacheProofs -------------------------
(***************************************************************************)
(* Proofs about ThreadCache: one runtime of the thread lives at a time,    *)
(* one load runs, and eviction by the id of the thread spares what is      *)
(* still valid, for any number of tasks, faults and dropped agents, on one *)
(* thread or on several.                                                   *)
(***************************************************************************)
EXTENDS ThreadCache, TLAPS

\* The steps that neither open the file nor claim, fill or end a load.
Quiet(t) ==
  \/ Call(t) \/ Look(t) \/ Check(t) \/ Evict(t) \/ Listen(t) \/ LoadFails(t)
  \/ Release(t) \/ StartTurn(t) \/ EndTurn(t) \/ Invalidate(t) \/ EvictOwn(t) \/ DropAgent(t)

-----------------------------------------------------------------------------
(* What keeps each part of the invariant.                                  *)

\* A step that makes no runtime live keeps one alive at most.
LEMMA FewerAlive ==
  ASSUME OneRuntime,
         \A r \in Runtimes : Alive(r)' => Alive(r),
         \A u \in Tasks : pc'[u] = "insert" => pc[u] = "insert",
         cached' \in {cached, None}
  PROVE  OneRuntime'
BY DEF OneRuntime

\* A step that lets no other load begin, and leaves the entry alone, keeps one load.
LEMMA FewerLoads ==
  ASSUME OneLoad, loading' = loading, Loaders' \subseteq Loaders,
         \A u \in Loaders' : entry'[u] = entry[u]
  PROVE  OneLoad'
BY DEF OneLoad

\* Whoever loads has an entry, so nobody does when there is none.
LEMMA NoEntryNoLoad ==
  ASSUME TypeOK, OneLoad, loading = None
  PROVE  Loaders = {}
<1> SUFFICES ASSUME NEW u \in Loaders
             PROVE  FALSE
  OBVIOUS
<1>1. u \in Tasks /\ entry[u] # None
  BY DEF Loaders, TypeOK
<1>2. loading = entry[u]
  BY DEF OneLoad
<1> QED
  BY <1>1, <1>2

\* No runtime is called None.
LEMMA NoneIsNoRuntime == None \notin Runtimes
BY NoneAssumption

-----------------------------------------------------------------------------
(* The initial state and the steps.                                        *)

LEMMA InitInv == Init => IInv
<1> SUFFICES ASSUME Init
             PROVE  IInv
  OBVIOUS
<1>1. TypeOK
  BY BoundsAssumption DEF Init, TypeOK, InCall, Loaders, Loading
<1>2. OneRuntime
  BY NoneIsNoRuntime DEF Init, OneRuntime, Alive
<1>3. OneLoad
  BY DEF Init, OneLoad, Loaders, Loading
<1>4. Condemned
  BY DEF Init, Condemned
<1> QED
  BY <1>1, <1>2, <1>3, <1>4 DEF IInv

\* What the quiet steps do to the types.
LEMMA QuietType ==
  ASSUME IInv, NEW t \in Tasks, Quiet(t)
  PROVE  TypeOK'
<1> USE NoneAssumption, TasksAssumption, BoundsAssumption
    DEF IInv, TypeOK, InCall, Loaders, Loading, Goto, LetGo
<1>1. CASE Call(t)       BY <1>1 DEF Call
<1>2. CASE Look(t)       BY <1>2 DEF Look, Miss
<1>3. CASE Check(t)      BY <1>3 DEF Check
<1>4. CASE Evict(t)      BY <1>4 DEF Evict
<1>5. CASE Listen(t)     BY <1>5 DEF Listen
<1>6. CASE LoadFails(t)  BY <1>6 DEF LoadFails
<1>7. CASE Release(t)    BY <1>7 DEF Release
<1>8. CASE StartTurn(t)  BY <1>8 DEF StartTurn
<1>9. CASE EndTurn(t)    BY <1>9 DEF EndTurn
<1>10. CASE Invalidate(t) BY <1>10 DEF Invalidate
<1>11. CASE EvictOwn(t)  BY <1>11 DEF EvictOwn
<1>12. CASE DropAgent(t) BY <1>12 DEF DropAgent
<1> QED
  BY <1>1, <1>2, <1>3, <1>4, <1>5, <1>6, <1>7, <1>8, <1>9, <1>10, <1>11, <1>12 DEF Quiet

\* A quiet step takes a reference only to what is cached, or drops some.
LEMMA QuietAlive ==
  ASSUME IInv, NEW t \in Tasks, Quiet(t)
  PROVE  /\ \A r \in Runtimes : Alive(r)' => Alive(r)
         /\ \A u \in Tasks : pc'[u] = "insert" => pc[u] = "insert"
         /\ cached' \in {cached, None}
<1> USE NoneIsNoRuntime DEF IInv, TypeOK, Alive, Goto, LetGo
<1>1. CASE Call(t)       BY <1>1 DEF Call
<1>2. CASE Look(t)       BY <1>2 DEF Look, Miss
<1>3. CASE Check(t)      BY <1>3 DEF Check
<1>4. CASE Evict(t)      BY <1>4 DEF Evict
<1>5. CASE Listen(t)     BY <1>5 DEF Listen
<1>6. CASE LoadFails(t)  BY <1>6 DEF LoadFails
<1>7. CASE Release(t)    BY <1>7 DEF Release
<1>8. CASE StartTurn(t)  BY <1>8 DEF StartTurn
<1>9. CASE EndTurn(t)    BY <1>9 DEF EndTurn
<1>10. CASE Invalidate(t) BY <1>10 DEF Invalidate
<1>11. CASE EvictOwn(t)  BY <1>11 DEF EvictOwn
<1>12. CASE DropAgent(t) BY <1>12 DEF DropAgent
<1> QED
  BY <1>1, <1>2, <1>3, <1>4, <1>5, <1>6, <1>7, <1>8, <1>9, <1>10, <1>11, <1>12 DEF Quiet

\* A quiet step begins no load and leaves the entries of those under way.
LEMMA QuietLoads ==
  ASSUME IInv, NEW t \in Tasks, Quiet(t)
  PROVE  /\ loading' = loading
         /\ Loaders' \subseteq Loaders
         /\ \A u \in Loaders' : entry'[u] = entry[u]
<1> USE TasksAssumption DEF IInv, TypeOK, InCall, Loaders, Loading, Goto, LetGo
<1>1. CASE Call(t)       BY <1>1 DEF Call
<1>2. CASE Look(t)       BY <1>2 DEF Look, Miss
<1>3. CASE Check(t)      BY <1>3 DEF Check
<1>4. CASE Evict(t)      BY <1>4 DEF Evict
<1>5. CASE Listen(t)     BY <1>5 DEF Listen
<1>6. CASE LoadFails(t)  BY <1>6 DEF LoadFails
<1>7. CASE Release(t)    BY <1>7 DEF Release
<1>8. CASE StartTurn(t)  BY <1>8 DEF StartTurn
<1>9. CASE EndTurn(t)    BY <1>9 DEF EndTurn
<1>10. CASE Invalidate(t) BY <1>10 DEF Invalidate
<1>11. CASE EvictOwn(t)  BY <1>11 DEF EvictOwn
<1>12. CASE DropAgent(t) BY <1>12 DEF DropAgent
<1> QED
  BY <1>1, <1>2, <1>3, <1>4, <1>5, <1>6, <1>7, <1>8, <1>9, <1>10, <1>11, <1>12 DEF Quiet

\* Whoever comes to an eviction in a quiet step has an invalidated runtime in hand.
LEMMA QuietCondemned ==
  ASSUME IInv, NEW t \in Tasks, Quiet(t)
  PROVE  Condemned'
<1> USE DEF IInv, TypeOK, InCall, Condemned, Goto, LetGo
<1>1. CASE Call(t)       BY <1>1 DEF Call
<1>2. CASE Look(t)       BY <1>2 DEF Look, Miss
<1>3. CASE Check(t)      BY <1>3 DEF Check
<1>4. CASE Evict(t)      BY <1>4 DEF Evict
<1>5. CASE Listen(t)     BY <1>5 DEF Listen
<1>6. CASE LoadFails(t)  BY <1>6 DEF LoadFails
<1>7. CASE Release(t)    BY <1>7 DEF Release
<1>8. CASE StartTurn(t)  BY <1>8 DEF StartTurn
<1>9. CASE EndTurn(t)    BY <1>9 DEF EndTurn
<1>10. CASE Invalidate(t) BY <1>10 DEF Invalidate
<1>11. CASE EvictOwn(t)  BY <1>11 DEF EvictOwn
<1>12. CASE DropAgent(t) BY <1>12 DEF DropAgent
<1> QED
  BY <1>1, <1>2, <1>3, <1>4, <1>5, <1>6, <1>7, <1>8, <1>9, <1>10, <1>11, <1>12 DEF Quiet

LEMMA QuietInv ==
  ASSUME IInv, NEW t \in Tasks, Quiet(t)
  PROVE  IInv'
<1>1. TypeOK'
  BY QuietType
<1>2. OneRuntime'
  BY QuietAlive, FewerAlive DEF IInv
<1>3. OneLoad'
  BY QuietLoads, FewerLoads DEF IInv
<1>4. Condemned'
  BY QuietCondemned
<1> QED
  BY <1>1, <1>2, <1>3, <1>4 DEF IInv

-----------------------------------------------------------------------------
(* A load, from its entry to its end.                                      *)

\* A call becomes the loader when there is no entry, or waits for the one there is.
LEMMA ClaimInv ==
  ASSUME IInv, NEW t \in Tasks, Claim(t)
  PROVE  IInv'
<1>1. TypeOK'
  <2>1. CASE MayClaim
    BY <2>1, NoneAssumption, TasksAssumption
    DEF Claim, MayClaim, FreeLoads, IInv, TypeOK, InCall, Loaders, Loading, Goto
  <2>2. CASE ~MayClaim
    BY <2>2, NoneAssumption, TasksAssumption
    DEF Claim, MayClaim, IInv, TypeOK, InCall, Loaders, Loading, Goto
  <2> QED
    BY <2>1, <2>2
<1>2. OneRuntime'
  <2>1. /\ \A r \in Runtimes : Alive(r)' => Alive(r)
        /\ \A u \in Tasks : pc'[u] = "insert" => pc[u] = "insert"
        /\ cached' \in {cached, None}
    BY DEF Claim, Alive, Goto, IInv, TypeOK
  <2> QED
    BY <2>1, FewerAlive DEF IInv
<1>3. OneLoad'
  <2>1. CASE MayClaim
    <3>1. Loaders = {}
      BY <2>1, NoEntryNoLoad DEF MayClaim, IInv
    <3>2. Loaders' \subseteq {t}
      BY <3>1 DEF Claim, Loaders, Loading, Goto, IInv, TypeOK
    <3>3. loading' = entry'[t]
      BY <2>1 DEF Claim, IInv, TypeOK
    <3> QED
      BY <3>2, <3>3 DEF OneLoad
  <2>2. CASE ~MayClaim
    <3>1. /\ loading' = loading
          /\ Loaders' \subseteq Loaders
          /\ \A u \in Loaders' : entry'[u] = entry[u]
      BY <2>2 DEF Claim, Loaders, Loading, Goto, IInv, TypeOK
    <3> QED
      BY <3>1, FewerLoads DEF IInv
  <2> QED
    BY <2>1, <2>2
<1>4. Condemned'
  BY DEF Claim, Condemned, Goto, IInv, TypeOK
<1> QED
  BY <1>1, <1>2, <1>3, <1>4 DEF IInv

\* A runtime comes to life only when the lock is free, so when none is alive.
LEMMA OpenInv ==
  ASSUME IInv, NEW t \in Tasks, Open(t)
  PROVE  IInv'
<1> PICK r \in Runtimes :
      ~Alive(r) /\ got' = [got EXCEPT ![t] = r] /\ invalid' = invalid \ {r}
  BY DEF Open
<1>a. /\ pc[t] = "open" /\ UNCHANGED <<cached, loading, kept, entry, faults, drops>>
      /\ pc' = [pc EXCEPT ![t] = IF t \in Peekers THEN "done" ELSE "insert"]
  BY DEF Open, Goto
<1>b. cached = None /\ \A u \in Tasks : kept[u] = None /\ got[u] = None
  BY DEF Open, LockFree, Alive, IInv, TypeOK
<1>1. TypeOK'
  BY <1>a, NoneAssumption, TasksAssumption DEF IInv, TypeOK, InCall, Loaders, Loading
<1>2. OneRuntime'
  <2>1. \A s \in Runtimes : Alive(s)' => s = r
    BY <1>a, <1>b, NoneIsNoRuntime DEF Alive, IInv, TypeOK
  <2> QED
    BY <2>1, <1>a, <1>b DEF OneRuntime
<1>3. OneLoad'
  <2>1. /\ loading' = loading
        /\ Loaders' \subseteq Loaders
        /\ \A u \in Loaders' : entry'[u] = entry[u]
    BY <1>a DEF Loaders, Loading, IInv, TypeOK
  <2> QED
    BY <2>1, FewerLoads DEF IInv
<1>4. Condemned'
  BY <1>a, <1>b, NoneIsNoRuntime DEF Condemned, IInv, TypeOK
<1> QED
  BY <1>1, <1>2, <1>3, <1>4 DEF IInv

\* The loader finds no runtime in the map, and puts its own there.
LEMMA InsertInv ==
  ASSUME IInv, NEW t \in Tasks, Insert(t)
  PROVE  IInv'
<1>a. /\ pc[t] = "insert" /\ cached' = got[t] /\ pc' = [pc EXCEPT ![t] = "finish"]
      /\ UNCHANGED <<loading, invalid, kept, got, entry, faults, drops>>
  BY DEF Insert, Goto, IInv, OneRuntime
<1>1. TypeOK'
  BY <1>a DEF IInv, TypeOK, InCall, Loaders, Loading
<1>2. OneRuntime'
  <2>1. \A s \in Runtimes : Alive(s)' => Alive(s)
    BY <1>a DEF Alive
  <2>2. Loaders = {t}
    BY <1>a DEF Loaders, Loading, IInv, TypeOK, OneLoad
  <2>3. \A u \in Tasks : pc'[u] # "insert"
    BY <1>a, <2>2 DEF Loaders, Loading, IInv, TypeOK
  <2> QED
    BY <2>1, <2>3 DEF OneRuntime, IInv
<1>3. OneLoad'
  <2>1. /\ Loaders' \subseteq Loaders
        /\ \A u \in Loaders' : entry'[u] = entry[u]
    BY <1>a DEF Loaders, Loading, IInv, TypeOK
  <2> QED
    BY <2>1, <1>a, FewerLoads DEF IInv
<1>4. Condemned'
  BY <1>a DEF Condemned, IInv, TypeOK
<1> QED
  BY <1>1, <1>2, <1>3, <1>4 DEF IInv

\* The entry removed is the loader's own, and nobody else's load is under way.
LEMMA FinishInv ==
  ASSUME IInv, NEW t \in Tasks, Finish(t)
  PROVE  IInv'
<1>a. /\ pc[t] = "finish" /\ t \notin Peekers /\ loading' = None
      /\ UNCHANGED <<cached, invalid, kept, got, faults, drops>>
  BY DEF Finish, EntryAfter, IInv, TypeOK
<1>b. Loaders = {t}
  BY <1>a DEF Loaders, Loading, IInv, OneLoad
<1>c. \A u \in Tasks \ {t} :
        \/ pc'[u] = pc[u] /\ entry'[u] = entry[u]
        \/ pc[u] = "waiting" /\ pc'[u] = "look" /\ entry'[u] = None
  BY DEF Finish, Woken
<1>d. entry'[t] = None /\ pc'[t] = IF got[t] = None THEN "idle" ELSE "done"
  BY DEF Finish
<1>1. TypeOK'
  <2>1. /\ pc' \in [Tasks -> InCall \union {"idle", "done", "evict_own"}]
        /\ entry' \in [Tasks -> Loads \union {None}]
    BY DEF Finish, IInv, TypeOK, InCall
  <2>2. ASSUME NEW u \in Tasks
        PROVE  /\ pc'[u] \in {"check", "evict", "insert", "done"} => got'[u] # None
               /\ pc'[u] \in {"idle", "look", "claim", "took", "waiting", "open"}
                    => got'[u] = None
               /\ u \in Peekers
                    => pc'[u] \notin {"claim", "took", "waiting", "insert", "finish"}
               /\ entry'[u] # None <=> pc'[u] \in {"took", "waiting"} \/ u \in Loaders'
    <3>1. CASE u = t
      BY <3>1, <1>a, <1>d DEF Loaders, Loading
    <3>2. CASE u # t
      BY <3>2, <1>a, <1>b, <1>c DEF Loaders, Loading, IInv, TypeOK
    <3> QED
      BY <3>1, <3>2
  <2> QED
    BY <2>1, <2>2, <1>a DEF IInv, TypeOK
<1>2. OneRuntime'
  <2>1. /\ \A r \in Runtimes : Alive(r)' => Alive(r)
        /\ \A u \in Tasks : pc'[u] = "insert" => pc[u] = "insert"
    BY <1>a, <1>c, <1>d DEF Alive
  <2> QED
    BY <2>1, <1>a, FewerAlive DEF IInv
<1>3. OneLoad'
  <2>1. Loaders' = {}
    BY <1>b, <1>c, <1>d DEF Loaders, Loading
  <2> QED
    BY <2>1 DEF OneLoad
<1>4. Condemned'
  BY <1>a, <1>c, <1>d DEF Condemned, IInv
<1> QED
  BY <1>1, <1>2, <1>3, <1>4 DEF IInv

LEMMA StepInv == IInv /\ [Next]_vars => IInv'
<1> SUFFICES ASSUME IInv, [Next]_vars
             PROVE  IInv'
  OBVIOUS
<1>1. CASE UNCHANGED vars
  BY <1>1
  DEF vars, IInv, TypeOK, OneRuntime, OneLoad, Condemned, Alive, Loaders
<1>2. ASSUME NEW t \in Tasks, CallStep(t) \/ Open(t) \/ HolderStep(t) \/ Quiet(t)
      PROVE  IInv'
  BY <1>2, QuietInv, ClaimInv, OpenInv, InsertInv, FinishInv DEF CallStep, HolderStep, Quiet
<1> QED
  BY <1>1, <1>2 DEF Next, Quiet

-----------------------------------------------------------------------------
(* The theorems.                                                           *)

\* The inductive invariant holds for any number of tasks, faults and dropped agents.
THEOREM Invariance == Spec => []IInv
  BY InitInv, StepInv, PTL DEF Spec

\* Every variable keeps to its type, and references and entries are where they should be.
THEOREM TypeCorrect == Spec => []TypeOK
<1>1. IInv => TypeOK
  BY DEF IInv
<1> QED
  BY <1>1, Invariance, PTL

\* One runtime of the thread lives at a time, and a load that has recovered the thread
\* (load_thread_with_runtime_recovery) finds no other in the map.
THEOREM OneRuntimeLives == Spec => []OneRuntime
<1>1. IInv => OneRuntime
  BY DEF IInv
<1> QED
  BY <1>1, Invariance, PTL

\* One load is under way at a time (get_or_load_thread), and the entry it removes is its own.
THEOREM OneLoadRuns == Spec => []OneLoad
<1>1. IInv => OneLoad
  BY DEF IInv
<1> QED
  BY <1>1, Invariance, PTL

\* evict_cached_thread removes by the id of the thread, and still takes out of the map
\* only runtimes that were invalidated.
THEOREM EvictionSparesValid == Spec => EvictsOnlyInvalid
<1>1. ASSUME IInv, [Next]_vars
      PROVE  [cached' # cached /\ cached # None => cached \in invalid]_vars
  <2> SUFFICES ASSUME cached' # cached, cached # None
               PROVE  cached \in invalid
    OBVIOUS
  <2>1. PICK t \in Tasks : Evict(t) \/ EvictOwn(t) \/ Insert(t)
    BY <1>1
    DEF Next, vars, CallStep, HolderStep, Call, Look, Check, Claim, Listen, Finish, Open,
        LoadFails, Release, StartTurn, EndTurn, Invalidate, DropAgent
  <2>2. cached \in Runtimes /\ Alive(cached)
    BY <1>1 DEF IInv, TypeOK, Alive
  <2>3. CASE Insert(t)
    BY <2>3, <1>1 DEF Insert, IInv, OneRuntime
  <2>4. CASE Evict(t)
    BY <2>4, <2>2, <1>1 DEF Evict, IInv, TypeOK, OneRuntime, Condemned, Alive
  <2>5. CASE EvictOwn(t)
    BY <2>5, <2>2, <1>1 DEF EvictOwn, IInv, TypeOK, OneRuntime, Condemned, Alive
  <2> QED
    BY <2>1, <2>3, <2>4, <2>5
<1> QED
  BY <1>1, Invariance, PTL DEF Spec, EvictsOnlyInvalid

-----------------------------------------------------------------------------
(* The cache implements SoleRuntime.                                       *)

\* Who loads a thread has the runtime for itself until it is in the map.
LEMMA LoaderStaysAlone ==
  ASSUME IInv, LoaderAlone, [Next]_vars
  PROVE  LoaderAlone'
<1> USE DEF LoaderAlone, IInv, TypeOK, InCall
<1>1. CASE UNCHANGED vars
  BY <1>1 DEF vars
<1>2. ASSUME NEW t \in Tasks, Quiet(t)
      PROVE  LoaderAlone'
  <2> USE <1>2 DEF Goto, LetGo
  <2>1. CASE Look(t)
    BY <2>1 DEF Look, Miss, OneRuntime
  <2>2. CASE Invalidate(t)
    BY <2>2, NoneIsNoRuntime DEF Invalidate
  <2>3. CASE Call(t) \/ Check(t) \/ Listen(t)
    BY <2>3 DEF Call, Check, Listen
  <2>4. CASE Evict(t) \/ LoadFails(t) \/ Release(t)
    BY <2>4 DEF Evict, LoadFails, Release
  <2>5. CASE StartTurn(t) \/ EndTurn(t)
    BY <2>5 DEF StartTurn, EndTurn
  <2>6. CASE EvictOwn(t) \/ DropAgent(t)
    BY <2>6 DEF EvictOwn, DropAgent
  <2> QED
    BY <2>1, <2>2, <2>3, <2>4, <2>5, <2>6 DEF Quiet
<1>3. ASSUME NEW t \in Tasks, Claim(t) \/ Insert(t) \/ Finish(t)
      PROVE  LoaderAlone'
  <2>1. CASE Claim(t)
    BY <2>1 DEF Claim, Goto
  <2>2. CASE Insert(t)
    BY <2>2 DEF Insert, Goto, OneRuntime
  <2>3. CASE Finish(t)
    BY <2>3 DEF Finish, Woken
  <2> QED
    BY <1>3, <2>1, <2>2, <2>3
<1>4. ASSUME NEW t \in Tasks, Open(t)
      PROVE  LoaderAlone'
  <2>1. \A u \in Tasks : kept[u] = None /\ got[u] = None
    BY <1>4 DEF Open, LockFree, Alive
  <2>2. \A u \in Tasks : pc[u] # "insert"
    BY <2>1
  <2> QED
    BY <1>4, <2>1, <2>2 DEF Open, Goto
<1> QED
  BY <1>1, <1>2, <1>3, <1>4 DEF Next, CallStep, HolderStep, Quiet

\* What lives is what is cached or used.
LEMMA LiveIsUsed ==
  ASSUME TypeOK, NEW r \in Runtimes, Alive(r)
  PROVE  Users # {} \/ cached # None
  BY NoneIsNoRuntime DEF TypeOK, Alive, Users

\* When nobody new has a runtime, the same one lives as long as it is cached or used.
LEMMA SameLive ==
  ASSUME IInv, TypeOK', invalid' = invalid, \A r \in Runtimes : Alive(r)' => Alive(r),
         Users' # {} \/ cached' # None
  PROVE  {r \in Runtimes : Alive(r)}' = {r \in Runtimes : Alive(r)}
         /\ (\E r \in invalid : Alive(r))' = (\E r \in invalid : Alive(r))
<1>1. \E r \in Runtimes : Alive(r)'
  BY DEF TypeOK, Users, Alive
<1>2. \A r \in Runtimes : Alive(r)' <=> Alive(r)
  BY <1>1 DEF IInv, OneRuntime
<1>3. invalid \subseteq Runtimes
  BY DEF IInv, TypeOK
<1> QED
  BY <1>2, <1>3

\* With the last reference the runtime is gone.
LEMMA LastIsGone ==
  ASSUME IInv, TypeOK', invalid' = invalid, \A r \in Runtimes : Alive(r)' => Alive(r)
  PROVE  Sole!LastGone
<1>1. CASE Users' = {} /\ cached' = None
  <2>1. \A r \in Runtimes : ~Alive(r)'
    BY <1>1, NoneIsNoRuntime DEF TypeOK, Users, Alive
  <2>2. invalid' \subseteq Runtimes
    BY DEF TypeOK
  <2> QED
    BY <1>1, <2>1, <2>2 DEF Sole!LastGone
<1>2. CASE Users' # {} \/ cached' # None
  BY <1>2, SameLive DEF Sole!LastGone
<1> QED
  BY <1>1, <1>2

\* Steps that change no reference.
LEMMA NobodyMoves ==
  ASSUME IInv, TypeOK', UNCHANGED <<cached, invalid>>, Users' = Users,
         \A r \in Runtimes : Alive(r)' => Alive(r)
  PROVE  UNCHANGED Sole!vars
<1>1. CASE Users = {} /\ cached = None
  <2>1. \A r \in Runtimes : ~Alive(r)
    BY <1>1, NoneIsNoRuntime DEF IInv, TypeOK, Users, Alive
  <2>2. \A r \in Runtimes : ~Alive(r)'
    BY <2>1
  <2>3. invalid \subseteq Runtimes
    BY DEF IInv, TypeOK
  <2> QED
    BY <2>1, <2>2, <2>3 DEF Sole!vars
<1>2. CASE Users' # {} \/ cached' # None
  BY <1>2, SameLive DEF Sole!vars
<1> QED
  BY <1>1, <1>2

\* What the steps that make no runtime do to references and map.
LEMMA QuietUsers ==
  ASSUME IInv, NEW t \in Tasks, Quiet(t)
  PROVE  \/ Invalidate(t)
         \/ Look(t) /\ cached # None
         \/ /\ invalid' = invalid /\ Users' \in {Users, Users \ {t}}
            /\ cached' # cached => t \in Users /\ cached' = None /\ (Evict(t) \/ EvictOwn(t))
<1> USE NoneIsNoRuntime DEF IInv, TypeOK, Users, LetGo
<1>1. CASE Call(t)       BY <1>1 DEF Call
<1>2. CASE Look(t)       BY <1>2 DEF Look
<1>3. CASE Check(t)      BY <1>3 DEF Check
<1>4. CASE Evict(t)      BY <1>4 DEF Evict
<1>5. CASE Listen(t)     BY <1>5 DEF Listen
<1>6. CASE LoadFails(t)  BY <1>6 DEF LoadFails
<1>7. CASE Release(t)    BY <1>7 DEF Release
<1>8. CASE StartTurn(t)  BY <1>8 DEF StartTurn
<1>9. CASE EndTurn(t)    BY <1>9 DEF EndTurn
<1>10. CASE EvictOwn(t)  BY <1>10 DEF EvictOwn, Condemned
<1>11. CASE DropAgent(t) BY <1>11 DEF DropAgent
<1> QED
  BY <1>1, <1>2, <1>3, <1>4, <1>5, <1>6, <1>7, <1>8, <1>9, <1>10, <1>11 DEF Quiet

\* Calls join the runtime in the map, let go of what they have, or take it from the map.
LEMMA QuietMaps ==
  ASSUME IInv, TypeOK', NEW t \in Tasks, Quiet(t)
  PROVE  Sole!Next \/ UNCHANGED Sole!vars
<1>1. \A r \in Runtimes : Alive(r)' => Alive(r)
  BY QuietAlive
<1>2. CASE Invalidate(t)
  <2>1. PICK r \in Runtimes : (kept[t] = r \/ got[t] = r) /\ invalid' = invalid \union {r}
    BY <1>2 DEF Invalidate
  <2>2. UNCHANGED <<cached, kept, got>>
    BY <1>2 DEF Invalidate
  <2>3. UNCHANGED {s \in Runtimes : Alive(s)} /\ Users' = Users /\ Alive(r)' /\ t \in Users
    BY <2>1, <2>2, NoneIsNoRuntime DEF Alive, Users
  <2>4. (\E s \in invalid : Alive(s))' = TRUE
    BY <2>1, <2>3
  <2>5. Sole!Condemn
    BY <2>2, <2>3, <2>4 DEF Sole!Condemn
  <2> QED
    BY <2>5 DEF Sole!Next
<1>3. CASE Look(t) /\ cached # None
  <2>1. UNCHANGED <<cached, invalid, kept>> /\ got' = [got EXCEPT ![t] = cached]
    BY <1>3 DEF Look
  <2>2. Users' = Users \union {t}
    BY <1>3, <2>1 DEF Users, IInv, TypeOK
  <2>3. Sole!Join(t)
    BY <1>1, <1>3, <2>1, <2>2, SameLive DEF Sole!Join
  <2> QED
    BY <2>3 DEF Sole!Next
<1>4. CASE /\ invalid' = invalid /\ Users' \in {Users, Users \ {t}}
           /\ cached' # cached => t \in Users /\ cached' = None /\ (Evict(t) \/ EvictOwn(t))
  <2>1. Sole!LastGone
    BY <1>1, <1>4, LastIsGone
  <2>2. CASE cached' = cached
    <3>1. CASE Users' = Users
      BY <1>1, <1>4, <2>2, <3>1, NobodyMoves
    <3>2. CASE Users' # Users
      <4>1. t \in Users /\ Users' = Users \ {t}
        BY <1>4, <3>2
      <4>2. Sole!Leave(t)
        BY <2>1, <2>2, <4>1 DEF Sole!Leave
      <4> QED
        BY <4>2 DEF Sole!Next
    <3> QED
      BY <3>1, <3>2
  <2>3. CASE cached' # cached
    <3>1. cached # None /\ cached \in Runtimes /\ Alive(cached) /\ cached' = None /\ t \in Users
      BY <1>4, <2>3 DEF IInv, TypeOK, Alive
    <3>2. cached \in invalid
      BY <1>4, <2>3, <3>1 DEF Evict, EvictOwn, IInv, TypeOK, OneRuntime, Condemned, Alive
    <3>3. Sole!Withdraw(t)
      BY <1>4, <2>1, <3>1, <3>2 DEF Sole!Withdraw
    <3> QED
      BY <3>3 DEF Sole!Next
  <2> QED
    BY <2>2, <2>3
<1> QED
  BY <1>2, <1>3, <1>4, QuietUsers

\* A load begins a runtime when none lives.
LEMMA OpenMaps ==
  ASSUME IInv, TypeOK', NEW t \in Tasks, Open(t)
  PROVE  Sole!Next
<1>1. PICK r \in Runtimes :
        ~Alive(r) /\ got' = [got EXCEPT ![t] = r] /\ invalid' = invalid \ {r}
  BY DEF Open
<1>2. cached = None /\ cached' = None /\ kept' = kept
      /\ \A u \in Tasks : kept[u] = None /\ got[u] = None
  BY DEF Open, LockFree, Alive, IInv, TypeOK
<1>3. \A s \in Runtimes : ~Alive(s) /\ (Alive(s)' <=> s = r)
  BY <1>1, <1>2, NoneIsNoRuntime DEF Alive, IInv, TypeOK
<1>4. Users = {} /\ Users' = {t}
  BY <1>1, <1>2, NoneIsNoRuntime DEF Users, IInv, TypeOK
<1>5. invalid \subseteq Runtimes /\ r \notin invalid'
  BY <1>1 DEF IInv, TypeOK
<1>6. ~(\E s \in invalid : Alive(s)) /\ ~(\E s \in invalid : Alive(s))'
  BY <1>1, <1>3, <1>5
<1>7. {s \in Runtimes : Alive(s)} = {} /\ {s \in Runtimes : Alive(s)}' = {r}
  BY <1>3
<1>8. Sole!Load(t)
  BY <1>2, <1>4, <1>6, <1>7 DEF Sole!Load
<1> QED
  BY <1>8 DEF Sole!Next

\* A loaded runtime is put into the map by the one who has it, before any turn of it.
LEMMA InsertMaps ==
  ASSUME IInv, LoaderAlone, TypeOK', NEW t \in Tasks, Insert(t)
  PROVE  Sole!Next
<1>1. /\ pc[t] = "insert" /\ cached = None /\ cached' = got[t] /\ got[t] # None
      /\ UNCHANGED <<invalid, kept, got>>
  BY DEF Insert, IInv, TypeOK, OneRuntime
<1>2. got[t] \in Runtimes /\ got[t] \notin invalid /\ Alive(got[t]) /\ t \in Users
  BY <1>1 DEF IInv, TypeOK, LoaderAlone, Alive, Users
<1>3. ~(\E r \in invalid : Alive(r))
  BY <1>2 DEF IInv, TypeOK, OneRuntime
<1>4. Users' = Users
  BY <1>1 DEF Users
<1>5. \A r \in Runtimes : Alive(r)' => Alive(r)
  BY <1>1 DEF Alive
<1>6. /\ {r \in Runtimes : Alive(r)}' = {r \in Runtimes : Alive(r)}
      /\ (\E r \in invalid : Alive(r))' = (\E r \in invalid : Alive(r))
  BY <1>1, <1>2, <1>4, <1>5, SameLive
<1>7. Sole!Share
  BY <1>1, <1>2, <1>3, <1>4, <1>6 DEF Sole!Share
<1> QED
  BY <1>7 DEF Sole!Next

\* A runtime that is being loaded has one user and no failed turn.
THEOREM LoaderIsAlone == Spec => []LoaderAlone
<1>1. Init => LoaderAlone
  BY DEF Init, LoaderAlone
<1> QED
  BY <1>1, LoaderStaysAlone, Invariance, PTL DEF Spec

\* Whoever asks, loads, lets go, evicts or is dropped: the runtimes of a thread come and
\* go as SoleRuntime says, on one thread and on several.
THEOREM CacheIsSoleRuntime == Spec => ImplementsSoleRuntime
<1>1. Init => Sole!Init
  BY NoneIsNoRuntime DEF Init, Sole!Init, Users, Alive
<1>2. IInv /\ IInv' /\ LoaderAlone /\ [Next]_vars => [Sole!Next]_Sole!vars
  <2>1. ASSUME IInv, IInv', LoaderAlone, Next PROVE [Sole!Next]_Sole!vars
    <3>1. TypeOK'
      BY <2>1 DEF IInv
    <3>2. ASSUME NEW t \in Tasks, Quiet(t) \/ Open(t) \/ Insert(t)
          PROVE  [Sole!Next]_Sole!vars
      BY <2>1, <3>1, <3>2, QuietMaps, OpenMaps, InsertMaps
    <3>3. ASSUME NEW t \in Tasks, Claim(t) \/ Finish(t)
          PROVE  [Sole!Next]_Sole!vars
      <4>1. UNCHANGED <<cached, invalid, kept, got>>
        BY <3>3 DEF Claim, Finish
      <4>2. Users' = Users /\ \A r \in Runtimes : Alive(r)' => Alive(r)
        BY <4>1 DEF Users, Alive
      <4> QED
        BY <2>1, <3>1, <4>1, <4>2, NobodyMoves
    <3> QED
      BY <2>1, <3>2, <3>3 DEF Next, CallStep, HolderStep, Quiet
  <2>2. ASSUME UNCHANGED vars PROVE UNCHANGED Sole!vars
    BY <2>2 DEF vars, Sole!vars, Users, Alive
  <2> QED
    BY <2>1, <2>2
<1> QED
  BY <1>1, <1>2, Invariance, LoaderIsAlone, PTL DEF Spec, ImplementsSoleRuntime, Sole!Spec
=============================================================================
