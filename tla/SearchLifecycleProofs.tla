----------------------- MODULE SearchLifecycleProofs -----------------------
(***************************************************************************)
(* Proofs about the engine's own bookkeeping in SearchLifecycle (the       *)
(* admission channel and e.cancels), for every number of workers, keys,    *)
(* incarnations, restarts and Redis failures and for both stores.          *)
(***************************************************************************)
EXTENDS SearchLifecycle, FiniteSetTheorems, TLAPS

WorkerRecord == [pc: PC, key: Keys, gen: Nat, ctx: {"live", "done"},
                 outcome: Outcome, tries: Nat]

EngineTypes ==
  /\ worker \in [Workers -> WorkerRecord]
  /\ admission \in Nat
  /\ cancels \in [Keys -> Workers \cup {NoWorker}]
  /\ created \in [Keys -> Nat]

\* AdmissionExact and NoDanglingCancel are inductive over the types of the
\* state they mention: neither needs to know anything of the store.
EngineInv == EngineTypes /\ AdmissionExact /\ NoDanglingCancel

-----------------------------------------------------------------------------
(* Facts about one step.                                                   *)

\* The state of a worker before start and after it returns.
LEMMA IdleWorkerTyped ==
  ASSUME NEW k \in Keys
  PROVE  IdleWorker(k) \in WorkerRecord /\ IdleWorker(k).pc = "idle" /\ IdleWorker(k).key = k
BY DEF IdleWorker, WorkerRecord, PC, Outcome

\* The key of a worker that has none of its own yet.
LEMMA SomeKeyIsKey == SomeKey \in Keys
BY LifecycleAssumption DEF SomeKey

\* The searches under way can be counted.
LEMMA BusyFinite == IsFiniteSet(Busy)
BY LifecycleAssumption, FS_Subset DEF Busy

\* A step that makes nobody idle or busy and leaves the channel alone.
LEMMA AdmissionKept ==
  ASSUME AdmissionExact, UNCHANGED admission,
         \A w \in Workers : (worker'[w].pc = "idle") <=> (worker[w].pc = "idle")
  PROVE  AdmissionExact'
<1>1. Busy' = Busy
  BY DEF Busy
<1> QED
  BY <1>1 DEF AdmissionExact

\* A step that takes a token for one idle worker.
LEMMA AdmissionTaken ==
  ASSUME EngineTypes, AdmissionExact, NEW w \in Workers,
         worker[w].pc = "idle", worker'[w].pc # "idle",
         \A v \in Workers \ {w} : worker'[v] = worker[v],
         admission < MaxConcurrent, admission' = admission + 1
  PROVE  AdmissionExact'
<1>1. Busy' = Busy \cup {w} /\ w \notin Busy
  BY DEF Busy
<1>2. Cardinality(Busy') = Cardinality(Busy) + 1
  BY <1>1, BusyFinite, FS_AddElement
<1> QED
  BY <1>2, LifecycleAssumption DEF AdmissionExact, EngineTypes

\* A step that gives the token of one busy worker back.
LEMMA AdmissionReturned ==
  ASSUME EngineTypes, AdmissionExact, NEW w \in Workers,
         worker[w].pc # "idle", worker'[w].pc = "idle",
         \A v \in Workers \ {w} : worker'[v] = worker[v],
         admission' = admission - 1
  PROVE  AdmissionExact' /\ admission' \in Nat
<1>1. Busy' = Busy \ {w} /\ w \in Busy
  BY DEF Busy
<1>2. Cardinality(Busy') = Cardinality(Busy) - 1
  BY <1>1, BusyFinite, FS_RemoveElement
<1>3. IsFiniteSet(Busy')
  BY <1>1, BusyFinite, FS_Subset
<1>4. Cardinality(Busy') \in Nat
  BY <1>3, FS_CardinalityType
<1> QED
  BY <1>2, <1>4, LifecycleAssumption DEF AdmissionExact, EngineTypes

-----------------------------------------------------------------------------
(* The steps that move one worker on, or end its context.                  *)

\* Every action that changes a single worker without a token or a cancel
\* function changing hands.
LEMMA WorkerMoves ==
  ASSUME EngineInv, NEW w \in Workers, NEW r \in WorkerRecord,
         worker' = [worker EXCEPT ![w] = r],
         worker[w].pc # "idle", r.pc # "idle", r.key = worker[w].key,
         worker[w].pc \in Registered => r.pc \in Registered,
         UNCHANGED <<admission, cancels>>, created' \in [Keys -> Nat]
  PROVE  EngineInv'
<1>1. EngineTypes'
  BY DEF EngineInv, EngineTypes
<1>2. AdmissionExact'
  <2>1. \A v \in Workers : (worker'[v].pc = "idle") <=> (worker[v].pc = "idle")
    BY DEF EngineInv, EngineTypes
  <2> QED BY <2>1, AdmissionKept DEF EngineInv
<1>3. NoDanglingCancel'
  BY DEF EngineInv, EngineTypes, NoDanglingCancel
<1> QED
  BY <1>1, <1>2, <1>3 DEF EngineInv

\* A step that leaves the variables of the engine alone.
LEMMA EngineIdle ==
  ASSUME EngineInv, UNCHANGED engineVars, created' \in [Keys -> Nat]
  PROVE  EngineInv'
<1>1. EngineTypes' /\ NoDanglingCancel'
  BY DEF EngineInv, EngineTypes, NoDanglingCancel, engineVars
<1>2. AdmissionExact'
  BY AdmissionKept DEF EngineInv, engineVars
<1> QED
  BY <1>1, <1>2 DEF EngineInv

\* ReturnWithoutWorker, on each of the paths of start and at the end of run.
LEMMA WorkerReturns ==
  ASSUME EngineInv, NEW w \in Workers, ReturnWithoutWorker(w),
         worker[w].pc \in {"create", "release"}, created' \in [Keys -> Nat]
  PROVE  EngineInv'
<1>0. IdleWorker(SomeKey) \in WorkerRecord /\ IdleWorker(SomeKey).pc = "idle"
  BY IdleWorkerTyped, SomeKeyIsKey
<1>1. /\ worker' = [worker EXCEPT ![w] = IdleWorker(SomeKey)]
      /\ admission' = admission - 1
      /\ cancels' = cancels
  BY DEF ReturnWithoutWorker
<1>2. AdmissionExact' /\ admission' \in Nat
  <2>1. worker'[w].pc = "idle" /\ \A v \in Workers \ {w} : worker'[v] = worker[v]
    BY <1>0, <1>1 DEF EngineInv, EngineTypes
  <2> QED BY <1>1, <2>1, AdmissionReturned DEF EngineInv
<1>3. EngineTypes'
  BY <1>0, <1>1, <1>2 DEF EngineInv, EngineTypes
<1>4. NoDanglingCancel'
  BY <1>0, <1>1 DEF EngineInv, EngineTypes, NoDanglingCancel, Registered
<1> QED
  BY <1>2, <1>3, <1>4 DEF EngineInv

-----------------------------------------------------------------------------
(* The actions.                                                            *)

\* start takes a token for one idle worker.
LEMMA StartKeeps ==
  ASSUME EngineInv, NEW w \in Workers, NEW k \in Keys, Start(w, k)
  PROVE  EngineInv'
<1> DEFINE r == [IdleWorker(k) EXCEPT !.pc = "create"]
<1>0. r \in WorkerRecord /\ r.pc = "create"
  BY DEF IdleWorker, WorkerRecord, PC, Outcome
<1>1. /\ worker[w].pc = "idle"
      /\ worker' = [worker EXCEPT ![w] = r]
      /\ admission < MaxConcurrent /\ admission' = admission + 1
      /\ cancels' = cancels /\ created' = created
  BY DEF Start, AdmissionFree, storeVars
<1> HIDE DEF r
<1>2. AdmissionExact'
  <2>1. worker'[w].pc # "idle" /\ \A v \in Workers \ {w} : worker'[v] = worker[v]
    BY <1>0, <1>1 DEF EngineInv, EngineTypes
  <2> QED BY <1>1, <2>1, AdmissionTaken DEF EngineInv
<1>3. EngineTypes'
  BY <1>0, <1>1 DEF EngineInv, EngineTypes
<1>4. NoDanglingCancel'
  BY <1>0, <1>1 DEF EngineInv, EngineTypes, NoDanglingCancel, Registered
<1> QED
  BY <1>2, <1>3, <1>4 DEF EngineInv

\* Register files the cancel function of w under the key of w.
LEMMA RegisterKeeps ==
  ASSUME EngineInv, NEW w \in Workers, Register(w)
  PROVE  EngineInv'
<1> DEFINE r == [worker[w] EXCEPT !.pc = "run",
                                  !.ctx = IF process = "up" THEN "live" ELSE "done"]
<1>0. r \in WorkerRecord /\ r.pc = "run" /\ r.key = worker[w].key
  BY DEF EngineInv, EngineTypes, WorkerRecord, PC
<1>1. /\ worker[w].pc = "register"
      /\ worker' = [worker EXCEPT ![w] = r]
      /\ cancels' = [cancels EXCEPT ![worker[w].key] = w]
      /\ admission' = admission /\ created' = created
  BY DEF Register, storeVars, EngineInv, EngineTypes
<1> HIDE DEF r
<1>2. AdmissionExact'
  <2>1. \A v \in Workers : (worker'[v].pc = "idle") <=> (worker[v].pc = "idle")
    BY <1>0, <1>1 DEF EngineInv, EngineTypes
  <2> QED BY <1>1, <2>1, AdmissionKept DEF EngineInv
<1>3. EngineTypes'
  BY <1>0, <1>1 DEF EngineInv, EngineTypes, WorkerRecord
<1>4. NoDanglingCancel'
  BY <1>0, <1>1 DEF EngineInv, EngineTypes, WorkerRecord, NoDanglingCancel, Registered
<1> QED
  BY <1>2, <1>3, <1>4 DEF EngineInv

\* removeCancel takes away whatever is filed under the key: the entry of w
\* cannot survive under another one.
LEMMA RemoveCancelKeeps ==
  ASSUME EngineInv, NEW w \in Workers, RemoveCancel(w)
  PROVE  EngineInv'
<1> DEFINE r == [worker[w] EXCEPT !.pc = "release"]
<1>0. r \in WorkerRecord /\ r.pc = "release" /\ r.key = worker[w].key
  BY DEF EngineInv, EngineTypes, WorkerRecord, PC
<1>1. /\ worker[w].pc = "unwind"
      /\ worker' = [worker EXCEPT ![w] = r]
      /\ cancels' = [cancels EXCEPT ![worker[w].key] = NoWorker]
      /\ admission' = admission /\ created' = created
  BY DEF RemoveCancel, Move, CancelRemoved, storeVars, EngineInv, EngineTypes
<1> HIDE DEF r
<1>2. AdmissionExact'
  <2>1. \A v \in Workers : (worker'[v].pc = "idle") <=> (worker[v].pc = "idle")
    BY <1>0, <1>1 DEF EngineInv, EngineTypes
  <2> QED BY <1>1, <2>1, AdmissionKept DEF EngineInv
<1>3. EngineTypes'
  BY <1>0, <1>1 DEF EngineInv, EngineTypes, WorkerRecord
<1>4. NoDanglingCancel'
  BY <1>0, <1>1 DEF EngineInv, EngineTypes, WorkerRecord, NoDanglingCancel, Registered
<1> QED
  BY <1>2, <1>3, <1>4 DEF EngineInv

\* DELETE ends a context and takes the entry away; nobody moves.
LEMMA DeleteCancelKeeps ==
  ASSUME EngineInv, NEW k \in Keys, DeleteCancel(k)
  PROVE  EngineInv'
<1>1. /\ worker' \in [Workers -> WorkerRecord]
      /\ \A v \in Workers : worker'[v].pc = worker[v].pc /\ worker'[v].key = worker[v].key
  BY DEF DeleteCancel, EngineInv, EngineTypes, WorkerRecord
<1>2. /\ cancels' = [cancels EXCEPT ![k] = NoWorker]
      /\ admission' = admission /\ created' = created
  BY DEF DeleteCancel, storeVars
<1>3. EngineTypes'
  BY <1>1, <1>2 DEF EngineInv, EngineTypes
<1>4. AdmissionExact'
  BY <1>1, <1>2, AdmissionKept DEF EngineInv
<1>5. NoDanglingCancel'
  BY <1>1, <1>2 DEF EngineInv, EngineTypes, NoDanglingCancel
<1> QED
  BY <1>3, <1>4, <1>5 DEF EngineInv

\* Shutdown ends every context; nobody moves.
LEMMA StopKeeps ==
  ASSUME EngineInv, Stop
  PROVE  EngineInv'
<1>1. /\ worker' \in [Workers -> WorkerRecord]
      /\ \A v \in Workers : worker'[v].pc = worker[v].pc /\ worker'[v].key = worker[v].key
  BY DEF Stop, EngineInv, EngineTypes, WorkerRecord
<1>2. UNCHANGED <<admission, cancels, created>>
  BY DEF Stop, storeVars
<1>3. EngineTypes'
  BY <1>1, <1>2 DEF EngineInv, EngineTypes
<1>4. AdmissionExact'
  BY <1>1, <1>2, AdmissionKept DEF EngineInv
<1>5. NoDanglingCancel'
  BY <1>1, <1>2 DEF EngineInv, EngineTypes, NoDanglingCancel
<1> QED
  BY <1>3, <1>4, <1>5 DEF EngineInv

\* A process begins with everyone idle and nothing filed.
LEMMA InitKeeps == Init => EngineInv
<1> SUFFICES ASSUME Init PROVE EngineInv
  OBVIOUS
<1>1. EngineTypes
  BY IdleWorkerTyped, SomeKeyIsKey DEF Init, EngineTypes
<1>2. Busy = {}
  BY IdleWorkerTyped, SomeKeyIsKey DEF Init, Busy
<1>3. AdmissionExact
  BY <1>2, FS_EmptySet, LifecycleAssumption DEF Init, AdmissionExact
<1>4. NoDanglingCancel
  BY DEF Init, NoDanglingCancel
<1> QED
  BY <1>1, <1>3, <1>4 DEF EngineInv

\* A restart leaves everyone idle and nothing filed.
LEMMA RestartKeeps ==
  ASSUME EngineInv, Restart
  PROVE  EngineInv'
<1>1. EngineTypes'
  BY IdleWorkerTyped, SomeKeyIsKey DEF Restart, EngineInv, EngineTypes
<1>2. Busy' = {}
  BY IdleWorkerTyped, SomeKeyIsKey DEF Restart, Busy
<1>3. AdmissionExact'
  BY <1>2, FS_EmptySet, LifecycleAssumption DEF Restart, AdmissionExact
<1>4. NoDanglingCancel'
  BY DEF Restart, NoDanglingCancel
<1> QED
  BY <1>1, <1>3, <1>4 DEF EngineInv

\* What the store operations do to the count of incarnations.
LEMMA CreatedTyped ==
  ASSUME EngineInv, NEW k \in Keys, StoreCreate(k) \/ UNCHANGED storeVars
  PROVE  created' \in [Keys -> Nat]
BY DEF StoreCreate, storeVars, EngineInv, EngineTypes

-----------------------------------------------------------------------------
(* The steps of start and run.                                             *)

\* Every step of start and run, one by one.
LEMMA WorkerStepKeeps ==
  ASSUME EngineInv, NEW w \in Workers, WorkerStep(w)
  PROVE  EngineInv'
<1> USE DEF EngineInv, EngineTypes
<1>0. worker[w] \in WorkerRecord /\ worker[w].key \in Keys
  BY DEF WorkerRecord
<1>1. CASE CreateSearch(w)
  <2> DEFINE g == created[worker[w].key] + 1
             r == [worker[w] EXCEPT !.pc = "accept", !.gen = g]
  <2>1. g \in Nat
    BY <1>0
  <2>2. /\ worker[w].pc = "create"
        /\ worker' = [worker EXCEPT ![w].pc = "accept", ![w].gen = g]
        /\ UNCHANGED <<admission, cancels>>
    BY <1>1 DEF CreateSearch
  <2>3. created' \in [Keys -> Nat]
    BY <1>0, <1>1 DEF CreateSearch, StoreCreate
  <2> HIDE DEF g
  <2>4. r \in WorkerRecord /\ r.pc = "accept" /\ r.key = worker[w].key
    BY <1>0, <2>1 DEF WorkerRecord, PC
  <2>5. worker' = [worker EXCEPT ![w] = r]
    BY <1>0, <2>2
  <2> HIDE DEF r, EngineInv
  <2> QED BY <2>2, <2>3, <2>4, <2>5, WorkerMoves DEF Registered
<1>2. CASE AcceptedEvent(w)
  <2> DEFINE r == [worker[w] EXCEPT !.pc = "register"]
  <2>1. r \in WorkerRecord /\ r.pc = "register" /\ r.key = worker[w].key
    BY <1>0 DEF WorkerRecord, PC
  <2>2. /\ worker[w].pc = "accept" /\ worker' = [worker EXCEPT ![w] = r]
        /\ UNCHANGED <<admission, cancels>> /\ created' \in [Keys -> Nat]
    BY <1>0, <1>2 DEF AcceptedEvent, Move, AppendEvent, StoreAppend, storeVars
  <2> HIDE DEF r, EngineInv
  <2> QED BY <2>1, <2>2, WorkerMoves DEF Registered
<1>3. CASE MarkSearching(w)
  <2> DEFINE r == [worker[w] EXCEPT !.pc = "started"]
  <2>1. r \in WorkerRecord /\ r.pc = "started" /\ r.key = worker[w].key
    BY <1>0 DEF WorkerRecord, PC
  <2>2. /\ worker[w].pc = "run" /\ worker' = [worker EXCEPT ![w] = r]
        /\ UNCHANGED <<admission, cancels>> /\ created' \in [Keys -> Nat]
    BY <1>0, <1>3 DEF MarkSearching, Move, StoreUpdate, storeVars
  <2> HIDE DEF r, EngineInv
  <2> QED BY <2>1, <2>2, WorkerMoves DEF Registered
<1>4. CASE RequestStartedEvent(w)
  <2> DEFINE r == [worker[w] EXCEPT !.pc = "search"]
  <2>1. r \in WorkerRecord /\ r.pc = "search" /\ r.key = worker[w].key
    BY <1>0 DEF WorkerRecord, PC
  <2>2. /\ worker[w].pc = "started" /\ worker' = [worker EXCEPT ![w] = r]
        /\ UNCHANGED <<admission, cancels>> /\ created' \in [Keys -> Nat]
    BY <1>0, <1>4 DEF RequestStartedEvent, Move, AppendEvent, StoreAppend, storeVars
  <2> HIDE DEF r, EngineInv
  <2> QED BY <2>1, <2>2, WorkerMoves DEF Registered
<1>5. CASE Finalize(w)
  <2> DEFINE r == [worker[w] EXCEPT !.pc = "unwind"]
  <2>1. r \in WorkerRecord /\ r.pc = "unwind" /\ r.key = worker[w].key
    BY <1>0 DEF WorkerRecord, PC
  <2>2. /\ worker[w].pc = "finish" /\ worker' = [worker EXCEPT ![w] = r]
        /\ UNCHANGED <<admission, cancels>> /\ created' \in [Keys -> Nat]
    BY <1>0, <1>5 DEF Finalize, Move, StoreFinalize
  <2> HIDE DEF r, EngineInv
  <2> QED BY <2>1, <2>2, WorkerMoves DEF Registered
<1>6. CASE Conclude(w)
  <2>1. PICK outcome \in Outcome :
          worker' = [worker EXCEPT ![w].pc = "finish", ![w].outcome = outcome]
    BY <1>6 DEF Conclude
  <2> DEFINE r == [worker[w] EXCEPT !.pc = "finish", !.outcome = outcome]
  <2>2. r \in WorkerRecord /\ r.pc = "finish" /\ r.key = worker[w].key
    BY <1>0 DEF WorkerRecord, PC
  <2>3. /\ worker[w].pc = "search" /\ worker' = [worker EXCEPT ![w] = r]
        /\ UNCHANGED <<admission, cancels>> /\ created' \in [Keys -> Nat]
    BY <1>0, <1>6, <2>1 DEF Conclude, storeVars
  <2> HIDE DEF r, EngineInv
  <2> QED BY <2>2, <2>3, WorkerMoves DEF Registered
<1>7. CASE FinalizeAttemptFailed(w)
  <2>1. /\ worker[w].pc = "finish" /\ created' = created
        /\ UNCHANGED <<admission, cancels>>
        /\ \/ worker' = [worker EXCEPT ![w].tries = @ + 1]
           \/ worker' = [worker EXCEPT ![w].pc = "unwind"]
    BY <1>7 DEF FinalizeAttemptFailed, StoreFinalize, storeVars
  <2>2. CASE worker' = [worker EXCEPT ![w].tries = @ + 1]
    <3> DEFINE r == [worker[w] EXCEPT !.tries = @ + 1]
    <3>1. r \in WorkerRecord /\ r.pc = "finish" /\ r.key = worker[w].key
      BY <1>0, <2>1 DEF WorkerRecord
    <3>2. worker' = [worker EXCEPT ![w] = r] /\ created' \in [Keys -> Nat]
      BY <1>0, <2>1, <2>2
    <3> HIDE DEF r, EngineInv
    <3> QED BY <2>1, <3>1, <3>2, WorkerMoves DEF Registered
  <2>3. CASE worker' = [worker EXCEPT ![w].pc = "unwind"]
    <3> DEFINE r == [worker[w] EXCEPT !.pc = "unwind"]
    <3>1. r \in WorkerRecord /\ r.pc = "unwind" /\ r.key = worker[w].key
      BY <1>0 DEF WorkerRecord, PC
    <3>2. worker' = [worker EXCEPT ![w] = r] /\ created' \in [Keys -> Nat]
      BY <1>0, <2>1, <2>3
    <3> HIDE DEF r, EngineInv
    <3> QED BY <2>1, <3>1, <3>2, WorkerMoves DEF Registered
  <2> QED BY <2>1, <2>2, <2>3
<1>8. CASE CreateFoundExisting(w)
  <2>1. ReturnWithoutWorker(w) /\ worker[w].pc = "create" /\ created' \in [Keys -> Nat]
    BY <1>8 DEF CreateFoundExisting, storeVars
  <2> HIDE DEF EngineInv
  <2> QED BY <2>1, WorkerReturns
<1>9. CASE ReleaseAdmission(w)
  <2>1. ReturnWithoutWorker(w) /\ worker[w].pc = "release" /\ created' \in [Keys -> Nat]
    BY <1>9 DEF ReleaseAdmission, storeVars
  <2> HIDE DEF EngineInv
  <2> QED BY <2>1, WorkerReturns
<1>10. CASE CreateFailed(w)
  <2>1. ReturnWithoutWorker(w) /\ worker[w].pc = "create"
    BY <1>10 DEF CreateFailed
  <2>2. StoreCreate(worker[w].key) \/ UNCHANGED storeVars
    BY <1>10 DEF CreateFailed
  <2> HIDE DEF EngineInv
  <2>3. created' \in [Keys -> Nat]
    BY <1>0, <2>2, CreatedTyped
  <2> QED BY <2>1, <2>3, WorkerReturns
<1> HIDE DEF EngineInv, EngineTypes
<1> QED
  BY <1>1, <1>2, <1>3, <1>4, <1>5, <1>6, <1>7, <1>8, <1>9, <1>10, RegisterKeeps, RemoveCancelKeeps
  DEF WorkerStep

\* The deadline of a worker that is under way.
LEMMA DeadlineKeeps ==
  ASSUME EngineInv, NEW w \in Workers, Deadline(w)
  PROVE  EngineInv'
<1> DEFINE r == [worker[w] EXCEPT !.ctx = "done"]
<1>1. r \in WorkerRecord /\ r.pc = worker[w].pc /\ r.key = worker[w].key
  BY DEF EngineInv, EngineTypes, WorkerRecord
<1>2. /\ worker[w].pc # "idle" /\ worker' = [worker EXCEPT ![w] = r]
      /\ UNCHANGED <<admission, cancels>> /\ created' \in [Keys -> Nat]
  BY DEF Deadline, storeVars, EngineInv, EngineTypes
<1> HIDE DEF r
<1> QED
  BY <1>1, <1>2, WorkerMoves

\* Everything else leaves the engine alone.
LEMMA OthersKeep ==
  ASSUME EngineInv,
         \/ \E w \in Workers : ProgressEvent(w)
         \/ \E k \in Keys : DeleteState(k) \/ Age(k) \/ Expire(k)
         \/ SweepStep
  PROVE  EngineInv'
<1>1. created' = created /\ UNCHANGED engineVars
  <2>1. CASE \E w \in Workers : ProgressEvent(w)
    BY <2>1 DEF ProgressEvent, AppendEvent, StoreAppend, storeVars, engineVars
  <2>2. CASE \E k \in Keys : DeleteState(k) \/ Age(k) \/ Expire(k)
    BY <2>2 DEF DeleteState, StoreDelete, Age, Expire, storeVars, engineVars
  <2>3. CASE SweepStep
    BY <2>3 DEF SweepStep, SweepMemory, SweepRange, SweepRead, SweepRemove, SweepAborted,
                SweepClose, SweepDone, StoreFinalize, storeVars
  <2> QED BY <2>1, <2>2, <2>3
<1> QED
  BY <1>1, EngineIdle DEF EngineInv, EngineTypes

\* The engine's bookkeeping survives every step of every actor.
LEMMA StepKeeps == EngineInv /\ [Next]_vars => EngineInv'
<1> SUFFICES ASSUME EngineInv, [Next]_vars PROVE EngineInv'
  OBVIOUS
<1>1. CASE UNCHANGED vars
  BY <1>1, EngineIdle DEF vars, storeVars, EngineInv, EngineTypes
<1>2. CASE Next
  <2>1. CASE \E w \in Workers : \E k \in Keys : Start(w, k)
    BY <2>1, StartKeeps
  <2>2. CASE \E w \in Workers : WorkerStep(w)
    BY <2>2, WorkerStepKeeps
  <2>3. CASE \E w \in Workers : Deadline(w)
    BY <2>3, DeadlineKeeps
  <2>4. CASE \E k \in Keys : DeleteCancel(k)
    BY <2>4, DeleteCancelKeeps
  <2>5. CASE Stop
    BY <2>5, StopKeeps
  <2>6. CASE Restart
    BY <2>6, RestartKeeps
  <2> QED
    BY <1>2, <2>1, <2>2, <2>3, <2>4, <2>5, <2>6, OthersKeep DEF Next
<1> QED
  BY <1>1, <1>2

\* The inductive invariant holds: engine.start, run, cancel, shutdown and restart
\* keep admission channel and cancel map consistent with the goroutines.
THEOREM EngineSound == Spec => []EngineInv
<1> QED
  BY InitKeeps, StepKeeps, PTL DEF Spec

\* The admission channel of engine.start counts the searches under way exactly
\* and never above its capacity, whatever the store, the clients, the recovery
\* loop, panics, failures and restarts do.
THEOREM AdmissionSafe == Spec => []AdmissionExact
<1>1. EngineInv => AdmissionExact
  BY DEF EngineInv
<1> QED
  BY <1>1, EngineSound, PTL

\* e.cancels never keeps the cancel function of a goroutine that is gone, also
\* when search IDs are reused while older goroutines unwind.
THEOREM CancelsSafe == Spec => []NoDanglingCancel
<1>1. EngineInv => NoDanglingCancel
  BY DEF EngineInv
<1> QED
  BY <1>1, EngineSound, PTL
=============================================================================
