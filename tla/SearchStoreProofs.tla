-------------------------- MODULE SearchStoreProofs --------------------------
(***************************************************************************)
(* Proofs about the records of the search store under everyone who touches *)
(* them (workers, DELETE, TTL, recovery loop, restarts, Redis failures),   *)
(* and that they implement SearchResource; for every number of workers,    *)
(* keys, incarnations, faults and restarts and for both stores.            *)
(*                                                                         *)
(* The argument has two halves.  StoreStep says what any step of any actor *)
(* may do to the record of a key; each part of LifeInv is shown to survive *)
(* that, and each action to be one.  What keeps a search from being closed *)
(* and then opened again is in WorkersInv: an incarnation has one worker,  *)
(* and is not stale while that worker has yet to write its first status.   *)
(***************************************************************************)
EXTENDS SearchLifecycleProofs

RecordType == [status: Status, inc: Inc, body: Inc, log: Seq(Event)]

StoreTypes ==
  /\ records \in [Keys -> RecordType]
  /\ active \in [Keys -> Inc]
  /\ created \in [Keys -> Inc]
  /\ aged \in [Keys -> Inc]

WorkerType == [pc: PC, key: Keys, gen: Inc, ctx: {"live", "done"},
               outcome: Outcome, tries: 0..2]

WorkerTypes == worker \in [Workers -> WorkerType]

SweepType == [pc: {"idle", "read", "remove", "close"}, ids: SUBSET Keys,
              batch: SUBSET (Keys \X Inc), remove: SUBSET Keys]

ControlTypes ==
  /\ deployment \in Deployments
  /\ known \subseteq Keys
  /\ deleting \subseteq Keys
  /\ sweep \in SweepType
  /\ process \in {"up", "stopping"}
  /\ restarts \in 0..deployment.restarts
  /\ faults \in 0..deployment.faults

LifeTypes == StoreTypes /\ WorkerTypes /\ ControlTypes

-----------------------------------------------------------------------------
(* What a step does to the record of one key.                              *)

SameEntry(k) == active'[k] = active[k] /\ created'[k] = created[k]

KeyKept(k) == records'[k] = records[k] /\ SameEntry(k)

KeyCreated(k) ==
  /\ CanCreate(k)
  /\ records'[k] = [status |-> "ACCEPTED", inc |-> created[k] + 1, body |-> created[k] + 1,
                    log |-> <<>>]
  /\ active'[k] = IF Durable THEN created[k] + 1 ELSE 0
  /\ created'[k] = created[k] + 1

KeySearching(k) ==
  /\ Exists(k) /\ SameEntry(k)
  /\ \E w \in Workers :
       /\ worker[w].pc = "run" /\ worker[w].key = k
       /\ records'[k] = [status |-> "SEARCHING", inc |-> records[k].inc,
                         body |-> worker[w].gen, log |-> records[k].log]

KeyLogged(k) ==
  /\ Exists(k) /\ SameEntry(k)
  /\ \E event \in Event \ Outcome :
       records'[k] = [status |-> records[k].status, inc |-> records[k].inc,
                      body |-> records[k].body, log |-> Append(records[k].log, event)]

\* The closer is the worker of the search or the recovery of an aged one.
KeyClosed(k) ==
  /\ FinalizeApplies(k)
  /\ \E outcome \in Outcome : \E gen \in Inc \ {0} :
       records'[k] = [status |-> outcome, inc |-> records[k].inc, body |-> gen,
                      log |-> Append(records[k].log, outcome)]
  /\ active'[k] = 0 /\ created'[k] = created[k]
  /\ \/ aged[k] >= 1
     \/ \E w \in Workers : worker[w].pc = "finish" /\ worker[w].key = k

KeyGone(k) ==
  records'[k] = NoRecord /\ active'[k] \in {0, active[k]} /\ created'[k] = created[k]

\* The score of a search that is no longer open is taken away.
KeyUntracked(k) ==
  /\ records'[k] = records[k] /\ active'[k] = 0 /\ created'[k] = created[k]
  /\ UsedOnce(k) => ~Exists(k) \/ Terminal(k)

KeyMoves(k) ==
  \/ KeyCreated(k) \/ KeySearching(k) \/ KeyLogged(k) \/ KeyClosed(k) \/ KeyGone(k)
  \/ KeyUntracked(k)

OneKeyMoves(k) == KeyMoves(k) /\ \A j \in Keys \ {k} : KeyKept(j)

\* Every step of every actor: one record moves, or scores only, or all go.
StoreStep ==
  \/ \E k \in Keys : OneKeyMoves(k)
  \/ \A k \in Keys : KeyKept(k) \/ KeyUntracked(k)
  \/ \A k \in Keys : KeyGone(k)

-----------------------------------------------------------------------------

\* The bounds of the deployment in use.
LEMMA DeploymentTyped ==
  ASSUME ControlTypes
  PROVE  /\ deployment.durable \in BOOLEAN /\ deployment.perKey \in 1..MaxPerKey
         /\ deployment.restarts \in Nat /\ deployment.faults \in Nat
         /\ MaxPerKey \in Nat \ {0}
BY LifecycleAssumption DEF ControlTypes, Deployment

\* store.go Create.
LEMMA CreateMoves ==
  ASSUME StoreTypes, ControlTypes, NEW k \in Keys, CanCreate(k), StoreCreate(k)
  PROVE  OneKeyMoves(k) /\ KeyCreated(k) /\ StoreTypes' /\ aged' = aged
<1>1. created[k] + 1 \in Inc /\ created[k] \in Nat
  BY DeploymentTyped DEF CanCreate, Inc, StoreTypes
<1>2. PICK r : r = [status |-> "ACCEPTED", inc |-> created[k] + 1, body |-> created[k] + 1,
                    log |-> <<>>]
  OBVIOUS
<1>3. r \in RecordType
  BY <1>1, <1>2 DEF RecordType, Status, Event
<1>4. records' = [records EXCEPT ![k] = r]
  BY <1>2 DEF StoreCreate
<1>5. PICK a \in Inc : a = IF Durable THEN created[k] + 1 ELSE 0
  BY <1>1, DeploymentTyped DEF Inc
<1>6. active' = [active EXCEPT ![k] = a] /\ created' = [created EXCEPT ![k] = created[k] + 1]
  BY <1>5 DEF StoreCreate
<1>7. StoreTypes' /\ aged' = aged
  BY <1>1, <1>3, <1>4, <1>6 DEF StoreCreate, StoreTypes
<1>8. KeyCreated(k)
  BY <1>2, <1>4, <1>5, <1>6 DEF KeyCreated, StoreTypes
<1>9. \A j \in Keys \ {k} : KeyKept(j)
  BY <1>4, <1>6 DEF KeyKept, SameEntry, StoreTypes
<1> QED
  BY <1>7, <1>8, <1>9 DEF OneKeyMoves, KeyMoves

\* A step that leaves the store alone.
LEMMA StoreIdle ==
  ASSUME StoreTypes, UNCHANGED storeVars
  PROVE  StoreStep /\ StoreTypes' /\ aged' = aged
BY DEF storeVars, StoreTypes, StoreStep, KeyKept, SameEntry

\* store.go Update, by a worker at the beginning of run.
LEMMA UpdateMoves ==
  ASSUME LifeTypes, NEW w \in Workers, worker[w].pc = "run", StoreUpdate(w)
  PROVE  StoreStep /\ StoreTypes' /\ aged' = aged
<1> DEFINE k == worker[w].key
<1>1. k \in Keys /\ worker[w].gen \in Inc
  BY DEF LifeTypes, WorkerTypes, WorkerType
<1>2. CASE ~UpdateApplies(w)
  BY <1>2, StoreIdle DEF StoreUpdate, LifeTypes, storeVars
<1>3. CASE UpdateApplies(w)
  <2>1. PICK old \in RecordType : old = records[k]
    BY <1>1 DEF LifeTypes, StoreTypes
  <2>2. PICK r : r = [old EXCEPT !.status = "SEARCHING", !.body = worker[w].gen]
    OBVIOUS
  <2>3. r = [status |-> "SEARCHING", inc |-> old.inc, body |-> worker[w].gen, log |-> old.log]
    BY <2>2 DEF RecordType
  <2>4. r \in RecordType
    BY <1>1, <2>3 DEF RecordType, Status
  <2>5. records' = [records EXCEPT ![k] = r] /\ UNCHANGED <<active, created, aged>>
    BY <1>1, <1>3, <2>1, <2>2 DEF StoreUpdate, LifeTypes, StoreTypes
  <2>6. StoreTypes' /\ aged' = aged
    BY <1>1, <2>4, <2>5 DEF LifeTypes, StoreTypes
  <2>7. KeySearching(k)
    BY <1>1, <1>3, <2>1, <2>3, <2>5 DEF KeySearching, SameEntry, UpdateApplies, LifeTypes, StoreTypes
  <2>8. \A j \in Keys \ {k} : KeyKept(j)
    BY <2>5 DEF KeyKept, SameEntry, LifeTypes, StoreTypes
  <2> QED
    BY <1>1, <2>6, <2>7, <2>8 DEF StoreStep, OneKeyMoves, KeyMoves
<1> QED
  BY <1>2, <1>3

\* store.go AppendEvent of an event that closes nothing.
LEMMA AppendMoves ==
  ASSUME StoreTypes, NEW k \in Keys, NEW event \in Event \ Outcome, StoreAppend(k, event)
  PROVE  StoreStep /\ StoreTypes' /\ aged' = aged
<1>0. PICK old \in RecordType : old = records[k]
  BY DEF StoreTypes
<1>1. CASE ~Exists(k) \/ Logged(old.log, event) = old.log
  <2>1. records' = records
    BY <1>0, <1>1 DEF StoreAppend, StoreTypes, RecordType
  <2> QED
    BY <2>1, StoreIdle DEF StoreAppend, storeVars
<1>2. CASE Exists(k) /\ Logged(old.log, event) # old.log
  <2>1. Logged(old.log, event) = Append(old.log, event)
    BY <1>2 DEF Logged
  <2>2. PICK r : r = [old EXCEPT !.log = Append(old.log, event)]
    OBVIOUS
  <2>3. r = [status |-> old.status, inc |-> old.inc, body |-> old.body,
             log |-> Append(old.log, event)]
    BY <2>2 DEF RecordType
  <2>4. Append(old.log, event) \in Seq(Event)
    BY DEF RecordType
  <2>5. r \in RecordType
    BY <2>3, <2>4 DEF RecordType
  <2>6. records' = [records EXCEPT ![k] = r] /\ UNCHANGED <<active, created, aged>>
    BY <1>0, <1>2, <2>1, <2>2 DEF StoreAppend, StoreTypes
  <2>7. StoreTypes' /\ aged' = aged
    BY <2>5, <2>6 DEF StoreTypes
  <2>8. KeyLogged(k)
    BY <1>0, <1>2, <2>3, <2>6 DEF KeyLogged, SameEntry, StoreTypes
  <2>9. \A j \in Keys \ {k} : KeyKept(j)
    BY <2>6 DEF KeyKept, SameEntry, StoreTypes
  <2> QED
    BY <2>7, <2>8, <2>9 DEF StoreStep, OneKeyMoves, KeyMoves
<1> QED
  BY <1>1, <1>2

\* store.go Finalize, by the worker of the search or by the recovery.
LEMMA FinalizeMoves ==
  ASSUME StoreTypes, NEW k \in Keys, NEW gen \in Inc \ {0}, NEW outcome \in Outcome,
         StoreFinalize(k, gen, outcome),
         aged[k] >= 1 \/ \E w \in Workers : worker[w].pc = "finish" /\ worker[w].key = k
  PROVE  StoreStep /\ StoreTypes' /\ aged' = aged
<1>0. PICK old \in RecordType : old = records[k]
  BY DEF StoreTypes
<1>1. /\ active' = [active EXCEPT ![k] = 0] /\ UNCHANGED <<created, aged>>
      /\ 0 \in Inc
  BY LifecycleAssumption DEF StoreFinalize, Inc
<1>2. CASE ~FinalizeApplies(k)
  <2>1. records' = records
    BY <1>2 DEF StoreFinalize
  <2>2. StoreTypes' /\ aged' = aged
    BY <1>1, <2>1 DEF StoreTypes
  <2>3. KeyUntracked(k) /\ \A j \in Keys \ {k} : KeyKept(j)
    BY <1>1, <1>2, <2>1 DEF KeyUntracked, KeyKept, SameEntry, StoreTypes, FinalizeApplies
  <2> QED
    BY <2>2, <2>3 DEF StoreStep, OneKeyMoves, KeyMoves
<1>3. CASE FinalizeApplies(k)
  <2>1. PICK r : r = [old EXCEPT !.status = outcome, !.body = gen, !.log = Append(old.log, outcome)]
    OBVIOUS
  <2>2. r = [status |-> outcome, inc |-> old.inc, body |-> gen, log |-> Append(old.log, outcome)]
    BY <2>1 DEF RecordType
  <2>3. Append(old.log, outcome) \in Seq(Event)
    BY DEF RecordType, Event
  <2>4. r \in RecordType
    BY <2>2, <2>3 DEF RecordType, Status
  <2>5. records' = [records EXCEPT ![k] = r]
    BY <1>0, <1>3, <2>1 DEF StoreFinalize, StoreTypes
  <2>6. StoreTypes' /\ aged' = aged
    BY <1>1, <2>4, <2>5 DEF StoreTypes
  <2>7. KeyClosed(k)
    BY <1>0, <1>1, <1>3, <2>2, <2>5 DEF KeyClosed, StoreTypes
  <2>8. \A j \in Keys \ {k} : KeyKept(j)
    BY <1>1, <2>5 DEF KeyKept, SameEntry, StoreTypes
  <2> QED
    BY <2>6, <2>7, <2>8 DEF StoreStep, OneKeyMoves, KeyMoves
<1> QED
  BY <1>2, <1>3

\* The record a key has none of.
LEMMA NoRecordTyped == NoRecord \in RecordType
BY LifecycleAssumption DEF NoRecord, RecordType, Status, Inc

\* store.go Delete and the TTL: the record goes, its score perhaps not.
LEMMA GoneMoves ==
  ASSUME StoreTypes, NEW k \in Keys,
         records' = [records EXCEPT ![k] = NoRecord],
         active' = [active EXCEPT ![k] = 0] \/ active' = active,
         UNCHANGED <<created, aged>>
  PROVE  StoreStep /\ StoreTypes' /\ aged' = aged
<1>0. 0 \in Inc
  BY LifecycleAssumption DEF Inc
<1>1. StoreTypes' /\ aged' = aged
  BY <1>0, NoRecordTyped DEF StoreTypes
<1>2. KeyGone(k) /\ \A j \in Keys \ {k} : KeyKept(j)
  BY DEF KeyGone, KeyKept, SameEntry, StoreTypes
<1> QED
  BY <1>1, <1>2 DEF StoreStep, OneKeyMoves, KeyMoves

-----------------------------------------------------------------------------
(* The invariant.                                                          *)

\* The places of a worker whose search has been created, those it passes before
\* its search can be stale, and those before it can be closed.
Past  == {"accept", "register", "run", "started", "search", "finish", "unwind", "release"}
Early == {"accept", "register", "run", "started"}
Fresh == {"accept", "register", "run"}

WorkersInv ==
  /\ \A k \in Keys : aged[k] <= created[k]
  /\ \A w \in Workers : worker[w].pc \in Past =>
       worker[w].gen >= 1 /\ worker[w].gen <= created[worker[w].key]
  /\ \A w \in Workers : worker[w].pc \in Early => worker[w].gen > aged[worker[w].key]
  /\ \A v, w \in Workers :
       worker[v].pc \in Past /\ worker[w].pc \in Past /\ worker[v].key = worker[w].key
         /\ worker[v].gen = worker[w].gen => v = w

RecordsInv ==
  /\ \A k \in Keys : Exists(k) => records[k].body >= 1
  /\ \A w \in Workers : worker[w].pc \in Fresh /\ UsedOnce(worker[w].key) =>
       ~Terminal(worker[w].key)

SweepInv ==
  /\ \A k \in sweep.ids : aged[k] >= 1
  /\ \A s \in sweep.batch : aged[s[1]] >= 1 /\ s[2] >= 1
  /\ \A k \in sweep.remove : aged[k] >= 1 /\ (UsedOnce(k) => ~Exists(k) \/ Terminal(k))

LifeInv ==
  /\ LifeTypes /\ WorkersInv /\ RecordsInv /\ SweepInv
  /\ RunningIsCancellable /\ OneTerminalEvent /\ OpenIsTracked

-----------------------------------------------------------------------------
(* What a step does to a worker.                                           *)

\* It goes forward in the search it has, or drops it.
Advances(w) ==
  /\ worker'[w].pc \in Past => /\ worker[w].pc \in Past
                                /\ worker'[w].key = worker[w].key
                                /\ worker'[w].gen = worker[w].gen
  /\ worker'[w].pc \in Early => worker[w].pc \in Early
  /\ worker'[w].pc \in Fresh => worker[w].pc \in Fresh

\* It begins with the search it has just created.
Begins(w) ==
  /\ worker'[w].pc = "accept" /\ worker'[w].key = worker[w].key
  /\ worker'[w].gen = created[worker[w].key] + 1
  /\ KeyCreated(worker[w].key)
  /\ \A v \in Workers \ {w} : Advances(v)

\* A live worker was live before and is filed as before.
KeepsCancel(w) ==
  worker'[w].pc \in Working /\ worker'[w].ctx = "live" =>
    /\ worker[w].pc \in Working /\ worker[w].ctx = "live" /\ worker'[w].key = worker[w].key
    /\ cancels'[worker[w].key] = cancels[worker[w].key]

WorkersStep == (\A w \in Workers : Advances(w)) \/ \E w \in Workers : Begins(w)

\* Records are never counted back.
LEMMA CreatedGrows ==
  ASSUME StoreTypes, StoreStep, NEW k \in Keys
  PROVE  created'[k] >= created[k] /\ (UsedOnce(k)' => UsedOnce(k))
<1>1. created'[k] = created[k] \/ created'[k] = created[k] + 1
  BY DEF StoreStep, OneKeyMoves, KeyMoves, KeyKept, SameEntry, KeyCreated, KeySearching,
         KeyLogged, KeyClosed, KeyGone, KeyUntracked
<1>2. created[k] \in Nat
  BY DEF StoreTypes, Inc
<1> QED
  BY <1>1, <1>2 DEF UsedOnce

\* Each incarnation has one worker, known to it by its number.
LEMMA WorkersInvKept ==
  ASSUME LifeTypes, LifeTypes', WorkersInv, StoreStep, WorkersStep, aged' = aged
  PROVE  WorkersInv'
<1>0. \A k \in Keys : /\ created[k] \in Nat /\ created'[k] \in Nat /\ aged[k] \in Nat
                      /\ created'[k] >= created[k]
  BY CreatedGrows DEF LifeTypes, StoreTypes, Inc
<1>1. \A w \in Workers : /\ worker[w].key \in Keys /\ worker[w].gen \in Nat
                         /\ worker'[w].key \in Keys /\ worker'[w].gen \in Nat
  BY DEF LifeTypes, WorkerTypes, WorkerType, Inc
<1>2. CASE \A w \in Workers : Advances(w)
  <2>1. \A k \in Keys : aged'[k] <= created'[k]
    BY <1>0 DEF WorkersInv
  <2>2. \A w \in Workers : worker'[w].pc \in Past =>
          worker'[w].gen >= 1 /\ worker'[w].gen <= created'[worker'[w].key]
    BY <1>0, <1>1, <1>2 DEF WorkersInv, Advances
  <2>3. \A w \in Workers : worker'[w].pc \in Early => worker'[w].gen > aged'[worker'[w].key]
    BY <1>2 DEF WorkersInv, Advances, Early, Past
  <2>4. \A v, w \in Workers :
          worker'[v].pc \in Past /\ worker'[w].pc \in Past /\ worker'[v].key = worker'[w].key
            /\ worker'[v].gen = worker'[w].gen => v = w
    BY <1>2 DEF WorkersInv, Advances
  <2> QED
    BY <2>1, <2>2, <2>3, <2>4 DEF WorkersInv
<1>3. CASE \E w \in Workers : Begins(w)
  <2>1. PICK u \in Workers : Begins(u)
    BY <1>3
  <2> DEFINE k == worker[u].key
  <2>2. /\ worker'[u].pc = "accept" /\ worker'[u].key = k /\ k \in Keys
        /\ worker'[u].gen = created[k] + 1 /\ created'[k] = created[k] + 1
        /\ \A v \in Workers \ {u} : Advances(v)
    BY <1>1, <2>1 DEF Begins, KeyCreated
  <2>3. \A i \in Keys : aged'[i] <= created'[i]
    BY <1>0 DEF WorkersInv
  <2>4. \A w \in Workers : worker'[w].pc \in Past =>
          worker'[w].gen >= 1 /\ worker'[w].gen <= created'[worker'[w].key]
    BY <1>0, <1>1, <2>2 DEF WorkersInv, Advances
  <2>5. \A w \in Workers : worker'[w].pc \in Early => worker'[w].gen > aged'[worker'[w].key]
    BY <1>0, <1>1, <2>2 DEF WorkersInv, Advances, Early, Past
  <2>6. \A w \in Workers \ {u} : worker'[w].pc \in Past /\ worker'[w].key = k =>
          worker'[w].gen <= created[k]
    BY <1>0, <1>1, <2>2 DEF WorkersInv, Advances
  <2>7. \A v, w \in Workers :
          worker'[v].pc \in Past /\ worker'[w].pc \in Past /\ worker'[v].key = worker'[w].key
            /\ worker'[v].gen = worker'[w].gen => v = w
    <3> SUFFICES ASSUME NEW v \in Workers, NEW w \in Workers, v # w,
                        worker'[v].pc \in Past, worker'[w].pc \in Past,
                        worker'[v].key = worker'[w].key, worker'[v].gen = worker'[w].gen
                 PROVE  FALSE
      OBVIOUS
    <3>1. CASE v = u
      BY <1>0, <1>1, <2>2, <2>6, <3>1
    <3>2. CASE w = u
      BY <1>0, <1>1, <2>2, <2>6, <3>2
    <3>3. CASE v # u /\ w # u
      BY <2>2, <3>3 DEF WorkersInv, Advances
    <3> QED
      BY <3>1, <3>2, <3>3
  <2> QED
    BY <2>3, <2>4, <2>5, <2>7 DEF WorkersInv
<1> QED
  BY <1>2, <1>3 DEF WorkersStep

\* The worker of a search that is used once is the only one past Create, and
\* while it is early nobody else can close the search.
LEMMA OneWorker ==
  ASSUME LifeTypes, WorkersInv, NEW w \in Workers, worker[w].pc \in Past,
         UsedOnce(worker[w].key)
  PROVE  /\ \A v \in Workers : worker[v].pc \in Past /\ worker[v].key = worker[w].key => v = w
         /\ worker[w].pc \in Early => aged[worker[w].key] = 0
<1>0. /\ \A v \in Workers : worker[v].key \in Keys /\ worker[v].gen \in Nat
      /\ \A k \in Keys : created[k] \in Nat /\ aged[k] \in Nat
  BY DEF LifeTypes, WorkerTypes, WorkerType, StoreTypes, Inc
<1>1. worker[w].gen = 1 /\ created[worker[w].key] = 1
  BY <1>0 DEF WorkersInv, UsedOnce
<1>2. ASSUME NEW v \in Workers, worker[v].pc \in Past, worker[v].key = worker[w].key
      PROVE  v = w
  <2>1. worker[v].gen = 1
    BY <1>0, <1>1, <1>2 DEF WorkersInv
  <2> QED
    BY <1>1, <1>2, <2>1 DEF WorkersInv
<1>3. ASSUME worker[w].pc \in Early PROVE aged[worker[w].key] = 0
  BY <1>0, <1>1, <1>3 DEF WorkersInv
<1> QED
  BY <1>2, <1>3

-----------------------------------------------------------------------------
(* The parts of the invariant, each kept by the kinds of step above.       *)

\* The six things a step may do to the record of k.
LEMMA KeyCases ==
  ASSUME StoreStep, NEW k \in Keys
  PROVE  KeyKept(k) \/ KeyMoves(k)
BY DEF StoreStep, OneKeyMoves, KeyMoves

\* While the worker of a search that is used once has not got past its first
\* write, the search stays open or goes.
LEMMA FreshStaysOpen ==
  ASSUME LifeTypes, WorkersInv, RecordsInv, StoreStep, NEW w \in Workers, NEW k \in Keys,
         worker[w].pc \in Fresh, worker[w].key = k, UsedOnce(k)'
  PROVE  ~Terminal(k)'
<1>1. worker[w].pc \in Past /\ worker[w].pc \in Early
  BY DEF Fresh, Past, Early
<1>2. UsedOnce(k) /\ ~Terminal(k)
  BY <1>1, CreatedGrows DEF LifeTypes, RecordsInv
<1>3. aged[k] = 0 /\ \A v \in Workers : worker[v].pc \in Past /\ worker[v].key = k => v = w
  BY <1>1, <1>2, OneWorker
<1>4. ~KeyClosed(k)
  BY <1>3 DEF KeyClosed, Past, Fresh
<1>5. CASE KeyKept(k) \/ KeyUntracked(k)
  BY <1>2, <1>5 DEF KeyKept, KeyUntracked, Terminal
<1>6. CASE KeyCreated(k)
  BY <1>6 DEF KeyCreated, Terminal, Outcome
<1>7. CASE KeySearching(k)
  BY <1>7 DEF KeySearching, Terminal, Outcome
<1>8. CASE KeyLogged(k)
  BY <1>2, <1>8 DEF KeyLogged, Terminal
<1>9. CASE KeyGone(k)
  BY <1>9 DEF KeyGone, NoRecord, Terminal, Outcome
<1> QED
  BY <1>1, <1>4, <1>5, <1>6, <1>7, <1>8, <1>9, KeyCases DEF KeyMoves

\* Every result in the store was written by some worker.
LEMMA BodiesKept ==
  ASSUME LifeTypes, WorkersInv, RecordsInv, StoreStep, NEW k \in Keys, Exists(k)'
  PROVE  records'[k].body >= 1
<1>1. created[k] \in Nat /\ \A w \in Workers : worker[w].gen \in Nat
  BY DEF LifeTypes, StoreTypes, WorkerTypes, WorkerType, Inc
<1>2. CASE KeyKept(k) \/ KeyUntracked(k)
  BY <1>2 DEF KeyKept, KeyUntracked, Exists, RecordsInv
<1>3. CASE KeyCreated(k)
  BY <1>1, <1>3 DEF KeyCreated
<1>4. CASE KeySearching(k)
  BY <1>1, <1>4 DEF KeySearching, WorkersInv, Past
<1>5. CASE KeyLogged(k)
  BY <1>5 DEF KeyLogged, RecordsInv
<1>6. CASE KeyClosed(k)
  BY <1>6 DEF KeyClosed, Inc
<1>7. CASE KeyGone(k)
  BY <1>7 DEF KeyGone, NoRecord, Exists
<1> QED
  BY <1>2, <1>3, <1>4, <1>5, <1>6, <1>7, KeyCases DEF KeyMoves

\* Only an open record has a worker that is yet to write its first status.
LEMMA RecordsInvKept ==
  ASSUME LifeTypes, LifeTypes', WorkersInv, RecordsInv, StoreStep, WorkersStep
  PROVE  RecordsInv'
<1>1. \A k \in Keys : Exists(k)' => records'[k].body >= 1
  BY BodiesKept
<1>2. ASSUME NEW w \in Workers, NEW k \in Keys, worker'[w].pc \in Fresh, worker'[w].key = k,
             UsedOnce(k)'
      PROVE  ~Terminal(k)'
  <2>1. CASE Advances(w)
    <3>1. worker[w].pc \in Fresh /\ worker[w].key = k
      BY <1>2, <2>1 DEF Advances, Fresh, Past
    <3> QED
      BY <1>2, <3>1, FreshStaysOpen
  <2>2. CASE Begins(w)
    BY <1>2, <2>2 DEF Begins, KeyCreated, Terminal, Outcome
  <2> QED
    BY <2>1, <2>2 DEF WorkersStep, Begins
<1>3. \A w \in Workers : worker'[w].key \in Keys
  BY DEF LifeTypes, WorkerTypes, WorkerType
<1> QED
  BY <1>1, <1>2, <1>3 DEF RecordsInv

\* What the recovery loop has read stays true of the store it acts on later.
LEMMA SweepInvKept ==
  ASSUME LifeTypes, WorkersInv, SweepInv, StoreStep,
         sweep'.ids \subseteq sweep.ids, sweep'.batch \subseteq sweep.batch,
         sweep'.remove \subseteq sweep.remove,
         \A k \in Keys : aged'[k] >= aged[k] /\ aged'[k] \in Nat
  PROVE  SweepInv'
<1>0. /\ \A k \in Keys : aged[k] \in Nat /\ created[k] \in Nat
      /\ sweep.ids \subseteq Keys /\ sweep.remove \subseteq Keys
      /\ \A s \in sweep.batch : s[1] \in Keys
  BY DEF LifeTypes, StoreTypes, ControlTypes, SweepType, Inc
<1>1. \A k \in sweep.ids : aged'[k] >= 1
  BY <1>0 DEF SweepInv
<1>2. \A s \in sweep.batch : aged'[s[1]] >= 1 /\ s[2] >= 1
  BY <1>0 DEF SweepInv
<1>3. ASSUME NEW k \in sweep.remove
      PROVE  aged'[k] >= 1 /\ (UsedOnce(k)' => ~Exists(k)' \/ Terminal(k)')
  <2>0. k \in Keys
    BY <1>0
  <2>1. aged'[k] >= 1 /\ aged[k] >= 1
    BY <1>0, <1>3 DEF SweepInv
  <2>2. SUFFICES ASSUME UsedOnce(k)' PROVE ~Exists(k)' \/ Terminal(k)'
    BY <2>1
  <2>3. UsedOnce(k) /\ (~Exists(k) \/ Terminal(k))
    BY <1>3, <2>0, <2>2, CreatedGrows DEF SweepInv, LifeTypes
  <2>4. ~KeyCreated(k)
    BY <1>0, <2>0, <2>1, <2>2 DEF KeyCreated, UsedOnce, WorkersInv
  <2>5. ~KeySearching(k)
    <3> SUFFICES ASSUME NEW w \in Workers, worker[w].pc = "run", worker[w].key = k PROVE FALSE
      BY DEF KeySearching
    <3> QED
      BY <2>1, <2>3, OneWorker DEF Past, Early
  <2>6. CASE KeyKept(k) \/ KeyUntracked(k)
    BY <2>3, <2>6 DEF KeyKept, KeyUntracked, Exists, Terminal
  <2>7. CASE KeyLogged(k)
    BY <2>3, <2>7 DEF KeyLogged, Terminal
  <2>8. CASE KeyClosed(k)
    BY <2>8 DEF KeyClosed, Terminal
  <2>9. CASE KeyGone(k)
    BY <2>9 DEF KeyGone, NoRecord, Exists
  <2> QED
    BY <2>0, <2>4, <2>5, <2>6, <2>7, <2>8, <2>9, KeyCases DEF KeyMoves
<1> QED
  BY <1>1, <1>2, <1>3 DEF SweepInv

\* Redis: an open search that is used once keeps its score.
LEMMA OpenIsTrackedKept ==
  ASSUME LifeTypes, WorkersInv, RecordsInv, OpenIsTracked, StoreStep, deployment' = deployment
  PROVE  OpenIsTracked'
<1> SUFFICES ASSUME NEW k \in Keys, Durable, Exists(k)', ~Terminal(k)', UsedOnce(k)'
             PROVE  active'[k] = records'[k].inc
  BY DEF OpenIsTracked, Durable
<1>1. UsedOnce(k)
  BY CreatedGrows DEF LifeTypes
<1>2. CASE KeyKept(k)
  BY <1>1, <1>2 DEF KeyKept, SameEntry, Exists, Terminal, OpenIsTracked
<1>3. CASE KeyCreated(k)
  BY <1>3 DEF KeyCreated
<1>4. CASE KeySearching(k)
  <2>1. ~Terminal(k)
    BY <1>1, <1>4 DEF KeySearching, RecordsInv, Fresh
  <2> QED
    BY <1>1, <1>4, <2>1 DEF KeySearching, SameEntry, OpenIsTracked
<1>5. CASE KeyLogged(k)
  BY <1>1, <1>5 DEF KeyLogged, SameEntry, Terminal, OpenIsTracked
<1>6. CASE KeyClosed(k)
  BY <1>6 DEF KeyClosed, Terminal
<1>7. CASE KeyGone(k)
  BY <1>7 DEF KeyGone, NoRecord, Exists
<1>8. CASE KeyUntracked(k)
  BY <1>1, <1>8 DEF KeyUntracked, Exists, Terminal
<1> QED
  BY <1>2, <1>3, <1>4, <1>5, <1>6, <1>7, <1>8, KeyCases DEF KeyMoves

-----------------------------------------------------------------------------
(* The event log.                                                          *)

\* Appending an event adds one to its own count and nothing to the others.
LEMMA OccurrencesAppend ==
  ASSUME NEW S, NEW log \in Seq(S), NEW event \in S, NEW o
  PROVE  Occurrences(Append(log, event), o)
           = Occurrences(log, o) + (IF event = o THEN 1 ELSE 0)
<1> DEFINE At == {i \in DOMAIN log : log[i] = o}
           more == Append(log, event)
           AtMore == {i \in DOMAIN more : more[i] = o}
           n == Len(log) + 1
<1>1. /\ Len(log) \in Nat /\ DOMAIN log = 1..Len(log) /\ DOMAIN more = 1..n
      /\ more[n] = event /\ \A i \in 1..Len(log) : more[i] = log[i]
  OBVIOUS
<1>2. IsFiniteSet(At)
  <2>1. IsFiniteSet(1..Len(log))
    BY <1>1, FS_Interval
  <2> QED
    BY <1>1, <2>1, FS_Subset
<1>3. Cardinality(At) \in Nat
  BY <1>2, FS_CardinalityType
<1>4. Occurrences(more, o) = Cardinality(AtMore) /\ Occurrences(log, o) = Cardinality(At)
  BY DEF Occurrences
<1>5. event = o => Cardinality(AtMore) = Cardinality(At) + 1
  <2> SUFFICES ASSUME event = o PROVE Cardinality(AtMore) = Cardinality(At) + 1
    OBVIOUS
  <2>1. AtMore = At \cup {n} /\ n \notin At
    BY <1>1
  <2> QED
    BY <1>2, <2>1, FS_AddElement
<1>6. event # o => AtMore = At
  BY <1>1
<1> HIDE DEF At, AtMore
<1> QED
  BY <1>3, <1>4, <1>5, <1>6

\* A fresh log holds no event.
LEMMA OccurrencesEmpty ==
  ASSUME NEW o
  PROVE  Occurrences(<<>>, o) = 0
<1>1. {i \in DOMAIN <<>> : <<>>[i] = o} = {}
  OBVIOUS
<1> QED
  BY <1>1, FS_EmptySet DEF Occurrences

\* Counts of one key's terminal events, as functions of the outcome.
LEMMA EventCounts ==
  ASSUME NEW k \in Keys, OneTerminalEvent, UsedOnce(k), NEW o \in Outcome
  PROVE  Occurrences(records[k].log, o) = IF records[k].status = o THEN 1 ELSE 0
<1>1. TerminalEvents(k)[o] = IF records[k].status = o THEN 1 ELSE 0
  BY DEF OneTerminalEvent
<1> QED
  BY <1>1 DEF TerminalEvents

\* Status and terminal event change together.
LEMMA OneTerminalEventKept ==
  ASSUME LifeTypes, WorkersInv, RecordsInv, OneTerminalEvent, StoreStep
  PROVE  OneTerminalEvent'
<1> SUFFICES ASSUME NEW k \in Keys, UsedOnce(k)', NEW o \in Outcome
             PROVE  Occurrences(records'[k].log, o) = IF records'[k].status = o THEN 1 ELSE 0
  BY DEF OneTerminalEvent, TerminalEvents
<1>1. UsedOnce(k)
  BY CreatedGrows DEF LifeTypes
<1>2. Occurrences(records[k].log, o) = IF records[k].status = o THEN 1 ELSE 0
  BY <1>1, EventCounts
<1>3. records[k].log \in Seq(Event) /\ Outcome \subseteq Event
  BY DEF LifeTypes, StoreTypes, RecordType, Event
<1>4. CASE KeyKept(k) \/ KeyUntracked(k)
  BY <1>2, <1>4 DEF KeyKept, KeyUntracked
<1>5. CASE KeyCreated(k)
  BY <1>5, OccurrencesEmpty DEF KeyCreated, Outcome
<1>6. CASE KeySearching(k)
  <2>1. ~Terminal(k)
    BY <1>1, <1>6 DEF KeySearching, RecordsInv, Fresh
  <2>2. records[k].status # o
    BY <2>1 DEF Terminal
  <2> QED
    BY <1>2, <1>6, <2>2 DEF KeySearching, Outcome
<1>7. CASE KeyLogged(k)
  <2>1. PICK event \in Event \ Outcome :
          records'[k].status = records[k].status /\ records'[k].log = Append(records[k].log, event)
    BY <1>7 DEF KeyLogged
  <2>2. Occurrences(Append(records[k].log, event), o)
          = Occurrences(records[k].log, o) + (IF event = o THEN 1 ELSE 0)
    BY <1>3, OccurrencesAppend
  <2> QED
    BY <1>2, <2>1, <2>2
<1>8. CASE KeyClosed(k)
  <2>1. PICK outcome \in Outcome :
          records'[k].status = outcome /\ records'[k].log = Append(records[k].log, outcome)
    BY <1>8 DEF KeyClosed
  <2>2. Occurrences(Append(records[k].log, outcome), o)
          = Occurrences(records[k].log, o) + (IF outcome = o THEN 1 ELSE 0)
    BY <1>3, OccurrencesAppend
  <2>3. records[k].status # o
    BY <1>8 DEF KeyClosed, FinalizeApplies, Terminal
  <2> QED
    BY <1>2, <2>1, <2>2, <2>3
<1>9. CASE KeyGone(k)
  BY <1>9, OccurrencesEmpty DEF KeyGone, NoRecord, Outcome
<1> QED
  BY <1>4, <1>5, <1>6, <1>7, <1>8, <1>9, KeyCases DEF KeyMoves

\* A step that files nothing and removes nothing a live worker needs.
LEMMA CancellableKept ==
  ASSUME LifeTypes, LifeTypes', RunningIsCancellable, StoreStep, \A w \in Workers : KeepsCancel(w)
  PROVE  RunningIsCancellable'
<1> SUFFICES ASSUME NEW w \in Workers, NEW k \in Keys, worker'[w].key = k,
                    worker'[w].pc \in Working, worker'[w].ctx = "live", UsedOnce(k)'
             PROVE  cancels'[k] = w
  BY DEF RunningIsCancellable, LifeTypes, WorkerTypes, WorkerType
<1>1. UsedOnce(k)
  BY CreatedGrows DEF LifeTypes
<1> QED
  BY <1>1 DEF KeepsCancel, RunningIsCancellable

\* All parts but the cancel functions, for a step outside the recovery loop.
LEMMA PartsKept ==
  ASSUME LifeInv, LifeTypes', StoreStep, WorkersStep, aged' = aged, deployment' = deployment
  PROVE  WorkersInv' /\ RecordsInv' /\ OneTerminalEvent' /\ OpenIsTracked'
BY WorkersInvKept, RecordsInvKept, OneTerminalEventKept, OpenIsTrackedKept DEF LifeInv

\* The whole invariant, for a step outside the recovery loop.
LEMMA LifeKept ==
  ASSUME LifeInv, LifeTypes', StoreStep, WorkersStep, aged' = aged, deployment' = deployment,
         sweep' = sweep, \A w \in Workers : KeepsCancel(w)
  PROVE  LifeInv' /\ StoreStep
<1>1. WorkersInv' /\ RecordsInv' /\ OneTerminalEvent' /\ OpenIsTracked'
  BY PartsKept
<1>2. SweepInv'
  <2>1. \A k \in Keys : aged'[k] >= aged[k] /\ aged'[k] \in Nat
    BY DEF LifeInv, LifeTypes, StoreTypes, Inc
  <2> QED
    BY <2>1, SweepInvKept DEF LifeInv
<1>3. RunningIsCancellable'
  BY CancellableKept DEF LifeInv
<1> QED
  BY <1>1, <1>2, <1>3 DEF LifeInv

-----------------------------------------------------------------------------
(* The steps of a worker.                                                  *)

\* A worker that is not under way.
LEMMA IdleTyped ==
  ASSUME NEW k \in Keys
  PROVE  IdleWorker(k) \in WorkerType /\ IdleWorker(k).pc = "idle"
BY LifecycleAssumption DEF IdleWorker, WorkerType, PC, Outcome, Inc

\* A step of one worker after its search was created, or the end of it.
LEMMA WorkerGoes ==
  ASSUME WorkerTypes, NEW w \in Workers, NEW r \in WorkerType,
         worker' = [worker EXCEPT ![w] = r], cancels' = cancels,
         r.pc \in Past => worker[w].pc \in Past /\ r.key = worker[w].key /\ r.gen = worker[w].gen,
         r.pc \in Early => worker[w].pc \in Early,
         r.pc \in Fresh => worker[w].pc \in Fresh,
         r.pc \in Working /\ r.ctx = "live" => worker[w].pc \in Working /\ worker[w].ctx = "live"
  PROVE  WorkerTypes' /\ WorkersStep /\ \A v \in Workers : KeepsCancel(v)
<1>1. WorkerTypes' /\ worker'[w] = r /\ \A v \in Workers \ {w} : worker'[v] = worker[v]
  BY DEF WorkerTypes
<1>2. \A v \in Workers : Advances(v)
  BY <1>1 DEF Advances
<1>3. \A v \in Workers : KeepsCancel(v)
  <2>1. ASSUME r.pc \in Working, r.ctx = "live"
        PROVE  worker[w].pc \in Working /\ worker[w].ctx = "live" /\ r.key = worker[w].key
    BY <2>1 DEF Working, Past
  <2>2. KeepsCancel(w)
    BY <1>1, <2>1 DEF KeepsCancel
  <2>3. \A v \in Workers \ {w} : KeepsCancel(v)
    BY <1>1 DEF KeepsCancel
  <2> QED
    BY <2>2, <2>3
<1> QED
  BY <1>1, <1>2, <1>3 DEF WorkersStep

\* Redis round trips that fail stay within the bound of the deployment.
LEMMA ControlKept ==
  ASSUME ControlTypes, Fault \/ NoFault, known' \subseteq Keys, deleting' \subseteq Keys,
         UNCHANGED <<sweep, process, deployment, restarts>>
  PROVE  ControlTypes'
<1>1. faults' \in 0..deployment.faults
  BY DeploymentTyped DEF Fault, NoFault, ControlTypes
<1> QED
  BY <1>1 DEF ControlTypes

\* A move of one worker between two places.
LEMMA Moves ==
  ASSUME WorkerTypes, NEW w \in Workers, NEW from, NEW to \in PC, Move(w, from, to),
         cancels' = cancels,
         to \in Past => from \in Past, to \in Early => from \in Early,
         to \in Fresh => from \in Fresh, to \in Working => from \in Working
  PROVE  WorkerTypes' /\ WorkersStep /\ \A v \in Workers : KeepsCancel(v)
<1>1. PICK old \in WorkerType : old = worker[w]
  BY DEF WorkerTypes
<1>2. PICK r : r = [old EXCEPT !.pc = to]
  OBVIOUS
<1>3. /\ r \in WorkerType /\ r.pc = to
      /\ r.key = old.key /\ r.gen = old.gen /\ r.ctx = old.ctx
  BY <1>2 DEF WorkerType
<1>4. worker' = [worker EXCEPT ![w] = r] /\ old.pc = from
  BY <1>1, <1>2 DEF Move, WorkerTypes
<1> QED
  BY <1>1, <1>3, <1>4, WorkerGoes

\* A worker gives its search up, or start returns without one.
LEMMA Returns ==
  ASSUME WorkerTypes, NEW w \in Workers, ReturnWithoutWorker(w)
  PROVE  WorkerTypes' /\ WorkersStep /\ \A v \in Workers : KeepsCancel(v)
<1>1. IdleWorker(SomeKey) \in WorkerType /\ IdleWorker(SomeKey).pc = "idle"
  BY SomeKeyIsKey, IdleTyped
<1>2. worker' = [worker EXCEPT ![w] = IdleWorker(SomeKey)] /\ cancels' = cancels
  BY DEF ReturnWithoutWorker
<1> QED
  BY <1>1, <1>2, WorkerGoes DEF Past, Early, Fresh, Working

\* start takes a token.
LEMMA StartLife ==
  ASSUME LifeInv, NEW w \in Workers, NEW k \in Keys, Start(w, k)
  PROVE  LifeInv' /\ StoreStep
<1>1. PICK r : r = [IdleWorker(k) EXCEPT !.pc = "create"]
  OBVIOUS
<1>2. r \in WorkerType /\ r.pc = "create"
  BY <1>1, LifecycleAssumption DEF IdleWorker, WorkerType, PC, Outcome, Inc
<1>3. worker' = [worker EXCEPT ![w] = r] /\ cancels' = cancels
  BY <1>1 DEF Start
<1>4. WorkerTypes' /\ WorkersStep /\ \A v \in Workers : KeepsCancel(v)
  BY <1>2, <1>3, WorkerGoes DEF Past, Early, Fresh, Working, LifeInv, LifeTypes
<1>5. StoreStep /\ StoreTypes' /\ aged' = aged
  BY StoreIdle DEF Start, LifeInv, LifeTypes
<1>6. ControlTypes' /\ deployment' = deployment /\ sweep' = sweep
  BY DEF Start, controlVars, LifeInv, LifeTypes, ControlTypes
<1> QED
  BY <1>4, <1>5, <1>6, LifeKept DEF LifeTypes

\* Create succeeds: the worker owns the next incarnation.
LEMMA CreateSearchLife ==
  ASSUME LifeInv, NEW w \in Workers, CreateSearch(w)
  PROVE  LifeInv' /\ StoreStep
<1>0. LifeTypes
  BY DEF LifeInv
<1>1. PICK old \in WorkerType : old = worker[w] /\ old.key \in Keys
  BY <1>0 DEF LifeTypes, WorkerTypes, WorkerType
<1>2. PICK k \in Keys : k = worker[w].key /\ CanCreate(k) /\ StoreCreate(k)
  BY <1>1 DEF CreateSearch
<1>3. created[k] + 1 \in Inc
  BY <1>0, <1>2, DeploymentTyped DEF CanCreate, LifeTypes, StoreTypes, Inc
<1>4. OneKeyMoves(k) /\ KeyCreated(k) /\ StoreTypes' /\ aged' = aged
  BY <1>0, <1>2, CreateMoves DEF LifeTypes
<1>5. PICK r : r = [old EXCEPT !.pc = "accept", !.gen = created[k] + 1]
  OBVIOUS
<1>6. r = [pc |-> "accept", key |-> old.key, gen |-> created[k] + 1, ctx |-> old.ctx,
           outcome |-> old.outcome, tries |-> old.tries]
  BY <1>5 DEF WorkerType
<1>7. r \in WorkerType
  BY <1>3, <1>6 DEF WorkerType, PC
<1>8. worker' = [worker EXCEPT ![w] = r]
  BY <1>0, <1>1, <1>2, <1>5 DEF CreateSearch, LifeTypes, WorkerTypes
<1>9. WorkerTypes' /\ worker'[w] = r /\ \A v \in Workers \ {w} : worker'[v] = worker[v]
  BY <1>0, <1>7, <1>8 DEF LifeTypes, WorkerTypes
<1>10. Begins(w)
  BY <1>1, <1>2, <1>4, <1>6, <1>9 DEF Begins, Advances
<1>11. \A v \in Workers : KeepsCancel(v)
  <2>1. worker'[w].pc = "accept" /\ cancels' = cancels
    BY <1>6, <1>9 DEF CreateSearch
  <2>2. KeepsCancel(w)
    BY <2>1 DEF KeepsCancel, Working
  <2>3. \A v \in Workers \ {w} : KeepsCancel(v)
    BY <1>9, <2>1 DEF KeepsCancel
  <2> QED
    BY <2>2, <2>3
<1>12. ControlTypes' /\ deployment' = deployment /\ sweep' = sweep
  BY <1>0 DEF CreateSearch, controlVars, LifeTypes, ControlTypes
<1>13. StoreStep /\ WorkersStep
  BY <1>4, <1>10 DEF StoreStep, WorkersStep
<1> QED
  BY <1>4, <1>9, <1>11, <1>12, <1>13, LifeKept DEF LifeTypes

\* The returns of start and run.
LEMMA ReturnLife ==
  ASSUME LifeInv, NEW w \in Workers,
         CreateFoundExisting(w) \/ CreateFailed(w) \/ ReleaseAdmission(w)
  PROVE  LifeInv' /\ StoreStep
<1>0. LifeTypes /\ worker[w].key \in Keys
  BY DEF LifeInv, LifeTypes, WorkerTypes, WorkerType
<1>1. ReturnWithoutWorker(w)
  BY DEF CreateFoundExisting, CreateFailed, ReleaseAdmission
<1>2. WorkerTypes' /\ WorkersStep /\ \A v \in Workers : KeepsCancel(v)
  BY <1>0, <1>1, Returns DEF LifeTypes
<1>3. StoreStep /\ StoreTypes' /\ aged' = aged
  <2>1. CASE UNCHANGED storeVars
    BY <1>0, <2>1, StoreIdle DEF LifeTypes
  <2>2. CASE CanCreate(worker[w].key) /\ StoreCreate(worker[w].key)
    BY <1>0, <2>2, CreateMoves DEF LifeTypes, StoreStep
  <2> QED
    BY <2>1, <2>2 DEF CreateFoundExisting, CreateFailed, ReleaseAdmission
<1>4. /\ known' \subseteq Keys /\ deleting' \subseteq Keys /\ (Fault \/ NoFault)
      /\ UNCHANGED <<sweep, process, deployment, restarts>>
  BY <1>0 DEF CreateFoundExisting, CreateFailed, ReleaseAdmission, controlVars, NoFault,
              LifeTypes, ControlTypes
<1>5. ControlTypes'
  BY <1>0, <1>4, ControlKept DEF LifeTypes
<1> QED
  BY <1>2, <1>3, <1>4, <1>5, LifeKept DEF LifeTypes

\* appendEvent, whether it is stored or not.
LEMMA AppendLife ==
  ASSUME LifeTypes, NEW k \in Keys, NEW event \in Event \ Outcome, AppendEvent(k, event)
  PROVE  StoreStep /\ StoreTypes' /\ aged' = aged /\ (Fault \/ NoFault)
BY AppendMoves, StoreIdle DEF AppendEvent, LifeTypes

\* The events and the first status a worker writes.
LEMMA ProgressLife ==
  ASSUME LifeInv, NEW w \in Workers,
         \/ AcceptedEvent(w) \/ MarkSearching(w) \/ RequestStartedEvent(w) \/ ProgressEvent(w)
  PROVE  LifeInv' /\ StoreStep
<1>0. LifeTypes /\ worker[w].key \in Keys
  BY DEF LifeInv, LifeTypes, WorkerTypes, WorkerType
<1>1. WorkerTypes' /\ WorkersStep /\ \A v \in Workers : KeepsCancel(v)
  <2>1. CASE AcceptedEvent(w)
    BY <1>0, <2>1, Moves DEF AcceptedEvent, PC, Past, Early, Fresh, Working, LifeTypes
  <2>2. CASE MarkSearching(w)
    BY <1>0, <2>2, Moves DEF MarkSearching, PC, Past, Early, Fresh, Working, LifeTypes
  <2>3. CASE RequestStartedEvent(w)
    BY <1>0, <2>3, Moves DEF RequestStartedEvent, PC, Past, Early, Fresh, Working, LifeTypes
  <2>4. CASE ProgressEvent(w)
    BY <1>0, <2>4 DEF ProgressEvent, LifeTypes, WorkerTypes, WorkersStep, Advances, KeepsCancel
  <2> QED
    BY <2>1, <2>2, <2>3, <2>4
<1>2. StoreStep /\ StoreTypes' /\ aged' = aged /\ (Fault \/ NoFault)
  <2>1. "SEARCH_ACCEPTED" \in Event \ Outcome /\ "PROGRESS" \in Event \ Outcome
    BY DEF Event, Outcome
  <2>2. CASE MarkSearching(w)
    BY <1>0, <2>2, UpdateMoves, StoreIdle DEF MarkSearching, Move, LifeTypes
  <2> QED
    BY <1>0, <2>1, <2>2, AppendLife DEF AcceptedEvent, RequestStartedEvent, ProgressEvent
<1>3. /\ known' = known /\ deleting' = deleting
      /\ UNCHANGED <<sweep, process, deployment, restarts>>
  BY DEF AcceptedEvent, MarkSearching, RequestStartedEvent, ProgressEvent
<1>4. ControlTypes'
  BY <1>0, <1>2, <1>3, ControlKept DEF LifeTypes, ControlTypes
<1> QED
  BY <1>1, <1>2, <1>3, <1>4, LifeKept DEF LifeTypes

\* The search ends in some outcome, or its deadline comes.
LEMMA ConcludeLife ==
  ASSUME LifeInv, NEW w \in Workers, Conclude(w) \/ Deadline(w)
  PROVE  LifeInv' /\ StoreStep
<1>0. PICK old \in WorkerType : old = worker[w]
  BY DEF LifeInv, LifeTypes, WorkerTypes
<1>1. PICK r \in WorkerType :
        /\ worker' = [worker EXCEPT ![w] = r]
        /\ r.key = old.key /\ r.gen = old.gen
        /\ \/ old.pc = "search" /\ r.pc = "finish" /\ r.ctx = old.ctx
           \/ r.pc = old.pc /\ r.ctx = "done"
  <2>1. CASE Conclude(w)
    <3>1. PICK o \in Outcome : worker' = [worker EXCEPT ![w].pc = "finish", ![w].outcome = o]
      BY <2>1 DEF Conclude
    <3>2. PICK r : r = [old EXCEPT !.pc = "finish", !.outcome = o]
      OBVIOUS
    <3>3. r = [pc |-> "finish", key |-> old.key, gen |-> old.gen, ctx |-> old.ctx,
               outcome |-> o, tries |-> old.tries]
      BY <3>2 DEF WorkerType
    <3>4. r \in WorkerType
      BY <3>3 DEF WorkerType, PC
    <3>5. worker' = [worker EXCEPT ![w] = r]
      BY <1>0, <3>1, <3>2 DEF LifeInv, LifeTypes, WorkerTypes
    <3> QED
      BY <1>0, <2>1, <3>3, <3>4, <3>5 DEF Conclude
  <2>2. CASE Deadline(w)
    <3>1. PICK r : r = [old EXCEPT !.ctx = "done"]
      OBVIOUS
    <3>2. r \in WorkerType /\ r.pc = old.pc /\ r.key = old.key /\ r.gen = old.gen /\ r.ctx = "done"
      BY <3>1 DEF WorkerType
    <3>3. worker' = [worker EXCEPT ![w] = r]
      BY <1>0, <2>2, <3>1 DEF Deadline, LifeInv, LifeTypes, WorkerTypes
    <3> QED
      BY <3>2, <3>3
  <2> QED
    BY <2>1, <2>2
<1>2. UNCHANGED <<storeVars, admission, cancels, controlVars>>
  BY DEF Conclude, Deadline
<1>3. WorkerTypes' /\ WorkersStep /\ \A v \in Workers : KeepsCancel(v)
  <2>1. cancels' = cancels /\ WorkerTypes
    BY <1>2 DEF LifeInv, LifeTypes
  <2>2. /\ r.pc \in Past => old.pc \in Past
        /\ r.pc \in Early => old.pc \in Early
        /\ r.pc \in Fresh => old.pc \in Fresh
        /\ r.pc \in Working /\ r.ctx = "live" => old.pc \in Working /\ old.ctx = "live"
    BY <1>1 DEF Past, Early, Fresh, Working
  <2> QED
    BY <1>0, <1>1, <2>1, <2>2, WorkerGoes
<1>4. StoreStep /\ StoreTypes' /\ aged' = aged
  BY <1>2, StoreIdle DEF LifeInv, LifeTypes
<1>5. ControlTypes' /\ deployment' = deployment /\ sweep' = sweep
  BY <1>2 DEF controlVars, LifeInv, LifeTypes, ControlTypes
<1> QED
  BY <1>3, <1>4, <1>5, LifeKept DEF LifeTypes

\* The worker closes its search, perhaps after attempts whose reply was lost.
LEMMA FinalizeLife ==
  ASSUME LifeInv, NEW w \in Workers, Finalize(w) \/ FinalizeAttemptFailed(w)
  PROVE  LifeInv' /\ StoreStep
<1>0. PICK old \in WorkerType : /\ LifeTypes /\ old = worker[w] /\ old.pc = "finish"
                               /\ old.key \in Keys /\ old.outcome \in Outcome
                               /\ old.gen \in Inc \ {0}
  <2>1. worker[w] \in WorkerType /\ worker[w].pc = "finish"
    BY DEF Finalize, FinalizeAttemptFailed, Move, LifeInv, LifeTypes, WorkerTypes
  <2>2. worker[w].gen >= 1
    BY <2>1 DEF LifeInv, WorkersInv, Past
  <2> QED
    BY <2>1, <2>2 DEF LifeInv, WorkerType
<1>1. WorkerTypes' /\ WorkersStep /\ \A v \in Workers : KeepsCancel(v)
  <2>1. CASE worker' = [worker EXCEPT ![w].pc = "unwind"]
    BY <1>0, <2>1, Moves DEF Finalize, FinalizeAttemptFailed, Move, PC, Past, Early, Fresh,
                             Working, LifeTypes
  <2>2. CASE worker[w].tries < 2 /\ worker' = [worker EXCEPT ![w].tries = @ + 1]
    <3>1. PICK r : r = [old EXCEPT !.tries = old.tries + 1]
      OBVIOUS
    <3>2. /\ r \in WorkerType /\ r.pc = old.pc /\ r.key = old.key
          /\ r.gen = old.gen /\ r.ctx = old.ctx
      BY <1>0, <2>2, <3>1 DEF WorkerType
    <3>3. worker' = [worker EXCEPT ![w] = r] /\ cancels' = cancels
      BY <1>0, <2>2, <3>1 DEF LifeTypes, WorkerTypes, Finalize, FinalizeAttemptFailed
    <3> QED
      BY <1>0, <3>2, <3>3, WorkerGoes DEF LifeTypes
  <2> QED
    BY <2>1, <2>2 DEF Finalize, FinalizeAttemptFailed, Move
<1>2. StoreStep /\ StoreTypes' /\ aged' = aged
  <2>1. CASE StoreFinalize(worker[w].key, worker[w].gen, worker[w].outcome)
    BY <1>0, <2>1, FinalizeMoves DEF LifeTypes
  <2>2. CASE UNCHANGED storeVars
    BY <1>0, <2>2, StoreIdle DEF LifeTypes
  <2> QED
    BY <2>1, <2>2 DEF Finalize, FinalizeAttemptFailed
<1>3. /\ known' = known /\ deleting' = deleting /\ (Fault \/ NoFault)
      /\ UNCHANGED <<sweep, process, deployment, restarts>>
  BY DEF Finalize, FinalizeAttemptFailed, controlVars, NoFault
<1>4. ControlTypes'
  BY <1>0, <1>3, ControlKept DEF LifeTypes, ControlTypes
<1> QED
  BY <1>1, <1>2, <1>3, <1>4, LifeKept DEF LifeTypes

-----------------------------------------------------------------------------
(* The steps that touch the cancel functions.                              *)

\* The cancel function is filed before the goroutine starts: nobody else's is
\* overwritten while the ID is used once.
LEMMA RegisterLife ==
  ASSUME LifeInv, EngineTypes, NEW w \in Workers, Register(w)
  PROVE  LifeInv' /\ StoreStep
<1>0. PICK old \in WorkerType : LifeTypes /\ old = worker[w] /\ old.key \in Keys
  BY DEF LifeInv, LifeTypes, WorkerTypes, WorkerType
<1>1. PICK x \in {"live", "done"} : x = IF process = "up" THEN "live" ELSE "done"
  OBVIOUS
<1>2. PICK r : r = [old EXCEPT !.pc = "run", !.ctx = x]
  OBVIOUS
<1>3. r = [pc |-> "run", key |-> old.key, gen |-> old.gen, ctx |-> x,
           outcome |-> old.outcome, tries |-> old.tries]
  BY <1>2 DEF WorkerType
<1>4. r \in WorkerType
  BY <1>3 DEF WorkerType, PC
<1>5. worker' = [worker EXCEPT ![w] = r] /\ worker[w].pc = "register"
  BY <1>0, <1>1, <1>2 DEF Register, LifeTypes, WorkerTypes
<1>6. WorkerTypes' /\ worker'[w] = r /\ \A v \in Workers \ {w} : worker'[v] = worker[v]
  BY <1>0, <1>4, <1>5 DEF LifeTypes, WorkerTypes
<1>7. WorkersStep
  <2>1. Advances(w)
    BY <1>0, <1>3, <1>5, <1>6 DEF Advances, Past, Early, Fresh
  <2>2. \A v \in Workers \ {w} : Advances(v)
    BY <1>6 DEF Advances
  <2> QED
    BY <2>1, <2>2 DEF WorkersStep
<1>8. StoreStep /\ StoreTypes' /\ aged' = aged /\ created' = created
  BY <1>0, StoreIdle DEF Register, LifeTypes, storeVars
<1>9. ControlTypes' /\ deployment' = deployment /\ sweep' = sweep
  BY <1>0 DEF Register, LifeTypes, ControlTypes
<1>10. /\ LifeTypes' /\ WorkersInv' /\ RecordsInv' /\ OneTerminalEvent' /\ OpenIsTracked'
       /\ SweepInv'
  <2>1. WorkersInv' /\ RecordsInv' /\ OneTerminalEvent' /\ OpenIsTracked'
    BY <1>6, <1>7, <1>8, <1>9, PartsKept DEF LifeTypes
  <2>2. \A k \in Keys : aged'[k] >= aged[k] /\ aged'[k] \in Nat
    BY <1>0, <1>8 DEF LifeTypes, StoreTypes, Inc
  <2>3. SweepInv'
    BY <1>8, <1>9, <2>2, SweepInvKept DEF LifeInv
  <2> QED
    BY <1>6, <1>8, <1>9, <2>1, <2>3 DEF LifeTypes
<1>11. RunningIsCancellable'
  <2> SUFFICES ASSUME NEW v \in Workers, NEW k \in Keys, worker'[v].key = k,
                      worker'[v].pc \in Working, worker'[v].ctx = "live", UsedOnce(k)'
               PROVE  cancels'[k] = v
    BY <1>6 DEF RunningIsCancellable, WorkerTypes, WorkerType
  <2>0. UsedOnce(k) /\ cancels' = [cancels EXCEPT ![worker[w].key] = w]
    BY <1>8 DEF UsedOnce, Register
  <2>1. CASE v = w
    BY <1>0, <1>3, <1>6, <2>0, <2>1 DEF EngineTypes
  <2>2. CASE v # w
    <3>1. /\ worker[v].pc \in Working /\ worker[v].ctx = "live" /\ worker[v].key = k
          /\ worker[v].pc \in Past /\ worker[w].pc \in Past
      BY <1>5, <1>6, <2>2 DEF Past, Working
    <3>2. worker[w].key # k
      BY <2>0, <2>2, <3>1, OneWorker DEF LifeInv
    <3>3. cancels[k] = v
      BY <2>0, <3>1 DEF LifeInv, RunningIsCancellable
    <3> QED
      BY <2>0, <3>2, <3>3 DEF EngineTypes
  <2> QED
    BY <2>1, <2>2
<1> QED
  BY <1>8, <1>10, <1>11 DEF LifeInv

\* removeCancel: whatever is filed under the ID was that of the goroutine that
\* unwinds, while the ID is used once.
LEMMA RemoveCancelLife ==
  ASSUME LifeInv, EngineTypes, NEW w \in Workers, RemoveCancel(w)
  PROVE  LifeInv' /\ StoreStep
<1>0. PICK old \in WorkerType : LifeTypes /\ old = worker[w] /\ old.key \in Keys
  BY DEF LifeInv, LifeTypes, WorkerTypes, WorkerType
<1>1. PICK r : r = [old EXCEPT !.pc = "release"]
  OBVIOUS
<1>2. r \in WorkerType /\ r.pc = "release" /\ r.key = old.key /\ r.gen = old.gen
  BY <1>1 DEF WorkerType, PC
<1>3. /\ worker' = [worker EXCEPT ![w] = r] /\ worker[w].pc = "unwind"
      /\ cancels' = [cancels EXCEPT ![worker[w].key] = NoWorker]
  BY <1>0, <1>1 DEF RemoveCancel, Move, CancelRemoved, LifeTypes, WorkerTypes
<1>4. WorkerTypes' /\ worker'[w] = r /\ \A v \in Workers \ {w} : worker'[v] = worker[v]
  BY <1>0, <1>2, <1>3 DEF LifeTypes, WorkerTypes
<1>5. WorkersStep
  <2>1. Advances(w)
    BY <1>0, <1>2, <1>3, <1>4 DEF Advances, Past, Early, Fresh
  <2>2. \A v \in Workers \ {w} : Advances(v)
    BY <1>4 DEF Advances
  <2> QED
    BY <2>1, <2>2 DEF WorkersStep
<1>6. StoreStep /\ StoreTypes' /\ aged' = aged /\ created' = created
  BY <1>0, StoreIdle DEF RemoveCancel, LifeTypes, storeVars
<1>7. ControlTypes' /\ deployment' = deployment /\ sweep' = sweep
  BY <1>0 DEF RemoveCancel, controlVars, LifeTypes, ControlTypes
<1>8. /\ LifeTypes' /\ WorkersInv' /\ RecordsInv' /\ OneTerminalEvent' /\ OpenIsTracked'
      /\ SweepInv'
  <2>1. WorkersInv' /\ RecordsInv' /\ OneTerminalEvent' /\ OpenIsTracked'
    BY <1>4, <1>5, <1>6, <1>7, PartsKept DEF LifeTypes
  <2>2. \A k \in Keys : aged'[k] >= aged[k] /\ aged'[k] \in Nat
    BY <1>0, <1>6 DEF LifeTypes, StoreTypes, Inc
  <2>3. SweepInv'
    BY <1>6, <1>7, <2>2, SweepInvKept DEF LifeInv
  <2> QED
    BY <1>4, <1>6, <1>7, <2>1, <2>3 DEF LifeTypes
<1>9. RunningIsCancellable'
  <2> SUFFICES ASSUME NEW v \in Workers, NEW k \in Keys, worker'[v].key = k,
                      worker'[v].pc \in Working, worker'[v].ctx = "live", UsedOnce(k)'
               PROVE  cancels'[k] = v
    BY <1>4 DEF RunningIsCancellable, WorkerTypes, WorkerType
  <2>0. UsedOnce(k)
    BY <1>6 DEF UsedOnce
  <2>1. v # w
    BY <1>2, <1>4 DEF Working
  <2>2. /\ worker[v].pc \in Working /\ worker[v].ctx = "live" /\ worker[v].key = k
        /\ worker[v].pc \in Past /\ worker[w].pc \in Past
    BY <1>3, <1>4, <2>1 DEF Past, Working
  <2>3. worker[w].key # k
    BY <2>0, <2>1, <2>2, OneWorker DEF LifeInv
  <2>4. cancels[k] = v
    BY <2>0, <2>2 DEF LifeInv, RunningIsCancellable
  <2> QED
    BY <1>3, <2>3, <2>4 DEF EngineTypes
<1> QED
  BY <1>6, <1>8, <1>9 DEF LifeInv

\* Workers whose context ends, and who do nothing else.
LEMMA ContextsEnd ==
  ASSUME WorkerTypes, worker' \in [Workers -> WorkerType],
         \A w \in Workers : /\ worker'[w].pc = worker[w].pc /\ worker'[w].key = worker[w].key
                            /\ worker'[w].gen = worker[w].gen
                            /\ worker'[w].ctx \in {worker[w].ctx, "done"}
  PROVE  WorkerTypes' /\ WorkersStep
BY DEF WorkerTypes, WorkersStep, Advances

\* DELETE ends the context it finds and takes the function away.
LEMMA DeleteCancelLife ==
  ASSUME LifeInv, EngineTypes, NEW k \in Keys, DeleteCancel(k)
  PROVE  LifeInv' /\ StoreStep
<1>0. LifeTypes
  BY DEF LifeInv
<1>1. /\ worker' \in [Workers -> WorkerType]
      /\ \A w \in Workers : /\ worker'[w].pc = worker[w].pc /\ worker'[w].key = worker[w].key
                             /\ worker'[w].gen = worker[w].gen
                             /\ worker'[w].ctx \in {worker[w].ctx, "done"}
      /\ \A w \in Workers : cancels[k] = w => worker'[w].ctx = "done"
  <2>1. CASE cancels[k] = NoWorker
    BY <1>0, <2>1, LifecycleAssumption DEF DeleteCancel, LifeTypes, WorkerTypes
  <2>2. CASE cancels[k] # NoWorker
    <3>1. PICK u \in Workers : u = cancels[k]
      BY <2>2 DEF EngineTypes
    <3>2. worker' = [worker EXCEPT ![u].ctx = "done"]
      BY <2>2, <3>1 DEF DeleteCancel
    <3> QED
      BY <1>0, <3>1, <3>2 DEF LifeTypes, WorkerTypes, WorkerType
  <2> QED
    BY <2>1, <2>2
<1>2. WorkerTypes' /\ WorkersStep
  BY <1>0, <1>1, ContextsEnd DEF LifeTypes
<1>3. StoreStep /\ StoreTypes' /\ aged' = aged /\ created' = created
  BY <1>0, StoreIdle DEF DeleteCancel, LifeTypes, storeVars
<1>4. ControlTypes' /\ deployment' = deployment /\ sweep' = sweep
  BY <1>0 DEF DeleteCancel, LifeTypes, ControlTypes
<1>5. \A w \in Workers : worker[w].key \in Keys
  BY <1>0 DEF LifeTypes, WorkerTypes, WorkerType
<1>6. cancels' = [cancels EXCEPT ![k] = NoWorker]
  BY DEF DeleteCancel
<1>7. /\ LifeTypes' /\ WorkersInv' /\ RecordsInv' /\ OneTerminalEvent' /\ OpenIsTracked'
      /\ SweepInv'
  <2>1. WorkersInv' /\ RecordsInv' /\ OneTerminalEvent' /\ OpenIsTracked'
    BY <1>2, <1>3, <1>4, PartsKept DEF LifeTypes
  <2>2. \A j \in Keys : aged'[j] >= aged[j] /\ aged'[j] \in Nat
    BY <1>0, <1>3 DEF LifeTypes, StoreTypes, Inc
  <2>3. SweepInv'
    BY <1>3, <1>4, <2>2, SweepInvKept DEF LifeInv
  <2> QED
    BY <1>2, <1>3, <1>4, <2>1, <2>3 DEF LifeTypes
<1>8. RunningIsCancellable'
  <2> SUFFICES ASSUME NEW w \in Workers, NEW j \in Keys, worker'[w].key = j,
                      worker'[w].pc \in Working, worker'[w].ctx = "live", UsedOnce(j)'
               PROVE  cancels'[j] = w
    BY <1>2 DEF RunningIsCancellable, WorkerTypes, WorkerType
  <2>0. UsedOnce(j)
    BY <1>3 DEF UsedOnce
  <2>1. /\ UsedOnce(j) /\ worker[w].key = j /\ worker[w].pc \in Working
        /\ worker[w].ctx = "live" /\ cancels[k] # w
    BY <1>1, <2>0
  <2>2. cancels[j] = w
    BY <2>1 DEF LifeInv, RunningIsCancellable
  <2> QED
    BY <1>6, <2>1, <2>2 DEF EngineTypes
<1> QED
  BY <1>3, <1>7, <1>8 DEF LifeInv

-----------------------------------------------------------------------------
(* DELETE's second half, TTL and time.                                     *)

\* Nobody in the engine moves.
LEMMA EngineStays ==
  ASSUME WorkerTypes, worker' = worker, cancels' = cancels
  PROVE  WorkerTypes' /\ WorkersStep /\ \A w \in Workers : KeepsCancel(w)
BY DEF WorkerTypes, WorkersStep, Advances, KeepsCancel

\* The record of a deleted or expired search goes.
LEMMA GoneLife ==
  ASSUME LifeInv, NEW k \in Keys, DeleteState(k) \/ Expire(k)
  PROVE  LifeInv' /\ StoreStep
<1>0. LifeTypes
  BY DEF LifeInv
<1>1. StoreStep /\ StoreTypes' /\ aged' = aged
  <2>1. CASE UNCHANGED storeVars
    BY <1>0, <2>1, StoreIdle DEF LifeTypes
  <2>2. CASE StoreDelete(k)
    BY <1>0, <2>2, GoneMoves DEF StoreDelete, LifeTypes
  <2>3. CASE Expire(k)
    BY <1>0, <2>3, GoneMoves DEF Expire, LifeTypes
  <2> QED
    BY <2>1, <2>2, <2>3 DEF DeleteState
<1>2. WorkerTypes' /\ WorkersStep /\ \A w \in Workers : KeepsCancel(w)
  BY <1>0, EngineStays DEF DeleteState, Expire, engineVars, LifeTypes
<1>3. /\ known' = known /\ deleting' \subseteq deleting /\ (Fault \/ NoFault)
      /\ UNCHANGED <<sweep, process, deployment, restarts>>
  BY DEF DeleteState, Expire, controlVars, NoFault
<1>4. ControlTypes'
  BY <1>0, <1>3, ControlKept DEF LifeTypes, ControlTypes
<1> QED
  BY <1>1, <1>2, <1>3, <1>4, LifeKept DEF LifeTypes

\* An incarnation grows stale only when its worker is past its early steps.
LEMMA AgeLife ==
  ASSUME LifeInv, NEW k \in Keys, Age(k)
  PROVE  LifeInv' /\ StoreStep
<1>0. LifeTypes
  BY DEF LifeInv
<1>1. /\ UNCHANGED <<records, active, created, engineVars, controlVars>>
      /\ aged[k] < created[k] /\ aged' = [aged EXCEPT ![k] = aged[k] + 1]
  BY DEF Age
<1>2. /\ \A j \in Keys : aged[j] \in Nat /\ created[j] \in Nat
      /\ \A w \in Workers : worker[w].gen \in Nat /\ worker[w].key \in Keys
  BY <1>0 DEF LifeTypes, StoreTypes, WorkerTypes, WorkerType, Inc
<1>3. aged[k] + 1 \in Inc
  BY <1>0, <1>1, <1>2, LifecycleAssumption DEF LifeTypes, StoreTypes, Inc
<1>4. LifeTypes'
  <2>1. StoreTypes'
    BY <1>0, <1>1, <1>3 DEF LifeTypes, StoreTypes
  <2>2. WorkerTypes' /\ ControlTypes'
    BY <1>0, <1>1 DEF LifeTypes, WorkerTypes, ControlTypes, engineVars, controlVars
  <2> QED
    BY <2>1, <2>2 DEF LifeTypes
<1>5. StoreStep
  BY <1>1 DEF StoreStep, KeyKept, SameEntry
<1>6. WorkersInv'
  <2>1. \A j \in Keys : aged'[j] <= created'[j]
    BY <1>0, <1>1, <1>2 DEF LifeInv, WorkersInv, LifeTypes, StoreTypes
  <2>2. ASSUME NEW w \in Workers, worker[w].pc \in Early
        PROVE  worker[w].gen > aged'[worker[w].key]
    <3>1. worker[w].gen > aged[worker[w].key]
      BY <2>2 DEF LifeInv, WorkersInv
    <3>2. CASE worker[w].key = k
      <4>1. worker[w].gen # aged[k] + 1
        BY <2>2, <3>2 DEF Age, Early
      <4> QED
        BY <1>0, <1>1, <1>2, <3>1, <3>2, <4>1 DEF LifeTypes, StoreTypes
    <3>3. CASE worker[w].key # k
      BY <1>0, <1>1, <1>2, <3>1, <3>3 DEF LifeTypes, StoreTypes
    <3> QED
      BY <3>2, <3>3
  <2> QED
    BY <1>1, <2>1, <2>2 DEF LifeInv, WorkersInv, engineVars
<1>7. RecordsInv'
  BY <1>1 DEF LifeInv, RecordsInv, Exists, Terminal, UsedOnce, engineVars
<1>8. SweepInv'
  <2>1. \A j \in Keys : aged'[j] >= aged[j] /\ aged'[j] \in Nat
    BY <1>0, <1>1, <1>2 DEF LifeTypes, StoreTypes
  <2>2. sweep' = sweep
    BY <1>1 DEF controlVars
  <2> QED
    BY <1>5, <2>1, <2>2, SweepInvKept DEF LifeInv
<1>9. RunningIsCancellable' /\ OneTerminalEvent' /\ OpenIsTracked'
  BY <1>1 DEF LifeInv, RunningIsCancellable, OneTerminalEvent, OpenIsTracked, TerminalEvents,
              UsedOnce, Exists, Terminal, Durable, engineVars, controlVars
<1> QED
  BY <1>4, <1>5, <1>6, <1>7, <1>8, <1>9 DEF LifeInv

-----------------------------------------------------------------------------
(* The recovery loop.                                                      *)

\* All parts but what the loop has read, for one of its steps.
LEMMA SweepKeepsRest ==
  ASSUME LifeInv, StoreTypes', ControlTypes', StoreStep, SweepInv', UNCHANGED engineVars,
         aged' = aged, deployment' = deployment
  PROVE  LifeInv' /\ StoreStep
<1>1. WorkerTypes' /\ WorkersStep /\ \A w \in Workers : KeepsCancel(w)
  BY EngineStays DEF engineVars, LifeInv, LifeTypes
<1>2. LifeTypes'
  BY <1>1 DEF LifeTypes
<1>3. WorkersInv' /\ RecordsInv' /\ OneTerminalEvent' /\ OpenIsTracked'
  BY <1>1, <1>2, PartsKept
<1>4. RunningIsCancellable'
  BY <1>1, <1>2, CancellableKept DEF LifeInv
<1> QED
  BY <1>2, <1>3, <1>4 DEF LifeInv

\* The steps that read the store.
LEMMA SweepReadsLife ==
  ASSUME LifeInv, SweepMemory \/ SweepRange \/ SweepRead
  PROVE  LifeInv' /\ StoreStep
<1>0. LifeTypes /\ \A k \in Keys : /\ aged[k] \in Nat /\ active[k] \in Nat
                                   /\ records[k].body \in Inc
  BY DEF LifeInv, LifeTypes, StoreTypes, RecordType, Inc
<1>1. /\ UNCHANGED <<storeVars, engineVars, known, deleting, process, deployment, restarts, faults>>
      /\ sweep \in SweepType /\ SweepInv
  BY <1>0 DEF SweepMemory, SweepRange, SweepRead, LifeTypes, ControlTypes, LifeInv
<1>2. StoreStep /\ StoreTypes' /\ aged' = aged
  BY <1>0, <1>1, StoreIdle DEF LifeTypes
<1>3. sweep' \in SweepType /\ SweepInv'
  <2>1. CASE SweepMemory
    <3> DEFINE stale == {k \in Keys : Exists(k) /\ ~Terminal(k) /\ records[k].body <= aged[k]}
               batch == {<<k, records[k].body>> : k \in stale}
    <3>1. \A s \in batch : s \in Keys \X Inc /\ aged[s[1]] >= 1 /\ s[2] >= 1
      <4> SUFFICES ASSUME NEW k \in stale
                   PROVE  records[k].body \in Inc /\ aged[k] >= 1 /\ records[k].body >= 1
        OBVIOUS
      <4> QED
        BY <1>0 DEF LifeInv, RecordsInv, Inc
    <3>2. sweep' = [sweep EXCEPT !.pc = "close", !.batch = batch]
      BY <2>1 DEF SweepMemory
    <3> HIDE DEF batch
    <3>3. sweep' \in SweepType
      BY <1>1, <3>1, <3>2 DEF SweepType
    <3>4. sweep'.ids = sweep.ids /\ sweep'.remove = sweep.remove /\ sweep'.batch = batch
      BY <1>1, <3>2 DEF SweepType
    <3> QED
      BY <1>1, <3>1, <3>3, <3>4 DEF SweepInv, UsedOnce, Exists, Terminal, storeVars
  <2>2. CASE SweepRange
    <3> DEFINE stale == {k \in Keys : active[k] # 0 /\ active[k] <= aged[k]}
    <3>1. \A k \in stale : k \in Keys /\ aged[k] >= 1
      BY <1>0
    <3>2. sweep' = [sweep EXCEPT !.pc = "read", !.ids = stale]
      BY <2>2 DEF SweepRange
    <3> HIDE DEF stale
    <3>3. sweep' \in SweepType
      BY <1>1, <3>1, <3>2 DEF SweepType
    <3>4. sweep'.ids = stale /\ sweep'.remove = sweep.remove /\ sweep'.batch = sweep.batch
      BY <1>1, <3>2 DEF SweepType
    <3> QED
      BY <1>1, <3>1, <3>3, <3>4 DEF SweepInv, UsedOnce, Exists, Terminal, storeVars
  <2>3. CASE SweepRead
    <3> DEFINE read == {i \in sweep.ids : Exists(i) /\ ~Terminal(i)}
               batch == {<<k, records[k].body>> : k \in read}
               gone == {i \in sweep.ids : ~Exists(i) \/ Terminal(i)}
    <3>0. \A k \in sweep.ids : k \in Keys /\ aged[k] >= 1
      BY <1>1 DEF SweepType, SweepInv
    <3>1. \A s \in batch : s \in Keys \X Inc /\ aged[s[1]] >= 1 /\ s[2] >= 1
      <4> SUFFICES ASSUME NEW k \in read
                   PROVE  k \in Keys /\ records[k].body \in Inc /\ aged[k] >= 1 /\ records[k].body >= 1
        OBVIOUS
      <4> QED
        BY <1>0, <3>0 DEF LifeInv, RecordsInv
    <3>2. sweep' = [sweep EXCEPT !.pc = "remove", !.batch = batch, !.remove = gone]
      BY <2>3 DEF SweepRead
    <3>3. \A k \in gone : k \in Keys /\ aged[k] >= 1 /\ (~Exists(k) \/ Terminal(k))
      BY <3>0
    <3> HIDE DEF batch, gone
    <3>4. /\ sweep' \in SweepType
          /\ sweep'.ids = sweep.ids /\ sweep'.remove = gone /\ sweep'.batch = batch
      BY <1>1, <3>1, <3>2, <3>3 DEF SweepType
    <3> QED
      BY <1>1, <3>1, <3>3, <3>4 DEF SweepInv, UsedOnce, Exists, Terminal, storeVars
  <2> QED
    BY <2>1, <2>2, <2>3
<1>4. ControlTypes'
  BY <1>0, <1>1, <1>3 DEF LifeTypes, ControlTypes
<1> QED
  BY <1>1, <1>2, <1>3, <1>4, SweepKeepsRest

\* What the loop still has to do shrinks.
LEMMA SweepShrinks ==
  ASSUME LifeInv, StoreStep, aged' = aged,
         sweep'.ids \subseteq sweep.ids, sweep'.batch \subseteq sweep.batch,
         sweep'.remove \subseteq sweep.remove
  PROVE  SweepInv'
<1>1. \A k \in Keys : aged'[k] >= aged[k] /\ aged'[k] \in Nat
  BY DEF LifeInv, LifeTypes, StoreTypes, Inc
<1> QED
  BY <1>1, SweepInvKept DEF LifeInv

\* A search found gone or closed loses its score: it was not open when it was
\* read and, used once, it has not become so.
LEMMA SweepRemoveLife ==
  ASSUME LifeInv, SweepRemove
  PROVE  LifeInv' /\ StoreStep
<1>0. LifeTypes /\ sweep \in SweepType /\ 0 \in Inc
  BY LifecycleAssumption DEF LifeInv, LifeTypes, ControlTypes, Inc
<1>1. /\ active' = [k \in Keys |-> IF k \in sweep.remove THEN 0 ELSE active[k]]
      /\ sweep' = [sweep EXCEPT !.pc = "close"]
      /\ UNCHANGED <<records, created, aged, engineVars, known, deleting, process, deployment,
                     restarts, faults>>
  BY DEF SweepRemove
<1>2. \A k \in Keys : KeyKept(k) \/ KeyUntracked(k)
  BY <1>0, <1>1 DEF KeyKept, SameEntry, KeyUntracked, LifeInv, SweepInv
<1>3. StoreStep
  BY <1>2 DEF StoreStep
<1>4. StoreTypes'
  BY <1>0, <1>1 DEF LifeTypes, StoreTypes
<1>5. /\ sweep' \in SweepType /\ sweep'.ids = sweep.ids /\ sweep'.batch = sweep.batch
      /\ sweep'.remove = sweep.remove
  BY <1>0, <1>1 DEF SweepType
<1>6. ControlTypes'
  BY <1>0, <1>1, <1>5 DEF LifeTypes, ControlTypes
<1>7. SweepInv'
  BY <1>1, <1>3, <1>5, SweepShrinks
<1> QED
  BY <1>1, <1>3, <1>4, <1>6, <1>7, SweepKeepsRest

\* The loop closes one snapshot of its batch, or fails to.
LEMMA SweepCloseLife ==
  ASSUME LifeInv, SweepClose
  PROVE  LifeInv' /\ StoreStep
<1>0. LifeTypes /\ sweep \in SweepType
  BY DEF LifeInv, LifeTypes, ControlTypes
<1>1. PICK s \in sweep.batch :
        /\ \/ StoreFinalize(s[1], s[2], "FAILED") /\ NoFault
           \/ UNCHANGED storeVars /\ Fault
           \/ UNCHANGED storeVars /\ Durable /\ process = "stopping" /\ NoFault
        /\ sweep' = [sweep EXCEPT !.batch = @ \ {s}]
  BY DEF SweepClose
<1>2. s[1] \in Keys /\ s[2] \in Inc \ {0} /\ aged[s[1]] >= 1
  BY <1>0 DEF LifeInv, SweepInv, SweepType, Inc
<1>3. StoreStep /\ StoreTypes' /\ aged' = aged
  <2>1. CASE UNCHANGED storeVars
    BY <1>0, <2>1, StoreIdle DEF LifeTypes
  <2>2. CASE StoreFinalize(s[1], s[2], "FAILED")
    BY <1>0, <1>2, <2>2, FinalizeMoves DEF LifeTypes, Outcome
  <2> QED
    BY <1>1, <2>1, <2>2
<1>4. /\ sweep' \in SweepType /\ sweep'.ids = sweep.ids /\ sweep'.batch \subseteq sweep.batch
      /\ sweep'.remove = sweep.remove
  BY <1>0, <1>1 DEF SweepType
<1>5. UNCHANGED <<engineVars, known, deleting, process, deployment, restarts>>
  BY DEF SweepClose
<1>6. ControlTypes'
  <2>1. faults' \in 0..deployment.faults
    BY <1>0, <1>1, DeploymentTyped DEF Fault, NoFault, LifeTypes, ControlTypes
  <2> QED
    BY <1>0, <1>4, <1>5, <2>1 DEF LifeTypes, ControlTypes
<1>7. SweepInv'
  BY <1>3, <1>4, SweepShrinks
<1> QED
  BY <1>3, <1>5, <1>6, <1>7, SweepKeepsRest

\* The loop ends, done or aborted.
LEMMA SweepEndsLife ==
  ASSUME LifeInv, SweepAborted \/ SweepDone
  PROVE  LifeInv' /\ StoreStep
<1>0. LifeTypes
  BY DEF LifeInv
<1>1. /\ UNCHANGED <<storeVars, engineVars, known, deleting, process, deployment, restarts>>
      /\ sweep' = SweepIdle /\ (Fault \/ NoFault)
  BY DEF SweepAborted, SweepDone, NoFault
<1>2. StoreStep /\ StoreTypes' /\ aged' = aged
  BY <1>0, <1>1, StoreIdle DEF LifeTypes
<1>3. SweepInv' /\ sweep' \in SweepType
  BY <1>1 DEF SweepIdle, SweepInv, SweepType
<1>4. ControlTypes'
  <2>1. faults' \in 0..deployment.faults
    BY <1>0, <1>1, DeploymentTyped DEF Fault, NoFault, LifeTypes, ControlTypes
  <2> QED
    BY <1>0, <1>1, <1>3, <2>1 DEF LifeTypes, ControlTypes
<1> QED
  BY <1>1, <1>2, <1>3, <1>4, SweepKeepsRest

-----------------------------------------------------------------------------
(* The process.                                                            *)

\* Shutdown ends every context.
LEMMA StopLife ==
  ASSUME LifeInv, Stop
  PROVE  LifeInv' /\ StoreStep
<1>0. LifeTypes
  BY DEF LifeInv
<1>1. /\ worker' \in [Workers -> WorkerType]
      /\ \A w \in Workers : /\ worker'[w].pc = worker[w].pc /\ worker'[w].key = worker[w].key
                             /\ worker'[w].gen = worker[w].gen
                             /\ worker'[w].ctx \in {worker[w].ctx, "done"}
      /\ \A w \in Workers : worker'[w].ctx = "done"
  BY <1>0 DEF Stop, LifeTypes, WorkerTypes, WorkerType
<1>2. WorkerTypes' /\ WorkersStep
  BY <1>0, <1>1, ContextsEnd DEF LifeTypes
<1>3. \A w \in Workers : KeepsCancel(w)
  BY <1>1 DEF KeepsCancel
<1>4. StoreStep /\ StoreTypes' /\ aged' = aged
  BY <1>0, StoreIdle DEF Stop, LifeTypes
<1>5. ControlTypes' /\ deployment' = deployment /\ sweep' = sweep
  BY <1>0 DEF Stop, LifeTypes, ControlTypes
<1> QED
  BY <1>2, <1>3, <1>4, <1>5, LifeKept DEF LifeTypes

\* A restart forgets the engine and, in memory, the store.
LEMMA RestartLife ==
  ASSUME LifeInv, Restart
  PROVE  LifeInv' /\ StoreStep
<1>0. LifeTypes
  BY DEF LifeInv
<1>1. IdleWorker(SomeKey) \in WorkerType /\ IdleWorker(SomeKey).pc = "idle"
  BY SomeKeyIsKey, IdleTyped
<1>2. worker' = [w \in Workers |-> IdleWorker(SomeKey)]
  BY DEF Restart
<1>3. WorkerTypes' /\ WorkersStep
  BY <1>1, <1>2 DEF WorkerTypes, WorkersStep, Advances, Past, Early, Fresh
<1>4. \A w \in Workers : KeepsCancel(w)
  BY <1>1, <1>2 DEF KeepsCancel, Working
<1>5. StoreStep /\ StoreTypes' /\ aged' = aged
  <2>1. CASE Durable
    BY <1>0, <2>1, StoreIdle DEF Restart, LifeTypes, storeVars
  <2>2. CASE ~Durable
    <3>1. 0 \in Inc
      BY LifecycleAssumption DEF Inc
    <3>2. \A k \in Keys : KeyGone(k)
      BY <2>2 DEF Restart, KeyGone
    <3>3. StoreTypes'
      BY <1>0, <2>2, <3>1, NoRecordTyped DEF Restart, LifeTypes, StoreTypes
    <3> QED
      BY <3>2, <3>3 DEF StoreStep, Restart
  <2> QED
    BY <2>1, <2>2
<1>6. sweep' = SweepIdle /\ sweep' \in SweepType /\ SweepInv'
  BY DEF Restart, SweepIdle, SweepType, SweepInv
<1>7. ControlTypes' /\ deployment' = deployment
  <2>1. restarts' \in 0..deployment.restarts
    BY <1>0, DeploymentTyped DEF Restart, LifeTypes, ControlTypes
  <2> QED
    BY <1>0, <1>6, <2>1 DEF Restart, LifeTypes, ControlTypes
<1>8. LifeTypes'
  BY <1>3, <1>5, <1>7 DEF LifeTypes
<1>9. WorkersInv' /\ RecordsInv' /\ OneTerminalEvent' /\ OpenIsTracked'
  BY <1>3, <1>5, <1>7, <1>8, PartsKept
<1>10. RunningIsCancellable'
  BY <1>4, <1>5, <1>8, CancellableKept DEF LifeInv
<1> QED
  BY <1>5, <1>6, <1>8, <1>9, <1>10 DEF LifeInv

\* A process begins with an empty store or, with Redis, is one that does.
LEMMA LifeInit == Init => LifeInv
<1> SUFFICES ASSUME Init PROVE LifeInv
  OBVIOUS
<1>1. IdleWorker(SomeKey) \in WorkerType /\ IdleWorker(SomeKey).pc = "idle"
  BY SomeKeyIsKey, IdleTyped
<1>2. 0 \in Inc
  BY LifecycleAssumption DEF Inc
<1>3. StoreTypes
  BY <1>2, NoRecordTyped DEF Init, StoreTypes
<1>4. WorkerTypes /\ \A w \in Workers : worker[w].pc = "idle"
  BY <1>1 DEF Init, WorkerTypes
<1>5. ControlTypes
  <2>1. deployment.restarts \in Nat /\ deployment.faults \in Nat
    BY LifecycleAssumption DEF Init, Deployment
  <2> QED
    BY <2>1 DEF Init, ControlTypes, SweepIdle, SweepType
<1>6. WorkersInv
  BY <1>4 DEF Init, WorkersInv, Past, Early
<1>7. RecordsInv
  BY <1>4 DEF Init, RecordsInv, Exists, NoRecord, Fresh
<1>8. SweepInv
  BY DEF Init, SweepInv, SweepIdle
<1>9. RunningIsCancellable
  BY <1>4 DEF RunningIsCancellable, Working
<1>10. OneTerminalEvent
  BY OccurrencesEmpty DEF Init, OneTerminalEvent, TerminalEvents, NoRecord, Outcome
<1>11. OpenIsTracked
  BY DEF Init, OpenIsTracked, Exists, NoRecord
<1> QED
  BY <1>3, <1>4, <1>5, <1>6, <1>7, <1>8, <1>9, <1>10, <1>11 DEF LifeInv, LifeTypes

\* Every step of every actor keeps the invariant.
LEMMA LifeStep == LifeInv /\ EngineInv /\ [Next]_vars => LifeInv' /\ StoreStep
<1> SUFFICES ASSUME LifeInv, EngineTypes, [Next]_vars PROVE LifeInv' /\ StoreStep
  BY DEF EngineInv
<1>1. CASE UNCHANGED vars
  <2>1. StoreStep /\ StoreTypes' /\ aged' = aged
    BY <1>1, StoreIdle DEF vars, LifeInv, LifeTypes
  <2>2. WorkerTypes' /\ WorkersStep /\ \A w \in Workers : KeepsCancel(w)
    BY <1>1, EngineStays DEF vars, engineVars, LifeInv, LifeTypes
  <2>3. ControlTypes' /\ deployment' = deployment /\ sweep' = sweep
    BY <1>1 DEF vars, controlVars, LifeInv, LifeTypes, ControlTypes
  <2> QED
    BY <2>1, <2>2, <2>3, LifeKept DEF LifeTypes
<1>2. ASSUME NEW w \in Workers, NEW k \in Keys, Start(w, k) PROVE LifeInv' /\ StoreStep
  BY <1>2, StartLife
<1>3. ASSUME NEW w \in Workers, WorkerStep(w) PROVE LifeInv' /\ StoreStep
  BY <1>3, CreateSearchLife, ReturnLife, ProgressLife, RegisterLife, ConcludeLife, FinalizeLife,
     RemoveCancelLife DEF WorkerStep
<1>4. ASSUME NEW w \in Workers, ProgressEvent(w) \/ Deadline(w) PROVE LifeInv' /\ StoreStep
  BY <1>4, ProgressLife, ConcludeLife
<1>5. ASSUME NEW k \in Keys, DeleteCancel(k) \/ DeleteState(k) \/ Age(k) \/ Expire(k)
      PROVE  LifeInv' /\ StoreStep
  BY <1>5, DeleteCancelLife, GoneLife, AgeLife
<1>6. CASE SweepStep
  BY <1>6, SweepReadsLife, SweepRemoveLife, SweepCloseLife, SweepEndsLife DEF SweepStep
<1>7. CASE Stop \/ Restart
  BY <1>7, StopLife, RestartLife
<1> QED
  BY <1>1, <1>2, <1>3, <1>4, <1>5, <1>6, <1>7 DEF Next

\* The invariant of store, workers and recovery loop together.
THEOREM LifeSound == Spec => [](LifeInv /\ EngineInv)
<1>1. Init => LifeInv /\ EngineInv
  BY LifeInit, InitKeeps
<1>2. LifeInv /\ EngineInv /\ [Next]_vars => LifeInv' /\ EngineInv'
  BY LifeStep, StepKeeps
<1> QED
  BY <1>1, <1>2, PTL DEF Spec

\* What the variables of store and engine hold keeps its type, the admission
\* channel its capacity and the faults their bound.
THEOREM LifecycleTypeCorrect == Spec => []TypeOK
<1>1. LifeInv /\ EngineInv => TypeOK
  <2> SUFFICES ASSUME LifeInv, EngineInv PROVE TypeOK
    OBVIOUS
  <2>1. admission \in 0..MaxConcurrent /\ cancels \in [Keys -> Workers \cup {NoWorker}]
    BY LifecycleAssumption DEF EngineInv, EngineTypes, AdmissionExact
  <2> QED
    BY <2>1 DEF LifeInv, LifeTypes, StoreTypes, RecordType, WorkerTypes, WorkerType,
                ControlTypes, SweepType, TypeOK
<1> QED
  BY <1>1, LifeSound, PTL

\* DELETE reaches every goroutine that works under a live context, while an ID
\* is used once: engine.start files the cancel function before it starts run.
THEOREM RunningIsCancellableSafe == Spec => []RunningIsCancellable
<1>1. LifeInv => RunningIsCancellable
  BY DEF LifeInv
<1> QED
  BY <1>1, LifeSound, PTL

\* Status and terminal event of a search are published together and once, by
\* its worker, by a retry after a lost reply or by the stale-search recovery.
THEOREM OneTerminalEventSafe == Spec => []OneTerminalEvent
<1>1. LifeInv => OneTerminalEvent
  BY DEF LifeInv
<1> QED
  BY <1>1, LifeSound, PTL

\* An open search of the Redis store never leaves the active set: what ZREM
\* removes was closed or gone when it was read and has stayed so.
THEOREM OpenIsTrackedSafe == Spec => []OpenIsTracked
<1>1. LifeInv => OpenIsTracked
  BY DEF LifeInv
<1> QED
  BY <1>1, LifeSound, PTL

-----------------------------------------------------------------------------
(* What a client sees.                                                     *)

\* Only Create makes a record where there is none.
LEMMA OnlyCreateMakes ==
  ASSUME StoreStep, NEW k \in Keys, ~Exists(k), Exists(k)'
  PROVE  records'[k].status = "ACCEPTED" /\ created'[k] = created[k] + 1
<1>1. ~KeyKept(k) /\ ~KeyUntracked(k)
  BY DEF KeyKept, KeyUntracked, Exists
<1>2. ~KeySearching(k) /\ ~KeyLogged(k) /\ ~KeyClosed(k)
  BY DEF KeySearching, KeyLogged, KeyClosed, FinalizeApplies
<1>3. ~KeyGone(k)
  BY DEF KeyGone, NoRecord, Exists
<1>4. KeyCreated(k)
  BY <1>1, <1>2, <1>3, KeyCases DEF KeyMoves
<1> QED
  BY <1>4 DEF KeyCreated

\* A late Update, AppendEvent or Finalize never brings a deleted or expired
\* search back.
THEOREM NoResurrectionSafe == Spec => NoResurrection
<1>1. LifeInv /\ EngineInv /\ [Next]_vars =>
        [\A k \in Keys : ~Exists(k) /\ Exists(k)' =>
           records[k].status' = "ACCEPTED" /\ created[k]' = created[k] + 1]_vars
  BY LifeStep, OnlyCreateMakes
<1> QED
  BY <1>1, LifeSound, PTL DEF Spec, NoResurrection

EventsOf(state) == [o \in Outcome |-> IF state = o THEN 1 ELSE 0]

EventsMatch == \A k \in Keys : ResourceEvents(k) = EventsOf(ResourceState(k))

\* The terminal events of a search follow from what a client sees of it.
LEMMA ResourceEventsAre == LifeInv => EventsMatch
<1> SUFFICES ASSUME LifeInv, NEW k \in Keys
             PROVE  ResourceEvents(k) = [o \in Outcome |-> IF ResourceState(k) = o THEN 1 ELSE 0]
  BY DEF EventsMatch, EventsOf
<1>1. CASE ~UsedOnce(k)
  <2>1. ResourceState(k) = "absent" /\ ResourceEvents(k) = [o \in Outcome |-> 0]
    BY <1>1 DEF ResourceState, ResourceEvents, NoEvents
  <2>2. \A o \in Outcome : o # "absent"
    BY DEF Outcome
  <2> QED
    BY <2>1, <2>2
<1>2. CASE UsedOnce(k)
  <2>1. ResourceEvents(k) = [o \in Outcome |-> IF records[k].status = o THEN 1 ELSE 0]
    BY <1>2 DEF ResourceEvents, LifeInv, OneTerminalEvent
  <2>2. \A o \in Outcome : (ResourceState(k) = o) <=> (records[k].status = o)
    BY <1>2 DEF ResourceState, Outcome
  <2> QED
    BY <2>1, <2>2
<1> QED
  BY <1>1, <1>2

\* What a client sees of one search changes as SearchResource says.
LEMMA ResourceKeyMoves ==
  ASSUME LifeInv, StoreStep, NEW k \in Keys
  PROVE  \/ ResourceState(k)' = ResourceState(k)
         \/ ResourceState(k) = "absent" /\ ResourceState(k)' = "open"
         \/ ResourceState(k) = "open" /\ ResourceState(k)' \in Outcome
         \/ ResourceState(k)' = "absent"
<1>1. CASE ~UsedOnce(k)'
  BY <1>1 DEF ResourceState
<1>2. CASE UsedOnce(k)'
  <2>1. UsedOnce(k) /\ records[k].status \in Status /\ created[k] \in Nat
    BY <1>2, CreatedGrows DEF LifeInv, LifeTypes, StoreTypes, RecordType, Inc
  <2>2. CASE KeyKept(k) \/ KeyUntracked(k)
    BY <2>1, <1>2, <2>2 DEF KeyKept, KeyUntracked, ResourceState
  <2>3. CASE KeyCreated(k)
    BY <2>1, <1>2, <2>3 DEF KeyCreated, CanCreate, Exists, ResourceState
  <2>4. CASE KeySearching(k)
    <3>1. ~Terminal(k)
      BY <2>1, <2>4 DEF KeySearching, LifeInv, RecordsInv, Fresh
    <3>2. records[k].status \in {"ACCEPTED", "SEARCHING"}
      BY <2>1, <2>4, <3>1 DEF KeySearching, Exists, Terminal, Status
    <3> QED
      BY <2>1, <1>2, <2>4, <3>2 DEF KeySearching, ResourceState
  <2>5. CASE KeyLogged(k)
    BY <2>1, <1>2, <2>5 DEF KeyLogged, ResourceState
  <2>6. CASE KeyClosed(k)
    <3>1. records[k].status \in {"ACCEPTED", "SEARCHING"}
      BY <2>1, <2>6 DEF KeyClosed, FinalizeApplies, Exists, Terminal, Status
    <3> QED
      BY <2>1, <1>2, <2>6, <3>1 DEF KeyClosed, ResourceState, Outcome
  <2>7. CASE KeyGone(k)
    BY <1>2, <2>7 DEF KeyGone, NoRecord, ResourceState
  <2> QED
    BY <2>2, <2>3, <2>4, <2>5, <2>6, <2>7, KeyCases DEF KeyMoves
<1> QED
  BY <1>1, <1>2

\* One key at a time, unless in-process state is lost.
LEMMA ResourceOthersStay ==
  ASSUME StoreStep
  PROVE  \/ \E k \in Keys : \A j \in Keys \ {k} : ResourceState(j)' = ResourceState(j)
         \/ \A k \in Keys : ResourceState(k)' = ResourceState(k)
         \/ \A k \in Keys : ResourceState(k)' = "absent"
<1>1. ASSUME NEW k \in Keys, KeyKept(k) \/ KeyUntracked(k)
      PROVE  ResourceState(k)' = ResourceState(k)
  BY <1>1 DEF KeyKept, SameEntry, KeyUntracked, ResourceState, UsedOnce
<1>2. ASSUME NEW k \in Keys, KeyGone(k)
      PROVE  ResourceState(k)' = "absent"
  BY <1>2 DEF KeyGone, NoRecord, ResourceState
<1> QED
  BY <1>1, <1>2 DEF StoreStep, OneKeyMoves

\* A step of the model is a step of the resource or leaves it as it is.
LEMMA ResourceStep ==
  ASSUME LifeInv, EventsMatch, EventsMatch', StoreStep
  PROVE  [Resource!Next]_(Resource!vars)
<1> DEFINE S == [k \in Keys |-> ResourceState(k)]
           P == [k \in Keys |-> ResourceEvents(k)]
<1>0. /\ EventsOf("absent") = Resource!Nothing /\ EventsOf("open") = Resource!Nothing
      /\ \A o \in Outcome : EventsOf(o) = Resource!Only(o)
  BY DEF EventsOf, Resource!Nothing, Resource!Only, Outcome
<1>1. /\ P = [k \in Keys |-> EventsOf(ResourceState(k))]
      /\ P' = [k \in Keys |-> EventsOf(ResourceState(k)')]
  BY DEF EventsMatch
<1>2. CASE \A k \in Keys : ResourceState(k)' = ResourceState(k)
  <2>1. S' = S /\ P' = P
    BY <1>1, <1>2
  <2> QED
    BY <2>1 DEF Resource!vars
<1>3. CASE \A k \in Keys : ResourceState(k)' = "absent"
  <2>1. Resource!Disappear(Keys)
    BY <1>0, <1>1, <1>3 DEF Resource!Disappear
  <2> QED
    BY <2>1 DEF Resource!Next
<1>4. ASSUME NEW k \in Keys, \A j \in Keys \ {k} : ResourceState(j)' = ResourceState(j)
      PROVE  [Resource!Next]_(Resource!vars)
  <2>0. \A j \in Keys \ {k} : S'[j] = S[j] /\ P'[j] = P[j]
    BY <1>1, <1>4
  <2>1. CASE ResourceState(k)' = ResourceState(k)
    BY <1>2, <1>4, <2>1
  <2>2. CASE ResourceState(k) = "absent" /\ ResourceState(k)' = "open"
    <3>1. P' = P
      BY <1>0, <1>1, <2>0, <2>2
    <3>2. S[k] = "absent" /\ S' = [S EXCEPT ![k] = "open"]
      BY <2>0, <2>2
    <3> QED
      BY <3>1, <3>2 DEF Resource!Next, Resource!Accept
  <2>3. CASE ResourceState(k) = "open" /\ ResourceState(k)' \in Outcome
    <3>1. PICK o \in Outcome : o = ResourceState(k)'
      BY <2>3
    <3>2. S[k] = "open" /\ S' = [S EXCEPT ![k] = o]
      BY <2>0, <2>3, <3>1
    <3>3. P' = [P EXCEPT ![k] = Resource!Only(o)]
      BY <1>0, <1>1, <2>0, <3>1, ZenonT(60)
    <3>4. Resource!Close(k, o)
      BY <3>2, <3>3 DEF Resource!Close
    <3> QED
      BY <3>4 DEF Resource!Next
  <2>4. CASE ResourceState(k)' = "absent"
    <3>1. S' = [j \in Keys |-> IF j \in {k} THEN "absent" ELSE S[j]]
      BY <2>0, <2>4
    <3>2. P' = [j \in Keys |-> IF j \in {k} THEN Resource!Nothing ELSE P[j]]
      BY <1>0, <1>1, <2>0, <2>4
    <3>3. Resource!Disappear({k})
      BY <3>1, <3>2 DEF Resource!Disappear
    <3> QED
      BY <3>3 DEF Resource!Next
  <2> QED
    BY <2>1, <2>2, <2>3, <2>4, ResourceKeyMoves
<1> QED
  BY <1>2, <1>3, <1>4, ResourceOthersStay

\* Nothing is there at the beginning.
LEMMA ResourceInit == Init => Resource!Init
<1> SUFFICES ASSUME Init, NEW k \in Keys
             PROVE  ResourceState(k) = "absent" /\ ResourceEvents(k) = Resource!Nothing
  BY DEF Resource!Init
<1>1. UsedOnce(k) /\ records[k] = NoRecord
  BY DEF Init, UsedOnce
<1>2. ResourceState(k) = "absent"
  BY <1>1 DEF ResourceState, NoRecord
<1>3. \A o \in Outcome : Occurrences(records[k].log, o) = 0
  BY <1>1, OccurrencesEmpty DEF NoRecord
<1> QED
  BY <1>1, <1>2, <1>3 DEF ResourceEvents, TerminalEvents, Resource!Nothing

\* The worker, its retries, DELETE, TTL, the recovery loop, faults and restarts
\* implement the search resource of ADR-006, in both stores.
THEOREM LifecycleImplementsResource == Spec => ImplementsResource
<1>1. LifeInv /\ EngineInv /\ EventsMatch /\ EventsMatch' /\ [Next]_vars =>
        [Resource!Next]_(Resource!vars)
  BY LifeStep, ResourceStep
<1> QED
  BY <1>1, ResourceInit, ResourceEventsAre, LifeSound, PTL DEF Spec, ImplementsResource, Resource!Spec
=============================================================================
