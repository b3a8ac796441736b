-------------------------- MODULE SearchLifecycle --------------------------
(***************************************************************************)
(* The life of a route search in routing-orchestrator: engine.start, the   *)
(* worker goroutine engine.run, engine.cancel (DELETE), the stale-search   *)
(* recovery loop and process shutdown (engine.go, main.go), over the store *)
(* of internal/searchstore (store.go) in both of its forms.                *)
(*                                                                         *)
(* A search ID is ids.FromStableKey of the operation key, so a key names   *)
(* its search: a key used again after its record is gone creates a new     *)
(* INCARNATION under the same ID, while goroutines and snapshots of the    *)
(* old one may still be about.  Every store access is one atomic step (a   *)
(* mutex section or a Lua script); between two of them anyone may run.     *)
(***************************************************************************)
EXTENDS Naturals, Sequences, FiniteSets

CONSTANTS
  Workers,        \* calls of engine.start, each with its worker goroutine
  Keys,           \* operation keys, hence search IDs
  NoWorker,       \* no cancel function registered
  MaxConcurrent,  \* config.MaxConcurrentSearches, capacity of e.admission
  MaxPerKey,      \* bound: incarnations of one key
  Deployments     \* the stores in use, each with the bounds it is explored under

\* durable: searchstore.Redis, else searchstore.Memory; perKey: incarnations of
\* one key, stale: how many of them grow stale; restarts: of the process;
\* faults: failed Redis round trips.
Deployment == [durable: BOOLEAN, perKey: 1..MaxPerKey, stale: 0..MaxPerKey,
               restarts: Nat, faults: Nat]

ASSUME LifecycleAssumption ==
  /\ IsFiniteSet(Workers)
  /\ Keys # {}
  /\ NoWorker \notin Workers
  /\ MaxConcurrent \in Nat \ {0}
  /\ MaxPerKey \in Nat \ {0}
  /\ Deployments \subseteq Deployment

VARIABLES
  deployment, \* the one this process runs in
  records,    \* per key: status, incarnation, the incarnation whose worker
              \* wrote the result (body) and the event log, with runs
              \* of progress events collapsed to one
  active,     \* per key: incarnation scored in the Redis active set, 0 if none
  created,    \* per key: incarnations created so far
  aged,       \* per key: incarnations older than StaleSearchAfter
  worker,     \* per worker: pc, key, gen, ctx, outcome, tries
  admission,  \* tokens in e.admission
  cancels,    \* e.cancels
  known,      \* keys whose search ID start has returned to a client
  deleting,   \* keys whose DELETE has cancelled but not yet deleted
  sweep,      \* the recovery loop: pc, ids, batch, remove
  process,    \* "up" or "stopping" (root context cancelled)
  restarts, faults

storeVars   == <<records, active, created, aged>>
engineVars  == <<worker, admission, cancels>>
controlVars == <<known, deleting, sweep, process, deployment, restarts, faults>>
vars        == <<storeVars, engineVars, controlVars>>

Durable == deployment.durable

Outcome == {"COMPLETED", "DEGRADED", "FAILED"}
Status  == {"absent", "ACCEPTED", "SEARCHING"} \cup Outcome
Event   == {"SEARCH_ACCEPTED", "PROGRESS"} \cup Outcome
PC      == {"idle", "create", "accept", "register", "run", "started", "search",
            "finish", "unwind", "release"}
Inc     == 0..MaxPerKey

IdleWorker(k) == [pc |-> "idle", key |-> k, gen |-> 0, ctx |-> "done",
                  outcome |-> "FAILED", tries |-> 0]
NoRecord   == [status |-> "absent", inc |-> 0, body |-> 0, log |-> <<>>]
SweepIdle  == [pc |-> "idle", ids |-> {}, batch |-> {}, remove |-> {}]
SomeKey    == CHOOSE k \in Keys : TRUE

Init ==
  /\ deployment \in Deployments
  /\ records = [k \in Keys |-> NoRecord]
  /\ active = [k \in Keys |-> 0]
  /\ created = [k \in Keys |-> 0]
  /\ aged = [k \in Keys |-> 0]
  /\ worker = [w \in Workers |-> IdleWorker(SomeKey)]
  /\ admission = 0
  /\ cancels = [k \in Keys |-> NoWorker]
  /\ known = {}
  /\ deleting = {}
  /\ sweep = SweepIdle
  /\ process = "up"
  /\ restarts = 0
  /\ faults = 0

-----------------------------------------------------------------------------
(* The store (store.go).                                                   *)

Exists(k)   == records[k].status # "absent"
Terminal(k) == records[k].status \in Outcome

\* A Redis round trip that fails; the bound keeps faults transient.
Fault == Durable /\ faults < deployment.faults /\ faults' = faults + 1

NoFault == UNCHANGED faults

StoreCreateUntracked(k) ==
  /\ records' = [records EXCEPT ![k] = [status |-> "ACCEPTED", inc |-> created[k] + 1,
                                        body |-> created[k] + 1, log |-> <<>>]]
  /\ created' = [created EXCEPT ![k] = @ + 1]
  /\ UNCHANGED <<active, aged>>

StoreCreate(k) ==
  /\ records' = [records EXCEPT ![k] = [status |-> "ACCEPTED", inc |-> created[k] + 1,
                                        body |-> created[k] + 1, log |-> <<>>]]
  /\ active' = [active EXCEPT ![k] = IF Durable THEN created[k] + 1 ELSE 0]
  /\ created' = [created EXCEPT ![k] = @ + 1]
  /\ UNCHANGED aged

\* Update writes only over an existing record (SET XX in Redis, which also
\* fails once the worker's context is done; Memory ignores the context).
UpdateUnconditionally(w) == Durable => worker[w].ctx = "live"

UpdateApplies(w) == Exists(worker[w].key) /\ (Durable => worker[w].ctx = "live")

StoreUpdate(w) ==
  LET k == worker[w].key IN
  /\ records' = IF UpdateApplies(w)
                THEN [records EXCEPT ![k].status = "SEARCHING", ![k].body = worker[w].gen]
                ELSE records
  /\ UNCHANGED <<active, created, aged>>

\* Two progress events in a row count as one (see records).
Logged(log, event) ==
  IF event = "PROGRESS" /\ log # <<>> /\ log[Len(log)] = event THEN log ELSE Append(log, event)

StoreAppend(k, event) ==
  /\ records' = IF Exists(k) THEN [records EXCEPT ![k].log = Logged(@, event)] ELSE records
  /\ UNCHANGED <<active, created, aged>>

FinalizeAlways(k) == Exists(k)

\* The first terminal result wins.
FinalizeApplies(k) == Exists(k) /\ ~Terminal(k)

StoreFinalizeStatusOnly(k, gen, outcome) ==
  /\ records' = IF FinalizeApplies(k)
                THEN [records EXCEPT ![k].status = outcome, ![k].body = gen]
                ELSE records
  /\ active' = [active EXCEPT ![k] = 0]
  /\ UNCHANGED <<created, aged>>

StoreFinalize(k, gen, outcome) ==
  /\ records' = IF FinalizeApplies(k)
                THEN [records EXCEPT ![k].status = outcome, ![k].body = gen,
                                     ![k].log = Append(@, outcome)]
                ELSE records
  /\ active' = [active EXCEPT ![k] = 0]
  /\ UNCHANGED <<created, aged>>

StoreDelete(k) ==
  /\ records' = [records EXCEPT ![k] = NoRecord]
  /\ active' = [active EXCEPT ![k] = 0]
  /\ UNCHANGED <<created, aged>>

\* SEARCH_STATE_TTL: Redis expires the keys but not the active-set member.
\* The TTL is at least a minute, so a record that expires is an aged one.
Expire(k) ==
  /\ Exists(k)
  /\ records[k].inc <= aged[k]
  /\ records' = [records EXCEPT ![k] = NoRecord]
  /\ UNCHANGED <<active, created, aged, engineVars, controlVars>>

-----------------------------------------------------------------------------
(* engine.start.                                                           *)

Move(w, from, to) == /\ worker[w].pc = from
                     /\ worker' = [worker EXCEPT ![w].pc = to]

AdmissionFree == admission < MaxConcurrent

\* A full admission channel answers errSearchCapacity and changes nothing.
Start(w, k) ==
  /\ process = "up"
  /\ worker[w].pc = "idle"
  /\ AdmissionFree
  /\ admission' = admission + 1
  /\ worker' = [worker EXCEPT ![w] = [IdleWorker(k) EXCEPT !.pc = "create"]]
  /\ UNCHANGED <<storeVars, cancels, controlVars>>

\* start returns without a worker: the deferred release gives the token back.
ReturnKeepingToken(w) ==
  /\ worker' = [worker EXCEPT ![w] = IdleWorker(SomeKey)]
  /\ UNCHANGED <<admission, cancels>>

ReturnReleasingTwice(w) ==
  /\ worker' = [worker EXCEPT ![w] = IdleWorker(SomeKey)]
  /\ admission' = admission - 2
  /\ UNCHANGED cancels

ReturnWithoutWorker(w) ==
  /\ worker' = [worker EXCEPT ![w] = IdleWorker(SomeKey)]
  /\ admission' = admission - 1
  /\ UNCHANGED cancels

CanCreate(k) == ~Exists(k) /\ created[k] < deployment.perKey

CreateSearch(w) ==
  LET k == worker[w].key IN
  /\ worker[w].pc = "create"
  /\ Durable => process = "up"          \* Create runs under the root context
  /\ CanCreate(k)
  /\ StoreCreate(k)
  /\ worker' = [worker EXCEPT ![w].pc = "accept", ![w].gen = created[k] + 1]
  /\ UNCHANGED <<admission, cancels, controlVars>>

\* ErrAlreadyExists under an operation key: the existing search is returned.
\* (Also taken when perKey is used up, as if the call had not been made.)
CreateFoundExisting(w) ==
  /\ worker[w].pc = "create"
  /\ ~CanCreate(worker[w].key)
  /\ ReturnWithoutWorker(w)
  /\ known' = IF Exists(worker[w].key) THEN known \cup {worker[w].key} ELSE known
  /\ UNCHANGED <<storeVars, deleting, sweep, process, deployment, restarts, faults>>

\* Any other error of Create.  The script may have run and only its reply be
\* lost: the record then exists and nobody works on it.
CreateFailed(w) ==
  /\ worker[w].pc = "create"
  /\ \/ Fault
     \/ Durable /\ process = "stopping" /\ NoFault
  /\ \/ UNCHANGED storeVars
     \/ process = "up" /\ CanCreate(worker[w].key) /\ StoreCreate(worker[w].key)
  /\ ReturnWithoutWorker(w)
  /\ UNCHANGED <<known, deleting, sweep, process, deployment, restarts>>

\* appendEvent: best effort, a failed or late event is only logged.
AppendEvent(k, event) ==
  \/ StoreAppend(k, event) /\ NoFault
  \/ UNCHANGED storeVars /\ Fault

AcceptedEvent(w) ==
  /\ Move(w, "accept", "register")
  /\ AppendEvent(worker[w].key, "SEARCH_ACCEPTED")
  /\ UNCHANGED <<admission, cancels, known, deleting, sweep, process, deployment, restarts>>

\* The worker context is made, its cancel function registered, and only then
\* is the goroutine started and the search ID returned.
Register(w) ==
  /\ worker[w].pc = "register"
  /\ worker' = [worker EXCEPT ![w].pc = "run",
                              ![w].ctx = IF process = "up" THEN "live" ELSE "done"]
  /\ cancels' = [cancels EXCEPT ![worker[w].key] = w]
  /\ known' = known \cup {worker[w].key}
  /\ UNCHANGED <<storeVars, admission, deleting, sweep, process, deployment, restarts, faults>>

-----------------------------------------------------------------------------
(* engine.run and its deferred functions.                                  *)

MarkSearching(w) ==
  /\ Move(w, "run", "started")
  /\ \/ StoreUpdate(w) /\ NoFault
     \/ UNCHANGED storeVars /\ Fault
  /\ UNCHANGED <<admission, cancels, known, deleting, sweep, process, deployment, restarts>>

RequestStartedEvent(w) ==
  /\ Move(w, "started", "search")
  /\ AppendEvent(worker[w].key, "PROGRESS")
  /\ UNCHANGED <<admission, cancels, known, deleting, sweep, process, deployment, restarts>>

ProgressEvent(w) ==
  /\ worker[w].pc = "search"
  /\ AppendEvent(worker[w].key, "PROGRESS")
  /\ UNCHANGED <<worker, admission, cancels, known, deleting, sweep, process, deployment, restarts>>

\* Provider calls, evaluation and ranking end in some outcome; a recovered
\* panic ends in FAILED, a cancelled or expired context in any of them.
Conclude(w) ==
  /\ worker[w].pc = "search"
  /\ \E outcome \in Outcome :
       worker' = [worker EXCEPT ![w].pc = "finish", ![w].outcome = outcome]
  /\ UNCHANGED <<storeVars, admission, cancels, controlVars>>

Finalize(w) ==
  /\ Move(w, "finish", "unwind")
  /\ StoreFinalize(worker[w].key, worker[w].gen, worker[w].outcome)
  /\ UNCHANGED <<admission, cancels, controlVars>>

\* An attempt fails, possibly after the script was applied; three attempts or
\* the two-second context end the loop.
FinalizeAttemptFailed(w) ==
  /\ worker[w].pc = "finish"
  /\ Fault
  /\ \/ UNCHANGED storeVars
     \/ StoreFinalize(worker[w].key, worker[w].gen, worker[w].outcome)
  /\ \/ /\ worker[w].tries < 2
        /\ worker' = [worker EXCEPT ![w].tries = @ + 1]
     \/ worker' = [worker EXCEPT ![w].pc = "unwind"]
  /\ UNCHANGED <<admission, cancels, known, deleting, sweep, process, deployment, restarts>>

CancelKept(k) == cancels

\* removeCancel deletes whatever is registered under the ID.
CancelRemoved(k) == [cancels EXCEPT ![k] = NoWorker]

RemoveOwnCancelOnly(w) ==
  /\ cancels[worker[w].key] = w
  /\ Move(w, "unwind", "release")
  /\ cancels' = CancelRemoved(worker[w].key)
  /\ UNCHANGED <<storeVars, admission, controlVars>>

RemoveCancel(w) ==
  /\ Move(w, "unwind", "release")
  /\ cancels' = CancelRemoved(worker[w].key)
  /\ UNCHANGED <<storeVars, admission, controlVars>>

ReleaseAdmission(w) ==
  /\ worker[w].pc = "release"
  /\ ReturnWithoutWorker(w)
  /\ UNCHANGED <<storeVars, controlVars>>

\* The search deadline.
Deadline(w) ==
  /\ worker[w].pc \in {"run", "started", "search", "finish"}
  /\ worker[w].ctx = "live"
  /\ worker' = [worker EXCEPT ![w].ctx = "done"]
  /\ UNCHANGED <<storeVars, admission, cancels, controlVars>>

-----------------------------------------------------------------------------
(* engine.cancel: first the cancel function, then the state.               *)

DeleteForgetsToCancel(k) ==
  /\ process = "up"
  /\ k \in known \ deleting
  /\ cancels' = [cancels EXCEPT ![k] = NoWorker]
  /\ deleting' = deleting \cup {k}
  /\ UNCHANGED <<storeVars, worker, admission, known, sweep, process, deployment, restarts, faults>>

DeleteCancel(k) ==
  /\ process = "up"
  /\ k \in known \ deleting
  /\ worker' = IF cancels[k] = NoWorker THEN worker
               ELSE [worker EXCEPT ![cancels[k]].ctx = "done"]
  /\ cancels' = [cancels EXCEPT ![k] = NoWorker]
  /\ deleting' = deleting \cup {k}
  /\ UNCHANGED <<storeVars, admission, known, sweep, process, deployment, restarts, faults>>

DeleteState(k) ==
  /\ k \in deleting
  /\ \/ StoreDelete(k) /\ NoFault
     \/ UNCHANGED storeVars /\ Fault
  /\ deleting' = deleting \ {k}
  /\ UNCHANGED <<engineVars, known, sweep, process, deployment, restarts>>

-----------------------------------------------------------------------------
(* recoverStaleSearches.                                                   *)

\* StaleSearchAfter (>= 35s) exceeds the longest search deadline (30s) and the
\* store timeouts before it: an aged search has no worker still under way.
Age(k) ==
  /\ aged[k] < created[k] /\ aged[k] < deployment.stale
  /\ \A w \in Workers :
       worker[w].pc # "idle" /\ worker[w].key = k /\ worker[w].gen = aged[k] + 1 =>
         worker[w].pc \in {"search", "finish", "unwind", "release"} /\ worker[w].ctx = "done"
  /\ aged' = [aged EXCEPT ![k] = @ + 1]
  /\ UNCHANGED <<records, active, created, engineVars, controlVars>>

\* Memory.ActiveBefore, one critical section.
SweepMemory ==
  LET stale == {k \in Keys : Exists(k) /\ ~Terminal(k) /\ records[k].body <= aged[k]} IN
  /\ ~Durable /\ process = "up" /\ sweep.pc = "idle" /\ stale # {}
  /\ sweep' = [sweep EXCEPT !.pc = "close", !.batch = {<<k, records[k].body>> : k \in stale}]
  /\ UNCHANGED <<storeVars, engineVars, known, deleting, process, deployment, restarts, faults>>

\* Redis.ActiveBefore: ZRANGE, then MGET, then ZREM.
SweepRange ==
  LET stale == {k \in Keys : active[k] # 0 /\ active[k] <= aged[k]} IN
  /\ Durable /\ process = "up" /\ sweep.pc = "idle" /\ stale # {}
  /\ sweep' = [sweep EXCEPT !.pc = "read", !.ids = stale]
  /\ UNCHANGED <<storeVars, engineVars, known, deleting, process, deployment, restarts, faults>>

SweepReadSkipsAccepted ==
  /\ sweep.pc = "read"
  /\ sweep' = [sweep EXCEPT
       !.pc = "remove",
       !.batch = {<<k, records[k].body>> : k \in {i \in sweep.ids : records[i].status = "SEARCHING"}},
       !.remove = {i \in sweep.ids : ~Exists(i) \/ Terminal(i)}]
  /\ UNCHANGED <<storeVars, engineVars, known, deleting, process, deployment, restarts, faults>>

SweepRead ==
  /\ sweep.pc = "read"
  /\ sweep' = [sweep EXCEPT
       !.pc = "remove",
       !.batch = {<<k, records[k].body>> : k \in {i \in sweep.ids : Exists(i) /\ ~Terminal(i)}},
       !.remove = {i \in sweep.ids : ~Exists(i) \/ Terminal(i)}]
  /\ UNCHANGED <<storeVars, engineVars, known, deleting, process, deployment, restarts, faults>>

SweepRemove ==
  /\ sweep.pc = "remove"
  /\ active' = [k \in Keys |-> IF k \in sweep.remove THEN 0 ELSE active[k]]
  /\ sweep' = [sweep EXCEPT !.pc = "close"]
  /\ UNCHANGED <<records, created, aged, engineVars, known, deleting, process, deployment, restarts, faults>>

\* A failed MGET or ZREM ends the batch; so does the cancelled root context.
SweepAborted ==
  /\ sweep.pc \in {"read", "remove"}
  /\ \/ Fault
     \/ process = "stopping" /\ NoFault
  /\ sweep' = SweepIdle
  /\ UNCHANGED <<storeVars, engineVars, known, deleting, process, deployment, restarts>>

\* Finalize one snapshot of the batch as FAILED / WORKER_INTERRUPTED.
SweepClose ==
  /\ sweep.pc = "close"
  /\ \E s \in sweep.batch :
       /\ \/ StoreFinalize(s[1], s[2], "FAILED") /\ NoFault
          \/ UNCHANGED storeVars /\ Fault
          \/ UNCHANGED storeVars /\ Durable /\ process = "stopping" /\ NoFault
       /\ sweep' = [sweep EXCEPT !.batch = @ \ {s}]
  /\ UNCHANGED <<engineVars, known, deleting, process, deployment, restarts>>

SweepDone ==
  /\ sweep.pc = "close"
  /\ sweep.batch = {}
  /\ sweep' = SweepIdle
  /\ UNCHANGED <<storeVars, engineVars, known, deleting, process, deployment, restarts, faults>>

-----------------------------------------------------------------------------
(* The process (main.go).                                                  *)

\* A signal cancels the root context, and with it every worker context; the
\* workers unwind, the recovery loop ends with the batch it is at.
Stop ==
  /\ process = "up"
  /\ restarts < deployment.restarts
  /\ process' = "stopping"
  /\ worker' = [w \in Workers |-> [worker[w] EXCEPT !.ctx = "done"]]
  /\ UNCHANGED <<storeVars, admission, cancels, known, deleting, sweep, deployment, restarts, faults>>

\* The process ends, after a grace period or in a crash, and starts again:
\* everything in memory is lost, the in-process store included.
Restart ==
  /\ restarts < deployment.restarts
  /\ restarts' = restarts + 1
  /\ process' = "up"
  /\ worker' = [w \in Workers |-> IdleWorker(SomeKey)]
  /\ admission' = 0
  /\ cancels' = [k \in Keys |-> NoWorker]
  /\ deleting' = {}
  /\ sweep' = SweepIdle
  /\ IF Durable THEN UNCHANGED <<records, active>>
                ELSE /\ records' = [k \in Keys |-> NoRecord]
                     /\ active' = [k \in Keys |-> 0]
  /\ UNCHANGED <<created, aged, known, deployment, faults>>

-----------------------------------------------------------------------------

WorkerStep(w) ==
  \/ CreateSearch(w)
  \/ CreateFoundExisting(w)
  \/ CreateFailed(w)
  \/ AcceptedEvent(w)
  \/ Register(w)
  \/ MarkSearching(w)
  \/ RequestStartedEvent(w)
  \/ Conclude(w)
  \/ Finalize(w)
  \/ FinalizeAttemptFailed(w)
  \/ RemoveCancel(w)
  \/ ReleaseAdmission(w)

SweepStep == SweepMemory \/ SweepRange \/ SweepRead \/ SweepRemove \/ SweepAborted
             \/ SweepClose \/ SweepDone

Next ==
  \/ \E w \in Workers : \/ \E k \in Keys : Start(w, k)
                        \/ WorkerStep(w)
                        \/ ProgressEvent(w)
                        \/ Deadline(w)
  \/ \E k \in Keys : DeleteCancel(k) \/ DeleteState(k) \/ Age(k) \/ Expire(k)
  \/ SweepStep
  \/ Stop
  \/ Restart

\* Goroutines run, timers fire, time passes, and a stopped process is
\* restarted by its supervisor.  Clients owe nothing: Start, DeleteCancel,
\* Stop and TTL expiry are not fair.
Fairness ==
  /\ \A w \in Workers : WF_vars(WorkerStep(w)) /\ WF_vars(Deadline(w))
  /\ \A k \in Keys : WF_vars(DeleteState(k)) /\ WF_vars(Age(k))
  /\ WF_vars(SweepStep)
  /\ WF_vars(process = "stopping" /\ Restart)

Spec == Init /\ [][Next]_vars

FairSpec == Spec /\ Fairness

-----------------------------------------------------------------------------
(* Properties.                                                             *)

\* What the variables of store and engine hold; the admission channel stays
\* within its capacity.
TypeOK ==
  /\ deployment \in Deployments
  /\ records \in [Keys -> [status: Status, inc: Inc, body: Inc, log: Seq(Event)]]
  /\ active \in [Keys -> Inc]
  /\ created \in [Keys -> Inc]
  /\ aged \in [Keys -> Inc]
  /\ worker \in [Workers -> [pc: PC, key: Keys, gen: Inc, ctx: {"live", "done"},
                             outcome: Outcome, tries: 0..2]]
  /\ admission \in 0..MaxConcurrent
  /\ cancels \in [Keys -> Workers \cup {NoWorker}]
  /\ known \subseteq Keys
  /\ deleting \subseteq Keys
  /\ sweep \in [pc: {"idle", "read", "remove", "close"}, ids: SUBSET Keys,
                batch: SUBSET (Keys \X Inc), remove: SUBSET Keys]
  /\ process \in {"up", "stopping"}
  /\ restarts \in 0..deployment.restarts
  /\ faults \in 0..deployment.faults

Busy       == {w \in Workers : worker[w].pc # "idle"}
Registered == {"run", "started", "search", "finish", "unwind"}
Working    == {"run", "started", "search", "finish"}

\* The admission channel (engine.go start and the goroutine's defers) counts
\* the searches under way exactly, on every return path of start and through
\* panics, cancellations and restarts: no token is lost and none is freed twice.
AdmissionExact == admission = Cardinality(Busy) /\ admission <= MaxConcurrent

\* e.cancels never keeps the cancel function of a goroutine that is gone, and
\* never files one under another search: the map cannot leak.
NoDanglingCancel ==
  \A k \in Keys : cancels[k] # NoWorker =>
    worker[cancels[k]].key = k /\ worker[cancels[k]].pc \in Registered

UsedOnce(k) == created[k] <= 1

\* As long as an ID is used once, DELETE can reach every goroutine that still
\* works under a live context: its cancel function is registered.
RunningIsCancellable ==
  \A w \in Workers : worker[w].pc \in Working /\ worker[w].ctx = "live" /\ UsedOnce(worker[w].key) =>
    cancels[worker[w].key] = w

\* How often a terminal event is in the event log of a search.
Occurrences(log, event) == Cardinality({i \in DOMAIN log : log[i] = event})

NoEvents == [o \in Outcome |-> 0]

TerminalEvents(k) == [o \in Outcome |-> Occurrences(records[k].log, o)]

\* Status and terminal event are published together and once (Finalize),
\* whoever closes the search first: its worker, a retry after a lost reply,
\* or the stale-search recovery.  (Holds while an ID is used once: the worker
\* of a deleted search may close the next one of the same key, whose own worker
\* then goes on writing.)
OneTerminalEvent ==
  \A k \in Keys : UsedOnce(k) =>
    TerminalEvents(k) = [o \in Outcome |-> IF records[k].status = o THEN 1 ELSE 0]

\* Every open search of the Redis store stays in the active set, at the score
\* recoverStaleBatch looks for: a search orphaned by a crash is never out of
\* its sight.  (Holds while an ID is used once.)
OpenIsTracked ==
  \A k \in Keys : Durable /\ Exists(k) /\ ~Terminal(k) /\ UsedOnce(k) => active[k] = records[k].inc

\* Only Create brings a record into being (store.go: Update, AppendEvent and
\* Finalize answer ErrNotFound): a late write of a cancelled worker or of the
\* recovery loop never resurrects a deleted or expired search.
NoResurrection ==
  [][\A k \in Keys : ~Exists(k) /\ Exists(k)' =>
       records[k].status' = "ACCEPTED" /\ created[k]' = created[k] + 1]_vars

\* A search that was accepted is closed or gone, with no further client call:
\* through deadline, panic, Redis failures and process restarts.
EverySearchCloses ==
  \A k \in Keys : \A i \in 1..MaxPerKey :
    (Exists(k) /\ ~Terminal(k) /\ records[k].inc = i) ~>
      ~(Exists(k) /\ ~Terminal(k) /\ records[k].inc = i)

\* Every admission slot taken is given back.
SlotsComeBack == \A w \in Workers : worker[w].pc # "idle" ~> worker[w].pc = "idle"

\* docs/adr/ADR-006, DELETE: the context is cancelled together with the state.
\* No goroutine works under a live context for a search that is gone.
DeleteCancelsContext ==
  \A w \in Workers : worker[w].pc \in Working /\ worker[w].ctx = "live" =>
    records[worker[w].key].inc = worker[w].gen

\* What a client sees of a search (SearchResource), whatever the workers, the
\* recovery loop and the store do underneath.  A key that is used again counts
\* as gone from then on.
ResourceState(k) ==
  CASE ~UsedOnce(k) -> "absent"
    [] UsedOnce(k) /\ records[k].status \in {"ACCEPTED", "SEARCHING"} -> "open"
    [] OTHER -> records[k].status

ResourceEvents(k) == IF UsedOnce(k) THEN TerminalEvents(k) ELSE NoEvents

Resource == INSTANCE SearchResource WITH
  state     <- [k \in Keys |-> ResourceState(k)],
  published <- [k \in Keys |-> ResourceEvents(k)]

\* The worker, DELETE, TTL, recovery loop and restarts implement the resource
\* ADR-006 promises, while an ID is used once.
ImplementsResource == Resource!Spec
=============================================================================
