# GreenRoute (Probok.Net): a TLA+ verification of the search core

GreenRoute looks for a route with as little congestion as possible. A browser asks
`edge-api` for a search; `routing-orchestrator` runs it in the background under a
budget of provider requests and keeps its state; `provider-yandex` adapts external
routing and geocoding APIs; the browser follows the search over server-sent events
(SSE) and falls back to polling. This directory models the parts whose correctness
depends on interleavings, failures and order, checks them with TLC on small instances,
and proves with TLAPS, for every instance, each invariant and action property these checks
found to hold. Liveness is model-checked.

Paths below are relative to the repository. `PROJECT.json` lists, for every definition
that models code, the lines it stands for; the hazards, each at its line; and for every
property of a passing run a mutant of the model (a plausible bug) that breaks it.

## 1. Inventory

| Component | State it keeps | Operations | Talks to | What is hard | What makes it correct |
|---|---|---|---|---|---|
| Request budget (`routing-orchestrator/budget.go`, `engine.go` routeWithBudget, `provider-yandex/provider.go`) | used, reserved, billable; leases | lease, finish, charge on error, recovered panic | adapter | concurrent baseline evaluations; calls that time out and go on upstream | never oversubscribed, counters exact, charge covers real egress |
| Search lifecycle (`engine.go` start, run, cancel, recovery; `main.go`) | admission channel, `e.cancels`, worker contexts | start, run and its defers, DELETE, sweep, stop, restart | store, provider | a search ID is a stable hash of its key: lives of one ID overlap; lost replies; crashes | every search closes once; slots come back; DELETE reaches the worker |
| Search store (`internal/searchstore/store.go`) | record, event log, active set, TTL | Create, Update, AppendEvent, Finalize, Delete, ActiveBefore, EventsAfter | Redis or a mutex | scripts that ran though their reply was lost; ActiveBefore in three commands | first terminal result wins; no resurrection; open searches stay tracked |
| Green search (`engine.go` run, evaluateAll, enhance), scoring (`internal/scoring`), deduplication (`internal/geometry`) | candidate pool, result under construction | initial answer, evaluation, toll-free question, probes, publish | budget, provider, edge | the parts of one result come from different rankings; near-duplicate is no equivalence; evidence gets lost | STRICT_GREEN fails closed, the result is coherent, the edge accepts what is published |
| Detour ladder (`greensearch.go`, the loop of enhance, `provider-yandex/validation.go`) | labels tried, errors in a row | clusters, plans, next question, its outcome | provider | zones grow when merged and buffered; the adapter's limits differ from the ladder's; the pool changes under the labels tried | a question keeps the user's trip; the ladder stops for an outage |
| Adapter resilience (`provider-yandex/resilience.go` and the retry loops of `yandex.go`, `dgis.go`, `geocoder.go`, `dgis_geocoder.go`) | breaker, bulkhead, cooldown, quota window, credential latch | Routes, Suggest | upstream APIs | checks that are stale at egress; many exits of four loops; half-open probes | slots exact, budget respected, one probe, calls return |
| Edge idempotency and ownership (`edge-api/server.go`, `state.go`) | idempotency record, fingerprint, owner map | startSearch, recoverOperation, deleteSearch | orchestrator, Redis | BEGIN is up to five commands on three replicas; a claim runs out under work; a failed duplicate undoes | one body per key, what is accepted can be read, completion final |
| Event stream (`routing-orchestrator/server.go` events; `edge-api/server.go` events, acquireSSE; `web/src/lib/sse.ts`, `use-route-search.ts`) | event numbers, cursors, SSE slots, attempt and failure counters | read loop, proxy, reconnect, poll | store, browser | reconnection overlapping the stream it replaces; close racing the terminal event | slots exact, every event once and in order, outcome learned |
| Edge front door (`edge-api/server.go` middleware, enforceRateLimit; `state.go` Allow; `auth.go`) | bulkhead tokens, fixed-window counters per pseudonym | admit, charge up to two keys per limit, authenticate, release | Redis | a rolling key rotation mixes replicas that charge different counters; refusals count too | bulkhead exact, limits survive the rotation, a refused client is served again |
| Readiness and address fallback (`provider-yandex/server.go`, `dgis.go`, `resilience.go`; `engine.go` refreshCapabilities; both `readyz`) | breakers, credential latches, capabilityOK, rotation | probe, discovery, Suggest over two geocoders | the cluster, each other | a process out of service gets no traffic that would heal it; processes wait for each other's readiness | service resumes when the world allows it; a valid answer is not lost |
| Web route-search hook (`use-route-search.ts`, `route-result-cache.ts`) | page state, generation, abort controller, search ID, cached result | start, cancel, restoreResult, reset, leave and reopen | edge, event stream | answers of superseded searches; a cancel before the ID is known; a DELETE that fails late | the page shows what was asked last, is not busy for ever, caches only completed analyses |
| Response normalisation, token verification and audit, config, contracts, telemetry, stub, UI | see `PROJECT.json` | | | | not modelled, reasons there |

Deployment facts the models rely on (Helm values): the orchestrator is one replica, the
edge and the adapter three each. So the lifecycle has one process with restarts, the
idempotency model several concurrent POST handlers over shared Redis.

How the parts interact: the edge starts a search with an operation key that hashes the
Idempotency-Key and the body (`EdgeIdempotency`: a body names its search); the
orchestrator turns that key into the search ID (`SearchLifecycle`: a key names its
record); the worker computes (`GreenSearch`), asking for detours (`DetourLadder`) and
leasing provider requests (`RequestBudget`) that the adapter spends (`ProviderAdapter`);
status and events reach the browser through the store and the edge (`EventStream`, which
takes from `SearchLifecycle` that every search is concluded in the end), and the page
makes its state of them (`RouteSearch`). Around that, `FrontDoor` decides which calls
reach a handler and `ServingChain` whether the three services are in rotation at all.

## 2. Modules and the code they model

**RequestBudget** — one action per outcome of `routeWithBudget` (`Lease`,
`LeaseRefused`, `RouteSucceeded`, `RouteFailed`, `RoutePanicked`) and, on the other side
of the network, the adapter's use of the leased allowance (`Deliver`, `Attempt`,
`Answer`, `GiveUp`). Charged and really sent requests are separate state because the
adapter may go on after the orchestrator has given up. `RequestBudgetProofs` holds its
theorems.

**SearchResource** — the abstract promise of ADR-006: a search is accepted, closed once
with an outcome that is its only terminal event, may disappear, and never reopens. Its
state is a status and, per outcome, the number of terminal events published with it.
**SearchLifecycle** implements it: `engine.start` statement by statement (admission,
Create, accepted event, registration of the cancel function), the worker goroutine with
Finalize's retries and the deferred functions, DELETE in its two steps, the stale-search
recovery with ActiveBefore in one step (Memory) or three (Redis), shutdown and restart.
The record `deployment`, chosen at the start, says which store it is and bounds re-use,
stale records, restarts and failed round trips. A key has numbered incarnations, so that
late writes of an earlier life can be told apart. What the worker computes is one
nondeterministic step (`Conclude`). Consecutive progress events
of the log count as one. `SearchLifecycleProofs` holds the theorems about the engine's own
variables, `SearchStoreProofs` those about the records and the refinement.

**ProviderAdapter** — concurrent calls walk the retry loop the four providers share:
cooldown, breaker, bulkhead, quota gate, attempt, settlement, backoff; one action per
mutex section, with a discrete clock. The failure counter saturates at the threshold and
the history counters (`sent`, `admitted`) just above the values they are compared with.
The credential latch, which only readiness reads, is in ServingChain.
`ProviderAdapterProofs` holds its theorems.

**EdgeIdempotency** — several POSTs under one key, command by command over Redis or in
one critical section in process (the variable `distributed`, fixed at the start), with
ambiguous failures, a claim that runs out, DELETE in two steps and searches the
orchestrator loses. `accepted`, `deleted` and `freed` (a FORGET has taken effect) are
history. `EdgeProofs` holds its theorems and those of FrontDoor.

**EventStream** — the log, the orchestrator's reading loop (events, then status, in two
steps), the edge's two slot counters, and the follower: connection attempts, resumption,
half events, polling. What is under way on a stream is the interval between the event
last received and the cursor of the loop. `EventStreamProofs` holds its theorems.

**GreenSearch** — run, evaluateAll and enhance over routes that carry whole seconds of
green, red and unknown driving. Any answer of the provider is possible, within the
capacity sanitizeProviderCandidates leaves; evaluations may be dropped (panic, deadline)
or come back without a baseline. Ranking, hard constraints and deduplication are
operators translated from `internal/scoring` and `internal/geometry`. `draft` is
enhance's own copy of the result, which a recovered panic loses. `EngineProofs` holds the
theorems about GreenSearch, DetourLadder, ServingChain and their composition.

**DetourLadder** — which question each probe asks. congestionClusters, mergeClusters,
zonesFor and greenDetourPlans are operators over metres along the line from origin to
destination; a zone is a disc on that line, an anchor a place with an offset to a side.
The loop is `AskNext` and one action per outcome: answered, unroutable, rejected by the
adapter's own validation, failed. What an answer does to the result is GreenSearch's.
Filter, insertion sort and the loops over lists are recursive functions (`Those`,
`ByWeight`, `Merge`, `Spaced`, `Total`), whose rounds the proofs can follow; each rung of the
ladder is an operator of its own (`Avoid`, `LateralPlans`, `BypassPlan`, `CorridorPlans`,
`WorstPlan`).

**FrontDoor** — one client's calls through middleware: bulkhead, the limits by address,
user and search, authentication, handler. The counters of one limit (`watched`) are
followed under both pseudonyms, those of the others decide freely. `Roll` restarts
replicas through the steps of `docs/runbooks/key-rotation.md`, under its conditions.
`passed`, a history of the last window, is what the limit is judged by.

**RouteSearch** — the hook. Each start is a task (POST, stream, poll) that answers whenever
it likes; `Stale` is the generation check after every await. The user starts, cancels,
opens a bookmark, resets or leaves; the edge accepts, loses, closes and deletes. The
persist effect is part of every action that shows a state. `asked` and `withdrawn` are
history. `RouteSearchProofs` holds its theorems.

**ServingChain** — readiness of adapter, orchestrator and edge over breakers, latches,
discovery and each other, with a cluster that routes calls only to processes in
rotation; and address search over primary and fallback geocoder in its steps, while
breakers and the world change in between. The token verifier, which readiness asks for too,
is there in every edge-api that has started and needs one (`auth.go:50`).

The **MC modules** put components that share nothing but the process side by side, each
behaviour being one of them: `MCEngine` (GreenSearch, DetourLadder, RequestBudget,
ServingChain, told apart by `aspect`), `MCEdge` (EdgeIdempotency, FrontDoor; `part`) and
`MCBrowser` (EventStream, RouteSearch; `view`). They also hold the route world, the roads
and the settings the instances use, and the conjunction of the components' type
invariants. `MCSearchLifecycle` names the deployments, `MCProviderAdapter` adds nothing.

## 3. Runs

| Run | Instance | Shows |
|---|---|---|
| `lifecycle` | 2 starts, one key; in-process store with the key used twice, in-process with a restart and a stale record, Redis with a restart, a stale record and 2 failed round trips | Admission exact, no dangling cancel function, no resurrection, though the goroutine of a deleted search still runs beside the next one of the same ID; the record implements `SearchResource`; every accepted search closes without a client; slots come back; the worker stays in reach of DELETE; open searches stay in the active set |
| `delete_cancels_context` | 2 starts, nothing fails | **violated**, see findings |
| `adapter` | a call each to router and geocoder or both to one, one bulkhead slot, threshold 2, one retry (313 thousand states) | Slots, budget, threshold and single probe at every interleaving; every call returns |
| `half_open_resolves` | 2 calls, threshold 1 | **violated**, see findings |
| `engine` | 6 routes, 3 modes, tolls avoided or not, with and without a percentage, pool of 4, 3 probes, budget 5; 4 roads, 24 settings, 8 probes; 3 calls, limit 3, leases of 2; 3 resolvers, threshold 2, 2 breakdowns (210 thousand states together) | Real egress within the limit and counters exact, late attempts and leaked leases included; the published result coherent, accepted by the edge and closed in STRICT_GREEN; no question moves an endpoint or outgrows the provider's route; a valid address answer is not lost; service resumes |
| `winner_within_limits`, `stops_only_for_outage` | the same, without breakdowns | **violated**, see findings |
| `edge` | 3 POSTs, bodies a, b and one that is rejected, both deployments, 1 fault, 1 expiry; 2 calls, 2 replicas through the rotation, limit 1, window 2, 1 failed round trip (418 thousand states) | One body per key unless something failed and a claim was given up, accepted searches owned, completion final, every POST answered; bulkhead exact, limits hold through the rotation, refused clients served again |
| `one_body_per_key` | 3 POSTs, 1 fault, Redis | **violated**, see findings |
| `browser` | 2 tabs, 1 slot per principal, 2 in total, batches of 2, 3 events, 1 disturbance; one page, 2 searches, 2 further acts, 1 loss (285 thousand states) | Slots exact while streams overlap, events once and in order, everybody who stays learns the outcome; the page shows what was asked last, ends, stays cancelled, caches only completed analyses |
| `stream_brings_events` | 1 tab, Redis, nothing fails | **violated**, see findings |
| `cancellation_propagates` | one page, 2 searches, nothing fails | **violated**, see findings |

Why the bounds are enough. Two actors suffice for every race found; three POSTs add the
third party that a duplicate, a retry and a newcomer make. One restart and one fault
reach a failure between any two steps; two faults also fail the retry of a failed step.
A key used twice makes the lives of an ID overlap. The routes of `MCEngine` form a chain
of near duplicates that is not transitive, with evidence that may be lost at its middle
and end, a toll road, a route nothing is known of and one that ends elsewhere; limits of
time, distance and percentage each exclude some route; five requests run out before three
probes do. Its roads have more red clusters than a question may forbid, a jam from the
origin on, two short ones and a yellow tail, so that every rung of the ladder is reached;
the settings leave room for two, one and no anchors. Three calls for three requests with
leases of two are cut and refused. Two breakdowns take a geocoder and the router, or a
breakdown and the restart that follows it. A limit of one with a window of two ticks has
calls that pass in two adjacent windows of either key. Two searches and two further acts
make every answer late for the next, the bookmark and the next visit.
The bound of three POSTs is too small for one thing about the key, which the theorem
covers and TLC confirms with four: see finding 3.
In `browser` `MaxFaults` is below `MaxPollFailures`: polls lost three times in a row do
end a follower in an error, by design of the code. One disturbance must not.

No SYMMETRY is used; `MCEdge` lets only one POST have the body `LoneBody`, since POSTs and
accepted bodies can be renamed and one of two such bodies has at most one POST of three. `CHECK_DEADLOCK FALSE` stands where the modelled calls, POSTs,
followers or the one search come to an end; the adapter and the lifecycle never stop.

**Fairness.** Weak fairness of goroutines, handlers and pages (the scheduler runs them),
of timers (deadlines, backoff, the window of the gate, ageing) and of the supervisor's
restart of a stopped process. Clients, DELETE, signals, TTL expiry, faults and the
polling deadline owe nothing. `BusySpec` adds callers that keep coming, since a breaker
without callers cannot be expected to move. In `ServingChain` only the cluster's probes,
the discovery loop and time are fair: repairs, restarts and callers are not, and what
the world must provide is the premise of `ComesBackIntoService`. In `FrontDoor` the
clock is strongly fair, since a call between its two keys holds it for an instant, and
handlers are weakly fair; clients owe nothing. Faults are bounded in number: liveness is
claimed once they cease.

**Timing.** `Age` uses what `config.go` enforces: a search counts as stale after at least
35 seconds, its deadline is at most 30, so an aged search has a worker only past its
deadline. A key rotation waits a full window with both keys everywhere before the old
one goes, as the runbook says. The order of all other timers is free.

## 4. Findings

Seven runs end in a violation, each of a sentence of the repository; `PROJECT.json` quotes
them.

1. `delete_cancels_context` — start stores the record before it registers the cancel
   function. A duplicate POST learns the ID in between, its DELETE finds nothing to
   cancel, and the worker starts afterwards (`engine.go:216-227`).
2. `half_open_resolves` — a half-open probe that ends in a full bulkhead or gate, a 429,
   a cancellation or a non-retryable error reports neither Success nor Failure, and the
   breaker refuses everybody from then on (`resilience.go:193`).
3. `one_body_per_key` — a duplicate whose owner write fails deletes the search and
   forgets the claim of the original that is being answered 202; the key is then free
   for another body (`edge-api/server.go:214-219`). The attempt to prove that this takes a
   failed round trip found a second way without one, which needs four POSTs and a claim
   that runs out: FORGET after a rejected body deletes the fingerprint whosever it is
   (`state.go:279-303`), also that of a body which has found it its own and is about to
   claim. `OneBodyUnlessFreed` states what does hold: one body as long as no FORGET has
   taken effect, or no round trip has failed and no claim has run out, or in process.
4. `stream_brings_events` — Redis' cjson re-encodes the empty lists of `SEARCH_ACCEPTED`
   as objects, EventsAfter cannot decode them, every stream ends at once and browsers
   poll (`store.go:191`).
5. `winner_within_limits` — enhance replaces the reference with a faster route that is
   not eligible and keeps the old selection, then beyond the limit (`engine.go:566-571`).
6. `cancellation_propagates` — a cancel while the POST is under way has no ID to delete;
   nothing is sent later, and the search runs on (`use-route-search.ts:291`).
7. `stops_only_for_outage` — a plan may hold 12 zones and the adapter accepts 8. With more
   than eight red clusters two rejections in a row end the ladder, which the code takes
   for an outage (`greensearch.go:26`, `validation.go:54`). Two exclusion sets in a row
   that leave no route end it the same way.

Three more disagreements have no run of their own. The models contain each of them, and the
property of a passing run that is nearest has an exception for it or does not see it:

- the deferred `removeCancel` deletes whatever is filed under the search ID (`engine.go:644`).
  When the goroutine of a deleted search unwinds after its successor under the same ID has
  registered, the DELETE of the successor finds nothing to cancel, against ADR-006:12, though
  here, unlike in finding 1, every registration is in time. `NoDanglingCancel` does not see
  it: no entry dangles, one is missing;
- an event cut in half by the end of a response moves the resume cursor past itself before
  its data fails to parse (`sse.ts:38`, 151). It is never replayed while later events are
  shown, against `ARCHITECTURE.md:89`. `ShownOnceInOrder` excepts such events;
- a selected STRICT_GREEN route that a near duplicate displaced from the pool, and that a
  later probe rediscovers without its baseline, is published as selected and as best effort
  (`engine.go:569`), against ADR-014:34, and the edge refuses the result
  (`service_client.go:239`). `EdgeAcceptsResult` keeps the two apart while the selected route
  is a candidate.

Known limits that contradict no sentence of the repository, met while modelling:

- the worker of a deleted search may Update and Finalize the next search of the same
  key (hence "while an ID is used once" at several lifecycle properties);
- a cooldown read at the head of the loop is stale by the time the attempt is sent;
- a route found by the toll-free question joins the pool and the green top at once, and
  is ranked only after the next probe that answers;
- a new search in the browser never deletes the one it replaces, and the state written
  after the POST drops the request, so an analysis restored from the cache cannot be
  refreshed, which `route-result-cache.ts:12` is written for (`use-route-search.ts:272`);
- the error of a DELETE that fails late is shown on the page of the next search
  (`use-route-search.ts:299`; `ShowsWhatWasAsked` allows exactly that);
- a latched credential fault is cleared by a Success only, which an unready pod does not
  get: nothing but a restart brings it back, and a primary geocoder with a latched fault
  is never asked again (`resilience.go:165`, `dgis.go:70`). The 2GIS geocoder latches the
  router's fault with its own (`dgis.go:137`). `Serviceable` names these;
- capabilitySnapshot reads document and flag one after the other (`engine.go:166`); a
  search started in that instant asks for no alternatives;
- in Redis, ActiveBefore may drop a key from the active set that was re-created between
  its MGET and ZREM (`store.go:435`), and one record that does not decode fails the whole
  recovery batch (`store.go:426`);
- DeleteOwner comes after the DELETE upstream, so a search re-created in between loses
  its owner (`edge-api/server.go:323`): the client's own DELETE and POST race;
- health probes take tokens of the edge's bulkhead (`edge-api/server.go:570`);
- labels of the ladder carry counts, not places: with one red cluster AVOID_WORST_1
  repeats AVOID_ALL_RED_1, and new evidence that leaves the count alone is not asked
  about again (`greensearch.go:51`). GUARDED plans forbid red only (399-405); an extra
  distance of zero still probes three kilometres sideways; a merged or capped zone need
  not cover the whole stretch it stands for.

## 5. Proofs

TLAPS checks eight modules. Every theorem holds for every value of the constants that
satisfies the named assumption of the model's module: any number of calls, workers, keys,
POSTs, followers or searches, and any bound on failures, restarts, retries and expiries.
The assumptions say what the code's configuration enforces (limits positive), that what a
provider can answer is finite (`Routes`), that a candidate is a list of stretches that lead
forward, and that the instance is not empty (an endpoint, a replica, a POST and a body exist; a
search has room for its accepted and its terminal event). Every inductive invariant was model-checked
before it was proved, the larger ones on instances beyond those of section 3.

**RequestBudgetProofs**, from `BudgetAssumption`. The counters are sums over calls; the
proof counts instead the set of request units `<<call, i>>`, so that Lease and Finish
become a disjoint union and a difference (`CountUnion`, `CountDifference`).
`NeverOversubscribed` alone is not inductive: finishing a lease needs to know that what it
gives back was reserved. The invariant `IInv` is type correctness, `CallsSound` (how a
call's lease and the adapter's side of it fit together), `CountersExact` and
`NeverOversubscribed`. From it: `TypeCorrect`, `BudgetSafe`, `BudgetExact`, `ChargeSafe` (a
charge covers everything ever sent: an answered call sends no more, a failed one was
charged in full) and `EgressSafe` (sent units are outstanding or charged ones, hence at
most the limit).

**SearchLifecycleProofs**, from `LifecycleAssumption`. `EngineInv` is the types of the
engine's own variables, `AdmissionExact` and `NoDanglingCancel`; it says nothing of the
store, so the proof shows that admission and the cancel map are right whatever the store
does. One lemma per way of touching the busy set (nobody, one more, one less), then one
step per action. From it: `AdmissionSafe` and `CancelsSafe`.

**SearchStoreProofs**, on top of it. `StoreStep` lists the seven things any step of any
actor may do to the record of a key (keep, create, mark as searching, log, close, drop,
untrack). Each action is shown to be one of them, and each part of `LifeInv` to survive
them. `OneTerminalEvent` needs to know why a closed record is never set back to SEARCHING:
`WorkersInv` says that an incarnation has one worker and is not stale while that worker has
yet to write its first status; `SweepInv` says what the recovery may still find of what it
read. From it: `LifecycleTypeCorrect`, `RunningIsCancellableSafe`, `OneTerminalEventSafe`,
`OpenIsTrackedSafe`, the action property `NoResurrectionSafe`, and
`LifecycleImplementsResource`: initial states map to initial states of `SearchResource`, and
every step to one of its steps or to none.

**ProviderAdapterProofs**, from `AdapterAssumption`. `AdapterInv` has a part per shared
object. `EgressWithinGrant` is not inductive: a call has sent at most one attempt more than
its counter says, and only while that attempt is not settled, and whoever can still send has
budget left. Nor is `SingleProbe`: a breaker that has opened has admitted nobody. From it:
`AdapterTypeCorrect`, `BulkheadSafe`, `EgressWithinGrantSafe`, `SingleProbeSafe`.

**EdgeProofs**, from `IdempotencyAssumption` and `DoorAssumption`. `IdempotencyInv` says of the
key what record and fingerprint stand for, and of every POST what it may rely on where it is.
There are two anchors: the fingerprint while no FORGET has deleted it, and the record while
nothing failed or ran out. `Grows` bounds what one POST's step does to them, so that the
others may go on relying on them. From it: `IdempotencyTypeCorrect`, `OneBodyUnlessFreedSafe`,
`AcceptedIsOwnedSafe` and the action property `CompletionIsFinalSafe`.

The front door's `LimitSurvivesRotation` speaks of the calls that passed and nothing of
counters, and is not inductive. `DoorInv` follows the counter of each of the two keys: `Horizon`
is how far back every passing call had to charge that key, and `MeterSound` says that within
the horizon the present fixed window of the counter holds all that passed since it began and
the calls on their way from one key to the other, and that what passed before it began is
below the limit. Through a rotation one of the two horizons always spans a whole window: the
new key's has grown to it before the runbook lets a replica drop the old one. The counts are
sums over the window (`SumTo`), whose facts are proved by the least counterexample. From it:
`FrontDoorSafe`, `DoorTypeCorrect` (the bulkhead counts its calls exactly) and
`LimitSurvivesRotationSafe`.

**EventStreamProofs**, from `StreamAssumption`. Every step moves at most one stream and its
follower, and one lemma (`StepKeeps`) carries the whole. `ShownOnceInOrder` is not inductive:
`Placed` adds that a follower's present stream is open and exactly at the event last
received, and that its later streams have not begun; `SlotInv` that no cursor is past the log
and nothing arrives before a stream is opened. A cursor moved by the number of events read
stays within the log because those events are a part of an interval (`ReadWithinLog`). From
it: `StreamTypeCorrect`, `SlotsExactSafe`, `ShownOnceInOrderSafe`.

**RouteSearchProofs**, from `RouteSearchAssumption`. `HookInv` rests on one fact: the signal that is
not aborted belongs to the search asked for last, in the present generation, and that search
has not been withdrawn (`ControlInv`). A result in the cache belongs to a search that is over
for good (`CacheInv`), so a late answer cannot replace it. From it: `HookTypeCorrect`,
`ShowsWhatWasAskedSafe`, `CachedIsCompleteSafe` and the action property `CancelIsFinalSafe`.

**EngineProofs**, from `GreenAssumption`, `LadderAssumption` and `ChainAssumption`.

*What a search publishes.* Ranking compares tuples of numbers that end in the candidate ID:
the order is strict and total on candidates (`PrecedesTotal`), so a finite set of them has a
foremost one and its first three (`ForemostExists`, `FirstBounded`). Deduplication keeps a
kernel: every route kept or a near duplicate of a better one that is kept. Since near
duplicate is no equivalence, that there is such a set at all needs the least counterexample
(`KernelExists`). `EdgeAcceptsResult` and `ResultIsCoherent` are not inductive, the parts of
a result being of different rankings: `GreenInv` adds that the candidates are finite, few,
reported by the provider and without an ID twice (`PoolSound`), that draft and result pass the
edge's checks of their lists, and that for every route shown there is a candidate no slower
(`Grounded`), so that a later reference is no slower either. From it: `GreenSearchSound`, `GreenTypeCorrect`, `EdgeAcceptsResultSafe`,
`StrictGreenIsProvenSafe`, `ResultIsCoherentSafe`.

*Which detours it asks for.* `TripIsKept` rests on what loops over lists of unknown length
compute. `LoopRuns` says that a loop has a course (a recursive definition has a solution) and
`LoopKeeps` that what each round preserves holds in the end, both by the least
counterexample; filter, merge, sort, spacing and total are instances. So the clusters of any
congestion are clusters (`ObservedIsClusters`, `MergeIsClusters`), those left after shrinking
are no larger than their clearance (`ClustersFit`), the zone around such a cluster stays off
both ends (`ZoneIsHarmless`), and every rung has only such zones and no more anchors than the
capacity (`PlansKeepTrip`). With at most one failure in a row while the loop goes on,
`LadderInv` is inductive. From it: `LadderSound`, `LadderTypeCorrect`, `TripIsKeptSafe`.

*Whether it is in service.* `ChainInv` adds to types and `ValidAnswerStays` what a search for an
address holds between its two geocoders (`PrimaryHeeded`). From it: `ChainTypeCorrect`,
`ValidAnswerStaysSafe`.

**Compositions.** `EngineIsFour`, `EdgeIsBoth` and `BrowserIsPage` with `BrowserStreamsSound` say
that in the instances that put components side by side each behaves as on its own. So what is
proved of a component holds of the runs, and `EngineTypeCorrect`, `EdgeTypeCorrect` and
`BrowserTypeCorrect` state their type invariants.

**Only model-checked.** Liveness under fairness, which is out of the prover's reach:
`EverySearchCloses`, `SlotsComeBack`, `CallsReturn`, `ComesBackIntoService`,
`RequestsAnswered`, `RefusedIsServedAgain`, `FollowersLearnOutcome`, `BusyEnds`. The violated
properties of section 4 are refuted by TLC and need no proof. Of the recursive definitions the
theorems show what they preserve and bound, not all that they compute: that a merged list is
the one mergeClusters would return, or that sorting sorts, is nothing a property asks for and is
left to reading. Library operators the provers see only the name of (SelectSeq, SortSeq) are
avoided in what is proved about.

## 6. Not modelled

Floating-point scores (BALANCED, confidence) and geodesy: TLC has neither reals nor
trigonometry, and rounding them to a grid would check the grid. Parsing of provider
documents, token verification, audit, configuration, telemetry, contracts, rendering:
conversions and writes without a protocol. The event stream's behaviour is not composed
with the hook's step by step (RouteSearch takes the stream as a step that brings an
event, breaks or ends), nor the lifecycle with the streams (EventStream takes the end of
a search as given): each product exceeds TLC's reach within minutes, and the interfaces
are the event log and its terminal event only. `PROJECT.json` gives the reason for each
component.

## 7. Plan

Done, in this order, the most important behaviour first: RequestBudget with proofs,
SearchLifecycle over SearchResource with proofs, ProviderAdapter, EdgeIdempotency,
EventStream, GreenSearch; then RouteSearch, FrontDoor, DetourLadder and ServingChain; then
the proofs of store, adapter, idempotency, hook and streams; then those of front door, green
search, ladder, chain and of the compositions.

Every safety property the passing runs check is now a theorem. What would say more:

1. that the ladder asks every plan once before it ends for want of one, a property of
   progress the runs could check before it is thought of proving;
2. the conditions under which a selected route stays a candidate, which would remove the
   exception in `EdgeAcceptsResult`, or show what the code would have to change;
3. EventStream over the event log of SearchLifecycle by refinement, in place of the end of
   a search taken as given.
