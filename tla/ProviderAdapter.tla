--------------------------- MODULE ProviderAdapter ---------------------------
(***************************************************************************)
(* The resilience layer of the provider adapter (services/provider-yandex):*)
(* circuit breaker, bulkhead, adapter-wide cooldown and rolling quota gate *)
(* (resilience.go), and the one retry loop that yandex.go and dgis.go      *)
(* (Routes), geocoder.go and dgis_geocoder.go (Suggest) share.             *)
(*                                                                         *)
(* Each endpoint has its own breaker and gate; bulkhead and cooldown are   *)
(* common to all.  Concurrent calls touch them one mutex section at a      *)
(* time, so a check made at the head of the loop can be stale at egress.   *)
(* Time is discrete: Tick moves the timers on together.                    *)
(***************************************************************************)
EXTENDS Integers, FiniteSets

CONSTANTS
  Calls,           \* concurrent callers of the adapter
  Endpoints,       \* upstream APIs
  Budgeted,        \* those called by Routes, which spend a request budget
  MaxRetries,      \* cfg.MaxRetries
  Threshold,       \* cfg.CircuitBreakerThreshold
  MaxConcurrency,  \* cfg.MaxConcurrency, capacity of the bulkhead
  RateLimit,       \* quota gate per window, 0 where the adapter has none
  MaxBudget,       \* bound: the largest RequestBudget of a call
  OpenFor,         \* cfg.CircuitBreakerOpenDuration in ticks
  MaxCooldown      \* bound: the longest cooldown in ticks

ASSUME AdapterAssumption ==
  /\ IsFiniteSet(Calls)
  /\ Endpoints # {} /\ Budgeted \subseteq Endpoints
  /\ MaxRetries \in Nat
  /\ Threshold \in Nat \ {0}
  /\ MaxConcurrency \in Nat \ {0}
  /\ RateLimit \in Nat
  /\ MaxBudget \in Nat \ {0}
  /\ OpenFor \in Nat \ {0}
  /\ MaxCooldown \in Nat \ {0}

VARIABLES
  breaker,   \* per endpoint: state, failures (saturating at Threshold, the only
             \* value it is compared with), openLeft, and the calls admitted
             \* since it last opened (history, saturating at 2)
  slots,     \* tokens in the bulkhead semaphore
  cooldown,  \* ticks until sharedCooldown.until
  window,    \* per endpoint: attempts in the gate's rolling window
  call       \* per call: pc, endpoint, attempt, granted, remaining, sent (history,
             \* saturating at MaxRetries + 2), wait, outcome

vars == <<breaker, slots, cooldown, window, call>>

BreakerState == {"closed", "open", "halfOpen"}
Outcome == {"ok", "rateLimited", "retryable", "fatal"}
PC == {"idle", "head", "cooling", "allow", "acquire", "gate", "flight", "settle", "backoff"}

Closed == [state |-> "closed", failures |-> 0, openLeft |-> 0, admitted |-> 0]

Idle == [pc |-> "idle", endpoint |-> CHOOSE e \in Endpoints : TRUE, attempt |-> 0, granted |-> 0,
         remaining |-> 0, sent |-> 0, wait |-> 0, outcome |-> "ok"]

Init ==
  /\ breaker = [e \in Endpoints |-> Closed]
  /\ slots = 0
  /\ cooldown = 0
  /\ window = [e \in Endpoints |-> 0]
  /\ call = [c \in Calls |-> Idle]

-----------------------------------------------------------------------------
(* The circuit breaker of endpoint e, as the breaker it becomes.           *)

CapAt(limit, n) == IF n > limit THEN limit ELSE n

\* Allow moves an open breaker whose interval has passed to half-open.
AdmitsHalfOpen(e) == \/ breaker[e].state \in {"closed", "halfOpen"}
                     \/ breaker[e].state = "open" /\ breaker[e].openLeft = 0

Admits(e) == \/ breaker[e].state = "closed"
             \/ breaker[e].state = "open" /\ breaker[e].openLeft = 0

AfterAllow(e) ==
  IF breaker[e].state = "closed" THEN breaker[e]
  ELSE [breaker[e] EXCEPT !.state = "halfOpen", !.admitted = CapAt(2, @ + 1)]

Opened(b) == [b EXCEPT !.state = "open", !.openLeft = OpenFor, !.admitted = 0]

\* Failure counts in the closed and, for late answers, in the open state.
AfterFailure(e) ==
  LET counted == [breaker[e] EXCEPT !.failures = CapAt(Threshold, @ + 1)] IN
  IF breaker[e].state = "halfOpen" THEN Opened(breaker[e])
  ELSE IF counted.failures >= Threshold THEN Opened(counted)
  ELSE counted

\* Success closes the breaker whatever its state.
AfterSuccess(e) == Closed

-----------------------------------------------------------------------------
(* One call of Routes or Suggest.                                          *)

Goto(c, pc) == call' = [call EXCEPT ![c].pc = pc]

Return(c) == call' = [call EXCEPT ![c] = Idle]

\* handleRoutes / handleSuggest: budget 1..20 for a route, none for an address.
Begin(c, e, budget) ==
  /\ call[c].pc = "idle"
  /\ call' = [call EXCEPT ![c] = [Idle EXCEPT !.pc = "head", !.endpoint = e,
                                              !.granted = budget, !.remaining = budget]]
  /\ UNCHANGED <<breaker, slots, cooldown, window>>

\* waitForProviderCooldown: the delay is computed once.  (The budget check at
\* the head never fires: it was made before the loop came round.)
CheckCooldown(c) ==
  /\ call[c].pc = "head"
  /\ call[c].remaining > 0
  /\ call' = [call EXCEPT ![c].pc = IF cooldown > 0 THEN "cooling" ELSE "allow",
                          ![c].wait = cooldown]
  /\ UNCHANGED <<breaker, slots, cooldown, window>>

Wake(c) ==
  /\ call[c].pc = "cooling"
  /\ call[c].wait = 0
  /\ Goto(c, "allow")
  /\ UNCHANGED <<breaker, slots, cooldown, window>>

\* The caller's deadline or disconnect ends a sleep or a wait for a slot; one
\* that comes at any other point is noticed at the next of these, or in flight.
Interrupted(c) ==
  /\ call[c].pc \in {"cooling", "acquire", "backoff"}
  /\ Return(c)
  /\ UNCHANGED <<breaker, slots, cooldown, window>>

Allow(c) ==
  /\ call[c].pc = "allow"
  /\ Admits(call[c].endpoint)
  /\ breaker' = [breaker EXCEPT ![call[c].endpoint] = AfterAllow(call[c].endpoint)]
  /\ Goto(c, "acquire")
  /\ UNCHANGED <<slots, cooldown, window>>

\* errCircuitOpen.
CircuitOpen(c) ==
  /\ call[c].pc = "allow"
  /\ ~Admits(call[c].endpoint)
  /\ Return(c)
  /\ UNCHANGED <<breaker, slots, cooldown, window>>

BulkheadHasRoomOffByOne == slots <= MaxConcurrency

BulkheadHasRoom == slots < MaxConcurrency

Acquire(c) ==
  /\ call[c].pc = "acquire"
  /\ BulkheadHasRoom
  /\ slots' = slots + 1
  /\ Goto(c, "gate")
  /\ UNCHANGED <<breaker, cooldown, window>>

\* errBulkheadFull, at once or after BulkheadWaitTimeout.
BulkheadFull(c) ==
  /\ call[c].pc = "acquire"
  /\ ~BulkheadHasRoom
  /\ Return(c)
  /\ UNCHANGED <<breaker, slots, cooldown, window>>

GateOpen(e) == RateLimit = 0 \/ window[e] < RateLimit

RateGateFullKeepsSlot(c) ==
  /\ call[c].pc = "gate"
  /\ ~GateOpen(call[c].endpoint)
  /\ Return(c)
  /\ UNCHANGED <<breaker, slots, cooldown, window>>

RateGateFullTriesAgain(c) ==
  /\ call[c].pc = "gate"
  /\ ~GateOpen(call[c].endpoint)
  /\ slots' = slots - 1
  /\ Goto(c, "head")
  /\ UNCHANGED <<breaker, cooldown, window>>

\* The quota gate is full: the slot goes back, the budget is not touched.
RateGateFull(c) ==
  /\ call[c].pc = "gate"
  /\ ~GateOpen(call[c].endpoint)
  /\ slots' = slots - 1
  /\ Return(c)
  /\ UNCHANGED <<breaker, cooldown, window>>

SpentUncounted(c) == call[c].remaining

\* budget.Consume, for the endpoints that have a budget.
Spent(c) == IF call[c].endpoint \in Budgeted THEN call[c].remaining - 1 ELSE call[c].remaining

\* Quota and budget are taken and the attempt leaves.
Send(c) ==
  LET e == call[c].endpoint IN
  /\ call[c].pc = "gate"
  /\ GateOpen(e)
  /\ window' = [window EXCEPT ![e] = IF RateLimit = 0 THEN 0 ELSE @ + 1]
  /\ call' = [call EXCEPT ![c].pc = "flight", ![c].remaining = Spent(c), 
                          ![c].sent = CapAt(MaxRetries + 2, @ + 1)]
  /\ UNCHANGED <<breaker, slots, cooldown>>

\* doRoute / doGeocode returns and the slot is released.  A caller gone in
\* the meantime is one of the fatal errors.
Respond(c) ==
  /\ call[c].pc = "flight"
  /\ \E outcome \in Outcome :
       call' = [call EXCEPT ![c].pc = "settle", ![c].outcome = outcome]
  /\ slots' = slots - 1
  /\ UNCHANGED <<breaker, cooldown, window>>

\* The next attempt is allowed: a retryable error, retries and budget left.
MayRetry(c) ==
  /\ call[c].outcome \in {"rateLimited", "retryable"}
  /\ call[c].attempt < MaxRetries
  /\ call[c].remaining > 0

RetryOrReturn(c, pc) ==
  IF MayRetry(c)
  THEN call' = [call EXCEPT ![c].pc = pc, ![c].attempt = @ + 1, ![c].outcome = "ok"]
  ELSE Return(c)

SettleOk(c) ==
  /\ call[c].pc = "settle" /\ call[c].outcome = "ok"
  /\ breaker' = [breaker EXCEPT ![call[c].endpoint] = AfterSuccess(call[c].endpoint)]
  /\ Return(c)
  /\ UNCHANGED <<slots, cooldown, window>>

\* A 429 extends the adapter-wide cooldown; the loop continues at its head.
SettleRateLimited(c) ==
  /\ call[c].pc = "settle" /\ call[c].outcome = "rateLimited"
  /\ \E delay \in 1..MaxCooldown : cooldown' = IF delay > cooldown THEN delay ELSE cooldown
  /\ RetryOrReturn(c, "head")
  /\ UNCHANGED <<breaker, slots, window>>

\* Timeout, network error or 5xx: the breaker counts it, the loop backs off.
SettleRetryable(c) ==
  /\ call[c].pc = "settle" /\ call[c].outcome = "retryable"
  /\ breaker' = [breaker EXCEPT ![call[c].endpoint] = AfterFailure(call[c].endpoint)]
  /\ RetryOrReturn(c, "backoff")
  /\ UNCHANGED <<slots, cooldown, window>>

\* No route, rejected or malformed request, invalid response, caller gone, or
\* a credential error, whose latch (only readiness reads it) is left out.
SettleFatal(c) ==
  /\ call[c].pc = "settle" /\ call[c].outcome = "fatal"
  /\ Return(c)
  /\ UNCHANGED <<breaker, slots, cooldown, window>>

BackoffOver(c) ==
  /\ call[c].pc = "backoff"
  /\ Goto(c, "head")
  /\ UNCHANGED <<breaker, slots, cooldown, window>>

CallStep(c) ==
  \/ CheckCooldown(c) \/ Wake(c) \/ Interrupted(c)
  \/ Allow(c) \/ CircuitOpen(c)
  \/ Acquire(c) \/ BulkheadFull(c)
  \/ RateGateFull(c) \/ Send(c) \/ Respond(c)
  \/ SettleOk(c) \/ SettleRateLimited(c)
  \/ SettleRetryable(c) \/ SettleFatal(c)
  \/ BackoffOver(c)

-----------------------------------------------------------------------------
(* Callers and time.                                                       *)

Less(n) == IF n = 0 THEN 0 ELSE n - 1

Tick ==
  /\ cooldown' = Less(cooldown)
  /\ breaker' = [e \in Endpoints |-> [breaker[e] EXCEPT !.openLeft = Less(@)]]
  /\ call' = [c \in Calls |-> [call[c] EXCEPT !.wait = Less(@)]]
  /\ UNCHANGED <<slots, window>>

\* The oldest attempt leaves the rolling window.
WindowSlides(e) ==
  /\ window[e] > 0
  /\ window' = [window EXCEPT ![e] = @ - 1]
  /\ UNCHANGED <<breaker, slots, cooldown, call>>

Arrive(c) ==
  \E e \in Endpoints : \E budget \in IF e \in Budgeted THEN 1..MaxBudget ELSE {1} :
    Begin(c, e, budget)

Next ==
  \/ \E c \in Calls : Arrive(c) \/ CallStep(c)
  \/ \E e \in Endpoints : WindowSlides(e)
  \/ Tick

\* Goroutines run, timers fire, attempts end (RequestTimeout).
Fairness ==
  /\ \A c \in Calls : WF_vars(CallStep(c))
  /\ \A e \in Endpoints : WF_vars(WindowSlides(e))
  /\ WF_vars(Tick)

Spec == Init /\ [][Next]_vars

FairSpec == Spec /\ Fairness

\* Callers keep coming.
BusySpec == FairSpec /\ \A c \in Calls : WF_vars(Arrive(c))

-----------------------------------------------------------------------------
(* Properties.                                                             *)

\* What the variables of resilience.go and the retry loops hold; slots and
\* window stay within capacity and quota, and a closed breaker is below its
\* threshold, in whatever order late answers arrive.
TypeOK ==
  /\ breaker \in [Endpoints -> [state: BreakerState, failures: 0..Threshold,
                                openLeft: 0..OpenFor, admitted: 0..2]]
  /\ \A e \in Endpoints : breaker[e].state = "closed" => breaker[e].failures < Threshold
  /\ slots \in 0..MaxConcurrency
  /\ cooldown \in 0..MaxCooldown
  /\ window \in [Endpoints -> 0..RateLimit]
  /\ call \in [Calls -> [pc: PC, endpoint: Endpoints, attempt: 0..MaxRetries,
                         granted: 0..MaxBudget, remaining: 0..MaxBudget, sent: 0..(MaxRetries + 2),
                         wait: 0..MaxCooldown, outcome: Outcome]]

Holders == {c \in Calls : call[c].pc \in {"gate", "flight"}}

\* The bulkhead (resilience.go) counts the calls between Acquire and Release
\* exactly, on every exit of the four retry loops: a slot is neither leaked
\* by an early return nor released twice, and capacity is never exceeded.
BulkheadExact == slots = Cardinality(Holders) /\ slots <= MaxConcurrency

\* ADR-002: the request budget is spent before every outbound attempt.  No
\* interleaving of retries lets a call send more than it was granted, nor more
\* than MaxRetries + 1 attempts.
EgressWithinGrant ==
  \A c \in Calls :
    /\ call[c].endpoint \in Budgeted => call[c].sent + call[c].remaining = call[c].granted
    /\ call[c].sent <= MaxRetries + 1

\* A half-open breaker has let exactly one call through since it opened:
\* concurrent callers do not each believe to be the probe.
SingleProbe == \A e \in Endpoints : breaker[e].state = "halfOpen" => breaker[e].admitted = 1

\* Every call returns: no cooldown, backoff, full bulkhead, open breaker or
\* retry loop holds a caller for ever.
CallsReturn == \A c \in Calls : call[c].pc # "idle" ~> call[c].pc = "idle"

\* services/provider-yandex/README.md: after the open interval a half-open
\* probe decides.  With callers coming, a half-open breaker is left again.
HalfOpenResolves ==
  \A e \in Endpoints : breaker[e].state = "halfOpen" ~> breaker[e].state # "halfOpen"
=============================================================================
