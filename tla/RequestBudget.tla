--------------------------- MODULE RequestBudget ---------------------------
(***************************************************************************)
(* The provider-request budget of one route search                         *)
(* (services/routing-orchestrator/budget.go), its only user                *)
(* routeWithBudget (engine.go) and the far side of every call: the         *)
(* adapter that spends the leased allowance one upstream attempt at a time *)
(* (services/provider-yandex/provider.go).                                 *)
(*                                                                         *)
(* Baseline evaluations of several candidates share one budget             *)
(* concurrently.  The adapter is another process: it may receive a call    *)
(* late, and may go on retrying after the orchestrator has given up on it, *)
(* so what is charged and what is really sent are different state.         *)
(***************************************************************************)
EXTENDS Integers, FiniteSets

CONSTANTS
  Calls,     \* the calls of routeWithBudget one search makes
  Limit,     \* request.MaxProviderRequests
  MaxLease,  \* the allowance routeWithBudget asks for (2 in the code)
  MaxUnits   \* bound on the billable units of one response

ASSUME BudgetAssumption ==
  /\ IsFiniteSet(Calls)
  /\ Limit \in Nat
  /\ MaxLease \in Nat \ {0}
  /\ MaxUnits \in Nat

VARIABLES
  used,      \* requestBudget.used
  reserved,  \* requestBudget.reserved
  billable,  \* requestBudget.billable
  lease,     \* per call: the budgetLease the orchestrator holds for it
  adapter    \* per call: the adapter's side of it

vars == <<used, reserved, billable, lease, adapter>>

LeaseState   == {"none", "refused", "held", "finished", "leaked"}
AdapterState == {"none", "open", "answered", "failed"}

\* What the variables of budget.go hold; no counter is ever negative and no
\* lease is larger than asked for.
TypeOK ==
  /\ used \in Nat
  /\ reserved \in Nat
  /\ billable \in Nat
  /\ lease \in [Calls -> [state: LeaseState, allowance: 0..MaxLease, charged: 0..MaxLease]]
  /\ adapter \in [Calls -> [state: AdapterState, attempts: 0..MaxLease]]

Init ==
  /\ used = 0
  /\ reserved = 0
  /\ billable = 0
  /\ lease = [c \in Calls |-> [state |-> "none", allowance |-> 0, charged |-> 0]]
  /\ adapter = [c \in Calls |-> [state |-> "none", attempts |-> 0]]

-----------------------------------------------------------------------------
(* The orchestrator's side: lease, finish and routeWithBudget.             *)

AvailableIgnoringReservations == Limit - used

Available == Limit - used - reserved

\* The first allowance that is both available and not above MaxLease.
Allowance == IF Available > MaxLease THEN MaxLease ELSE Available

Lease(c) ==
  /\ lease[c].state = "none"
  /\ Available > 0
  /\ lease' = [lease EXCEPT ![c].state = "held", ![c].allowance = Allowance]
  /\ reserved' = reserved + Allowance
  /\ UNCHANGED <<used, billable, adapter>>

\* "request budget exhausted": nothing is sent.
LeaseRefused(c) ==
  /\ lease[c].state = "none"
  /\ Available <= 0
  /\ lease' = [lease EXCEPT ![c].state = "refused"]
  /\ UNCHANGED <<used, reserved, billable, adapter>>

\* finish never charges above the allowance of the lease.
Charge(c, actual) == IF actual > lease[c].allowance THEN lease[c].allowance ELSE actual

FinishKeepsReservation(c, actual) ==
  /\ lease' = [lease EXCEPT ![c].state = "finished", ![c].charged = Charge(c, actual)]
  /\ reserved' = reserved - Charge(c, actual)
  /\ used' = used + Charge(c, actual)

\* budgetLease.finish: return the whole reservation, charge the actual use.
Finish(c, actual) ==
  /\ lease' = [lease EXCEPT ![c].state = "finished", ![c].charged = Charge(c, actual)]
  /\ reserved' = reserved - lease[c].allowance
  /\ used' = used + Charge(c, actual)

\* A response that passed validateProviderRouteResponse.
RouteSucceeded(c) ==
  /\ lease[c].state = "held"
  /\ adapter[c].state = "answered"
  /\ adapter[c].attempts \in 1..lease[c].allowance
  /\ Finish(c, adapter[c].attempts)
  /\ \E units \in 0..MaxUnits : billable' = billable + units
  /\ UNCHANGED adapter

ErrorChargesReportedUse(c) == adapter[c].attempts

\* Fail closed: an error carries no usage envelope, so all of it is charged.
ErrorCharge(c) == lease[c].allowance

\* A sanitized error, a transport timeout or an invalid response: the adapter
\* may be in any state, still retrying included.
RouteFailed(c) ==
  /\ lease[c].state = "held"
  /\ Finish(c, ErrorCharge(c))
  /\ UNCHANGED <<billable, adapter>>

\* evaluateAll recovers a panicking goroutine; its lease is never finished.
RoutePanicked(c) ==
  /\ lease[c].state = "held"
  /\ lease' = [lease EXCEPT ![c].state = "leaked"]
  /\ UNCHANGED <<used, reserved, billable, adapter>>

-----------------------------------------------------------------------------
(* The adapter's side: Routes with its own requestBudget.                  *)

\* The request reaches the adapter, possibly after the caller gave up.
Deliver(c) ==
  /\ lease[c].state \in {"held", "finished", "leaked"}
  /\ adapter[c].state = "none"
  /\ adapter' = [adapter EXCEPT ![c].state = "open"]
  /\ UNCHANGED <<used, reserved, billable, lease>>

Consume(c) == adapter[c].attempts < lease[c].allowance

Attempt(c) ==
  /\ adapter[c].state = "open"
  /\ Consume(c)
  /\ adapter' = [adapter EXCEPT ![c].attempts = @ + 1]
  /\ UNCHANGED <<used, reserved, billable, lease>>

Answer(c) ==
  /\ adapter[c].state = "open"
  /\ adapter[c].attempts > 0
  /\ adapter' = [adapter EXCEPT ![c].state = "answered"]
  /\ UNCHANGED <<used, reserved, billable, lease>>

GiveUp(c) ==
  /\ adapter[c].state = "open"
  /\ adapter' = [adapter EXCEPT ![c].state = "failed"]
  /\ UNCHANGED <<used, reserved, billable, lease>>

-----------------------------------------------------------------------------

Next ==
  \E c \in Calls :
    \/ Lease(c)
    \/ LeaseRefused(c)
    \/ RouteSucceeded(c)
    \/ RouteFailed(c)
    \/ RoutePanicked(c)
    \/ Deliver(c)
    \/ Attempt(c)
    \/ Answer(c)
    \/ GiveUp(c)

Spec == Init /\ [][Next]_vars

-----------------------------------------------------------------------------
(* Properties.                                                             *)

\* Requests counted one by one: unit <<c, i>> is the i-th request of call c.
Units == Calls \X (1..MaxLease)

OutstandingUnits == {u \in Units : /\ lease[u[1]].state \in {"held", "leaked"}
                                   /\ u[2] <= lease[u[1]].allowance}
ChargedUnits     == {u \in Units : /\ lease[u[1]].state = "finished"
                                   /\ u[2] <= lease[u[1]].charged}
SentUnits        == {u \in Units : u[2] <= adapter[u[1]].attempts}

\* ARCHITECTURE.md, domain invariant 5: concurrent leases (budget.go lease and
\* finish) never reserve and use together more than the search was granted.
NeverOversubscribed == used + reserved <= Limit

\* The counters of budget.go are exact at every interleaving of lease, finish
\* and a recovered panic: reserved is what unfinished leases hold, used what
\* finished ones were charged.
CountersExact ==
  /\ reserved = Cardinality(OutstandingUnits)
  /\ used = Cardinality(ChargedUnits)

\* What the adapter really sends upstream, late attempts after a timed-out
\* call included, never exceeds the search's limit: the reason engine.go
\* charges the whole lease on an error.
EgressWithinLimit == Cardinality(SentUnits) <= Limit

\* The usage a finished call published (engine.go, finish) is never below what
\* the adapter sends for it, even if the adapter keeps retrying afterwards.
ChargeCoversEgress ==
  \A c \in Calls : lease[c].state = "finished" => adapter[c].attempts <= lease[c].charged
=============================================================================
