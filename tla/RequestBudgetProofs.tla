------------------------ MODULE RequestBudgetProofs ------------------------
(***************************************************************************)
(* Proofs about RequestBudget for every finite set of calls, every limit   *)
(* and every lease size.                                                   *)
(*                                                                         *)
(* The counters are related to sets of request units, so that "the sum of  *)
(* the outstanding leases" is a cardinality and finite-set theorems apply. *)
(***************************************************************************)
EXTENDS RequestBudget, FiniteSetTheorems, TLAPS

\* The facts about a single call that the counters rest on: a lease is charged
\* at most its allowance, and the adapter attempts at most that many requests.
CallsSound ==
  \A c \in Calls :
    /\ lease[c].state \in {"none", "refused"} =>
         lease[c].allowance = 0 /\ adapter[c].state = "none"
    /\ adapter[c].state = "none" => adapter[c].attempts = 0
    /\ adapter[c].attempts <= lease[c].allowance
    /\ lease[c].charged <= lease[c].allowance
    /\ lease[c].state = "finished" => adapter[c].attempts <= lease[c].charged
    /\ lease[c].state = "finished" /\ lease[c].charged < lease[c].allowance =>
         adapter[c].state = "answered"

IInv == TypeOK /\ CallsSound /\ CountersExact /\ NeverOversubscribed

-----------------------------------------------------------------------------
(* Counting units.                                                         *)

\* The units 1..n of call c.
UnitsOf(c, n) == {c} \X (1..n)

\* The units of all calls can be counted.
LEMMA UnitsFinite == IsFiniteSet(Units)
<1>1. 1 \in Int /\ MaxLease \in Int
  BY BudgetAssumption
<1>2. IsFiniteSet(1..MaxLease)
  BY <1>1, FS_Interval
<1> QED
  BY <1>2, FS_Product, BudgetAssumption DEF Units

\* A call has as many units as its allowance or charge says.
LEMMA UnitsOfCount ==
  ASSUME NEW c \in Calls, NEW n \in 0..MaxLease
  PROVE  /\ UnitsOf(c, n) \subseteq Units
         /\ IsFiniteSet(UnitsOf(c, n))
         /\ Cardinality(UnitsOf(c, n)) = n
<1>1. n \in Int /\ 1 \in Int /\ MaxLease \in Int
  BY BudgetAssumption
<1>2. IsFiniteSet(1..n) /\ Cardinality(1..n) = n
  BY <1>1, FS_Interval
<1>3. IsFiniteSet({c}) /\ Cardinality({c}) = 1
  BY FS_Singleton
<1>4. IsFiniteSet(UnitsOf(c, n)) /\ Cardinality(UnitsOf(c, n)) = 1 * n
  <2>1. UnitsOf(c, n) = {c} \X (1..n)
    BY DEF UnitsOf
  <2>2. IsFiniteSet({c} \X (1..n)) /\ Cardinality({c} \X (1..n)) = Cardinality({c}) * Cardinality(1..n)
    BY <1>2, <1>3, FS_Product
  <2> QED
    BY <1>2, <1>3, <2>1, <2>2
<1>5. UnitsOf(c, n) \subseteq Units
  BY <1>1 DEF UnitsOf, Units
<1> QED
  BY <1>1, <1>4, <1>5

\* Adding the units of a call that had none of them, or taking them all away,
\* changes a count by their number.
LEMMA CountUnion ==
  ASSUME NEW S \in SUBSET Units, NEW c \in Calls, NEW n \in 0..MaxLease,
         S \cap UnitsOf(c, n) = {}
  PROVE  /\ Cardinality(S) \in Nat
         /\ Cardinality(S \cup UnitsOf(c, n)) = Cardinality(S) + n
<1>1. IsFiniteSet(S)
  BY UnitsFinite, FS_Subset
<1>2. Cardinality(S) \in Nat
  BY <1>1, FS_CardinalityType
<1>3. Cardinality(S \cap UnitsOf(c, n)) = 0
  BY FS_EmptySet
<1> QED
  BY <1>1, <1>2, <1>3, UnitsOfCount, FS_Union

\* Taking away the units of a call that had all of them.
LEMMA CountDifference ==
  ASSUME NEW S \in SUBSET Units, NEW c \in Calls, NEW n \in 0..MaxLease,
         UnitsOf(c, n) \subseteq S
  PROVE  /\ Cardinality(S) \in Nat
         /\ Cardinality(S \ UnitsOf(c, n)) = Cardinality(S) - n
         /\ n <= Cardinality(S)
<1> DEFINE T == S \ UnitsOf(c, n)
<1>1. T \in SUBSET Units /\ T \cap UnitsOf(c, n) = {} /\ T \cup UnitsOf(c, n) = S
  OBVIOUS
<1>2. Cardinality(T) \in Nat /\ Cardinality(S) = Cardinality(T) + n
  <2> HIDE DEF T
  <2> QED BY <1>1, CountUnion
<1> QED
  BY <1>2

-----------------------------------------------------------------------------
(* Each action on the counters.                                            *)

\* A new budget: nothing leased, charged or sent.
LEMMA InitSound == Init => IInv
<1> SUFFICES ASSUME Init PROVE IInv
  OBVIOUS
<1>1. TypeOK
  BY BudgetAssumption DEF Init, TypeOK, LeaseState, AdapterState
<1>2. CallsSound
  BY DEF Init, CallsSound
<1>3. OutstandingUnits = {} /\ ChargedUnits = {}
  BY DEF Init, OutstandingUnits, ChargedUnits, Units
<1>4. CountersExact
  BY <1>3, FS_EmptySet DEF Init, CountersExact
<1>5. NeverOversubscribed
  BY BudgetAssumption DEF Init, NeverOversubscribed
<1> QED
  BY <1>1, <1>2, <1>4, <1>5 DEF IInv

\* Taking a lease adds exactly its allowance to the outstanding units.
LEMMA LeaseSound ==
  ASSUME IInv, NEW c \in Calls, Lease(c)
  PROVE  IInv'
<1> DEFINE a == Allowance
<1>1. a \in 1..MaxLease /\ used + reserved + a <= Limit
  BY BudgetAssumption DEF IInv, TypeOK, Lease, Available, Allowance
<1>2. /\ lease[c].state = "none" /\ lease[c].allowance = 0
      /\ lease' = [lease EXCEPT ![c].state = "held", ![c].allowance = a]
      /\ reserved' = reserved + a
      /\ UNCHANGED <<used, billable, adapter>>
  BY DEF IInv, CallsSound, Lease
<1> HIDE DEF a
<1>3. TypeOK'
  BY <1>1, <1>2, BudgetAssumption DEF IInv, TypeOK, LeaseState
<1>4. CallsSound'
  BY <1>1, <1>2 DEF IInv, TypeOK, CallsSound
<1>5. OutstandingUnits' = OutstandingUnits \cup UnitsOf(c, a)
  BY <1>1, <1>2, BudgetAssumption DEF IInv, TypeOK, OutstandingUnits, Units, UnitsOf
<1>6. OutstandingUnits \in SUBSET Units /\ OutstandingUnits \cap UnitsOf(c, a) = {}
  BY <1>2 DEF OutstandingUnits, UnitsOf
<1>7. Cardinality(OutstandingUnits') = reserved + a
  BY <1>1, <1>5, <1>6, CountUnion DEF IInv, CountersExact
<1>8. ChargedUnits' = ChargedUnits
  BY <1>2 DEF IInv, TypeOK, ChargedUnits, Units
<1>9. CountersExact'
  BY <1>2, <1>7, <1>8 DEF IInv, CountersExact
<1>10. NeverOversubscribed'
  BY <1>1, <1>2, BudgetAssumption DEF IInv, TypeOK, NeverOversubscribed
<1> QED
  BY <1>3, <1>4, <1>9, <1>10 DEF IInv

\* Finishing returns the whole allowance and charges part of it, and the charge
\* covers every attempt the adapter can still make.
LEMMA FinishSound ==
  ASSUME IInv, NEW c \in Calls, NEW actual \in Nat,
         lease[c].state = "held",
         actual <= lease[c].allowance,
         adapter[c].attempts <= actual,
         actual < lease[c].allowance => adapter[c].state = "answered",
         Finish(c, actual), billable' \in Nat, UNCHANGED adapter
  PROVE  IInv'
<1> DEFINE a == lease[c].allowance
<1>1. a \in 0..MaxLease /\ actual \in 0..MaxLease /\ actual <= a
  BY BudgetAssumption DEF IInv, TypeOK
<1>2. /\ lease' = [lease EXCEPT ![c].state = "finished", ![c].charged = actual]
      /\ reserved' = reserved - a
      /\ used' = used + actual
  <2>1. Charge(c, actual) = actual
    BY <1>1, BudgetAssumption DEF Charge
  <2> QED
    BY <2>1 DEF Finish
<1>3. OutstandingUnits' = OutstandingUnits \ UnitsOf(c, a)
  BY <1>1, <1>2, BudgetAssumption DEF IInv, TypeOK, OutstandingUnits, Units, UnitsOf
<1>4. OutstandingUnits \in SUBSET Units /\ UnitsOf(c, a) \subseteq OutstandingUnits
  BY <1>1, BudgetAssumption DEF OutstandingUnits, Units, UnitsOf
<1>5. ChargedUnits' = ChargedUnits \cup UnitsOf(c, actual)
  BY <1>1, <1>2, BudgetAssumption DEF IInv, TypeOK, ChargedUnits, Units, UnitsOf
<1>6. ChargedUnits \in SUBSET Units /\ ChargedUnits \cap UnitsOf(c, actual) = {}
  BY DEF ChargedUnits, UnitsOf
<1>7. /\ Cardinality(OutstandingUnits') = reserved - a
      /\ a <= reserved
  BY <1>1, <1>3, <1>4, CountDifference DEF IInv, CountersExact
<1>8. Cardinality(ChargedUnits') = used + actual
  BY <1>1, <1>5, <1>6, CountUnion DEF IInv, CountersExact
<1>9. CountersExact'
  BY <1>2, <1>7, <1>8 DEF CountersExact
<1>10. TypeOK'
  <2>1. used' \in Nat /\ reserved' \in Nat
    BY <1>1, <1>2, <1>7, BudgetAssumption DEF IInv, TypeOK
  <2>2. lease' \in [Calls -> [state: LeaseState, allowance: 0..MaxLease, charged: 0..MaxLease]]
    BY <1>1, <1>2, ZenonT(60) DEF IInv, TypeOK, LeaseState
  <2> QED
    BY <2>1, <2>2 DEF IInv, TypeOK
<1>11. CallsSound'
  BY <1>1, <1>2 DEF IInv, TypeOK, CallsSound
<1>12. NeverOversubscribed'
  BY <1>1, <1>2, BudgetAssumption DEF IInv, TypeOK, NeverOversubscribed
<1> QED
  BY <1>9, <1>10, <1>11, <1>12 DEF IInv

\* Steps that move no unit between the sets.
LEMMA SameUnits ==
  ASSUME IInv, TypeOK', CallsSound', UNCHANGED <<used, reserved>>,
         \A c \in Calls :
           /\ lease'[c].allowance = lease[c].allowance
           /\ lease'[c].charged = lease[c].charged
           /\ lease'[c].state \in {"held", "leaked"} <=> lease[c].state \in {"held", "leaked"}
           /\ lease'[c].state = "finished" <=> lease[c].state = "finished"
  PROVE  IInv'
<1>1. OutstandingUnits' = OutstandingUnits
  BY DEF OutstandingUnits, Units
<1>2. ChargedUnits' = ChargedUnits
  BY DEF ChargedUnits, Units
<1> QED
  BY <1>1, <1>2 DEF IInv, CountersExact, NeverOversubscribed

\* Every step of orchestrator and adapter keeps the inductive invariant.
LEMMA StepSound == IInv /\ [Next]_vars => IInv'
<1> SUFFICES ASSUME IInv, [Next]_vars PROVE IInv'
  OBVIOUS
<1> USE BudgetAssumption
<1>1. CASE UNCHANGED vars
  <2>1. TypeOK' /\ CallsSound'
    BY <1>1 DEF vars, IInv, TypeOK, CallsSound
  <2> QED
    BY <1>1, <2>1, SameUnits DEF vars
<1>2. ASSUME NEW c \in Calls, Lease(c) PROVE IInv'
  BY <1>2, LeaseSound
<1>3. ASSUME NEW c \in Calls, LeaseRefused(c) PROVE IInv'
  <2>1. TypeOK'
    BY <1>3 DEF LeaseRefused, IInv, TypeOK, LeaseState
  <2>2. CallsSound'
    BY <1>3 DEF LeaseRefused, IInv, TypeOK, CallsSound
  <2> QED
    BY <1>3, <2>1, <2>2, SameUnits DEF LeaseRefused, IInv, TypeOK
<1>4. ASSUME NEW c \in Calls, RouteSucceeded(c) PROVE IInv'
  <2>1. /\ adapter[c].attempts \in Nat
        /\ adapter[c].attempts <= lease[c].allowance
        /\ billable' \in Nat
    BY <1>4 DEF RouteSucceeded, IInv, TypeOK
  <2> QED
    BY <1>4, <2>1, FinishSound DEF RouteSucceeded
<1>5. ASSUME NEW c \in Calls, RouteFailed(c) PROVE IInv'
  <2>1. /\ lease[c].allowance \in Nat
        /\ adapter[c].attempts <= lease[c].allowance
        /\ billable' \in Nat
    BY <1>5 DEF RouteFailed, IInv, TypeOK, CallsSound
  <2> QED
    BY <1>5, <2>1, FinishSound DEF RouteFailed, ErrorCharge
<1>6. ASSUME NEW c \in Calls, RoutePanicked(c) PROVE IInv'
  <2>1. TypeOK'
    BY <1>6 DEF RoutePanicked, IInv, TypeOK, LeaseState
  <2>2. CallsSound'
    BY <1>6 DEF RoutePanicked, IInv, TypeOK, CallsSound
  <2> QED
    BY <1>6, <2>1, <2>2, SameUnits DEF RoutePanicked, IInv, TypeOK
<1>7. ASSUME NEW c \in Calls, Deliver(c) \/ Attempt(c) \/ Answer(c) \/ GiveUp(c) PROVE IInv'
  <2>1. TypeOK'
    <3>1. CASE Deliver(c) \/ Answer(c)
      BY <3>1 DEF Deliver, Answer, IInv, TypeOK, AdapterState
    <3>2. CASE Attempt(c)
      BY <3>2 DEF Attempt, Consume, IInv, TypeOK, AdapterState
    <3>3. CASE GiveUp(c)
      BY <3>3 DEF GiveUp, IInv, TypeOK, AdapterState
    <3> QED
      BY <1>7, <3>1, <3>2, <3>3
  <2>2. CallsSound'
    <3>1. CASE Deliver(c)
      BY <3>1 DEF Deliver, IInv, TypeOK, CallsSound
    <3>2. CASE Answer(c)
      BY <3>2 DEF Answer, IInv, TypeOK, CallsSound
    <3>3. CASE Attempt(c)
      BY <3>3 DEF Attempt, Consume, IInv, TypeOK, CallsSound
    <3>4. CASE GiveUp(c)
      BY <3>4 DEF GiveUp, IInv, TypeOK, CallsSound
    <3> QED
      BY <1>7, <3>1, <3>2, <3>3, <3>4
  <2> QED
    BY <1>7, <2>1, <2>2, SameUnits DEF Deliver, Attempt, Answer, GiveUp
<1> QED
  BY <1>1, <1>2, <1>3, <1>4, <1>5, <1>6, <1>7 DEF Next

-----------------------------------------------------------------------------
(* The results.                                                            *)

\* The inductive invariant holds in every reachable state.
THEOREM Soundness == Spec => []IInv
BY InitSound, StepSound, PTL DEF Spec

\* The budget record of budget.go keeps its types; in particular reserved
\* never becomes negative however lease and finish interleave.
THEOREM TypeCorrect == Spec => []TypeOK
BY Soundness, PTL DEF IInv

\* Concurrent leases never oversubscribe the limit, whatever the number of
\* calls, the limit and the lease size (budget.go lease).
THEOREM BudgetSafe == Spec => []NeverOversubscribed
BY Soundness, PTL DEF IInv

\* The counters are exact: no interleaving loses or double-counts a lease.
THEOREM BudgetExact == Spec => []CountersExact
BY Soundness, PTL DEF IInv

\* A published charge is never below what the adapter sends for the call, the
\* attempts it makes after the caller gave up included (routeWithBudget).
THEOREM ChargeSafe == Spec => []ChargeCoversEgress
<1>1. IInv => ChargeCoversEgress
  BY DEF IInv, CallsSound, ChargeCoversEgress
<1> QED
  BY <1>1, Soundness, PTL

\* The requests that really leave the adapter never exceed the search's limit.
THEOREM EgressSafe == Spec => []EgressWithinLimit
<1>1. IInv => EgressWithinLimit
  <2> SUFFICES ASSUME IInv PROVE Cardinality(SentUnits) <= Limit
    BY DEF EgressWithinLimit
  <2> DEFINE Paid == OutstandingUnits \cup ChargedUnits
  <2>1. SentUnits \subseteq Paid
    <3> SUFFICES ASSUME NEW c \in Calls, NEW i \in 1..MaxLease, i <= adapter[c].attempts
                 PROVE  <<c, i>> \in Paid
      BY DEF SentUnits, Units
    <3>1. lease[c].state \in {"held", "leaked", "finished"}
      BY BudgetAssumption DEF IInv, TypeOK, LeaseState, CallsSound
    <3>2. lease[c].state = "finished" => i <= lease[c].charged
      BY BudgetAssumption DEF IInv, TypeOK, CallsSound
    <3>3. i <= lease[c].allowance
      BY BudgetAssumption DEF IInv, TypeOK, CallsSound
    <3> QED
      BY <3>1, <3>2, <3>3 DEF OutstandingUnits, ChargedUnits, Units
  <2>2. IsFiniteSet(OutstandingUnits) /\ IsFiniteSet(ChargedUnits)
    BY UnitsFinite, FS_Subset DEF OutstandingUnits, ChargedUnits
  <2>3. /\ IsFiniteSet(Paid)
        /\ Cardinality(Paid) = Cardinality(OutstandingUnits) + Cardinality(ChargedUnits)
                              - Cardinality(OutstandingUnits \cap ChargedUnits)
    BY <2>2, FS_Union
  <2>4. OutstandingUnits \cap ChargedUnits = {}
    BY DEF OutstandingUnits, ChargedUnits
  <2>5. Cardinality(OutstandingUnits \cap ChargedUnits) = 0
    BY <2>4, FS_EmptySet
  <2>6. Cardinality(SentUnits) \in Nat /\ Cardinality(SentUnits) <= Cardinality(Paid)
    BY <2>1, <2>3, FS_Subset, FS_CardinalityType
  <2>7. Cardinality(Paid) = reserved + used
    BY <2>3, <2>5 DEF IInv, TypeOK, CountersExact
  <2> QED
    BY <2>6, <2>7, BudgetAssumption DEF IInv, TypeOK, NeverOversubscribed
<1> QED
  BY <1>1, Soundness, PTL
=============================================================================
