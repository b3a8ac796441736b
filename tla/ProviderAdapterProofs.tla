------------------------ MODULE ProviderAdapterProofs ------------------------
(***************************************************************************)
(* Proofs about the resilience layer of the provider adapter, for every    *)
(* number of concurrent calls, endpoints, retries and slots and for every  *)
(* threshold, quota and budget.                                            *)
(*                                                                         *)
(* The invariant has one part per shared object: the calls, the bulkhead,  *)
(* the breakers and the timers.  Two clauses are not in the properties and *)
(* make them inductive: a call has sent at most one attempt more than its  *)
(* attempt counter says, and only while that attempt is not settled; and a *)
(* breaker that has just opened has admitted nobody.                       *)
(***************************************************************************)
EXTENDS ProviderAdapter, FiniteSetTheorems, TLAPS

BreakerRecord == [state: BreakerState, failures: 0..Threshold,
                  openLeft: 0..OpenFor, admitted: 0..2]

CallRecord == [pc: PC, endpoint: Endpoints, attempt: 0..MaxRetries,
               granted: 0..MaxBudget, remaining: 0..MaxBudget, sent: 0..(MaxRetries + 2),
               wait: 0..MaxCooldown, outcome: Outcome]

\* The places of the loop at which the attempt the counter names has left.
Departed == {"flight", "settle"}

\* The places from which an attempt can still be sent.
Ahead == {"head", "cooling", "allow", "acquire", "gate", "backoff"}

CallSound(r) ==
  /\ r.endpoint \in Budgeted => r.sent + r.remaining = r.granted
  /\ r.pc \in Departed => r.sent <= r.attempt + 1
  /\ r.pc \notin Departed => r.sent <= r.attempt
  /\ r.pc \in Ahead => r.remaining > 0

BreakerSound(b) ==
  /\ b.state = "closed" => b.failures < Threshold
  /\ b.state = "open" => b.admitted = 0
  /\ b.state = "halfOpen" => b.admitted = 1

CallsInv == call \in [Calls -> CallRecord] /\ \A c \in Calls : CallSound(call[c])

BreakerInv ==
  breaker \in [Endpoints -> BreakerRecord] /\ \A e \in Endpoints : BreakerSound(breaker[e])

BulkheadInv == slots \in Nat /\ BulkheadExact

TimerInv == cooldown \in 0..MaxCooldown /\ window \in [Endpoints -> 0..RateLimit]

AdapterInv == CallsInv /\ BreakerInv /\ BulkheadInv /\ TimerInv

-----------------------------------------------------------------------------
(* The bulkhead: what each step does to the set of its holders.            *)

\* The calls between Acquire and Release can be counted.
LEMMA HoldersFinite == IsFiniteSet(Holders)
BY AdapterAssumption, FS_Subset DEF Holders

\* A step of the loop that neither acquires nor releases.
LEMMA SlotKept ==
  ASSUME BulkheadInv, UNCHANGED slots,
         \A c \in Calls : (call'[c].pc \in {"gate", "flight"}) <=> (call[c].pc \in {"gate", "flight"})
  PROVE  BulkheadInv'
<1>1. Holders' = Holders
  BY DEF Holders
<1> QED
  BY <1>1 DEF BulkheadInv, BulkheadExact

\* bulkhead.Acquire: one more holder, and there was room for it.
LEMMA SlotTaken ==
  ASSUME BulkheadInv, NEW c \in Calls,
         call[c].pc \notin {"gate", "flight"}, call'[c].pc \in {"gate", "flight"},
         \A d \in Calls \ {c} : call'[d] = call[d],
         BulkheadHasRoom, slots' = slots + 1
  PROVE  BulkheadInv'
<1>1. Holders' = Holders \cup {c} /\ c \notin Holders
  BY DEF Holders
<1>2. Cardinality(Holders') = Cardinality(Holders) + 1
  BY <1>1, HoldersFinite, FS_AddElement
<1> QED
  BY <1>2, AdapterAssumption DEF BulkheadInv, BulkheadExact, BulkheadHasRoom

\* bulkhead.Release by a holder: one fewer, and the count stays a natural
\* number because the holder was counted.
LEMMA SlotReturned ==
  ASSUME BulkheadInv, NEW c \in Calls,
         call[c].pc \in {"gate", "flight"}, call'[c].pc \notin {"gate", "flight"},
         \A d \in Calls \ {c} : call'[d] = call[d],
         slots' = slots - 1
  PROVE  BulkheadInv'
<1>1. Holders' = Holders \ {c} /\ c \in Holders
  BY DEF Holders
<1>2. Cardinality(Holders') = Cardinality(Holders) - 1
  BY <1>1, HoldersFinite, FS_RemoveElement
<1>3. IsFiniteSet(Holders')
  BY <1>1, HoldersFinite, FS_Subset
<1>4. Cardinality(Holders') \in Nat
  BY <1>3, FS_CardinalityType
<1> QED
  BY <1>2, <1>4, AdapterAssumption DEF BulkheadInv, BulkheadExact

-----------------------------------------------------------------------------
(* The breaker: each of its three operations keeps it sound.               *)

\* Allow on a breaker that admits the call.
LEMMA AllowSound ==
  ASSUME BreakerInv, NEW e \in Endpoints, Admits(e)
  PROVE  AfterAllow(e) \in BreakerRecord /\ BreakerSound(AfterAllow(e))
<1>1. breaker[e] \in BreakerRecord /\ BreakerSound(breaker[e])
  BY DEF BreakerInv
<1>2. CASE breaker[e].state = "closed"
  BY <1>1, <1>2 DEF AfterAllow
<1>3. CASE breaker[e].state = "open"
  <2>1. breaker[e].admitted = 0
    BY <1>1, <1>3 DEF BreakerSound
  <2>2. PICK old \in BreakerRecord : old = breaker[e]
    BY <1>1
  <2>3. PICK b : b = [old EXCEPT !.state = "halfOpen", !.admitted = 1]
    OBVIOUS
  <2>4. b = [state |-> "halfOpen", failures |-> old.failures,
             openLeft |-> old.openLeft, admitted |-> 1]
    BY <2>3 DEF BreakerRecord
  <2>5. b \in BreakerRecord /\ BreakerSound(b)
    BY <2>4 DEF BreakerRecord, BreakerState, BreakerSound
  <2>6. b = AfterAllow(e)
    BY <1>3, <2>1, <2>2, <2>3 DEF AfterAllow, CapAt
  <2> QED
    BY <2>5, <2>6
<1> QED
  BY <1>2, <1>3 DEF Admits

\* Failure in whatever state the breaker is when a late answer arrives.
LEMMA FailureSound ==
  ASSUME BreakerInv, NEW e \in Endpoints
  PROVE  AfterFailure(e) \in BreakerRecord /\ BreakerSound(AfterFailure(e))
<1>1. breaker[e] \in BreakerRecord /\ BreakerSound(breaker[e])
  BY DEF BreakerInv
<1>2. Threshold \in Nat \ {0} /\ OpenFor \in Nat \ {0}
  BY AdapterAssumption
<1>3. ASSUME NEW b \in BreakerRecord
      PROVE  Opened(b) \in BreakerRecord /\ BreakerSound(Opened(b))
  <2>1. PICK o : o = Opened(b)
    OBVIOUS
  <2>2. o = [state |-> "open", failures |-> b.failures, openLeft |-> OpenFor, admitted |-> 0]
    BY <2>1 DEF Opened, BreakerRecord
  <2>3. o \in BreakerRecord /\ BreakerSound(o)
    BY <1>2, <2>2 DEF BreakerRecord, BreakerState, BreakerSound
  <2> QED
    BY <2>1, <2>3
<1> DEFINE counted == [breaker[e] EXCEPT !.failures = CapAt(Threshold, @ + 1)]
<1>4. counted \in BreakerRecord
  BY <1>1, <1>2 DEF BreakerRecord, CapAt
<1>5. /\ counted.state = breaker[e].state
      /\ counted.admitted = breaker[e].admitted
  BY <1>1 DEF BreakerRecord
<1> HIDE DEF counted
<1>6. counted.failures < Threshold => BreakerSound(counted)
  BY <1>1, <1>5 DEF BreakerSound
<1>7. counted.failures < Threshold \/ counted.failures >= Threshold
  BY <1>2, <1>4 DEF BreakerRecord
<1>8. AfterFailure(e) = IF breaker[e].state = "halfOpen" THEN Opened(breaker[e])
                        ELSE IF counted.failures >= Threshold THEN Opened(counted)
                        ELSE counted
  BY DEF AfterFailure, counted
<1> QED
  BY <1>1, <1>3, <1>4, <1>6, <1>7, <1>8

\* Success, and the breaker a process starts with.
LEMMA ClosedSound == Closed \in BreakerRecord /\ BreakerSound(Closed)
BY AdapterAssumption DEF Closed, BreakerRecord, BreakerState, BreakerSound

\* A step that replaces one breaker by a sound one.
LEMMA BreakerMoves ==
  ASSUME BreakerInv, NEW e \in Endpoints, NEW b \in BreakerRecord, BreakerSound(b),
         breaker' = [breaker EXCEPT ![e] = b]
  PROVE  BreakerInv'
BY DEF BreakerInv

-----------------------------------------------------------------------------
(* The calls.                                                              *)

\* The record of a call that is not under way.
LEMMA IdleSound == Idle \in CallRecord /\ CallSound(Idle) /\ Idle.pc = "idle"
<1>1. (CHOOSE e \in Endpoints : TRUE) \in Endpoints
  BY AdapterAssumption
<1> QED
  BY <1>1, AdapterAssumption
  DEF Idle, CallRecord, CallSound, PC, Outcome, Departed, Ahead

\* A step that replaces the record of one call by a sound one.
LEMMA CallMoves ==
  ASSUME CallsInv, NEW c \in Calls, NEW r \in CallRecord, CallSound(r),
         call' = [call EXCEPT ![c] = r]
  PROVE  /\ CallsInv'
         /\ call'[c] = r
         /\ \A d \in Calls \ {c} : call'[d] = call[d]
BY DEF CallsInv

\* Every return of the retry loops.
LEMMA ReturnKeeps ==
  ASSUME CallsInv, NEW c \in Calls, Return(c)
  PROVE  /\ CallsInv' /\ call'[c].pc = "idle"
         /\ \A d \in Calls \ {c} : call'[d] = call[d]
BY IdleSound, CallMoves DEF Return

\* A move along the loop between two places at which no attempt is under way.
LEMMA GotoKeeps ==
  ASSUME CallsInv, NEW c \in Calls, NEW p \in Ahead, call[c].pc \in Ahead, Goto(c, p)
  PROVE  /\ CallsInv' /\ call'[c].pc = p
         /\ \A d \in Calls \ {c} : call'[d] = call[d]
<1>1. PICK old \in CallRecord : old = call[c] /\ CallSound(old)
  BY DEF CallsInv
<1>2. PICK r : r = [old EXCEPT !.pc = p]
  OBVIOUS
<1>3. r \in CallRecord /\ CallSound(r) /\ r.pc = p
  BY <1>1, <1>2 DEF CallRecord, CallSound, PC, Ahead, Departed
<1>4. call' = [call EXCEPT ![c] = r]
  BY <1>1, <1>2 DEF Goto, CallsInv
<1> QED
  BY <1>3, <1>4, CallMoves

-----------------------------------------------------------------------------
(* The actions of one call.                                                *)

\* handleRoutes / handleSuggest start a call with its whole budget left.
LEMMA ArriveKeeps ==
  ASSUME AdapterInv, NEW c \in Calls, Arrive(c)
  PROVE  AdapterInv'
<1>1. PICK e \in Endpoints :
        \E budget \in IF e \in Budgeted THEN 1..MaxBudget ELSE {1} : Begin(c, e, budget)
  BY DEF Arrive
<1>2. PICK budget \in 1..MaxBudget : Begin(c, e, budget)
  BY <1>1, AdapterAssumption
<1>3. PICK r : r = [Idle EXCEPT !.pc = "head", !.endpoint = e,
                                !.granted = budget, !.remaining = budget]
  OBVIOUS
<1>4. r = [pc |-> "head", endpoint |-> e, attempt |-> 0, granted |-> budget,
           remaining |-> budget, sent |-> 0, wait |-> 0, outcome |-> "ok"]
  BY <1>3 DEF Idle
<1>5. /\ r \in CallRecord /\ CallSound(r) /\ r.pc = "head"
      /\ call' = [call EXCEPT ![c] = r]
  <2>1. r \in CallRecord /\ CallSound(r) /\ r.pc = "head"
    BY <1>4, AdapterAssumption DEF CallRecord, CallSound, PC, Outcome, Ahead, Departed
  <2>2. call' = [call EXCEPT ![c] = r]
    BY <1>2, <1>3 DEF Begin
  <2> QED
    BY <2>1, <2>2
<1>6. /\ CallsInv' /\ call'[c] = r
      /\ \A d \in Calls \ {c} : call'[d] = call[d]
  BY <1>5, CallMoves DEF AdapterInv
<1>7. BulkheadInv'
  BY <1>2, <1>5, <1>6, SlotKept DEF Begin, AdapterInv
<1> QED
  BY <1>2, <1>6, <1>7 DEF Begin, AdapterInv, BreakerInv, TimerInv

\* waitForProviderCooldown: the wait is the cooldown of the moment.
LEMMA CheckCooldownKeeps ==
  ASSUME AdapterInv, NEW c \in Calls, CheckCooldown(c)
  PROVE  AdapterInv'
<1>1. PICK old \in CallRecord : old = call[c] /\ CallSound(old)
  BY DEF AdapterInv, CallsInv
<1>2. PICK p \in {"cooling", "allow"} : p = IF cooldown > 0 THEN "cooling" ELSE "allow"
  OBVIOUS
<1>3. PICK r : r = [old EXCEPT !.pc = p, !.wait = cooldown]
  OBVIOUS
<1>4. r = [pc |-> p, endpoint |-> old.endpoint, attempt |-> old.attempt,
           granted |-> old.granted, remaining |-> old.remaining, sent |-> old.sent,
           wait |-> cooldown, outcome |-> old.outcome]
  BY <1>3 DEF CallRecord
<1>5. cooldown \in 0..MaxCooldown /\ old.pc = "head"
  BY <1>1 DEF AdapterInv, TimerInv, CheckCooldown
<1>6. r \in CallRecord /\ CallSound(r) /\ r.pc = p
  BY <1>1, <1>4, <1>5 DEF CallRecord, CallSound, PC, Ahead, Departed
<1>7. call' = [call EXCEPT ![c] = r]
  BY <1>1, <1>2, <1>3 DEF CheckCooldown, AdapterInv, CallsInv
<1>8. /\ CallsInv' /\ call'[c] = r
      /\ \A d \in Calls \ {c} : call'[d] = call[d]
  BY <1>6, <1>7, CallMoves DEF AdapterInv
<1>9. BulkheadInv'
  BY <1>6, <1>8, SlotKept DEF CheckCooldown, AdapterInv
<1> QED
  BY <1>8, <1>9 DEF CheckCooldown, AdapterInv, BreakerInv, TimerInv

\* The moves that touch nothing but the place in the loop.
LEMMA PlainMoveKeeps ==
  ASSUME AdapterInv, NEW c \in Calls, Wake(c) \/ BackoffOver(c)
  PROVE  AdapterInv'
<1>1. PICK p \in {"allow", "head"} : Goto(c, p) /\ call[c].pc \in {"cooling", "backoff"}
  BY DEF Wake, BackoffOver
<1>2. /\ CallsInv' /\ call'[c].pc = p
      /\ \A d \in Calls \ {c} : call'[d] = call[d]
  BY <1>1, GotoKeeps DEF AdapterInv, Ahead
<1>3. UNCHANGED <<breaker, slots, cooldown, window>>
  BY DEF Wake, BackoffOver
<1>4. BulkheadInv'
  BY <1>1, <1>2, <1>3, SlotKept DEF AdapterInv
<1> QED
  BY <1>2, <1>3, <1>4 DEF AdapterInv, BreakerInv, TimerInv

\* The returns of a call that holds no slot and tells the breaker nothing.
LEMMA PlainReturnKeeps ==
  ASSUME AdapterInv, NEW c \in Calls,
         Interrupted(c) \/ CircuitOpen(c) \/ BulkheadFull(c) \/ SettleFatal(c)
  PROVE  AdapterInv'
<1>1. /\ Return(c) /\ call[c].pc \in {"cooling", "acquire", "backoff", "allow", "settle"}
      /\ UNCHANGED <<breaker, slots, cooldown, window>>
  BY DEF Interrupted, CircuitOpen, BulkheadFull, SettleFatal
<1>2. /\ CallsInv' /\ call'[c].pc = "idle"
      /\ \A d \in Calls \ {c} : call'[d] = call[d]
  BY <1>1, ReturnKeeps DEF AdapterInv
<1>3. BulkheadInv'
  BY <1>1, <1>2, SlotKept DEF AdapterInv
<1> QED
  BY <1>1, <1>2, <1>3 DEF AdapterInv, BreakerInv, TimerInv

\* circuitBreaker.Allow lets the call through.
LEMMA AllowKeeps ==
  ASSUME AdapterInv, NEW c \in Calls, Allow(c)
  PROVE  AdapterInv'
<1> DEFINE e == call[c].endpoint
<1>1. e \in Endpoints
  BY DEF AdapterInv, CallsInv, CallRecord
<1>2. /\ CallsInv' /\ call'[c].pc = "acquire"
      /\ \A d \in Calls \ {c} : call'[d] = call[d]
  BY GotoKeeps DEF Allow, AdapterInv, Ahead
<1>3. BulkheadInv'
  BY <1>2, SlotKept DEF Allow, AdapterInv
<1>4. BreakerInv'
  BY <1>1, AllowSound, BreakerMoves DEF Allow, AdapterInv
<1> QED
  BY <1>2, <1>3, <1>4 DEF Allow, AdapterInv, TimerInv

\* bulkhead.Acquire succeeds.
LEMMA AcquireKeeps ==
  ASSUME AdapterInv, NEW c \in Calls, Acquire(c)
  PROVE  AdapterInv'
<1>1. /\ CallsInv' /\ call'[c].pc = "gate"
      /\ \A d \in Calls \ {c} : call'[d] = call[d]
  BY GotoKeeps DEF Acquire, AdapterInv, Ahead
<1>2. BulkheadInv'
  BY <1>1, SlotTaken DEF Acquire, AdapterInv
<1> QED
  BY <1>1, <1>2 DEF Acquire, AdapterInv, BreakerInv, TimerInv

\* The quota gate refuses: the slot is released on this path too.
LEMMA RateGateFullKeeps ==
  ASSUME AdapterInv, NEW c \in Calls, RateGateFull(c)
  PROVE  AdapterInv'
<1>1. /\ CallsInv' /\ call'[c].pc = "idle"
      /\ \A d \in Calls \ {c} : call'[d] = call[d]
  BY ReturnKeeps DEF RateGateFull, AdapterInv
<1>2. BulkheadInv'
  BY <1>1, SlotReturned DEF RateGateFull, AdapterInv
<1> QED
  BY <1>1, <1>2 DEF RateGateFull, AdapterInv, BreakerInv, TimerInv

\* An attempt leaves: the budget pays for it, and the counter of attempts
\* shows that it is one of at most MaxRetries + 1.
LEMMA SendKeeps ==
  ASSUME AdapterInv, NEW c \in Calls, Send(c)
  PROVE  AdapterInv'
<1>1. PICK old \in CallRecord : old = call[c] /\ CallSound(old)
  BY DEF AdapterInv, CallsInv
<1>2. old.pc = "gate" /\ old.remaining > 0 /\ old.sent <= old.attempt
  BY <1>1 DEF Send, CallSound, Ahead, Departed
<1>3. PICK left \in 0..MaxBudget :
        /\ left = Spent(c)
        /\ old.endpoint \in Budgeted => left = old.remaining - 1
  BY <1>1, <1>2, AdapterAssumption DEF Spent, CallRecord
<1>4. /\ CapAt(MaxRetries + 2, old.sent + 1) = old.sent + 1
      /\ old.sent + 1 \in 0..(MaxRetries + 2)
  BY <1>2, AdapterAssumption DEF CapAt, CallRecord
<1>5. PICK r : r = [old EXCEPT !.pc = "flight", !.remaining = left, !.sent = old.sent + 1]
  OBVIOUS
<1>6. r = [pc |-> "flight", endpoint |-> old.endpoint, attempt |-> old.attempt,
           granted |-> old.granted, remaining |-> left, sent |-> old.sent + 1,
           wait |-> old.wait, outcome |-> old.outcome]
  BY <1>5 DEF CallRecord
<1>7. r \in CallRecord /\ r.pc = "flight"
  BY <1>4, <1>6 DEF CallRecord, PC
<1>8. CallSound(r)
  BY <1>1, <1>2, <1>3, <1>6, AdapterAssumption DEF CallSound, CallRecord, Ahead, Departed
<1>9. call' = [call EXCEPT ![c] = r]
  BY <1>1, <1>3, <1>4, <1>5 DEF Send, AdapterInv, CallsInv
<1>10. /\ CallsInv' /\ call'[c] = r
       /\ \A d \in Calls \ {c} : call'[d] = call[d]
  BY <1>7, <1>8, <1>9, CallMoves DEF AdapterInv
<1>11. BulkheadInv'
  BY <1>7, <1>10, SlotKept DEF Send, AdapterInv
<1>12. TimerInv'
  BY <1>1, AdapterAssumption DEF Send, AdapterInv, TimerInv, GateOpen, CallRecord
<1> QED
  BY <1>10, <1>11, <1>12 DEF Send, AdapterInv, BreakerInv

\* The attempt ends, whatever it brings, and its slot is released.
LEMMA RespondKeeps ==
  ASSUME AdapterInv, NEW c \in Calls, Respond(c)
  PROVE  AdapterInv'
<1>1. PICK old \in CallRecord : old = call[c] /\ CallSound(old)
  BY DEF AdapterInv, CallsInv
<1>2. PICK o \in Outcome : call' = [call EXCEPT ![c].pc = "settle", ![c].outcome = o]
  BY DEF Respond
<1>3. PICK r : r = [old EXCEPT !.pc = "settle", !.outcome = o]
  OBVIOUS
<1>4. r = [pc |-> "settle", endpoint |-> old.endpoint, attempt |-> old.attempt,
           granted |-> old.granted, remaining |-> old.remaining, sent |-> old.sent,
           wait |-> old.wait, outcome |-> o]
  BY <1>3 DEF CallRecord
<1>5. r \in CallRecord /\ CallSound(r) /\ r.pc = "settle"
  BY <1>1, <1>4 DEF Respond, CallRecord, CallSound, PC, Ahead, Departed
<1>6. call' = [call EXCEPT ![c] = r]
  BY <1>1, <1>2, <1>3 DEF AdapterInv, CallsInv
<1>7. /\ CallsInv' /\ call'[c] = r
      /\ \A d \in Calls \ {c} : call'[d] = call[d]
  BY <1>5, <1>6, CallMoves DEF AdapterInv
<1>8. BulkheadInv'
  BY <1>5, <1>7, SlotReturned DEF Respond, AdapterInv
<1> QED
  BY <1>7, <1>8 DEF Respond, AdapterInv, BreakerInv, TimerInv

\* The end of an attempt that may be tried again: the next one is counted
\* before it is made, and only begun with budget left for it.
LEMMA RetryOrReturnKeeps ==
  ASSUME AdapterInv, NEW c \in Calls, NEW p \in {"head", "backoff"},
         call[c].pc = "settle", RetryOrReturn(c, p), UNCHANGED slots
  PROVE  CallsInv' /\ BulkheadInv'
<1>1. CASE ~MayRetry(c)
  <2>1. /\ CallsInv' /\ call'[c].pc = "idle"
        /\ \A d \in Calls \ {c} : call'[d] = call[d]
    BY <1>1, ReturnKeeps DEF RetryOrReturn, AdapterInv
  <2> QED
    BY <2>1, SlotKept DEF AdapterInv
<1>2. CASE MayRetry(c)
  <2>1. PICK old \in CallRecord : old = call[c] /\ CallSound(old)
    BY DEF AdapterInv, CallsInv
  <2>2. PICK r : r = [old EXCEPT !.pc = p, !.attempt = old.attempt + 1, !.outcome = "ok"]
    OBVIOUS
  <2>3. r = [pc |-> p, endpoint |-> old.endpoint, attempt |-> old.attempt + 1,
             granted |-> old.granted, remaining |-> old.remaining, sent |-> old.sent,
             wait |-> old.wait, outcome |-> "ok"]
    BY <2>2 DEF CallRecord
  <2>4. old.attempt < MaxRetries /\ old.remaining > 0 /\ old.sent <= old.attempt + 1
    BY <1>2, <2>1 DEF MayRetry, CallSound, Departed
  <2>5. r \in CallRecord
    BY <2>3, <2>4, AdapterAssumption DEF CallRecord, PC, Outcome
  <2>6. CallSound(r) /\ r.pc = p
    BY <2>1, <2>3, <2>4 DEF CallRecord, CallSound, Ahead, Departed
  <2>7. call' = [call EXCEPT ![c] = r]
    BY <1>2, <2>1, <2>2 DEF RetryOrReturn, AdapterInv, CallsInv
  <2>8. /\ CallsInv' /\ call'[c] = r
        /\ \A d \in Calls \ {c} : call'[d] = call[d]
    BY <2>5, <2>6, <2>7, CallMoves DEF AdapterInv
  <2> QED
    BY <2>6, <2>8, SlotKept DEF AdapterInv
<1> QED
  BY <1>1, <1>2

\* A success closes the breaker and returns.
LEMMA SettleOkKeeps ==
  ASSUME AdapterInv, NEW c \in Calls, SettleOk(c)
  PROVE  AdapterInv'
<1>1. call[c].endpoint \in Endpoints
  BY DEF AdapterInv, CallsInv, CallRecord
<1>2. /\ CallsInv' /\ call'[c].pc = "idle"
      /\ \A d \in Calls \ {c} : call'[d] = call[d]
  BY ReturnKeeps DEF SettleOk, AdapterInv
<1>3. BulkheadInv'
  BY <1>2, SlotKept DEF SettleOk, AdapterInv
<1>4. BreakerInv'
  BY <1>1, ClosedSound, BreakerMoves DEF SettleOk, AfterSuccess, AdapterInv
<1> QED
  BY <1>2, <1>3, <1>4 DEF SettleOk, AdapterInv, TimerInv

\* A 429 only ever lengthens the cooldown.
LEMMA SettleRateLimitedKeeps ==
  ASSUME AdapterInv, NEW c \in Calls, SettleRateLimited(c)
  PROVE  AdapterInv'
<1>1. CallsInv' /\ BulkheadInv'
  BY RetryOrReturnKeeps DEF SettleRateLimited
<1>2. cooldown' \in 0..MaxCooldown
  BY AdapterAssumption DEF SettleRateLimited, AdapterInv, TimerInv
<1> QED
  BY <1>1, <1>2 DEF SettleRateLimited, AdapterInv, BreakerInv, TimerInv

\* A retryable failure is counted by the breaker, in whatever state it is.
LEMMA SettleRetryableKeeps ==
  ASSUME AdapterInv, NEW c \in Calls, SettleRetryable(c)
  PROVE  AdapterInv'
<1>1. CallsInv' /\ BulkheadInv'
  BY RetryOrReturnKeeps DEF SettleRetryable
<1>2. call[c].endpoint \in Endpoints
  BY DEF AdapterInv, CallsInv, CallRecord
<1>3. BreakerInv'
  BY <1>2, FailureSound, BreakerMoves DEF SettleRetryable, AdapterInv
<1> QED
  BY <1>1, <1>3 DEF SettleRetryable, AdapterInv, TimerInv

\* Every step of one call.
LEMMA CallStepKeeps ==
  ASSUME AdapterInv, NEW c \in Calls, CallStep(c)
  PROVE  AdapterInv'
BY CheckCooldownKeeps, PlainMoveKeeps, PlainReturnKeeps, AllowKeeps, AcquireKeeps,
   RateGateFullKeeps, SendKeeps, RespondKeeps, SettleOkKeeps, SettleRateLimitedKeeps,
   SettleRetryableKeeps
DEF CallStep

-----------------------------------------------------------------------------
(* Time.                                                                   *)

\* Timers run down to zero and stay there.
LEMMA LessTyped ==
  ASSUME NEW m \in Nat, NEW n \in 0..m
  PROVE  Less(n) \in 0..m
BY DEF Less

\* A tick moves timers and nothing else.
LEMMA TickKeeps ==
  ASSUME AdapterInv, Tick
  PROVE  AdapterInv'
<1>1. BreakerInv'
  <2> SUFFICES ASSUME NEW e \in Endpoints
               PROVE  breaker'[e] \in BreakerRecord /\ BreakerSound(breaker'[e])
    BY DEF Tick, BreakerInv
  <2>1. PICK b \in BreakerRecord : b = breaker[e] /\ BreakerSound(b)
    BY DEF AdapterInv, BreakerInv
  <2>2. Less(b.openLeft) \in 0..OpenFor
    BY <2>1, LessTyped, AdapterAssumption DEF BreakerRecord
  <2>3. breaker'[e] = [b EXCEPT !.openLeft = Less(b.openLeft)]
    BY <2>1 DEF Tick
  <2> QED
    BY <2>1, <2>2, <2>3 DEF BreakerRecord, BreakerSound
<1>2. \A c \in Calls : /\ call'[c] \in CallRecord /\ CallSound(call'[c])
                       /\ call'[c].pc = call[c].pc
  <2> TAKE c \in Calls
  <2>1. PICK old \in CallRecord : old = call[c] /\ CallSound(old)
    BY DEF AdapterInv, CallsInv
  <2>2. Less(old.wait) \in 0..MaxCooldown
    BY <2>1, LessTyped, AdapterAssumption DEF CallRecord
  <2>3. call'[c] = [old EXCEPT !.wait = Less(old.wait)]
    BY <2>1 DEF Tick
  <2> QED
    BY <2>1, <2>2, <2>3 DEF CallRecord, CallSound
<1>3. CallsInv'
  BY <1>2 DEF Tick, CallsInv
<1>4. BulkheadInv'
  BY <1>2, SlotKept DEF Tick, AdapterInv
<1>5. TimerInv'
  BY LessTyped, AdapterAssumption DEF Tick, AdapterInv, TimerInv
<1> QED
  BY <1>1, <1>3, <1>4, <1>5 DEF AdapterInv

\* The oldest attempt leaves the rolling window of one gate.
LEMMA WindowSlidesKeeps ==
  ASSUME AdapterInv, NEW e \in Endpoints, WindowSlides(e)
  PROVE  AdapterInv'
<1>1. TimerInv'
  BY AdapterAssumption DEF WindowSlides, AdapterInv, TimerInv
<1>2. CallsInv' /\ BreakerInv'
  BY DEF WindowSlides, AdapterInv, CallsInv, BreakerInv
<1>3. BulkheadInv'
  BY SlotKept DEF WindowSlides, AdapterInv
<1> QED
  BY <1>1, <1>2, <1>3 DEF AdapterInv

-----------------------------------------------------------------------------
(* The invariant and what follows from it.                                 *)

\* A fresh adapter: nobody calls, every breaker is closed.
LEMMA AdapterInit == Init => AdapterInv
<1> SUFFICES ASSUME Init PROVE AdapterInv
  OBVIOUS
<1>1. CallsInv /\ \A c \in Calls : call[c].pc = "idle"
  BY IdleSound DEF Init, CallsInv
<1>2. BreakerInv
  BY ClosedSound DEF Init, BreakerInv
<1>3. Holders = {}
  BY <1>1 DEF Holders
<1>4. BulkheadInv
  BY <1>3, FS_EmptySet, AdapterAssumption DEF Init, BulkheadInv, BulkheadExact
<1>5. TimerInv
  BY AdapterAssumption DEF Init, TimerInv
<1> QED
  BY <1>1, <1>2, <1>4, <1>5 DEF AdapterInv

\* The four invariants of the adapter follow from the inductive one.
LEMMA AdapterInvImplies ==
  AdapterInv => TypeOK /\ BulkheadExact /\ EgressWithinGrant /\ SingleProbe
<1> SUFFICES ASSUME AdapterInv PROVE TypeOK /\ BulkheadExact /\ EgressWithinGrant /\ SingleProbe
  OBVIOUS
<1>1. TypeOK
  <2>1. slots \in 0..MaxConcurrency
    BY AdapterAssumption DEF AdapterInv, BulkheadInv, BulkheadExact
  <2> QED
    BY <2>1 DEF AdapterInv, TypeOK, CallsInv, CallRecord, BreakerInv, BreakerRecord,
                BreakerSound, TimerInv
<1>2. EgressWithinGrant
  <2> SUFFICES ASSUME NEW c \in Calls
               PROVE  /\ call[c].endpoint \in Budgeted =>
                           call[c].sent + call[c].remaining = call[c].granted
                      /\ call[c].sent <= MaxRetries + 1
    BY DEF EgressWithinGrant
  <2>1. PICK r \in CallRecord : r = call[c] /\ CallSound(r)
    BY DEF AdapterInv, CallsInv
  <2> QED
    BY <2>1, AdapterAssumption DEF CallSound, CallRecord
<1>3. SingleProbe
  BY DEF AdapterInv, BreakerInv, BreakerSound, SingleProbe
<1> QED
  BY <1>1, <1>2, <1>3 DEF AdapterInv, BulkheadInv

\* The inductive invariant holds of every behaviour of the adapter.
THEOREM AdapterInvariant == Spec => []AdapterInv
<1>1. AdapterInv /\ [Next]_vars => AdapterInv'
  <2> SUFFICES ASSUME AdapterInv, [Next]_vars PROVE AdapterInv'
    OBVIOUS
  <2>1. CASE UNCHANGED vars
    <3>1. CallsInv' /\ BreakerInv' /\ TimerInv'
      BY <2>1 DEF vars, AdapterInv, CallsInv, BreakerInv, TimerInv
    <3>2. BulkheadInv'
      BY <2>1, SlotKept DEF vars, AdapterInv
    <3> QED
      BY <3>1, <3>2 DEF AdapterInv
  <2> QED
    BY <2>1, ArriveKeeps, CallStepKeeps, WindowSlidesKeeps, TickKeeps DEF Next
<1> QED
  BY <1>1, AdapterInit, PTL DEF Spec

\* The variables of resilience.go and the retry loops keep their ranges: the
\* quota window and the slots their limits, a closed breaker its threshold.
THEOREM AdapterTypeCorrect == Spec => []TypeOK
BY AdapterInvariant, AdapterInvImplies, PTL

\* No path through the four retry loops leaks a slot of the bulkhead or
\* releases it twice, however many calls run side by side.
THEOREM BulkheadSafe == Spec => []BulkheadExact
BY AdapterInvariant, AdapterInvImplies, PTL

\* ADR-002: no call sends more attempts than its budget grants, nor more than
\* MaxRetries + 1, however its retries interleave with those of others.
THEOREM EgressWithinGrantSafe == Spec => []EgressWithinGrant
BY AdapterInvariant, AdapterInvImplies, PTL

\* A half-open breaker has admitted exactly one probe, whatever late answers
\* of earlier calls have done to it in the meantime.
THEOREM SingleProbeSafe == Spec => []SingleProbe
BY AdapterInvariant, AdapterInvImplies, PTL
=============================================================================
