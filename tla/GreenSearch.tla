---------------------------- MODULE GreenSearch ----------------------------
(***************************************************************************)
(* What one route search computes: run, evaluateAll, enhance and           *)
(* topGreenRoutes (services/routing-orchestrator/engine.go) with the       *)
(* constraints and the ranking of internal/scoring and the deduplication of*)
(* internal/geometry.                                                      *)
(*                                                                         *)
(* The provider answers every question with some routes of the constant    *)
(* Routes.  A route carries what the provider reports of it and the traffic*)
(* evidence evaluation finds on it, as whole seconds of green, red and     *)
(* unknown driving; the rest of its duration is yellow or orange.  The     *)
(* shapes of two routes overlap when they are neighbours, which, like the  *)
(* overlap test of the code, is no equivalence.  BALANCED, whose score is a*)
(* product of real numbers, is not modelled; blocked and unpaved roads are *)
(* rejected as tolls are and left out.                                     *)
(***************************************************************************)
EXTENDS Integers, FiniteSets, Sequences, FiniteSetsExt

CONSTANTS
  Routes,         \* what the provider can return
  Searches,       \* the requests: mode, avoidTolls and the three limits
  NoRoute,        \* a nil *RouteCandidate
  ExtraPenalty,   \* GreenestExtraTimePenalty, weighted with the strictness
  MaxActive,      \* cfg.MaxActiveCandidates
  MaxIterations,  \* cfg.MaxEnhancedIterations
  Budget,         \* request.MaxProviderRequests
  MaxAnswer       \* bound: routes in one answer

LeaseAsked == 2     \* what routeWithBudget asks for
TopCount == 3  \* greenTopRouteCount and the length of BestEffort

Route == [id: Nat, shape: Int, duration: Nat \ {0}, distance: Nat \ {0}, green: Nat, red: Nat,
          unknown: Nat, observed: BOOLEAN, trusted: BOOLEAN, complete: BOOLEAN, toll: BOOLEAN,
          sameTrip: BOOLEAN]
Search == [mode: {"FASTEST", "GREENEST", "STRICT_GREEN"}, avoidTolls: BOOLEAN,
           extraTime: Nat, extraDistance: Nat, extraPercent: Nat]

\* A candidate ID is a hash of what the provider reports.
ASSUME GreenAssumption ==
  /\ Routes \subseteq Route /\ IsFiniteSet(Routes)
  /\ \A r \in Routes : r.green + r.red + r.unknown <= r.duration
  /\ \A r, s \in Routes : r.id = s.id => r = s
  /\ Searches \subseteq Search
  /\ NoRoute \notin Route
  /\ {ExtraPenalty, MaxIterations} \subseteq Nat
  /\ {MaxActive, Budget, MaxAnswer} \subseteq Nat \ {0}

VARIABLES
  pc,         \* where run and enhance are
  request,    \* the request searched for
  pool,       \* candidates
  remaining,  \* the budget left
  iteration,  \* of enhance's loop
  errors,     \* consecutiveErrors
  result,     \* run's result
  draft       \* enhance's own copy of it, returned at its end

runVars == <<pc, request, pool, remaining, iteration, errors, result, draft>>

PC == {"initial", "evaluate", "tollFree", "probe", "done"}
Status == {"SEARCHING", "COMPLETED", "DEGRADED", "FAILED"}

NoResult == [status |-> "SEARCHING", fastest |-> NoRoute, selected |-> NoRoute,
             alternatives |-> {}, bestEffort |-> {}, greenTop |-> {}]

RunInit ==
  /\ pc = "initial"
  /\ request \in Searches
  /\ pool = {}
  /\ remaining = Budget
  /\ iteration = 0
  /\ errors = 0
  /\ result = NoResult
  /\ draft = NoResult

-----------------------------------------------------------------------------
(* Orders: compareTuple over tuples that end in the candidate ID.          *)

Precedes(s, t) ==
  \E k \in DOMAIN s : s[k] < t[k] /\ \A j \in 1..(k - 1) : s[j] = t[j]

First(n, S, Key(_)) == {r \in S : Cardinality({q \in S : Precedes(Key(q), Key(r))}) < n}

Foremost(S, Key(_)) == CHOOSE r \in S : \A q \in S : ~Precedes(Key(q), Key(r))

Share(part, r) == (100 * part) \div r.duration

SpeedKey(r) == <<r.duration, r.id>>

Fastest(S) == Foremost(S, SpeedKey)

\* topGreenRoutes' order; the share of the distance is taken for that of the
\* duration.
GreenKey(r) == <<100 - Share(r.green, r), r.red, r.duration, r.id>>

\* compareBestEffortRoutes.
BestEffortKey(r) == <<100 - Share(r.green, r), Share(r.red, r), Share(r.unknown, r),
                      r.duration, r.distance, r.id>>

\* compareRoutes, per mode.
RankKey(r, fastest) ==
  CASE request.mode = "FASTEST" -> <<r.duration, r.distance, r.id>>
    [] request.mode = "STRICT_GREEN" ->
         <<Share(r.unknown, r), r.red, r.duration, r.distance, r.id>>
    [] request.mode = "GREENEST" ->
         <<Share(r.unknown, r), r.red + (r.duration - fastest.duration) * ExtraPenalty,
           r.duration, r.distance, r.id>>

\* OverlapRatio and HausdorffDistance find two polylines close to each other.
Overlap(r, s) == r.shape - s.shape \in -1..1

\* IsDuplicate: close, and of nearly the same length.
IsDuplicate(r, s) ==
  /\ Overlap(r, s)
  /\ \A a, b \in {r, s} : 100 * (a.distance - b.distance) <= 8 * Max({r.distance, s.distance})

\* Deduplicate: in the order of speed, IDs and position, a route stays unless
\* one that stays before it is a near duplicate.  old comes first in the slice.
Deduplicate(old, new) ==
  LET S == old \cup new
      Before(q, r) == Precedes(<<q.duration, q.id, IF q \in old THEN 0 ELSE 1>>,
                               <<r.duration, r.id, IF r \in old THEN 0 ELSE 1>>)
  IN CHOOSE kept \in SUBSET S :
       \A r \in S : r \in kept <=> ~\E q \in kept : Before(q, r) /\ IsDuplicate(q, r)

-----------------------------------------------------------------------------
(* Hard constraints and ranking (scoring.go).                              *)

WithinLimits(r, fastest) ==
  LET extra == r.distance - fastest.distance
  IN /\ extra <= request.extraDistance
     /\ request.extraPercent > 0 => 100 * extra <= request.extraPercent * fastest.distance
     /\ r.duration - fastest.duration <= request.extraTime

\* The confidence score of the route reaches MinimumRouteConfidence.
Confident(r) == r.trusted

ProvenNotRed(r) == r.observed /\ Confident(r) /\ r.red = 0

\* strictGreenEvidenceViolations finds nothing.
ProvenGreen(r) == r.observed /\ Confident(r) /\ r.green = r.duration

\* HardConstraintViolations finds nothing.
Allowed(r, fastest) ==
  /\ WithinLimits(r, fastest)
  /\ Confident(r)
  /\ request.mode = "STRICT_GREEN" => ProvenGreen(r)
  /\ request.avoidTolls => ~r.toll

AnyRejection(r) == request.mode = "STRICT_GREEN"

\* hasStrictGreenViolation: the rejections shown as best effort.
StrictRejection(r) == request.mode = "STRICT_GREEN" /\ ~ProvenGreen(r)

\* scoring.Rank over a pool that is not empty.
Rank(S) ==
  LET fastest  == Fastest(S)
      eligible == {r \in S : Allowed(r, fastest)}
      Key(r)   == RankKey(r, fastest)
  IN [eligible   |-> eligible,
      selected   |-> IF eligible = {} THEN NoRoute ELSE Foremost(eligible, Key),
      bestEffort |-> First(TopCount, {r \in S \ eligible : StrictRejection(r)}, BestEffortKey)]

GreenTop(S) == First(TopCount, {r \in S : r.observed}, GreenKey)

-----------------------------------------------------------------------------
(* Provider calls.                                                         *)

AnswersUnlimited(limit) == {S \in SUBSET Routes : Cardinality(S) <= MaxAnswer}

\* What sanitizeProviderCandidates leaves of an answer under a limit.
Answers(limit) == {S \in SUBSET Routes : Cardinality(S) <= Min({limit, MaxAnswer})}

\* routeWithBudget: an error costs the whole lease, an answer what it used.
Charges == 1..Min({LeaseAsked, remaining})
FailureCharge == Min({LeaseAsked, remaining})

\* Neither traffic classes nor a baseline for all of it came with the route.
NeedsBaseline(r) == ~r.complete

\* evaluateCandidate.  Without a baseline nothing is known of the route.
Evaluated(r, blind) ==
  IF blind \/ ~r.observed
  THEN [r EXCEPT !.green = 0, !.red = 0, !.unknown = r.duration, !.trusted = FALSE]
  ELSE r

\* evaluateAll: panics and the deadline drop routes; the ones that are not
\* complete ask for a baseline, in vain where the call fails or the budget
\* is used up.  left is what these calls may leave of the budget.
Evaluations(S, budget) ==
  LET calling == {r \in S : NeedsBaseline(r)}
      Outcome(dropped, blind) ==
        LET seen == calling \ (dropped \cup blind)
            used == IF seen = {} /\ blind # {} /\ budget > 0 THEN 1 ELSE Cardinality(seen)
        IN {[routes |-> {Evaluated(r, r \in blind) : r \in S \ dropped}, left |-> left] :
              left \in Max({0, budget - LeaseAsked * Cardinality(calling)})..(budget - used)}
  IN UNION {Outcome(dropped, blind) : dropped \in SUBSET S, blind \in SUBSET calling}

-----------------------------------------------------------------------------
(* run.                                                                    *)

\* The end of run: finish publishes what is known.
Publish(outcome) ==
  /\ result' = [outcome EXCEPT !.status =
                  IF outcome.selected = NoRoute THEN "DEGRADED" ELSE "COMPLETED"]
  /\ pc' = "done"

\* The first call failed, or nothing of its answer was valid.
InitialUnavailable ==
  /\ pc = "initial"
  /\ \E cost \in Charges : remaining' = remaining - cost
  /\ Publish(result)
  /\ UNCHANGED <<request, pool, iteration, errors, draft>>

InitialAnswered(answer) ==
  /\ pc = "initial"
  /\ answer # {}
  /\ \E cost \in Charges : remaining' = remaining - cost
  /\ pool' = Deduplicate({}, answer)
  /\ result' = [result EXCEPT !.fastest = Fastest(pool')]
  /\ pc' = "evaluate"
  /\ UNCHANGED <<request, iteration, errors, draft>>

AllGreen(r) == r.green = r.duration

\* shouldEnhance.
ShouldEnhance(selected) ==
  \/ request.mode = "GREENEST" /\ selected # NoRoute /\ ~AllGreen(selected)
  \/ request.mode = "STRICT_GREEN" /\ (selected = NoRoute \/ ~AllGreen(selected))

EvaluateInitial(evaluation) ==
  /\ pc = "evaluate"
  /\ remaining' = evaluation.left
  /\ pool' = evaluation.routes
  /\ IF evaluation.routes = {}
     THEN Publish(result) /\ UNCHANGED draft
     ELSE LET ranked == Rank(pool')
              first  == [result EXCEPT !.fastest = Fastest(pool'), !.selected = ranked.selected,
                           !.alternatives = ranked.eligible, !.bestEffort = ranked.bestEffort,
                           !.greenTop = GreenTop(pool')]
          IN IF ShouldEnhance(ranked.selected)
             THEN pc' = "tollFree" /\ result' = first /\ draft' = first
             ELSE Publish(first) /\ UNCHANGED draft
  /\ UNCHANGED <<request, iteration, errors>>

\* A recovered panic: what enhance had found is lost with its frame.
Panic ==
  /\ pc # "done"
  /\ pc' = "done"
  /\ result' = [result EXCEPT !.status = "FAILED", !.selected = NoRoute]
  /\ UNCHANGED <<request, pool, remaining, iteration, errors, draft>>

-----------------------------------------------------------------------------
(* enhance.                                                                *)

SameTrip(S) == {r \in S : r.sameTrip}

TollFreeWanted == ~request.avoidTolls /\ (\E r \in pool : r.toll) /\ remaining > 0

\* The toll-free question: its routes join the pool and the green top, and are
\* not ranked before the next probe is.
TollFreeAnswered(answer, cost) ==
  /\ pc = "tollFree"
  /\ TollFreeWanted
  /\ \E evaluation \in Evaluations(SameTrip(answer), remaining - cost) :
       /\ pool' = Deduplicate(pool, evaluation.routes)
       /\ remaining' = evaluation.left
  /\ draft' = [draft EXCEPT !.greenTop = GreenTop(pool')]
  /\ pc' = "probe"
  /\ UNCHANGED <<request, iteration, errors, result>>

TollFreeFailed ==
  /\ pc = "tollFree"
  /\ TollFreeWanted
  /\ remaining' = remaining - FailureCharge
  /\ pc' = "probe"
  /\ UNCHANGED <<request, pool, iteration, errors, result, draft>>

\* No toll to save, no budget, or the deadline has passed.
TollFreeSkipped ==
  /\ pc = "tollFree"
  /\ pc' = "probe"
  /\ UNCHANGED <<request, pool, remaining, iteration, errors, result, draft>>

\* The head of the loop, with a plan that is untried.
MayProbe ==
  /\ pc = "probe"
  /\ iteration < MaxIterations
  /\ errors < 2
  /\ remaining > 0
  /\ Cardinality(pool) < MaxActive

ProbeFailed ==
  /\ MayProbe
  /\ iteration' = iteration + 1
  /\ errors' = errors + 1
  /\ remaining' = remaining - FailureCharge
  /\ UNCHANGED <<pc, request, pool, result, draft>>

ImprovedKeepsReference(S) ==
  LET ranked == Rank(S)
      always == [draft EXCEPT !.bestEffort = ranked.bestEffort, !.greenTop = GreenTop(S)]
  IN IF ranked.selected = NoRoute THEN always
     ELSE [always EXCEPT !.selected = ranked.selected, !.alternatives = ranked.eligible]

\* What a probe makes of the result, its ranking being over the new pool.
Improved(S) ==
  LET ranked == Rank(S)
      always == [draft EXCEPT !.fastest = Fastest(S), !.bestEffort = ranked.bestEffort,
                   !.greenTop = GreenTop(S)]
  IN IF ranked.selected = NoRoute THEN always
     ELSE [always EXCEPT !.selected = ranked.selected, !.alternatives = ranked.eligible]

ProbeAnswered(answer, cost) ==
  /\ MayProbe
  /\ iteration' = iteration + 1
  /\ errors' = 0
  /\ IF SameTrip(answer) = {}
     THEN remaining' = remaining - cost /\ UNCHANGED <<pool, draft>>
     ELSE /\ \E evaluation \in Evaluations(SameTrip(answer), remaining - cost) :
               /\ pool' = Deduplicate(pool, evaluation.routes)
               /\ remaining' = evaluation.left
          /\ draft' = Improved(pool')
  /\ UNCHANGED <<pc, request, result>>

\* The loop ends at its guard, for want of a plan or at the deadline.
EnhanceEnds ==
  /\ pc = "probe"
  /\ Publish([draft EXCEPT !.greenTop = GreenTop(pool)])
  /\ UNCHANGED <<request, pool, remaining, iteration, errors, draft>>

RunNext ==
  \/ InitialUnavailable
  \/ \E answer \in Answers(MaxActive) : InitialAnswered(answer)
  \/ \E evaluation \in Evaluations(pool, remaining) : EvaluateInitial(evaluation)
  \/ Panic
  \/ \E answer \in Answers(MaxActive - Cardinality(pool)), cost \in Charges :
       TollFreeAnswered(answer, cost) \/ ProbeAnswered(answer, cost)
  \/ TollFreeFailed
  \/ TollFreeSkipped
  \/ ProbeFailed
  \/ EnhanceEnds

RunSpec == RunInit /\ [][RunNext]_runVars

-----------------------------------------------------------------------------
(* The edge's answer to what is published.                                 *)

Distinct(S) == \A r, s \in S : r.id = s.id => r = s

\* validateResult accepts the lists; each best-effort route carries a reason
\* why it is not strictly green.
ValidLists(r) ==
  /\ Cardinality(r.bestEffort) <= 3 /\ Distinct(r.bestEffort)
  /\ Cardinality(r.greenTop) <= 3 /\ Distinct(r.greenTop)
  /\ \A q \in r.bestEffort : ~(q.observed /\ q.trusted /\ q.green = q.duration)

\* validateResult accepts the selection.
ValidSelection(r) ==
  r.selected # NoRoute => \A q \in r.bestEffort : q.id # r.selected.id

-----------------------------------------------------------------------------
(* Properties.                                                             *)

Published(r) == ({r.selected} \cup r.alternatives \cup r.bestEffort) \ {NoRoute}

\* The variables of run and enhance keep their types, the budget is not
\* overspent, and sanitize's capacity keeps the pool within
\* MaxActiveCandidates, whatever deduplication does to it.
GreenTypeOK ==
  /\ pc \in PC
  /\ request \in Searches
  /\ \A r \in pool \cup Published(result) \cup Published(draft) : r \in Route
  /\ Cardinality(pool) <= MaxActive
  /\ remaining \in 0..Budget
  /\ iteration \in 0..MaxIterations
  /\ errors \in 0..2
  /\ result.status \in Status /\ draft.status \in Status

\* What run publishes passes the edge's validateResult, which refuses the
\* whole search otherwise: at most three best-effort and three green routes, no
\* ID twice, every best-effort route rejected for want of evidence, and none of
\* them the selected route, though that may come from an older ranking.  The
\* last holds while the selected route is a candidate: one that a faster near
\* duplicate displaced, and that a later probe brings back without its
\* evidence, is published as both.
EdgeAcceptsResult ==
  pc = "done" => /\ ValidLists(result)
                 /\ result.selected \in pool => ValidSelection(result)

\* STRICT_GREEN fails closed: whatever evaluations were lost and whichever
\* near duplicates replaced each other, a route that wins or is listed as an
\* alternative was observed green from end to end.
StrictGreenIsProven ==
  request.mode = "STRICT_GREEN" /\ result.status = "COMPLETED" =>
    \A r \in {result.selected} \cup result.alternatives :
      r.observed /\ r.trusted /\ r.green = r.duration

\* The parts of a result fit together, though reference, best effort and
\* selection may come from the rankings of different probes: the reference is
\* no slower than any route it is shown with, and the selected route is one of
\* the alternatives, which are there only with a selection.  A recovered panic
\* takes the selection and leaves the list.
ResultIsCoherent ==
  /\ \A r \in Published(result) : result.fastest.duration <= r.duration
  /\ result.status # "FAILED" =>
       IF result.selected = NoRoute THEN result.alternatives = {}
       ELSE result.selected \in result.alternatives

\* ARCHITECTURE.md:76: "Hard constraints исполняются до ranking. Маршрут за
\* лимитом не может победить независимо от score."  The published winner is
\* within the request's limits of the published fastest route.
WinnerWithinLimits ==
  result.status = "COMPLETED" => WithinLimits(result.selected, result.fastest)
=============================================================================
