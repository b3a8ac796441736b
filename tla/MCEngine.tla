------------------------------ MODULE MCEngine ------------------------------
(***************************************************************************)
(* The orchestrator and its provider in four instances checked side by     *)
(* side: what a search computes (GreenSearch), which detours it asks for   *)
(* (DetourLadder), what its calls may spend (RequestBudget), and whether   *)
(* the two are in service at all (ServingChain).  A behaviour is of one of *)
(* them.                                                                   *)
(***************************************************************************)
EXTENDS GreenSearch, DetourLadder, RequestBudget, ServingChain

\* Six routes: a toll road, a slow green one, a quick congested one, a near
\* duplicate of both of the latter, one nothing is known of and one that ends
\* elsewhere.
R(id, shape, duration, distance, green, red) ==
  [id |-> id, shape |-> shape, duration |-> duration, distance |-> distance, green |-> green,
   red |-> red, unknown |-> 0, observed |-> TRUE, trusted |-> TRUE, complete |-> TRUE,
   toll |-> FALSE, sameTrip |-> TRUE]

MCRoutes ==
  { [R(1, 1, 3, 110, 2, 1) EXCEPT !.toll = TRUE],
    [R(2, 3, 4, 112, 4, 0) EXCEPT !.complete = FALSE],
    R(3, 5, 2, 100, 1, 0),
    [R(4, 4, 3, 106, 3, 0) EXCEPT !.complete = FALSE],
    [R(5, 7, 3, 115, 3, 0) EXCEPT !.observed = FALSE],
    [R(6, 9, 1, 90, 0, 1) EXCEPT !.sameTrip = FALSE] }

\* With tolls allowed, with and without a percentage, which is then the tightest
\* limit.
MCSearches ==
  {[mode |-> mode, avoidTolls |-> limits[1], extraTime |-> 1, extraDistance |-> 20,
    extraPercent |-> limits[2]] :
     mode \in {"FASTEST", "GREENEST", "STRICT_GREEN"},
     limits \in {<<FALSE, 0>>, <<FALSE, 10>>, <<TRUE, 10>>}}

\* Kilometres of road, with the congestion of each.
Road(severities) ==
  [i \in 1..Len(severities) |->
     [from |-> 1000 * (i - 1), to |-> 1000 * i, severity |-> severities[i],
      lost |-> IF severities[i] = 3 THEN 60 ELSE 0]]

Green(n) == [i \in 1..n |-> 0]

\* A jam in every other kilometre, more of them than a question may forbid; a
\* long jam from the origin on; two short ones; a yellow tail.
MCCandidates ==
  << Road([i \in 1..24 |-> IF i = 21 THEN 2 ELSE IF i % 2 = 1 THEN 3 ELSE 0]),
     Road(<<3, 3, 3, 1, 0, 0, 0, 2, 2, 3, 2, 2, 2, 2>>),
     Road(Green(11) \o <<3>> \o Green(8) \o <<3>>),
     Road(Green(20) \o <<1, 1, 1, 1>>) >>

\* Ten points a question: two, one or no anchors besides the waypoints.
MCSettings ==
  {[zones |-> zones, anchors |-> anchors, maxWaypoints |-> 10, waypoints |-> waypoints,
    extra |-> extra, strict |-> extra = 1000] :
     zones \in BOOLEAN, anchors \in BOOLEAN, waypoints \in {6, 7, 8}, extra \in {1000, 30000}}

VARIABLE aspect  \* the instance this behaviour is of

engineVars == <<aspect, vars, runVars, ladderVars, chainVars>>

OnResult(A) == A /\ UNCHANGED <<aspect, vars, ladderVars, chainVars>>
OnLadder(A) == A /\ UNCHANGED <<aspect, vars, runVars, chainVars>>
OnBudget(A) == A /\ UNCHANGED <<aspect, runVars, ladderVars, chainVars>>
AtChain(A)  == aspect = "chain" /\ A /\ UNCHANGED <<aspect, vars, runVars, ladderVars>>

\* What an aspect not looked at starts with makes no difference.
EngineInit ==
  /\ aspect \in {"result", "ladder", "budget", "chain"}
  /\ Init /\ RunInit /\ LadderInit /\ ChainInit
  /\ aspect # "chain" => rotation = Process /\ resolver = CHOOSE r \in Resolvers : TRUE
  /\ aspect # "result" => request = CHOOSE r \in Searches : TRUE
  /\ aspect # "ladder" => setting = (CHOOSE s \in Settings : TRUE) /\ known = {4}

ResultNext ==
  /\ aspect = "result"
  /\ \/ OnResult(InitialUnavailable)
     \/ \E answer \in Answers(MaxActive) : OnResult(InitialAnswered(answer))
     \/ \E evaluation \in Evaluations(pool, remaining) : OnResult(EvaluateInitial(evaluation))
     \/ OnResult(Panic)
     \/ \E answer \in Answers(MaxActive - Cardinality(pool)), cost \in Charges :
          OnResult(TollFreeAnswered(answer, cost)) \/ OnResult(ProbeAnswered(answer, cost))
     \/ OnResult(TollFreeFailed) \/ OnResult(TollFreeSkipped)
     \/ OnResult(ProbeFailed) \/ OnResult(EnhanceEnds)

DetourNext ==
  /\ aspect = "ladder"
  /\ \/ OnLadder(AskNext) \/ OnLadder(QuestionRejected) \/ OnLadder(QuestionUnroutable)
     \/ OnLadder(QuestionFailed) \/ OnLadder(LadderEnds)
     \/ \E kept \in SUBSET DOMAIN Candidates : OnLadder(QuestionAnswered(kept))

SpendingNext ==
  /\ aspect = "budget"
  /\ \E c \in Calls :
       \/ OnBudget(Lease(c)) \/ OnBudget(LeaseRefused(c))
       \/ OnBudget(RouteSucceeded(c)) \/ OnBudget(RouteFailed(c)) \/ OnBudget(RoutePanicked(c))
       \/ OnBudget(Deliver(c)) \/ OnBudget(Attempt(c)) \/ OnBudget(Answer(c))
       \/ OnBudget(GiveUp(c))

ServiceNext ==
  \/ \E p \in Process : AtChain(ProbeReadiness(p))
  \/ AtChain(RefreshCapabilities)
  \/ \E outcome \in Outcome :
       \/ AtChain(CallRouter(outcome)) \/ AtChain(SuggestPrimary(outcome))
       \/ AtChain(SuggestFallback(outcome))
  \/ AtChain(SuggestBegins) \/ AtChain(SuggestEnds)
  \/ \E u \in Upstream : AtChain(Elapse(u))
  \/ \E d \in DOMAIN world : \/ AtChain(Mends(d))
                            \/ \E how \in {"down", "denied"} : AtChain(Breaks(d, how))
  \/ AtChain(RestartAdapter)

\* The fairness of ServingChain; the others are checked for safety only.
EngineFairness ==
  /\ \A p \in Process : WF_engineVars(AtChain(ProbeReadiness(p)))
  /\ WF_engineVars(AtChain(RefreshCapabilities))
  /\ \A u \in Upstream : WF_engineVars(AtChain(Elapse(u)))

EngineSpec ==
  /\ EngineInit
  /\ [][ResultNext \/ DetourNext \/ SpendingNext \/ ServiceNext]_engineVars
  /\ EngineFairness

\* The variables of all four components keep their types.  Part of that are the
\* candidates within MaxActiveCandidates and the spending within the budget
\* (enhance), a label tried once per probe (nextUntriedPlan), and breakers that
\* are closed below their threshold and only there (circuitBreaker).
EngineTypeOK == TypeOK /\ GreenTypeOK /\ LadderTypeOK /\ ChainTypeOK
=============================================================================
