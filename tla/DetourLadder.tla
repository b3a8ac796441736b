---------------------------- MODULE DetourLadder ----------------------------
(***************************************************************************)
(* Which questions enhance asks the provider                               *)
(* (services/routing-orchestrator/greensearch.go and the loop of engine.go):*)
(* the congestion of every candidate becomes clusters, the clusters a      *)
(* ladder of plans, and the first plan whose label is untried is asked.    *)
(* The provider's own limits (services/provider-yandex/validation.go)      *)
(* decide what it accepts.                                                 *)
(*                                                                         *)
(* Places are metres along the line from the origin, at 0, to the          *)
(* destination, at Span; a segment is the stretch between two of them, a   *)
(* zone a disc and an anchor a place with an offset to one side.  The poles*)
(* are left out, so every zone and every anchor is a valid place.  What    *)
(* ranking and the budget make of an answer is in GreenSearch.             *)
(***************************************************************************)
EXTENDS Integers, FiniteSets, Sequences, SequencesExt, FiniteSetsExt, TLC

CONSTANTS
  Candidates,           \* the routes there are, fastest first: sequences of segments
  Span,                 \* length of the trip
  Settings,             \* capabilities, configuration and request of a search
  MaxProbes,            \* cfg.MaxEnhancedIterations
  MaxPool,              \* cfg.MaxActiveCandidates
  MaxUnroutable,        \* bound: questions that have no route
  MaxOutages            \* bound: calls the provider fails

MinRadius      == 180
MaxRadius      == 2500
ZoneBuffer     == 160
MergeDistance  == 420
Protection     == 700
MaxZones       == 12
MaxLateral     == 25000
MinLateral     == 400
MinCorridor    == 3000
SafetyCap      == 8    \* avoid zones the adapter accepts

Segment == [from: 0..Span, to: 0..Span, severity: 0..3, lost: Nat]
Setting == [zones: BOOLEAN, anchors: BOOLEAN, maxWaypoints: 2..50, waypoints: 0..16,
            extra: Nat, strict: BOOLEAN]

ASSUME LadderAssumption ==
  /\ Span \in Nat
  /\ Candidates \in Seq(Seq({s \in Segment : s.from < s.to}))
  /\ Settings \subseteq Setting
  /\ {MaxProbes, MaxPool, MaxUnroutable, MaxOutages} \subseteq Nat

VARIABLES
  setting,     \* of this search
  known,       \* candidates: positions in Candidates
  tried,       \* labels asked so far
  question,    \* the plan asked last
  probe,       \* pc of the loop: "choose", "asked", "ended" or "stopped" early
  probes,      \* iteration
  inARow,      \* consecutiveErrors
  unroutable,  \* questions that had no route
  outages      \* calls the provider failed

ladderVars == <<setting, known, tried, question, probe, probes, inARow, unroutable, outages>>

NoQuestion == [label |-> <<"NONE", 0, 0>>, zones |-> <<>>, anchors |-> <<>>]

LadderInit ==
  /\ setting \in Settings
  /\ known \in (SUBSET DOMAIN Candidates) \ {{}}
  /\ Cardinality(known) <= MaxPool
  /\ tried = {}
  /\ question = NoQuestion
  /\ probe = "choose"
  /\ probes = 0
  /\ inARow = 0
  /\ unroutable = 0
  /\ outages = 0

-----------------------------------------------------------------------------
(* Lists.                                                                  *)

Total(f) ==
  LET sum[n \in 0..Len(f)] == IF n = 0 THEN 0 ELSE sum[n - 1] + f[n]
  IN sum[Len(f)]

\* What s has at the positions S.
Those(s, S) ==
  LET kept[n \in 0..Len(s)] == IF n = 0 THEN <<>>
                               ELSE IF n \in S THEN Append(kept[n - 1], s[n]) ELSE kept[n - 1]
  IN kept[Len(s)]

-----------------------------------------------------------------------------
(* Clusters of congestion.                                                 *)

Distance(a, b) == IF a < b THEN b - a ELSE a - b

Clamp(low, x, high) == Max({low, Min({x, high})})

Congested(route, i) == i \in DOMAIN route /\ route[i].severity >= 1

\* The segments i..j as one cluster (newCluster).  Two points per segment, the
\* middle one of them is the centre.
NewCluster(route, i, j) ==
  LET points   == [p \in 0..(2 * (j - i) + 1) |-> LET segment == route[i + p \div 2]
                                                  IN IF p % 2 = 0 THEN segment.from ELSE segment.to]
      centre   == points[j - i + 1]
      severity == Max({route[k].severity : k \in i..j})
      length   == Total([k \in 1..(j - i + 1) |-> route[i + k - 1].to - route[i + k - 1].from])
      lost     == Total([k \in 1..(j - i + 1) |-> route[i + k - 1].lost])
  IN [centre   |-> centre,
      radius   |-> Clamp(MinRadius, Max({Distance(centre, points[p]) : p \in DOMAIN points}), MaxRadius),
      severity |-> severity,
      weight   |-> severity * 10000 + length + lost * 20]

\* One cluster per run of congested segments (candidateClusters).
CandidateClusters(route) ==
  LET starts == Those([i \in DOMAIN route |-> i],
                      {i \in DOMAIN route : Congested(route, i) /\ ~Congested(route, i - 1)})
      End(i) == CHOOSE j \in i..Len(route) : /\ \A k \in i..j : Congested(route, k)
                                             /\ ~Congested(route, j + 1)
  IN [n \in DOMAIN starts |-> NewCluster(route, starts[n], End(starts[n]))]

Absorb(m, c) ==
  [m EXCEPT !.radius = Min({MaxRadius, Max({@, c.radius})}), !.severity = Max({@, c.severity}),
            !.weight = Max({@, c.weight})]

\* A cluster joins the first one it is close to.
Join(merged, c) ==
  LET close == {n \in DOMAIN merged : Distance(merged[n].centre, c.centre)
                                        <= Max({MergeDistance, merged[n].radius})}
  IN IF close = {} THEN Append(merged, c) ELSE [merged EXCEPT ![Min(close)] = Absorb(@, c)]

\* mergeClusters.
Merge(clusters) ==
  LET merged[n \in 0..Len(clusters)] == IF n = 0 THEN <<>> ELSE Join(merged[n - 1], clusters[n])
  IN merged[Len(clusters)]

ClustersOf == [i \in DOMAIN Candidates |-> CandidateClusters(Candidates[i])]

Observed == FlattenSeq([i \in DOMAIN Candidates |-> IF i \in known THEN ClustersOf[i] ELSE <<>>])

\* How large a cluster may be without its zone reaching an endpoint.
Clearance(c) == Min({Distance(c.centre, 0), Distance(c.centre, Span)}) - Protection - ZoneBuffer

ShrunkNot(c) == c

Shrunk(c) == [c EXCEPT !.radius = Min({@, Clearance(c)})]

\* A cluster goes behind those that are as heavy.
Insert(sorted, c) ==
  LET lighter == {n \in DOMAIN sorted : sorted[n].weight < c.weight}
  IN IF lighter = {} THEN Append(sorted, c) ELSE InsertAt(sorted, Min(lighter), c)

\* sort.SliceStable by weight, heaviest first.
ByWeight(clusters) ==
  LET sorted[n \in 0..Len(clusters)] == IF n = 0 THEN <<>> ELSE Insert(sorted[n - 1], clusters[n])
  IN sorted[Len(clusters)]

\* congestionClusters.
Clusters ==
  LET merged == Merge(Observed)
      clear  == Those(merged, {n \in DOMAIN merged : Clearance(merged[n]) >= MinRadius})
  IN ByWeight([n \in DOMAIN clear |-> Shrunk(clear[n])])

-----------------------------------------------------------------------------
(* The ladder of plans.                                                    *)

ZoneAround(c) == [centre |-> c.centre, radius |-> Min({MaxRadius, c.radius + ZoneBuffer})]

ZonesFor(clusters, limit) ==
  [n \in 1..Min({limit, Len(clusters)}) |-> ZoneAround(clusters[n])]

Plan(label, zones, anchors) == [label |-> label, zones |-> zones, anchors |-> anchors]

Anchor(place, offset, side) == [place |-> place, offset |-> offset, side |-> side]

\* math.Round of a fraction.
Round(n, d) == (2 * n + d) \div (2 * d)

\* An offset less than gap from the one before is left out.
AddSpaced(kept, offset, gap) ==
  IF kept # <<>> /\ Distance(Last(kept), offset) < gap THEN kept ELSE Append(kept, offset)

Spaced(offsets, gap) ==
  LET kept[n \in 0..Len(offsets)] == IF n = 0 THEN <<>> ELSE AddSpaced(kept[n - 1], offsets[n], gap)
  IN kept[Len(offsets)]

\* A third of the allowance, in the fractions of the code.
LateralOffsets ==
  LET extra == IF setting.extra = 0 THEN 9000 ELSE setting.extra
  IN Spaced([n \in 1..4 |-> Clamp(MinLateral, Round(extra * <<12, 30, 62, 100>>[n], 300), MaxLateral)],
            150)

\* In quarters of a metre, before they are rounded.
CorridorOffsets ==
  LET quarters == [n \in 1..2 |-> Min({4 * MaxLateral, Min({n * Span, 2 * setting.extra})})]
      wide     == Those(quarters, {n \in 1..2 : quarters[n] >= 4 * MinCorridor})
  IN Spaced([n \in DOMAIN wide |-> Round(wide[n], 4)], 500)

\* Waypoints that may be added between origin and destination.
AnchorCapacity == Max({0, setting.maxWaypoints - setting.waypoints - 2})

Avoid(name, clusters) ==
  LET zones == ZonesFor(clusters, MaxZones)
  IN IF zones = <<>> THEN <<>> ELSE <<Plan(<<name, 0, Len(zones)>>, zones, <<>>)>>

Side(n) == IF n % 2 = 1 THEN 1 ELSE -1

\* One plan per offset and side of the worst cluster, the wider ones guarded.
LateralPlans(clusters, red) ==
  LET offsets == LateralOffsets IN
  [n \in 1..(2 * Len(offsets)) |->
     LET k       == (n + 1) \div 2
         guarded == setting.zones /\ k >= 2
     IN Plan(<<IF guarded THEN "GUARDED_LATERAL" ELSE "LATERAL", Side(n), offsets[k]>>,
             IF guarded THEN ZonesFor(red, 2) ELSE <<>>,
             <<Anchor(clusters[1].centre, offsets[k], Side(n))>>)]

\* corridorPlans, off the middle of the trip.
CorridorPlans ==
  LET offsets == CorridorOffsets IN
  [n \in 1..(2 * Len(offsets)) |->
     LET k == (n + 1) \div 2
     IN Plan(<<"CORRIDOR", Side(n), offsets[k]>>, <<>>, <<Anchor(Span \div 2, offsets[k], Side(n))>>)]

BypassPlan(clusters) ==
  Plan(<<"MULTI_CLUSTER_BYPASS", 0, 0>>, ZonesFor(clusters, MaxZones),
       [n \in 1..2 |-> Anchor(clusters[n].centre, LateralOffsets[1], 1)])

WorstPlan(clusters, size) == Plan(<<"AVOID_WORST", 0, size>>, ZonesFor(clusters, size), <<>>)

\* A rung of the ladder that may be left out.
Rung(wanted, plans) == IF wanted THEN plans ELSE <<>>

\* greenDetourPlans, in the order of the ladder.
GreenDetourPlans(clusters) ==
  LET red       == Those(clusters, {n \in DOMAIN clusters : clusters[n].severity >= 3})
      redOrange == Those(clusters, {n \in DOMAIN clusters : clusters[n].severity >= 2})
      reaches   == setting.anchors /\ AnchorCapacity >= 1
      bypasses  == setting.zones /\ setting.anchors /\ AnchorCapacity >= 2 /\ Len(clusters) > 1
  IN IF clusters = <<>> THEN <<>>
     ELSE Rung(setting.zones, Avoid("AVOID_ALL_RED", red))
       \o Rung(setting.zones /\ Min({MaxZones, Len(redOrange)}) > Len(red),
               Avoid("AVOID_RED_AND_ORANGE", redOrange))
       \o Rung(reaches, LateralPlans(clusters, red))
       \o Rung(bypasses, <<BypassPlan(clusters)>>)
       \o Rung(setting.zones /\ (setting.strict \/ redOrange = <<>>),
               Avoid("AVOID_EVERY_NON_GREEN", clusters))
       \o Rung(reaches, CorridorPlans)
       \o Rung(setting.zones /\ Len(clusters) >= 3, <<WorstPlan(clusters, 3)>>)
       \o Rung(setting.zones, <<WorstPlan(clusters, 1)>>)

\* nextUntriedPlan: the position of the first plan whose label is untried.
FirstUntried(plans) ==
  {n \in DOMAIN plans : /\ plans[n].label \notin tried
                        /\ \A m \in 1..(n - 1) : plans[m].label \in tried}

-----------------------------------------------------------------------------
(* The loop.                                                               *)

AskNext ==
  /\ probe = "choose"
  /\ probes < MaxProbes
  /\ Cardinality(known) < MaxPool
  /\ LET plans == GreenDetourPlans(Clusters)
     IN \E n \in FirstUntried(plans) : question' = plans[n]
  /\ tried' = tried \cup {question'.label}
  /\ probe' = "asked"
  /\ probes' = probes + 1
  /\ UNCHANGED <<setting, known, inARow, unroutable, outages>>

\* The adapter accepts the shape of the question (validateRouteRequest).
Accepted == Len(question.zones) <= SafetyCap

\* Two errors in a row end the search of detours.
Failed ==
  /\ probe = "asked"
  /\ inARow' = inARow + 1
  /\ probe' = IF inARow' >= 2 THEN "stopped" ELSE "choose"
  /\ UNCHANGED <<setting, known, tried, question, probes>>

\* 400: provider contract error.
QuestionRejected == ~Accepted /\ Failed /\ UNCHANGED <<unroutable, outages>>

\* The exclusion set leaves no route.
QuestionUnroutable ==
  /\ Accepted /\ question.zones # <<>>
  /\ unroutable < MaxUnroutable
  /\ unroutable' = unroutable + 1
  /\ Failed
  /\ UNCHANGED outages

\* A rate limit, an open breaker, a timeout.
QuestionFailed ==
  /\ outages < MaxOutages
  /\ outages' = outages + 1
  /\ Failed
  /\ UNCHANGED unroutable

\* What deduplication keeps: the routes known and new ones up to the capacity,
\* without those a faster new one displaces.
QuestionAnswered(kept) ==
  /\ probe = "asked"
  /\ Accepted
  /\ Cardinality(known \cup kept) <= MaxPool
  /\ \A r \in known \ kept : \E q \in kept \ known : q < r
  /\ known' = kept
  /\ inARow' = 0
  /\ probe' = "choose"
  /\ UNCHANGED <<setting, tried, question, probes, unroutable, outages>>

\* The loop ends at its guard, for want of a plan or at the deadline.
LadderEnds ==
  /\ probe = "choose"
  /\ probe' = "ended"
  /\ UNCHANGED <<setting, known, tried, question, probes, inARow, unroutable, outages>>

LadderNext ==
  \/ AskNext
  \/ QuestionRejected
  \/ QuestionUnroutable
  \/ QuestionFailed
  \/ \E kept \in SUBSET DOMAIN Candidates : QuestionAnswered(kept)
  \/ LadderEnds

LadderSpec == LadderInit /\ [][LadderNext]_ladderVars

-----------------------------------------------------------------------------
(* Properties.                                                             *)

\* What the loop of enhance keeps; the pool stays within MaxActiveCandidates.
LadderTypeOK ==
  /\ setting \in Settings
  /\ known \in (SUBSET DOMAIN Candidates) \ {{}}
  /\ Cardinality(known) <= MaxPool
  /\ Cardinality(tried) = probes
  /\ probe \in {"choose", "asked", "ended", "stopped"}
  /\ probes \in 0..MaxProbes
  /\ inARow \in 0..2
  /\ unroutable \in 0..MaxUnroutable
  /\ outages \in 0..MaxOutages

\* A question asks for the user's trip.  No zone of any plan comes nearer to
\* the origin or the destination than endpointProtectionMeters, though clusters
\* grow when they are merged and zones by their buffer: the provider is never
\* made to move an endpoint and answer for another trip.  And anchors never
\* make it longer than MaxWaypoints, on top of the user's waypoints and the
\* two ends.
TripIsKept ==
  /\ \A zone \in ToSet(question.zones), end \in {0, Span} :
       Distance(zone.centre, end) - zone.radius >= Protection
  /\ question.anchors # <<>> =>
       Len(question.anchors) + setting.waypoints + 2 <= setting.maxWaypoints

\* engine.go:529: "Two failures in a row mean something else — a rate limit, an
\* open breaker, an outage".  The search of detours stops early only if the
\* provider has failed.
StopsOnlyForOutage == probe = "stopped" => outages > 0
=============================================================================
