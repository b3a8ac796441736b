---------------------------- MODULE ServingChain ----------------------------
(***************************************************************************)
(* Whether the system is in service: the readiness of the 2GIS adapter     *)
(* (breakers, credential latches, address resolvers), of the orchestrator  *)
(* that discovers its capabilities, and of edge-api, each asked by the     *)
(* next; and address search through primary and fallback resolver.         *)
(*                                                                         *)
(* A process that is not ready is taken out of rotation and gets no calls, *)
(* so its breakers and latches see no traffic either.  A call is one step  *)
(* here: retries, bulkhead and cooldown are in ProviderAdapter.            *)
(***************************************************************************)
EXTENDS Naturals

CONSTANTS
  Resolvers,        \* ADDRESS_PROVIDER_MODE: "auto", "yandex" or "2gis"
  BreakerThreshold, \* cfg.CircuitBreakerThreshold
  MaxBreakdowns     \* bound: outages, denied keys and restarts

Upstream == {"router", "yandexGeocoder", "2gisGeocoder"}
Stores   == {"redis", "database"}   \* the database is edge-api's audit log
Process  == {"adapter", "orchestrator", "edge"}

\* The 2GIS geocoder shares the latch of the router.
DgisLatch == {"router", "2gisGeocoder"}

ASSUME ChainAssumption ==
  /\ Resolvers \subseteq {"auto", "yandex", "2gis"}
  /\ BreakerThreshold \in Nat \ {0}
  /\ MaxBreakdowns \in Nat

VARIABLES
  resolver,    \* the address resolver of this deployment
  world,       \* per upstream and store: "up", "down", or "denied" to our key
  latched,     \* upstreams whose credential fault is latched
  breaker,     \* per upstream: state ("elapsed" is open for OpenDuration), failures
  discovered,  \* capabilityOK
  rotation,    \* processes that get calls
  suggest,     \* the address search under way: pc, primary's answer, answer
  breakdowns   \* outages, denied keys and restarts so far

chainVars == <<resolver, world, latched, breaker, discovered, rotation, suggest, breakdowns>>

ClosedBreaker == [state |-> "closed", failures |-> 0]
NoSuggest == [pc |-> "idle", primary |-> "none", answer |-> "none"]

ChainInit ==
  /\ resolver \in Resolvers
  /\ world = [u \in Upstream \cup Stores |-> "up"]
  /\ latched = {}
  /\ breaker = [u \in Upstream |-> ClosedBreaker]
  /\ rotation \in {{}, Process}   \* at start, or all up
  /\ discovered = (rotation # {})
  /\ suggest = NoSuggest
  /\ breakdowns = 0

-----------------------------------------------------------------------------
(* Readiness.                                                              *)

\* circuitBreaker.State is not open: one whose time is up counts as half-open.
BreakerReady(u) == breaker[u].state # "open"

PrimaryReady  == "yandexGeocoder" \notin latched /\ BreakerReady("yandexGeocoder")
FallbackReady == latched \cap DgisLatch = {} /\ BreakerReady("2gisGeocoder")

ResolverReady ==
  CASE resolver = "auto"   -> PrimaryReady \/ FallbackReady
    [] resolver = "yandex" -> PrimaryReady
    [] resolver = "2gis"   -> FallbackReady

AdapterReady ==
  /\ latched \cap DgisLatch = {}
  /\ BreakerReady("router")
  /\ ResolverReady

\* A health call through the service reaches only a process in rotation.
ProviderHealthy == "adapter" \in rotation /\ AdapterReady

OrchestratorReady == world["redis"] = "up" /\ ProviderHealthy /\ discovered

\* Where a token verifier is required, an edge-api without one does not start.
EdgeReady ==
  /\ \A s \in Stores : world[s] = "up"
  /\ "orchestrator" \in rotation /\ OrchestratorReady
  /\ ProviderHealthy

Ready(p) ==
  CASE p = "adapter" -> AdapterReady
    [] p = "orchestrator" -> OrchestratorReady
    [] p = "edge" -> EdgeReady

\* The cluster's readiness probe (external).
ProbeReadiness(p) ==
  /\ rotation' = IF Ready(p) THEN rotation \cup {p} ELSE rotation \ {p}
  /\ UNCHANGED <<resolver, world, latched, breaker, discovered, suggest, breakdowns>>

RefreshCapabilitiesOnceReady ==
  /\ OrchestratorReady
  /\ discovered' = ("adapter" \in rotation)
  /\ UNCHANGED <<resolver, world, latched, breaker, rotation, suggest, breakdowns>>

\* refreshCapabilities: again after a second, or after five minutes.
RefreshCapabilities ==
  /\ discovered' = ("adapter" \in rotation)
  /\ UNCHANGED <<resolver, world, latched, breaker, rotation, suggest, breakdowns>>

-----------------------------------------------------------------------------
(* Calls of an upstream.                                                   *)

Outcome == {"some", "empty", "failed", "denied", "refused"}

BreakerAllows(u) == breaker[u].state \in {"closed", "elapsed"}

\* What a call may come to; a valid answer may be empty, and a request may be
\* refused or rate limited at any time.
CallOutcomes(u) ==
  {"refused"} \cup CASE world[u] = "up" -> {"some", "empty"}
                     [] world[u] = "down" -> {"failed"}
                     [] world[u] = "denied" -> {"denied"}

Probing(b) == IF b.state = "elapsed" THEN [b EXCEPT !.state = "halfOpen"] ELSE b

\* circuitBreaker.Failure, of a half-open breaker or at the threshold.
Tripped(b) ==
  IF b.state = "halfOpen" \/ b.failures + 1 >= BreakerThreshold
  THEN [state |-> "open", failures |-> BreakerThreshold]
  ELSE [b EXCEPT !.failures = @ + 1]

\* Breaker and latch after a call that breaker allowed.
CallUpstream(u, outcome) ==
  /\ latched' = CASE outcome \in {"some", "empty"} -> latched \ {u}
                  [] outcome = "denied" -> latched \cup {u}
                  [] OTHER -> latched
  /\ breaker' = [breaker EXCEPT ![u] =
                   CASE outcome \in {"some", "empty"} -> ClosedBreaker
                     [] outcome = "failed" -> Tripped(Probing(@))
                     [] OTHER -> Probing(@)]

\* A route request of the orchestrator.
CallRouter(outcome) ==
  /\ "adapter" \in rotation
  /\ BreakerAllows("router")
  /\ outcome \in CallOutcomes("router")
  /\ CallUpstream("router", outcome)
  /\ UNCHANGED <<resolver, world, discovered, rotation, suggest, breakdowns>>

-----------------------------------------------------------------------------
(* fallbackAddressResolver.Suggest, or the one resolver there is.          *)

\* Where a search goes first: a primary that is not ready is not asked.
SuggestBegins ==
  /\ suggest.pc = "idle"
  /\ "adapter" \in rotation
  /\ suggest' = CASE resolver = "yandex" \/ (resolver = "auto" /\ PrimaryReady) ->
                       [NoSuggest EXCEPT !.pc = "primary"]
                  [] resolver = "auto" /\ ~PrimaryReady ->
                       [NoSuggest EXCEPT !.pc = "fallback", !.primary = "error"]
                  [] resolver = "2gis" -> [NoSuggest EXCEPT !.pc = "fallback"]
  /\ UNCHANGED <<resolver, world, latched, breaker, discovered, rotation, breakdowns>>

Got(outcome) == IF outcome \in {"some", "empty"} THEN outcome ELSE "error"

Suggested(answer) == [suggest EXCEPT !.pc = "answered", !.answer = answer]

\* An answer with suggestions is taken; otherwise the fallback is asked, if
\* there is one and the caller still waits.
AfterPrimary(got) ==
  IF resolver = "auto" /\ got # "some" THEN [suggest EXCEPT !.pc = "fallback", !.primary = got]
  ELSE [Suggested(got) EXCEPT !.primary = got]

SuggestPrimary(outcome) ==
  /\ suggest.pc = "primary"
  /\ IF BreakerAllows("yandexGeocoder")
     THEN /\ outcome \in CallOutcomes("yandexGeocoder")
          /\ CallUpstream("yandexGeocoder", outcome)
     ELSE outcome = "refused" /\ UNCHANGED <<latched, breaker>>
  /\ suggest' = AfterPrimary(Got(outcome))
  /\ UNCHANGED <<resolver, world, discovered, rotation, breakdowns>>

AfterFallbackLoses(got) == Suggested(got)

\* A failed fallback leaves an empty answer of the primary valid.
AfterFallback(got) ==
  Suggested(IF got = "error" /\ suggest.primary = "empty" THEN "empty" ELSE got)

SuggestFallback(outcome) ==
  /\ suggest.pc = "fallback"
  /\ IF BreakerAllows("2gisGeocoder")
     THEN /\ outcome \in CallOutcomes("2gisGeocoder")
          /\ CallUpstream("2gisGeocoder", outcome)
     ELSE outcome = "refused" /\ UNCHANGED <<latched, breaker>>
  /\ suggest' = AfterFallback(Got(outcome))
  /\ UNCHANGED <<resolver, world, discovered, rotation, breakdowns>>

\* The answer is written, or ctx.Err found the caller gone.
SuggestEnds ==
  /\ suggest.pc \in {"fallback", "answered"}
  /\ suggest' = NoSuggest
  /\ UNCHANGED <<resolver, world, latched, breaker, discovered, rotation, breakdowns>>

-----------------------------------------------------------------------------
(* Time and the world outside (external).                                  *)

\* CircuitBreakerOpenDuration passes.
Elapse(u) ==
  /\ breaker[u].state = "open"
  /\ breaker' = [breaker EXCEPT ![u].state = "elapsed"]
  /\ UNCHANGED <<resolver, world, latched, discovered, rotation, suggest, breakdowns>>

Breaks(d, how) ==
  /\ breakdowns < MaxBreakdowns
  /\ world[d] = "up"
  /\ d \in Stores => how = "down"
  /\ world' = [world EXCEPT ![d] = how]
  /\ breakdowns' = breakdowns + 1
  /\ UNCHANGED <<resolver, latched, breaker, discovered, rotation, suggest>>

Mends(d) ==
  /\ world[d] # "up"
  /\ world' = [world EXCEPT ![d] = "up"]
  /\ UNCHANGED <<resolver, latched, breaker, discovered, rotation, suggest, breakdowns>>

\* The adapter is restarted: all it knew is gone, and it has to be probed.
RestartAdapter ==
  /\ breakdowns < MaxBreakdowns
  /\ breakdowns' = breakdowns + 1
  /\ latched' = {}
  /\ breaker' = [u \in Upstream |-> ClosedBreaker]
  /\ rotation' = rotation \ {"adapter"}
  /\ suggest' = NoSuggest
  /\ UNCHANGED <<resolver, world, discovered>>

ChainNext ==
  \/ \E p \in Process : ProbeReadiness(p)
  \/ RefreshCapabilities
  \/ \E outcome \in Outcome :
       CallRouter(outcome) \/ SuggestPrimary(outcome) \/ SuggestFallback(outcome)
  \/ SuggestBegins \/ SuggestEnds
  \/ \E u \in Upstream : Elapse(u)
  \/ \E d \in DOMAIN world : Mends(d) \/ \E how \in {"down", "denied"} : Breaks(d, how)
  \/ RestartAdapter

\* Probes and refreshCapabilities are periodic, and time passes.  Nothing is
\* assumed of callers, of repairs or of restarts.
ChainFairness ==
  /\ \A p \in Process : WF_chainVars(ProbeReadiness(p))
  /\ WF_chainVars(RefreshCapabilities)
  /\ \A u \in Upstream : WF_chainVars(Elapse(u))

ChainSpec == ChainInit /\ [][ChainNext]_chainVars /\ ChainFairness

-----------------------------------------------------------------------------
(* Properties.                                                             *)

\* The state has its shape, and a breaker that has seen its threshold of
\* failures is not closed.
ChainTypeOK ==
  /\ resolver \in Resolvers
  /\ world \in [Upstream \cup Stores -> {"up", "down", "denied"}]
  /\ latched \subseteq Upstream
  /\ breaker \in [Upstream -> [state : {"closed", "open", "elapsed", "halfOpen"},
                               failures : 0..BreakerThreshold]]
  /\ \A u \in Upstream : (breaker[u].state = "closed") = (breaker[u].failures < BreakerThreshold)
  /\ discovered \in BOOLEAN
  /\ rotation \subseteq Process
  /\ suggest \in [pc : {"idle", "primary", "fallback", "answered"},
                  primary : {"none", "some", "empty", "error"},
                  answer : {"none", "some", "empty", "error"}]
  /\ breakdowns \in 0..MaxBreakdowns

\* fallbackAddressResolver.Suggest: whatever breakers, latches and the second
\* geocoder do in between, a search the primary answered, if only with an
\* empty list, is not answered with an error, and suggestions are not lost.
ValidAnswerStays ==
  suggest.pc = "answered" =>
    /\ suggest.primary \in {"some", "empty"} => suggest.answer # "error"
    /\ suggest.primary = "some" => suggest.answer = "some"

\* What the system needs of the world: both stores, the router, and one geocoder
\* of this deployment, with no credential fault on the latch the router shares.
Serviceable ==
  /\ \A d \in Stores \cup {"router"} : world[d] = "up"
  /\ latched \cap DgisLatch = {}
  /\ \/ resolver # "2gis" /\ world["yandexGeocoder"] = "up" /\ "yandexGeocoder" \notin latched
     \/ resolver # "yandex" /\ world["2gisGeocoder"] = "up"

\* Readiness of the three processes: once the world is serviceable for good,
\* edge-api is in rotation again and stays there.  No open breaker, outage of
\* the other geocoder or chain of processes waiting for each other's readiness
\* keeps it out, although a process out of rotation sees no calls.
ComesBackIntoService == <>[]Serviceable => <>[]("edge" \in rotation)
=============================================================================
