----------------------------- MODULE FrontDoor -----------------------------
(***************************************************************************)
(* What every request to edge-api passes before its handler: the bulkhead, *)
(* the three rate limits and authentication (server.go middleware,         *)
(* enforceRateLimit), over the fixed-window counters of state.go, while    *)
(* the key that pseudonymises subjects is rotated                          *)
(* (docs/runbooks/key-rotation.md).                                        *)
(*                                                                         *)
(* All calls are one client's, from one address.  Counters of different    *)
(* limits are independent, so a behaviour follows those of one of them,    *)
(* watched, and lets the others decide as they like.  A replica with two   *)
(* keys charges a counter under each, in two round trips; these are short  *)
(* against the window, so no tick of the clock falls between them.  A      *)
(* counter over its limit counts on in the code; here it stays one above.  *)
(***************************************************************************)
EXTENDS Naturals, Sequences, FiniteSets, FiniteSetsExt, Functions

CONSTANTS
  Calls,              \* the client's requests under way
  Kinds,              \* what they are for
  Replicas,           \* of edge-api, over one Redis
  MaximumConcurrent,  \* capacity of bulkhead
  Limits,             \* IPRequestsPerMinute, UserRequestsPerMinute, SearchesPerMinute
  Window,             \* a minute, in ticks
  MaxAllowFailures    \* bound: round trips of Allow that fail

Scope == {"ip", "user", "search"}
Key   == {"old", "new"}

ASSUME DoorAssumption ==
  /\ Kinds \subseteq {"health", "read", "search", "stream"}
  /\ IsFiniteSet(Calls) /\ IsFiniteSet(Replicas) /\ Replicas # {}
  /\ MaximumConcurrent \in Nat \ {0}
  /\ Limits \in [Scope -> Nat \ {0}]
  /\ Window \in Nat \ {0}
  /\ MaxAllowFailures \in Nat

VARIABLES
  watched,  \* the limit whose counters are followed
  stage,    \* per replica: the rotation step its process was started in
  overlap,  \* ticks for which every replica has known both keys, up to Window
  bulkhead, \* per replica: tokens taken
  call,     \* per call: pc (a scope while it is limited), kind, replica, index of its key
  counter,  \* per key: count under it, and ticks left of its window
  failures, \* round trips of Allow that have failed
  passed    \* calls that passed the limit in each of the last Window ticks (history)

doorVars == <<watched, stage, overlap, bulkhead, call, counter, failures, passed>>
settingVars == <<watched, stage, overlap>>

Limit     == Limits[watched]
NoCounter == [count |-> 0, left |-> 0]
AtRest    == [pc |-> "idle", kind |-> "health", replica |-> CHOOSE r \in Replicas : TRUE, key |-> 1]

DoorInit ==
  /\ watched \in Scope
  /\ stage = [r \in Replicas |-> 0]
  /\ overlap = 0
  /\ bulkhead = [r \in Replicas |-> 0]
  /\ call = [c \in Calls |-> AtRest]
  /\ counter = [k \in Key |-> NoCounter]
  /\ failures = 0
  /\ passed = [t \in 1..Window |-> 0]

-----------------------------------------------------------------------------
(* The pseudonyms of a subject, and the counter under one of them.         *)

AbuseKeysReplaced(step) == CASE step = 0 -> <<"old">> [] step = 1 -> <<"new">> [] step = 2 -> <<"new">>

\* ABUSE_HASH_KEY and then ABUSE_PREVIOUS_HASH_KEY, as the runbook sets them.
AbuseKeys(step) == CASE step = 0 -> <<"old">> [] step = 1 -> <<"new", "old">> [] step = 2 -> <<"new">>

Pseudonyms(c) == AbuseKeys(stage[call[c].replica])

\* The counter this call charges next.
Charged(c) == counter[Pseudonyms(c)[call[c].key]]

ChargedAnewExtends(c) == [count |-> Min({Charged(c).count, Limit}) + 1, left |-> Window]

\* INCR, and PEXPIRE with the first of a window.
ChargedAnew(c) ==
  LET old == Charged(c)
  IN [count |-> Min({old.count, Limit}) + 1, left |-> IF old.count = 0 THEN Window ELSE old.left]

WithinLimit(c) == Charged(c).count + 1 <= Limit

Charge(c) == counter' = [counter EXCEPT ![Pseudonyms(c)[call[c].key]] = ChargedAnew(c)]

-----------------------------------------------------------------------------
(* A call.                                                                 *)

TakesSlot(kind) == kind # "stream"

\* The bulkhead has a token, or an event stream needs none.  Without one the
\* call is answered 503 and nothing changes.
Arrive(c, kind, r) ==
  /\ call[c].pc = "idle"
  /\ TakesSlot(kind) => bulkhead[r] < MaximumConcurrent
  /\ bulkhead' = IF TakesSlot(kind) THEN [bulkhead EXCEPT ![r] = @ + 1] ELSE bulkhead
  /\ call' = [call EXCEPT ![c] = [AtRest EXCEPT !.kind = kind, !.replica = r,
                                    !.pc = IF kind = "health" THEN "serve" ELSE "ip"]]
  /\ UNCHANGED <<settingVars, counter, failures, passed>>

\* middleware returns, by an answer or a recovered panic: the deferred
\* release.
Leaves(c) ==
  /\ call' = [call EXCEPT ![c] = AtRest]
  /\ bulkhead' = IF TakesSlot(call[c].kind) THEN [bulkhead EXCEPT ![call[c].replica] = @ - 1]
                                            ELSE bulkhead

\* Where a call goes that has passed a limit.
Onward(c) ==
  CASE call[c].pc = "ip" -> "auth"
    [] call[c].pc = "user" /\ call[c].kind = "search" -> "search"
    [] OTHER -> "serve"

\* enforceRateLimit for the limit watched: Allow under the next key.
AllowNext(c) ==
  /\ call[c].pc = watched
  /\ WithinLimit(c)
  /\ Charge(c)
  /\ IF call[c].key < Len(Pseudonyms(c))
     THEN call' = [call EXCEPT ![c].key = @ + 1] /\ UNCHANGED passed
     ELSE /\ call' = [call EXCEPT ![c].pc = Onward(c), ![c].key = 1]
          /\ passed' = [passed EXCEPT ![1] = @ + 1]
  /\ UNCHANGED <<settingVars, bulkhead, failures>>

\* 429; the counters charged so far stay charged.
OverLimit(c) ==
  /\ call[c].pc = watched
  /\ ~WithinLimit(c)
  /\ Charge(c)
  /\ Leaves(c)
  /\ UNCHANGED <<settingVars, failures, passed>>

\* 503: Allow failed, with or without its effect.
AllowFails(c) ==
  /\ call[c].pc = watched
  /\ failures < MaxAllowFailures
  /\ failures' = failures + 1
  /\ Charge(c) \/ UNCHANGED counter
  /\ Leaves(c)
  /\ UNCHANGED <<settingVars, passed>>

\* enforceRateLimit for the other two.
PassOther(c) ==
  /\ call[c].pc \in Scope \ {watched}
  /\ call' = [call EXCEPT ![c].pc = Onward(c)]
  /\ UNCHANGED <<settingVars, bulkhead, counter, failures, passed>>

RefusedByOther(c) ==
  /\ call[c].pc \in Scope \ {watched}
  /\ Leaves(c)
  /\ UNCHANGED <<settingVars, counter, failures, passed>>

Authenticated(c) ==
  /\ call[c].pc = "auth"
  /\ call' = [call EXCEPT ![c].pc = "user"]
  /\ UNCHANGED <<settingVars, bulkhead, counter, failures, passed>>

Unauthorized(c) ==
  /\ call[c].pc = "auth"
  /\ Leaves(c)
  /\ UNCHANGED <<settingVars, counter, failures, passed>>

ServeForgetsSlot(c) ==
  /\ call[c].pc = "serve"
  /\ call' = [call EXCEPT ![c] = AtRest]
  /\ UNCHANGED <<settingVars, bulkhead, counter, failures, passed>>

\* The handler returns or panics.
Serve(c) ==
  /\ call[c].pc = "serve"
  /\ Leaves(c)
  /\ UNCHANGED <<settingVars, counter, failures, passed>>

-----------------------------------------------------------------------------
(* Time and operations.                                                    *)

BetweenKeys(c) == call[c].key > 1

Aged(m) == IF m.left <= 1 THEN NoCounter ELSE [m EXCEPT !.left = @ - 1]

Tick ==
  /\ \A c \in Calls : ~BetweenKeys(c)
  /\ counter' = [k \in Key |-> Aged(counter[k])]
  /\ passed' = [t \in 1..Window |-> IF t = 1 THEN 0 ELSE passed[t - 1]]
  /\ overlap' = IF \A r \in Replicas : stage[r] >= 1 THEN Min({Window, overlap + 1}) ELSE 0
  /\ UNCHANGED <<watched, stage, bulkhead, call, failures>>

\* A replica, drained of its calls, is started again with the keys of the next
\* step; the previous key is dropped once all have known both for a window.
Roll(r) ==
  /\ \A c \in Calls : call[c].pc = "idle" \/ call[c].replica # r
  /\ \/ stage[r] = 0
     \/ stage[r] = 1 /\ overlap = Window
  /\ stage' = [stage EXCEPT ![r] = @ + 1]
  /\ UNCHANGED <<watched, overlap, bulkhead, call, counter, failures, passed>>

CallStep(c) ==
  \/ AllowNext(c) \/ OverLimit(c) \/ AllowFails(c) \/ PassOther(c) \/ RefusedByOther(c)
  \/ Authenticated(c) \/ Unauthorized(c) \/ Serve(c)

DoorNext ==
  \/ Tick
  \/ \E r \in Replicas : Roll(r)
  \/ \E c \in Calls : \/ CallStep(c)
                      \/ \E kind \in Kinds, r \in Replicas : Arrive(c, kind, r)

DoorSpec == DoorInit /\ [][DoorNext]_doorVars

\* A call at the watched limit is decided.
Decide(c) == AllowNext(c) \/ OverLimit(c) \/ AllowFails(c)

\* Time passes and Redis answers; the client, its other limits and the
\* operator owe nothing.
DoorFairness ==
  /\ SF_doorVars(Tick)
  /\ \A c \in Calls : WF_doorVars(Decide(c))

DoorFairSpec == DoorSpec /\ DoorFairness

-----------------------------------------------------------------------------
(* Properties.                                                             *)

\* What the variables of the front door hold.  The bulkhead of a replica never
\* takes more than MaximumConcurrent and counts the calls it works on exactly,
\* whichever limit, failed round trip or missing token turns a call away.
DoorTypeOK ==
  /\ watched \in Scope
  /\ stage \in [Replicas -> 0..2]
  /\ overlap \in 0..Window
  /\ bulkhead \in [Replicas -> 0..MaximumConcurrent]
  /\ call \in [Calls -> [pc: {"idle", "auth", "serve"} \cup Scope, kind: Kinds \cup {"health"},
                         replica: Replicas, key: 1..2]]
  /\ counter \in [Key -> [count: 0..(Limit + 1), left: 0..Window]]
  /\ failures \in 0..MaxAllowFailures
  /\ passed \in [1..Window -> Nat]
  /\ \A r \in Replicas :
       bulkhead[r] = Cardinality({c \in Calls : /\ call[c].pc # "idle" /\ call[c].replica = r
                                               /\ TakesSlot(call[c].kind)})

\* enforceRateLimit holds through a rotation of the abuse key: in any period of
\* one window a client gets past each limit at most as often as two adjacent
\* fixed windows allow, less the call that began the first of them, on whatever
\* mixture of old, overlapping and new replicas.
LimitSurvivesRotation == FoldFunction(+, 0, passed) <= 2 * Limit - 1

\* A client that is refused again and again gets through again and again:
\* refusals do not prolong a window (PEXPIRE with the first INCR only), and the
\* windows of the two keys do not lock each other.
RefusedIsServedAgain ==
  []<><<\E c \in Calls : OverLimit(c)>>_doorVars => []<>(passed[1] > 0)
=============================================================================
