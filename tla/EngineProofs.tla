---------------------------- MODULE EngineProofs ----------------------------
(***************************************************************************)
(* Proofs about the orchestrator: what a search publishes (GreenSearch),   *)
(* for any finite set of routes, any searches and any budget, number of    *)
(* probes and of candidates; the address chain (ServingChain), for any     *)
(* resolvers, breaker threshold and number of breakdowns; the detours      *)
(* enhance asks for (DetourLadder), for candidates of any length and       *)
(* congestion, any trip and any limits; and the four side by side          *)
(* (MCEngine).                                                             *)
(*                                                                         *)
(* Rankings are orders of tuples of numbers.  These orders are total, so a *)
(* finite set has a foremost member and a first few (FirstBounded), and    *)
(* deduplication has one outcome (KernelExists, by the least counter-      *)
(* example).  GreenInv then says of a search what its pool, its draft and  *)
(* its published result owe to one another between any two calls.          *)
(*                                                                         *)
(* The ladder is computed by loops over lists.  LoopRuns says that a loop  *)
(* has a course, LoopKeeps that what a round preserves holds in the end;   *)
(* with them every cluster is bounded by its clearance (ClustersFit) and   *)
(* every plan stays off the ends of the trip and within its waypoints      *)
(* (PlansKeepTrip).                                                        *)
(***************************************************************************)
EXTENDS MCEngine, RequestBudgetProofs, FiniteSetTheorems, SequenceTheorems, WellFoundedInduction,
        TLAPS

\* The least-number principle, for a set of numbers.
LEMMA LeastNumber ==
  ASSUME NEW T, T \subseteq Nat, T # {}
  PROVE  \E m \in T : \A n \in T : m <= n
<1> DEFINE Less == OpToRel(<, Nat)
<1>1. IsWellFoundedOn(Less, Nat)
  BY NatLessThanWellFounded
<1>2. \A m, n \in Nat : <<n, m>> \in Less <=> n < m
  BY DEF OpToRel
<1> HIDE DEF Less
<1>3. PICK m \in T : \A n \in T : ~(<<n, m>> \in Less)
  BY <1>1, WFMin
<1>4. \A n \in T : ~(n < m)
  BY <1>2, <1>3
<1> QED
  BY <1>4

-----------------------------------------------------------------------------
(* Orders.                                                                 *)

\* What the order of two keys is about: as many numbers in each.
Keys(n) == [1..n -> Int]

\* The order of ranking keys (the comparisons of scoring.go) is strict ...
LEMMA PrecedesIrreflexive ==
  ASSUME NEW n \in Nat, NEW s \in Keys(n)
  PROVE  ~Precedes(s, s)
BY DEF Keys, Precedes

\* ... transitive ...
LEMMA PrecedesTransitive ==
  ASSUME NEW n \in Nat, NEW s \in Keys(n), NEW t \in Keys(n), NEW u \in Keys(n),
         Precedes(s, t), Precedes(t, u)
  PROVE  Precedes(s, u)
<1>1. PICK j \in 1..n : s[j] < t[j] /\ \A i \in 1..(j - 1) : s[i] = t[i]
  BY DEF Precedes, Keys
<1>2. PICK k \in 1..n : t[k] < u[k] /\ \A i \in 1..(k - 1) : t[i] = u[i]
  BY DEF Precedes, Keys
<1>3. s \in [1..n -> Int] /\ t \in [1..n -> Int] /\ u \in [1..n -> Int]
  BY DEF Keys
<1>4. CASE j <= k
  <2>1. s[j] < u[j]
    BY <1>1, <1>2, <1>3, <1>4
  <2>2. \A i \in 1..(j - 1) : s[i] = u[i]
    BY <1>1, <1>2, <1>3, <1>4
  <2> QED
    BY <2>1, <2>2, <1>3 DEF Precedes
<1>5. CASE k < j
  <2>1. s[k] < u[k]
    BY <1>1, <1>2, <1>3, <1>5
  <2>2. \A i \in 1..(k - 1) : s[i] = u[i]
    BY <1>1, <1>2, <1>3, <1>5
  <2> QED
    BY <2>1, <2>2, <1>3 DEF Precedes
<1> QED
  BY <1>4, <1>5

\* ... and total on keys of one length.
LEMMA PrecedesTotal ==
  ASSUME NEW n \in Nat, NEW s \in Keys(n), NEW t \in Keys(n), s # t
  PROVE  Precedes(s, t) \/ Precedes(t, s)
<1>1. s \in [1..n -> Int] /\ t \in [1..n -> Int]
  BY DEF Keys
<1> DEFINE D == {i \in 1..n : s[i] # t[i]}
<1>2. D # {} /\ D \subseteq Nat
  <2>1. D = {} => \A i \in 1..n : s[i] = t[i]
    OBVIOUS
  <2>2. (\A i \in 1..n : s[i] = t[i]) => s = t
    BY <1>1
  <2> QED
    BY <2>1, <2>2
<1>3. PICK m \in D : \A i \in D : m <= i
  BY <1>2, LeastNumber
<1>4. \A i \in 1..(m - 1) : s[i] = t[i]
  BY <1>3
<1>5. CASE s[m] < t[m]
  BY <1>1, <1>3, <1>4, <1>5 DEF Precedes
<1>6. CASE t[m] < s[m]
  BY <1>1, <1>3, <1>4, <1>6 DEF Precedes
<1> QED
  BY <1>1, <1>3, <1>5, <1>6

\* How many of S come before one of them.
Predecessors(S, key, r) == {q \in S : Precedes(key[q], key[r])}

\* What comes earlier has fewer before it, so that these numbers are a rank.
LEMMA FewerBefore ==
  ASSUME NEW S, IsFiniteSet(S), NEW n \in Nat, NEW key \in [S -> Keys(n)],
         NEW q \in S, NEW r \in S, Precedes(key[q], key[r])
  PROVE  Cardinality(Predecessors(S, key, q)) < Cardinality(Predecessors(S, key, r))
<1> DEFINE A == Predecessors(S, key, q)
           B == Predecessors(S, key, r)
<1>1. A \subseteq B /\ q \in B /\ q \notin A
  BY PrecedesTransitive, PrecedesIrreflexive DEF Predecessors
<1>2. B \subseteq S
  BY DEF Predecessors
<1> HIDE DEF A, B
<1>3. IsFiniteSet(B)
  BY <1>2, FS_Subset
<1>4. IsFiniteSet(A) /\ Cardinality(A) <= Cardinality(B) /\ (Cardinality(B) = Cardinality(A) => B = A)
  BY <1>1, <1>3, FS_Subset
<1>5. Cardinality(A) \in Nat /\ Cardinality(B) \in Nat
  BY <1>3, <1>4, FS_CardinalityType
<1>6. Cardinality(A) < Cardinality(B)
  BY <1>1, <1>4, <1>5
<1> QED
  BY <1>6 DEF A, B

\* A finite set that is not empty has a foremost member.
LEMMA ForemostExists ==
  ASSUME NEW S, IsFiniteSet(S), S # {}, NEW n \in Nat, NEW key \in [S -> Keys(n)]
  PROVE  \E r \in S : \A q \in S : ~Precedes(key[q], key[r])
<1> DEFINE N == {Cardinality(Predecessors(S, key, r)) : r \in S}
<1>1. \A r \in S : Cardinality(Predecessors(S, key, r)) \in Nat
  <2> SUFFICES ASSUME NEW r \in S PROVE Cardinality(Predecessors(S, key, r)) \in Nat
    OBVIOUS
  <2>1. Predecessors(S, key, r) \subseteq S
    BY DEF Predecessors
  <2> QED
    BY <2>1, FS_Subset, FS_CardinalityType
<1>2. N \subseteq Nat /\ N # {}
  BY <1>1
<1>3. PICK m \in N : \A i \in N : m <= i
  BY <1>2, LeastNumber
<1>4. PICK r \in S : m = Cardinality(Predecessors(S, key, r))
  BY <1>3
<1>5. \A q \in S : Precedes(key[q], key[r]) => FALSE
  <2> SUFFICES ASSUME NEW q \in S, Precedes(key[q], key[r]) PROVE FALSE
    OBVIOUS
  <2>1. Cardinality(Predecessors(S, key, q)) < Cardinality(Predecessors(S, key, r))
    BY FewerBefore
  <2>2. Cardinality(Predecessors(S, key, q)) \in N
    OBVIOUS
  <2>3. m <= Cardinality(Predecessors(S, key, q)) /\ Cardinality(Predecessors(S, key, q)) \in Nat
    BY <1>2, <1>3, <2>2
  <2> QED
    BY <1>2, <1>4, <2>1, <2>3
<1> QED
  BY <1>5

\* The first n of S.
FirstOf(n, S, key) == {r \in S : Cardinality(Predecessors(S, key, r)) < n}

\* Of a set whose members have different keys, at most n come first.
LEMMA FirstBounded ==
  ASSUME NEW S, IsFiniteSet(S), NEW m \in Nat, NEW key \in [S -> Keys(m)],
         \A q, r \in S : key[q] = key[r] => q = r, NEW n \in Nat
  PROVE  IsFiniteSet(FirstOf(n, S, key)) /\ Cardinality(FirstOf(n, S, key)) <= n
<1> DEFINE F == {r \in S : Cardinality(Predecessors(S, key, r)) < n}
           f == [r \in F |-> Cardinality(Predecessors(S, key, r))]
<1>1. \A r \in S : Cardinality(Predecessors(S, key, r)) \in Nat
  <2> SUFFICES ASSUME NEW r \in S PROVE Cardinality(Predecessors(S, key, r)) \in Nat
    OBVIOUS
  <2>1. Predecessors(S, key, r) \subseteq S
    BY DEF Predecessors
  <2> QED
    BY <2>1, FS_Subset, FS_CardinalityType
<1>2. \A q, r \in S : q # r => Cardinality(Predecessors(S, key, q)) # Cardinality(Predecessors(S, key, r))
  <2> SUFFICES ASSUME NEW q \in S, NEW r \in S, q # r
               PROVE  Cardinality(Predecessors(S, key, q)) # Cardinality(Predecessors(S, key, r))
    OBVIOUS
  <2>1. key[q] \in Keys(m) /\ key[r] \in Keys(m) /\ key[q] # key[r]
    OBVIOUS
  <2>2. CASE Precedes(key[q], key[r])
    BY <2>2, <1>1, FewerBefore
  <2>3. CASE Precedes(key[r], key[q])
    BY <2>3, <1>1, FewerBefore
  <2> QED
    BY <2>1, <2>2, <2>3, PrecedesTotal
<1>3. f \in Injection(F, 0..(n - 1))
  BY <1>1, <1>2 DEF Injection, IsInjective
<1>4. IsFiniteSet(0..(n - 1)) /\ Cardinality(0..(n - 1)) = n
  <2>1. 0 \in Int /\ n - 1 \in Int
    OBVIOUS
  <2>2. IsFiniteSet(0..(n - 1)) /\ Cardinality(0..(n - 1)) = IF 0 > n - 1 THEN 0 ELSE n - 1 - 0 + 1
    BY <2>1, FS_Interval
  <2> QED
    BY <2>2
<1> HIDE DEF f
<1>5. IsFiniteSet(F) /\ Cardinality(F) <= n
  BY <1>3, <1>4, FS_Injection
<1> QED
  BY <1>5 DEF FirstOf

-----------------------------------------------------------------------------
(* Deduplication.                                                          *)

\* A subset of T that is closed under what deduplication does with the pairs
\* D: a member stays unless one that stays displaces it.
IsKernel(K, T, D) == K \subseteq T /\ \A r \in T : r \in K <=> ~\E q \in K : <<q, r>> \in D

\* deduplicateRoutes: of a finite set of routes, each of which others of better
\* keys may displace, there is always one set that is kept.
LEMMA KernelExists ==
  ASSUME NEW S, IsFiniteSet(S), NEW n \in Nat, NEW key \in [S -> Keys(n)],
         NEW D, \A q, r \in S : <<q, r>> \in D => Precedes(key[q], key[r])
  PROVE  \E K : IsKernel(K, S, D)
<1> DEFINE Bad == {T \in SUBSET S : ~\E K : IsKernel(K, T, D)}
<1>1. SUFFICES ASSUME Bad # {} PROVE FALSE
  OBVIOUS
<1>2. IsWellFoundedOn(StrictSubsetOrdering(S), FiniteSubsetsOf(S)) /\ FiniteSubsetsOf(S) = SUBSET S
  BY FS_StrictSubsetOrderingWellFounded, FS_FiniteSubsetsOfFinite
<1>3. PICK T \in Bad : \A U \in Bad : ~(<<U, T>> \in StrictSubsetOrdering(S))
  <2>1. Bad \subseteq SUBSET S
    OBVIOUS
  <2> HIDE DEF Bad
  <2> QED
    BY <1>1, <1>2, <2>1, WFMin
<1>4. \A U : U \subseteq T /\ U # T => \E K : IsKernel(K, U, D)
  BY <1>3 DEF StrictSubsetOrdering
<1>5. T # {}
  BY DEF IsKernel
<1>6. T \subseteq S /\ IsFiniteSet(T)
  BY FS_Subset
\* The last of T: the one with the foremost of the inverted keys.
<1> DEFINE rev == [r \in T |-> [i \in 1..n |-> 0 - key[r][i]]]
<1>7. rev \in [T -> Keys(n)]
  BY <1>6 DEF Keys
<1>8. \A q, r \in T : Precedes(key[q], key[r]) => Precedes(rev[r], rev[q])
  <2> SUFFICES ASSUME NEW q \in T, NEW r \in T, Precedes(key[q], key[r])
               PROVE  Precedes(rev[r], rev[q])
    OBVIOUS
  <2>1. key[q] \in [1..n -> Int] /\ key[r] \in [1..n -> Int]
    BY <1>6 DEF Keys
  <2>2. PICK k \in 1..n : key[q][k] < key[r][k] /\ \A j \in 1..(k - 1) : key[q][j] = key[r][j]
    BY <2>1 DEF Precedes
  <2>3. rev[r][k] < rev[q][k] /\ \A j \in 1..(k - 1) : rev[r][j] = rev[q][j]
    BY <2>1, <2>2
  <2>4. DOMAIN rev[r] = 1..n
    OBVIOUS
  <2> HIDE DEF rev
  <2> QED
    BY <2>3, <2>4 DEF Precedes
<1> HIDE DEF rev
<1>9. PICK m \in T : \A q \in T : ~Precedes(rev[q], rev[m])
  BY <1>5, <1>6, <1>7, ForemostExists
<1>10. \A r \in T : <<m, r>> \notin D
  BY <1>6, <1>8, <1>9
<1>11. PICK K : IsKernel(K, T \ {m}, D)
  BY <1>4
<1>12. CASE \E q \in K : <<q, m>> \in D
  <2>1. IsKernel(K, T, D)
    BY <1>11, <1>12, <1>10 DEF IsKernel
  <2> QED
    BY <2>1
<1>13. CASE ~\E q \in K : <<q, m>> \in D
  <2>1. IsKernel(K \cup {m}, T, D)
    BY <1>11, <1>13, <1>10 DEF IsKernel
  <2> QED
    BY <2>1
<1> QED
  BY <1>12, <1>13

-----------------------------------------------------------------------------
(* What GreenSearch's orders pick.                                         *)

\* The larger of two numbers.
LEMMA MaxOfTwo ==
  ASSUME NEW a \in Int, NEW b \in Int
  PROVE  Max({a, b}) = IF a >= b THEN a ELSE b
<1>1. \E x \in {a, b} : \A y \in {a, b} : x >= y
  OBVIOUS
<1>2. Max({a, b}) \in {a, b} /\ \A y \in {a, b} : Max({a, b}) >= y
  BY <1>1 DEF Max
<1> QED
  BY <1>2

\* The smaller of two numbers.
LEMMA MinOfTwo ==
  ASSUME NEW a \in Int, NEW b \in Int
  PROVE  Min({a, b}) = IF a <= b THEN a ELSE b
<1>1. \E x \in {a, b} : \A y \in {a, b} : x =< y
  OBVIOUS
<1>2. Min({a, b}) \in {a, b} /\ \A y \in {a, b} : Min({a, b}) =< y
  BY <1>1 DEF Min
<1> QED
  BY <1>2

\* Keys are made of integers.
LEMMA ShareInteger ==
  ASSUME NEW r \in Route, NEW part \in Nat
  PROVE  Share(part, r) \in Int
<1>1. r.duration \in Nat \ {0}
  BY DEF Route
<1> QED
  BY <1>1 DEF Share

\* The tuples of the rankings are keys.
LEMMA TupleKeys ==
  /\ \A a, b \in Int : <<a, b>> \in Keys(2)
  /\ \A a, b, c \in Int : <<a, b, c>> \in Keys(3)
  /\ \A a, b, c, d \in Int : <<a, b, c, d>> \in Keys(4)
  /\ \A a, b, c, d, e \in Int : <<a, b, c, d, e>> \in Keys(5)
  /\ \A a, b, c, d, e, f \in Int : <<a, b, c, d, e, f>> \in Keys(6)
BY DEF Keys

\* The reference of a ranking is a candidate no slower than any other.
LEMMA FastestIsFirst ==
  ASSUME NEW S, IsFiniteSet(S), S # {}, S \subseteq Route
  PROVE  Fastest(S) \in S /\ \A q \in S : Fastest(S).duration <= q.duration
<1> DEFINE key == [r \in S |-> SpeedKey(r)]
<1>1. \A r \in S : r.duration \in Nat /\ r.id \in Nat
  BY DEF Route
<1>2. key \in [S -> Keys(2)]
  BY <1>1, TupleKeys DEF SpeedKey
<1> HIDE DEF key
<1>3. PICK r \in S : \A q \in S : ~Precedes(key[q], key[r])
  BY <1>2, ForemostExists
<1>4. \A q \in S : ~Precedes(SpeedKey(q), SpeedKey(r))
  BY <1>3 DEF key
<1>5. Fastest(S) \in S /\ \A q \in S : ~Precedes(SpeedKey(q), SpeedKey(Fastest(S)))
  BY <1>4 DEF Fastest, Foremost
<1>6. ASSUME NEW q \in S, NEW f \in S, ~Precedes(SpeedKey(q), SpeedKey(f))
      PROVE  f.duration <= q.duration
  <2>1. ~(q.duration < f.duration)
    <3> SUFFICES ASSUME q.duration < f.duration PROVE Precedes(SpeedKey(q), SpeedKey(f))
      BY <1>6
    <3>1. SpeedKey(q)[1] < SpeedKey(f)[1] /\ DOMAIN SpeedKey(q) = 1..2
      BY DEF SpeedKey
    <3> QED
      BY <3>1 DEF Precedes
  <2> QED
    BY <2>1, <1>1
<1> QED
  BY <1>5, <1>6

\* No ID twice: the keys that end in it are different.
LEMMA GreenTopSound ==
  ASSUME NEW S, IsFiniteSet(S), S \subseteq Route, Distinct(S)
  PROVE  /\ GreenTop(S) \subseteq S /\ IsFiniteSet(GreenTop(S))
         /\ Cardinality(GreenTop(S)) <= 3
<1> DEFINE T   == {r \in S : r.observed}
           key == [r \in T |-> GreenKey(r)]
<1>1. IsFiniteSet(T)
  BY FS_Subset
<1>2. \A r \in T : GreenKey(r) \in Keys(4) /\ GreenKey(r)[4] = r.id
  <2> SUFFICES ASSUME NEW r \in T PROVE GreenKey(r) \in Keys(4) /\ GreenKey(r)[4] = r.id
    OBVIOUS
  <2>1. r \in Route /\ r.green \in Nat /\ r.red \in Nat /\ r.duration \in Nat /\ r.id \in Nat
    BY DEF Route
  <2>2. Share(r.green, r) \in Int
    BY <2>1, ShareInteger
  <2>3. 100 - Share(r.green, r) \in Int
    BY <2>2
  <2>4. <<100 - Share(r.green, r), r.red, r.duration, r.id>> \in Keys(4)
    BY <2>1, <2>3 DEF Keys
  <2> QED
    BY <2>4 DEF GreenKey
<1>3. key \in [T -> Keys(4)] /\ \A q, r \in T : key[q] = key[r] => q = r
  BY <1>2 DEF Distinct
<1>4. \A r \in T : {q \in T : Precedes(key[q], key[r])} = {q \in T : Precedes(GreenKey(q), GreenKey(r))}
  OBVIOUS
<1> DEFINE F == FirstOf(3, T, key)
<1>5. GreenTop(S) = F
  BY <1>4 DEF GreenTop, First, TopCount, FirstOf, Predecessors
<1> HIDE DEF key
<1>6. IsFiniteSet(F) /\ Cardinality(F) <= 3
  BY <1>1, <1>3, FirstBounded
<1>7. F \subseteq S
  BY DEF FirstOf
<1> QED
  BY <1>5, <1>6, <1>7

\* The best-effort list holds at most three routes, all of them candidates.
LEMMA BestEffortBounded ==
  ASSUME NEW T, IsFiniteSet(T), T \subseteq Route, Distinct(T)
  PROVE  /\ First(TopCount, T, BestEffortKey) \subseteq T
         /\ Cardinality(First(TopCount, T, BestEffortKey)) <= 3
<1> DEFINE key == [r \in T |-> BestEffortKey(r)]
<1>1. \A r \in T : BestEffortKey(r) \in Keys(6) /\ BestEffortKey(r)[6] = r.id
  <2> SUFFICES ASSUME NEW r \in T PROVE BestEffortKey(r) \in Keys(6) /\ BestEffortKey(r)[6] = r.id
    OBVIOUS
  <2>1. /\ r \in Route /\ r.green \in Nat /\ r.red \in Nat /\ r.unknown \in Nat
        /\ r.duration \in Nat /\ r.distance \in Nat /\ r.id \in Nat
    BY DEF Route
  <2>2. Share(r.green, r) \in Int /\ Share(r.red, r) \in Int /\ Share(r.unknown, r) \in Int
    BY <2>1, ShareInteger
  <2>3. 100 - Share(r.green, r) \in Int
    BY <2>2
  <2>4. <<100 - Share(r.green, r), Share(r.red, r), Share(r.unknown, r), r.duration, r.distance, r.id>>
          \in Keys(6)
    BY <2>1, <2>2, <2>3 DEF Keys
  <2> QED
    BY <2>4 DEF BestEffortKey
<1>2. key \in [T -> Keys(6)] /\ \A q, r \in T : key[q] = key[r] => q = r
  BY <1>1 DEF Distinct
<1>3. \A r \in T : {q \in T : Precedes(key[q], key[r])}
                     = {q \in T : Precedes(BestEffortKey(q), BestEffortKey(r))}
  OBVIOUS
<1> DEFINE F == FirstOf(3, T, key)
<1>4. First(TopCount, T, BestEffortKey) = F
  BY <1>3 DEF First, TopCount, FirstOf, Predecessors
<1> HIDE DEF key
<1>5. Cardinality(F) <= 3
  BY <1>2, FirstBounded
<1>6. F \subseteq T
  BY DEF FirstOf
<1> QED
  BY <1>4, <1>5, <1>6

\* Whatever its mode, a request has a foremost eligible route if it has one.
LEMMA SelectedIsEligible ==
  ASSUME request \in Searches, NEW S, IsFiniteSet(S), S # {}, S \subseteq Route, NEW f \in Route
  PROVE  (CHOOSE r \in S : \A q \in S : ~Precedes(RankKey(q, f), RankKey(r, f))) \in S
<1> DEFINE key == [r \in S |-> RankKey(r, f)]
<1>1. \A r \in S : /\ r.red \in Nat /\ r.unknown \in Nat
                   /\ r.duration \in Nat /\ r.distance \in Nat /\ r.id \in Nat
                   /\ Share(r.unknown, r) \in Int
  BY ShareInteger DEF Route
<1>2. f.duration \in Nat /\ ExtraPenalty \in Nat
  BY GreenAssumption DEF Route
<1>3. request.mode \in {"FASTEST", "GREENEST", "STRICT_GREEN"}
  BY GreenAssumption DEF Search
<1>4. \E n \in Nat : key \in [S -> Keys(n)]
  <2>1. CASE request.mode = "FASTEST"
    <3>1. \A r \in S : RankKey(r, f) = <<r.duration, r.distance, r.id>>
      BY <2>1 DEF RankKey
    <3>2. \A r \in S : RankKey(r, f) \in Keys(3)
      BY <1>1, <3>1 DEF Keys
    <3> QED
      BY <3>2
  <2>2. CASE request.mode = "STRICT_GREEN"
    <3>1. \A r \in S : RankKey(r, f) = <<Share(r.unknown, r), r.red, r.duration, r.distance, r.id>>
      BY <2>2 DEF RankKey
    <3>2. \A r \in S : RankKey(r, f) \in Keys(5)
      BY <1>1, <3>1 DEF Keys
    <3> QED
      BY <3>2
  <2>3. CASE request.mode = "GREENEST"
    <3>1. \A r \in S : RankKey(r, f) = <<Share(r.unknown, r), r.red + (r.duration - f.duration) * ExtraPenalty,
                                         r.duration, r.distance, r.id>>
      BY <2>3 DEF RankKey
    <3>2. \A r \in S : r.red + (r.duration - f.duration) * ExtraPenalty \in Int
      BY <1>1, <1>2
    <3>3. \A r \in S : RankKey(r, f) \in Keys(5)
      BY <1>1, <3>1, <3>2 DEF Keys
    <3> QED
      BY <3>3
  <2> QED
    BY <1>3, <2>1, <2>2, <2>3
<1> HIDE DEF key
<1>5. PICK r \in S : \A q \in S : ~Precedes(key[q], key[r])
  BY <1>4, ForemostExists
<1>6. \A q \in S : ~Precedes(RankKey(q, f), RankKey(r, f))
  BY <1>5 DEF key
<1> QED
  BY <1>6

\* Rank: what is eligible is allowed, the selected route is one of them, and
\* the best effort is what else there is, short of evidence.
LEMMA RankSound ==
  ASSUME request \in Searches, NEW S, IsFiniteSet(S), S # {}, S \subseteq Route, Distinct(S)
  PROVE  /\ Rank(S).eligible = {r \in S : Allowed(r, Fastest(S))}
         /\ Rank(S).selected = NoRoute => Rank(S).eligible = {}
         /\ Rank(S).selected # NoRoute => Rank(S).selected \in Rank(S).eligible
         /\ Rank(S).bestEffort \subseteq S \ Rank(S).eligible
         /\ \A q \in Rank(S).bestEffort : StrictRejection(q)
         /\ Cardinality(Rank(S).bestEffort) <= 3
<1> DEFINE f == Fastest(S)
           E == {r \in S : Allowed(r, f)}
           B == {r \in S \ E : StrictRejection(r)}
           sel == CHOOSE r \in E : \A q \in E : ~Precedes(RankKey(q, f), RankKey(r, f))
<1>1. f \in Route
  BY FastestIsFirst
<1>2. Rank(S) = [eligible |-> E, selected |-> IF E = {} THEN NoRoute ELSE sel,
                 bestEffort |-> First(TopCount, B, BestEffortKey)]
  BY DEF Rank, Foremost
<1>3. E # {} => sel \in E
  <2> SUFFICES ASSUME E # {} PROVE sel \in E
    OBVIOUS
  <2>1. E \subseteq S /\ E \subseteq Route
    OBVIOUS
  <2>2. IsFiniteSet(E)
    BY <2>1, FS_Subset
  <2> HIDE DEF E, f
  <2> QED
    BY <1>1, <2>1, <2>2, SelectedIsEligible
<1>4. B \subseteq S /\ B \subseteq Route /\ Distinct(B)
  BY DEF Distinct
<1>5. IsFiniteSet(B)
  BY <1>4, FS_Subset
<1>6. /\ First(TopCount, B, BestEffortKey) \subseteq B
      /\ Cardinality(First(TopCount, B, BestEffortKey)) <= 3
  <2> HIDE DEF B
  <2> QED
    BY <1>4, <1>5, BestEffortBounded
<1>7. NoRoute \notin E
  BY GreenAssumption
<1> HIDE DEF sel
<1>8. /\ Rank(S).eligible = E
      /\ Rank(S).selected = IF E = {} THEN NoRoute ELSE sel
      /\ Rank(S).bestEffort = First(TopCount, B, BestEffortKey)
  BY <1>2
<1>9. \A q \in B : q \in S \ E /\ StrictRejection(q)
  OBVIOUS
<1> HIDE DEF B
<1> QED
  BY <1>3, <1>6, <1>7, <1>8, <1>9

-----------------------------------------------------------------------------
(* What the provider reports and evaluation makes of it.                   *)

\* A route as the provider returned it or as an evaluation left it.
Reported(r) == \E q \in Routes : r \in {q, Evaluated(q, TRUE), Evaluated(q, FALSE)}

\* What of a route neither depends on the evidence nor changes with it.
VersionOf(r, q) ==
  r.id = q.id /\ r.shape = q.shape /\ r.duration = q.duration /\ r.distance = q.distance

\* Evaluation leaves what identifies a route and decides about duplicates.
LEMMA EvaluatedKeeps ==
  ASSUME NEW q \in Route, NEW blind \in BOOLEAN
  PROVE  Evaluated(q, blind) \in Route /\ VersionOf(Evaluated(q, blind), q)
<1>1. PICK r : r = Evaluated(q, blind)
  OBVIOUS
<1>2. CASE blind \/ ~q.observed
  <2>1. r = [q EXCEPT !.green = 0, !.red = 0, !.unknown = q.duration, !.trusted = FALSE]
    BY <1>1, <1>2 DEF Evaluated
  <2>2. r = [id |-> q.id, shape |-> q.shape, duration |-> q.duration, distance |-> q.distance,
             green |-> 0, red |-> 0, unknown |-> q.duration, observed |-> q.observed,
             trusted |-> FALSE, complete |-> q.complete, toll |-> q.toll, sameTrip |-> q.sameTrip]
    BY <2>1 DEF Route
  <2>3. r \in Route
    BY <2>2 DEF Route
  <2>4. VersionOf(r, q)
    BY <2>2 DEF VersionOf
  <2> QED
    BY <1>1, <2>3, <2>4
<1>3. CASE ~(blind \/ ~q.observed)
  <2>1. r = q
    BY <1>1, <1>3 DEF Evaluated
  <2> QED
    BY <1>1, <2>1 DEF VersionOf
<1> QED
  BY <1>2, <1>3

\* What the provider reported, or an evaluation made of it, is a version of a
\* route there is.
LEMMA ReportedIsRoute ==
  ASSUME NEW r, Reported(r)
  PROVE  r \in Route /\ \E q \in Routes : VersionOf(r, q)
<1>1. PICK q \in Routes : r \in {q, Evaluated(q, TRUE), Evaluated(q, FALSE)}
  BY DEF Reported
<1>2. q \in Route
  BY GreenAssumption
<1>3. VersionOf(q, q)
  BY DEF VersionOf
<1>4. /\ Evaluated(q, TRUE) \in Route /\ VersionOf(Evaluated(q, TRUE), q)
      /\ Evaluated(q, FALSE) \in Route /\ VersionOf(Evaluated(q, FALSE), q)
  BY <1>2, EvaluatedKeeps
<1> QED
  BY <1>1, <1>2, <1>3, <1>4

\* Two of one ID are versions of one route.
LEMMA SameIdSameTrip ==
  ASSUME NEW r, NEW s, Reported(r), Reported(s), r.id = s.id
  PROVE  VersionOf(r, s)
<1>1. PICK p \in Routes : VersionOf(r, p)
  BY ReportedIsRoute
<1>2. PICK q \in Routes : VersionOf(s, q)
  BY ReportedIsRoute
<1>3. p = q
  BY <1>1, <1>2, GreenAssumption DEF VersionOf
<1> QED
  BY <1>1, <1>2, <1>3 DEF VersionOf

\* Two versions of one route are duplicates of each other.
LEMMA SameIdIsDuplicate ==
  ASSUME NEW r, NEW s, Reported(r), Reported(s), r.id = s.id
  PROVE  IsDuplicate(r, s)
<1>1. /\ r.shape = s.shape /\ r.distance = s.distance
      /\ r.shape \in Int /\ r.distance \in Nat /\ r.distance \in Int
  BY SameIdSameTrip, ReportedIsRoute DEF Route, VersionOf
<1>2. Overlap(r, s)
  BY <1>1 DEF Overlap
<1>3. Max({r.distance, s.distance}) = r.distance
  BY <1>1, MaxOfTwo
<1>4. \A a, b \in {r, s} : 100 * (a.distance - b.distance) = 0
  BY <1>1
<1> QED
  BY <1>1, <1>2, <1>3, <1>4 DEF IsDuplicate
-----------------------------------------------------------------------------
(* Deduplicate.                                                            *)

\* Deduplicate in the order of speed, IDs and position: candidates only, no ID
\* twice, and for every route there was one that stays and is no slower.
LEMMA DeduplicateSound ==
  ASSUME NEW old, IsFiniteSet(old), Distinct(old), \A r \in old : Reported(r),
         NEW new, IsFiniteSet(new), Distinct(new), \A r \in new : Reported(r)
  PROVE  /\ Deduplicate(old, new) \subseteq old \cup new
         /\ Distinct(Deduplicate(old, new))
         /\ \A r \in old \cup new : \E k \in Deduplicate(old, new) : k.duration <= r.duration
<1> DEFINE S   == old \cup new
           Place(r) == <<r.duration, r.id, IF r \in old THEN 0 ELSE 1>>
           key == [r \in S |-> Place(r)]
           D   == {p \in S \X S : Precedes(Place(p[1]), Place(p[2])) /\ IsDuplicate(p[1], p[2])}
           K   == Deduplicate(old, new)
<1>1. \A r \in S : Reported(r) /\ r \in Route /\ r.duration \in Nat /\ r.id \in Nat
  BY ReportedIsRoute DEF Route
<1>2. IsFiniteSet(S)
  BY FS_Union
<1>3. \A r \in S : Place(r) \in Keys(3)
  BY <1>1 DEF Keys
<1>4. key \in [S -> Keys(3)]
  BY <1>3
<1>5. \A q, r \in S : <<q, r>> \in D <=> Precedes(Place(q), Place(r)) /\ IsDuplicate(q, r)
  OBVIOUS
<1>6. K = CHOOSE kept \in SUBSET S :
            \A r \in S : r \in kept <=> ~\E q \in kept : Precedes(Place(q), Place(r)) /\ IsDuplicate(q, r)
  BY DEF Deduplicate
<1>7. \A kept \in SUBSET S :
        (\A r \in S : r \in kept <=> ~\E q \in kept : Precedes(Place(q), Place(r)) /\ IsDuplicate(q, r))
          <=> IsKernel(kept, S, D)
  <2> SUFFICES ASSUME NEW kept \in SUBSET S
      PROVE  (\A r \in S : r \in kept <=> ~\E q \in kept : Precedes(Place(q), Place(r)) /\ IsDuplicate(q, r))
               <=> IsKernel(kept, S, D)
    OBVIOUS
  <2>1. \A r \in S : (\E q \in kept : Precedes(Place(q), Place(r)) /\ IsDuplicate(q, r))
                      <=> \E q \in kept : <<q, r>> \in D
    BY <1>5
  <2> HIDE DEF D, Place
  <2> QED
    BY <2>1 DEF IsKernel
<1>8. \E kept : IsKernel(kept, S, D)
  <2>1. \A q, r \in S : <<q, r>> \in D => Precedes(key[q], key[r])
    BY <1>5
  <2> HIDE DEF key, D, S
  <2> QED
    BY <1>2, <1>4, <2>1, KernelExists
<1>9. IsKernel(K, S, D)
  <2>1. PICK kept : IsKernel(kept, S, D)
    BY <1>8
  <2>2. kept \in SUBSET S
    BY <2>1 DEF IsKernel
  <2> HIDE DEF D, Place, K
  <2> QED
    BY <1>6, <1>7, <2>1, <2>2
<1> HIDE DEF K
<1>10. K \subseteq S /\ \A r \in S : r \in K <=> ~\E q \in K : Precedes(Place(q), Place(r)) /\ IsDuplicate(q, r)
  BY <1>5, <1>9 DEF IsKernel
<1>11. ASSUME NEW q \in S, NEW r \in S, Precedes(Place(q), Place(r))
       PROVE  q.duration <= r.duration
  <2>1. ~(r.duration < q.duration)
    BY <1>1, <1>11 DEF Precedes
  <2> QED
    BY <1>1, <2>1
<1>12. ASSUME NEW r \in S PROVE \E k \in K : k.duration <= r.duration
  <2>1. CASE r \in K
    BY <2>1, <1>1
  <2>2. CASE r \notin K
    <3>1. PICK q \in K : Precedes(Place(q), Place(r))
      BY <2>2, <1>10
    <3>2. q.duration <= r.duration
      BY <3>1, <1>10, <1>11
    <3> QED
      BY <3>2
  <2> QED
    BY <2>1, <2>2
<1>13. ASSUME NEW q \in K, NEW r \in K, q.id = r.id, q # r PROVE FALSE
  <2>1. q \in S /\ r \in S /\ Reported(q) /\ Reported(r)
    BY <1>1, <1>10
  <2>2. q.duration = r.duration
    BY <1>13, <2>1, SameIdSameTrip DEF VersionOf
  <2>3. IsDuplicate(q, r) /\ IsDuplicate(r, q)
    BY <1>13, <2>1, SameIdIsDuplicate
  <2>4. (q \in old) # (r \in old)
    BY <1>13, <2>1 DEF Distinct
  <2>5. Place(q) # Place(r)
    BY <2>4
  <2>6. Place(q) \in Keys(3) /\ Place(r) \in Keys(3)
    BY <1>3, <2>1
  <2>7. Precedes(Place(q), Place(r)) \/ Precedes(Place(r), Place(q))
    <3> HIDE DEF Place
    <3> QED
      BY <2>5, <2>6, PrecedesTotal
  <2> QED
    BY <2>1, <2>3, <2>7, <1>10, <1>13
<1>14. Distinct(K)
  BY <1>13 DEF Distinct
<1> QED
  BY <1>10, <1>12, <1>14 DEF K
-----------------------------------------------------------------------------
(* evaluateAll.                                                            *)

\* The image of a finite set has at most as many members.
LEMMA ImageBounded ==
  ASSUME NEW S, IsFiniteSet(S), NEW f, DOMAIN f = S
  PROVE  IsFiniteSet({f[x] : x \in S}) /\ Cardinality({f[x] : x \in S}) <= Cardinality(S)
<1> DEFINE T == {f[x] : x \in S}
           g == [x \in S |-> f[x]]
<1>1. g \in Surjection(S, T)
  BY DEF Surjection
<1> HIDE DEF g, T
<1>2. IsFiniteSet(T) /\ Cardinality(T) <= Cardinality(S)
  BY <1>1, FS_Surjection
<1> QED
  BY <1>2 DEF T

\* Lost, blind or complete: of routes the provider reported, an evaluation
\* leaves versions of some, no ID twice, and spends within the budget.
LEMMA EvaluationSound ==
  ASSUME NEW S, IsFiniteSet(S), S \subseteq Routes, NEW budget \in Nat,
         NEW evaluation \in Evaluations(S, budget)
  PROVE  /\ IsFiniteSet(evaluation.routes) /\ Cardinality(evaluation.routes) <= Cardinality(S)
         /\ \A r \in evaluation.routes : Reported(r)
         /\ Distinct(evaluation.routes)
         /\ evaluation.left \in 0..budget
<1> DEFINE calling == {r \in S : NeedsBaseline(r)}
           seen(dropped, blind) == calling \ (dropped \cup blind)
           spent(dropped, blind) == IF seen(dropped, blind) = {} /\ blind # {} /\ budget > 0 THEN 1
                                   ELSE Cardinality(seen(dropped, blind))
           low == Max({0, budget - LeaseAsked * Cardinality(calling)})
<1>1. PICK dropped \in SUBSET S, blind \in SUBSET calling :
        \E left \in low..(budget - spent(dropped, blind)) :
          evaluation = [routes |-> {Evaluated(r, r \in blind) : r \in S \ dropped}, left |-> left]
  <2> DEFINE Outcomes(dropped, blind) ==
               {[routes |-> {Evaluated(r, r \in blind) : r \in S \ dropped}, left |-> left] :
                  left \in low..(budget - spent(dropped, blind))}
  <2>1. Evaluations(S, budget) =
          UNION {Outcomes(dropped, blind) : dropped \in SUBSET S, blind \in SUBSET calling}
    BY DEF Evaluations
  <2>2. \A dropped, blind : evaluation \in Outcomes(dropped, blind) =>
          \E left \in low..(budget - spent(dropped, blind)) :
            evaluation = [routes |-> {Evaluated(r, r \in blind) : r \in S \ dropped}, left |-> left]
    OBVIOUS
  <2> HIDE DEF Outcomes, low, spent, calling
  <2>3. \E dropped \in SUBSET S, blind \in SUBSET calling : evaluation \in Outcomes(dropped, blind)
    BY <2>1
  <2> QED
    BY <2>2, <2>3
<1>2. PICK left \in low..(budget - spent(dropped, blind)) :
        evaluation = [routes |-> {Evaluated(r, r \in blind) : r \in S \ dropped}, left |-> left]
  BY <1>1
<1>3. IsFiniteSet(calling) /\ IsFiniteSet(seen(dropped, blind)) /\ IsFiniteSet(S \ dropped)
      /\ Cardinality(S \ dropped) <= Cardinality(S)
  <2>1. calling \in SUBSET S /\ seen(dropped, blind) \in SUBSET S /\ S \ dropped \in SUBSET S
    OBVIOUS
  <2> HIDE DEF calling, seen
  <2> QED
    BY <2>1, FS_Subset
<1>4. Cardinality(calling) \in Nat /\ Cardinality(seen(dropped, blind)) \in Nat
  <2> HIDE DEF calling, seen
  <2> QED
    BY <1>3, FS_CardinalityType
<1>5. low \in Nat
  <2>1. budget - LeaseAsked * Cardinality(calling) \in Int
    BY <1>4 DEF LeaseAsked
  <2> HIDE DEF calling
  <2> QED
    BY <2>1, MaxOfTwo
<1>6. spent(dropped, blind) \in Nat
  BY <1>4
<1>7. left \in 0..budget
  <2> HIDE DEF low, spent
  <2> QED
    BY <1>2, <1>5, <1>6
<1> DEFINE f == [r \in S \ dropped |-> Evaluated(r, r \in blind)]
           E == {f[r] : r \in S \ dropped}
<1>8. evaluation.routes = E /\ evaluation.left = left
  BY <1>2
<1>9. \A r \in S \ dropped : f[r] \in Route /\ VersionOf(f[r], r) /\ Reported(f[r])
  <2> SUFFICES ASSUME NEW r \in S \ dropped
               PROVE  f[r] \in Route /\ VersionOf(f[r], r) /\ Reported(f[r])
    OBVIOUS
  <2>1. r \in Routes /\ r \in Route
    BY GreenAssumption
  <2>2. CASE r \in blind
    <3>1. f[r] = Evaluated(r, TRUE)
      BY <2>2 DEF Evaluated
    <3> QED
      BY <2>1, <3>1, EvaluatedKeeps DEF Reported
  <2>3. CASE r \notin blind
    <3>1. f[r] = Evaluated(r, FALSE)
      BY <2>3 DEF Evaluated
    <3> QED
      BY <2>1, <3>1, EvaluatedKeeps DEF Reported
  <2> QED
    BY <2>2, <2>3
<1>10. IsFiniteSet(E) /\ Cardinality(E) <= Cardinality(S \ dropped)
  <2>1. DOMAIN f = S \ dropped
    OBVIOUS
  <2> HIDE DEF f
  <2> QED
    BY <2>1, <1>3, ImageBounded
<1> HIDE DEF f
<1>11. Cardinality(E) <= Cardinality(S)
  <2>1. Cardinality(E) \in Nat /\ Cardinality(S \ dropped) \in Nat /\ Cardinality(S) \in Nat
    BY <1>3, <1>10, FS_CardinalityType
  <2> HIDE DEF E
  <2> QED
    BY <2>1, <1>3, <1>10
<1>12. \A x, y \in E : x.id = y.id => x = y
  <2> SUFFICES ASSUME NEW q \in S \ dropped, NEW r \in S \ dropped, f[q].id = f[r].id
               PROVE  f[q] = f[r]
    OBVIOUS
  <2>1. q.id = r.id
    BY <1>9 DEF VersionOf
  <2>2. q = r
    BY <2>1, GreenAssumption
  <2> QED
    BY <2>2
<1>13. \A x \in E : Reported(x)
  BY <1>9
<1> QED
  BY <1>7, <1>8, <1>10, <1>11, <1>12, <1>13 DEF Distinct
-----------------------------------------------------------------------------
(* Results, and what the steps of run and enhance make of them.            *)

Results == [status: Status, fastest: Route \cup {NoRoute}, selected: Route \cup {NoRoute},
            alternatives: SUBSET Route, bestEffort: SUBSET Route, greenTop: SUBSET Route]

\* What holds of a result at every place of the program, and of the draft.
Sound(mode, r) ==
  /\ r \in Results
  /\ ValidLists(r)
  /\ mode = "STRICT_GREEN" => \A q \in r.alternatives : ProvenGreen(q)
  /\ r.selected # NoRoute => r.selected \in r.alternatives
  /\ \A q \in Published(r) : r.fastest.duration <= q.duration

\* Alternatives are there only with a selection.
Whole(r) == r.selected = NoRoute => r.alternatives = {}

\* For every route shown there is a candidate no slower, so that a reference
\* taken from the candidates is no slower either.
Grounded(S, r) == \A q \in Published(r) : \E p \in S : p.duration <= q.duration

CandidateSet(S) == IsFiniteSet(S) /\ Distinct(S) /\ \A r \in S : Reported(r)

\* A set of candidates is finite, with no ID twice.
LEMMA CandidatesAreRoutes ==
  ASSUME NEW S, CandidateSet(S)
  PROVE  IsFiniteSet(S) /\ Distinct(S) /\ S \subseteq Route
BY ReportedIsRoute DEF CandidateSet

\* And so is any part of it.
LEMMA DistinctSubset ==
  ASSUME NEW S, Distinct(S), NEW T, T \subseteq S
  PROVE  Distinct(T)
BY DEF Distinct

\* The first ranking of a search (run).
LEMMA RankedSound ==
  ASSUME request \in Searches, NEW S, CandidateSet(S), S # {}, NEW status \in Status,
         NEW r, r = [status |-> status, fastest |-> Fastest(S), selected |-> Rank(S).selected,
                     alternatives |-> Rank(S).eligible, bestEffort |-> Rank(S).bestEffort,
                     greenTop |-> GreenTop(S)]
  PROVE  /\ Sound(request.mode, r) /\ Whole(r) /\ ValidSelection(r) /\ Grounded(S, r)
         /\ r.status = status /\ r.selected = Rank(S).selected
<1>1. IsFiniteSet(S) /\ Distinct(S) /\ S \subseteq Route
  BY CandidatesAreRoutes
<1>2. PICK k : k = Rank(S)
  OBVIOUS
<1>3. /\ k.eligible = {q \in S : Allowed(q, Fastest(S))}
      /\ k.selected = NoRoute => k.eligible = {}
      /\ k.selected # NoRoute => k.selected \in k.eligible
      /\ k.bestEffort \subseteq S \ k.eligible
      /\ \A q \in k.bestEffort : StrictRejection(q)
      /\ Cardinality(k.bestEffort) <= 3
  BY <1>1, <1>2, RankSound
<1>4. k.eligible \subseteq S /\ (request.mode = "STRICT_GREEN" => \A q \in k.eligible : ProvenGreen(q))
  BY <1>3 DEF Allowed
<1>5. GreenTop(S) \subseteq S /\ Cardinality(GreenTop(S)) <= 3
  BY <1>1, GreenTopSound
<1>6. Fastest(S) \in S /\ \A q \in S : Fastest(S).duration <= q.duration
  BY <1>1, FastestIsFirst
<1>7. r = [status |-> status, fastest |-> Fastest(S), selected |-> k.selected,
           alternatives |-> k.eligible, bestEffort |-> k.bestEffort, greenTop |-> GreenTop(S)]
  BY <1>2
<1>8. /\ r.fastest = Fastest(S) /\ r.selected = k.selected /\ r.alternatives = k.eligible
       /\ r.bestEffort = k.bestEffort /\ r.greenTop = GreenTop(S) /\ r.status = status
  BY <1>7
<1>9. Published(r) \subseteq S
  BY <1>3, <1>4, <1>8 DEF Published
<1>10. r \in Results
  BY <1>1, <1>3, <1>4, <1>5, <1>6, <1>7 DEF Results
<1>11. Distinct(k.bestEffort) /\ Distinct(GreenTop(S))
  BY <1>1, <1>3, <1>5, DistinctSubset
<1>12. ValidLists(r)
  BY <1>3, <1>5, <1>8, <1>11 DEF ValidLists, StrictRejection, ProvenGreen, Confident
<1>13. Sound(request.mode, r)
  BY <1>3, <1>4, <1>6, <1>8, <1>9, <1>10, <1>12 DEF Sound
<1>14. ValidSelection(r)
  BY <1>1, <1>3, <1>4, <1>8 DEF ValidSelection, Distinct
<1>15. Grounded(S, r)
  <2> SUFFICES ASSUME NEW q \in Published(r) PROVE \E p \in S : p.duration <= q.duration
    BY DEF Grounded
  <2>1. Fastest(S).duration <= q.duration
    BY <1>6, <1>9
  <2> QED
    BY <2>1, <1>6
<1> QED
  BY <1>2, <1>3, <1>8, <1>13, <1>14, <1>15 DEF Whole

\* What an answered probe makes of the draft (enhance).  A selection that the
\* new ranking does not replace has the evidence STRICT_GREEN asks for, so it is
\* not among the best-effort routes while it is a candidate.
LEMMA ImprovedSound ==
  ASSUME request \in Searches, NEW S, CandidateSet(S), S # {},
         Sound(request.mode, draft), Whole(draft), Grounded(S, draft),
         NEW r, r = Improved(S)
  PROVE  /\ Sound(request.mode, r) /\ Whole(r) /\ Grounded(S, r)
         /\ r.selected \in S => ValidSelection(r)
         /\ r.status = draft.status
<1>1. IsFiniteSet(S) /\ Distinct(S) /\ S \subseteq Route
  BY CandidatesAreRoutes
<1>2. draft \in Results
  BY DEF Sound
<1>3. PICK k : k = Rank(S)
  OBVIOUS
<1>4. CASE k.selected # NoRoute
  <2>1. r = [[draft EXCEPT !.fastest = Fastest(S), !.bestEffort = k.bestEffort,
                !.greenTop = GreenTop(S)]
               EXCEPT !.selected = k.selected, !.alternatives = k.eligible]
    BY <1>3, <1>4 DEF Improved
  <2>2. PICK base : base = [draft EXCEPT !.fastest = Fastest(S), !.bestEffort = k.bestEffort,
                              !.greenTop = GreenTop(S)]
    OBVIOUS
  <2>3. base = [status |-> draft.status, fastest |-> Fastest(S), selected |-> draft.selected,
                alternatives |-> draft.alternatives, bestEffort |-> k.bestEffort,
                greenTop |-> GreenTop(S)]
    BY <1>2, <2>2 DEF Results
  <2>4. r = [base EXCEPT !.selected = k.selected, !.alternatives = k.eligible]
    BY <2>1, <2>2
  <2>5. r = [status |-> draft.status, fastest |-> Fastest(S), selected |-> k.selected,
             alternatives |-> k.eligible, bestEffort |-> k.bestEffort, greenTop |-> GreenTop(S)]
    BY <2>3, <2>4
  <2>6. draft.status \in Status
    BY <1>2 DEF Results
  <2>7. /\ Sound(request.mode, r) /\ Whole(r) /\ ValidSelection(r) /\ Grounded(S, r)
        /\ r.status = draft.status
    BY <1>3, <2>5, <2>6, RankedSound
  <2> QED
    BY <2>7
<1>5. CASE k.selected = NoRoute
  <2>1. /\ k.eligible = {}
        /\ k.bestEffort \subseteq S /\ Cardinality(k.bestEffort) <= 3
        /\ \A q \in k.bestEffort : StrictRejection(q)
    BY <1>1, <1>3, <1>5, RankSound
  <2>2. GreenTop(S) \subseteq S /\ Cardinality(GreenTop(S)) <= 3
    BY <1>1, GreenTopSound
  <2>3. Fastest(S) \in S /\ \A q \in S : Fastest(S).duration <= q.duration
    BY <1>1, FastestIsFirst
  <2>4. r = [draft EXCEPT !.fastest = Fastest(S), !.bestEffort = k.bestEffort, !.greenTop = GreenTop(S)]
    BY <1>3, <1>5 DEF Improved
  <2>5. r = [status |-> draft.status, fastest |-> Fastest(S), selected |-> draft.selected,
             alternatives |-> draft.alternatives, bestEffort |-> k.bestEffort,
             greenTop |-> GreenTop(S)]
    BY <1>2, <2>4 DEF Results
  <2>6. r \in Results
    BY <1>1, <1>2, <2>1, <2>2, <2>3, <2>5 DEF Results
  <2>7. Distinct(k.bestEffort) /\ Distinct(GreenTop(S))
    BY <1>1, <2>1, <2>2, DistinctSubset
  <2>8. ValidLists(r)
    BY <2>1, <2>2, <2>5, <2>7 DEF ValidLists, StrictRejection, ProvenGreen, Confident
  <2>9. Published(r) \subseteq Published(draft) \cup S
    BY <2>1, <2>5 DEF Published
  <2>10. ASSUME NEW q \in Published(r)
         PROVE  /\ Fastest(S).duration <= q.duration
                /\ \E p \in S : p.duration <= q.duration
    <3>1. PICK p \in S : p.duration <= q.duration
      <4>1. CASE q \in Published(draft)
        BY <4>1 DEF Grounded
      <4>2. CASE q \in S
        BY <4>2, <1>1 DEF Route
      <4> QED
        BY <2>9, <4>1, <4>2
    <3>2. Fastest(S).duration <= p.duration
      BY <2>3
    <3>3. q \in Route
      BY <2>6 DEF Published, Results
    <3>4. q.duration \in Nat /\ p.duration \in Nat /\ Fastest(S).duration \in Nat
      BY <1>1, <2>3, <3>1, <3>3 DEF Route
    <3> QED
      BY <3>1, <3>2, <3>4
  <2>11. Grounded(S, r)
    BY <2>10 DEF Grounded
  <2>12. \A q \in Published(r) : r.fastest.duration <= q.duration
    BY <2>5, <2>10
  <2>13. Sound(request.mode, r)
    BY <2>5, <2>6, <2>8, <2>12 DEF Sound
  <2>14. r.selected \in S => ValidSelection(r)
    <3> SUFFICES ASSUME r.selected \in S, r.selected # NoRoute, NEW q \in r.bestEffort,
                        q.id = r.selected.id
                 PROVE  FALSE
      BY DEF ValidSelection
    <3>1. q = r.selected
      BY <1>1, <2>1, <2>5 DEF Distinct
    <3>2. request.mode = "STRICT_GREEN" /\ ~ProvenGreen(q)
      BY <2>1, <2>5 DEF StrictRejection
    <3> QED
      BY <2>13, <3>1, <3>2 DEF Sound
  <2> QED
    BY <2>5, <2>11, <2>13, <2>14 DEF Whole
<1> QED
  BY <1>4, <1>5
\* A newer green top, over candidates there are (enhance).
LEMMA GreenTopUpdate ==
  ASSUME NEW mode, NEW base, Sound(mode, base), NEW S, CandidateSet(S),
         NEW r, r = [base EXCEPT !.greenTop = GreenTop(S)]
  PROVE  /\ Sound(mode, r) /\ Published(r) = Published(base)
         /\ r.status = base.status /\ r.selected = base.selected /\ r.fastest = base.fastest
         /\ r.alternatives = base.alternatives /\ r.bestEffort = base.bestEffort
<1>1. base \in Results
  BY DEF Sound
<1>2. GreenTop(S) \subseteq S /\ Cardinality(GreenTop(S)) <= 3 /\ S \subseteq Route /\ Distinct(S)
  BY CandidatesAreRoutes, GreenTopSound
<1>3. Distinct(GreenTop(S))
  BY <1>2, DistinctSubset
<1>4. PICK t : t = [base EXCEPT !.greenTop = GreenTop(S)]
  OBVIOUS
<1>5. t = [status |-> base.status, fastest |-> base.fastest, selected |-> base.selected,
           alternatives |-> base.alternatives, bestEffort |-> base.bestEffort,
           greenTop |-> GreenTop(S)]
  BY <1>1, <1>4 DEF Results
<1>6. t \in Results
  BY <1>1, <1>2, <1>5 DEF Results
<1>7. ValidLists(t)
  BY <1>2, <1>3, <1>5 DEF Sound, ValidLists
<1>8. Published(t) = Published(base)
  BY <1>5 DEF Published
<1>9. Sound(mode, t)
  BY <1>5, <1>6, <1>7, <1>8 DEF Sound
<1>10. r = t
  BY <1>4
<1>11. /\ t.status = base.status /\ t.selected = base.selected /\ t.fastest = base.fastest
       /\ t.alternatives = base.alternatives /\ t.bestEffort = base.bestEffort
  BY <1>5
<1> HIDE <1>4
<1> QED
  BY <1>8, <1>9, <1>10, <1>11

\* finish: only the status changes, and it tells whether there is a selection.
LEMMA PublishedSound ==
  ASSUME NEW mode, NEW base, Sound(mode, base), Publish(base)
  PROVE  /\ Sound(mode, result') /\ Published(result') = Published(base)
         /\ result'.status = (IF base.selected = NoRoute THEN "DEGRADED" ELSE "COMPLETED")
         /\ result'.selected = base.selected /\ result'.alternatives = base.alternatives
         /\ result'.bestEffort = base.bestEffort
<1>1. base \in Results
  BY DEF Sound
<1>2. PICK s : s = IF base.selected = NoRoute THEN "DEGRADED" ELSE "COMPLETED"
  OBVIOUS
<1>3. PICK t : t = [base EXCEPT !.status = s]
  OBVIOUS
<1>4. t = [status |-> s, fastest |-> base.fastest, selected |-> base.selected,
           alternatives |-> base.alternatives, bestEffort |-> base.bestEffort,
           greenTop |-> base.greenTop]
  BY <1>1, <1>3 DEF Results
<1>5. t \in Results
  BY <1>1, <1>2, <1>4 DEF Results, Status
<1>6. ValidLists(t)
  BY <1>4 DEF Sound, ValidLists
<1>7. Published(t) = Published(base)
  BY <1>4 DEF Published
<1>8. Sound(mode, t)
  BY <1>4, <1>5, <1>6, <1>7 DEF Sound
<1>9. result' = t
  BY <1>2, <1>3 DEF Publish
<1> QED
  BY <1>2, <1>4, <1>7, <1>8, <1>9

\* A panic takes the selection and leaves the lists.
LEMMA PanickedSound ==
  ASSUME NEW mode, Sound(mode, result), Panic
  PROVE  Sound(mode, result') /\ result'.status = "FAILED" /\ result'.selected = NoRoute
<1>1. result \in Results
  BY DEF Sound
<1>2. PICK t : t = [result EXCEPT !.status = "FAILED", !.selected = NoRoute]
  OBVIOUS
<1>3. t = [status |-> "FAILED", fastest |-> result.fastest, selected |-> NoRoute,
           alternatives |-> result.alternatives, bestEffort |-> result.bestEffort,
           greenTop |-> result.greenTop]
  BY <1>1, <1>2 DEF Results
<1>4. t \in Results
  BY <1>1, <1>3 DEF Results, Status
<1>5. ValidLists(t)
  BY <1>3 DEF Sound, ValidLists
<1>6. Published(t) \subseteq Published(result)
  BY <1>3 DEF Published
<1>7. Sound(mode, t)
  BY <1>3, <1>4, <1>5, <1>6 DEF Sound
<1>8. result' = t
  BY <1>2 DEF Panic
<1> QED
  BY <1>3, <1>7, <1>8

-----------------------------------------------------------------------------
(* The inductive invariant.                                                *)

PoolSound == CandidateSet(pool) /\ Cardinality(pool) <= MaxActive

Places ==
  /\ pc \in PC
  /\ request \in Searches
  /\ remaining \in 0..Budget
  /\ iteration \in 0..MaxIterations
  /\ errors \in 0..2

\* Before the first ranking there is nothing to show, and the candidates are as
\* the provider reported them.
Beginning ==
  /\ pc = "initial" => pool = {}
  /\ pc = "evaluate" => pool \subseteq Routes
  /\ pc \in {"initial", "evaluate"} => Published(result) = {} /\ Whole(result)

DraftInv ==
  /\ Sound(request.mode, draft) /\ Whole(draft) /\ draft.status = "SEARCHING"
  /\ pc \in {"tollFree", "probe"} =>
       /\ pool # {} /\ Grounded(pool, draft)
       /\ draft.selected \in pool => ValidSelection(draft)
  /\ pc = "tollFree" => ValidSelection(draft)

ResultInv ==
  /\ Sound(request.mode, result)
  /\ pc # "done" => result.status = "SEARCHING"
  /\ result.status = "COMPLETED" => result.selected # NoRoute
  /\ result.status # "FAILED" => Whole(result)
  /\ pc = "done" /\ result.selected \in pool => ValidSelection(result)

GreenInv == Places /\ PoolSound /\ Beginning /\ DraftInv /\ ResultInv
\* What the assumptions on the configuration say.
LEMMA GreenTypes ==
  /\ MaxActive \in Nat \ {0} /\ Budget \in Nat \ {0} /\ MaxAnswer \in Nat \ {0}
  /\ MaxIterations \in Nat /\ IsFiniteSet(Routes) /\ Routes \subseteq Route /\ NoRoute \notin Route
  /\ \A r \in Routes : Reported(r)
BY GreenAssumption DEF Reported

\* routeWithBudget never charges more than there is left.
LEMMA ChargesWithin ==
  ASSUME remaining \in 0..Budget
  PROVE  /\ \A cost \in Charges : remaining - cost \in 0..Budget
         /\ remaining - FailureCharge \in 0..Budget
<1>1. Budget \in Nat /\ remaining \in Int /\ LeaseAsked = 2
  BY GreenTypes DEF LeaseAsked
<1>2. Min({LeaseAsked, remaining}) = IF 2 <= remaining THEN 2 ELSE remaining
  BY <1>1, MinOfTwo
<1> QED
  BY <1>1, <1>2 DEF Charges, FailureCharge

\* An answer is within the limit it was asked for.
LEMMA AnswerBounded ==
  ASSUME NEW limit \in Nat, NEW answer \in Answers(limit)
  PROVE  /\ answer \subseteq Routes /\ IsFiniteSet(answer) /\ Cardinality(answer) <= limit
         /\ CandidateSet(answer)
<1>1. answer \subseteq Routes /\ Cardinality(answer) <= Min({limit, MaxAnswer})
  BY DEF Answers
<1>2. IsFiniteSet(answer)
  BY <1>1, GreenTypes, FS_Subset
<1>3. Cardinality(answer) \in Nat /\ limit \in Int /\ MaxAnswer \in Int
  BY <1>2, FS_CardinalityType, GreenTypes
<1>4. Cardinality(answer) <= limit
  BY <1>1, <1>3, MinOfTwo
<1>5. Distinct(answer)
  BY <1>1, GreenAssumption DEF Distinct
<1>6. \A r \in answer : Reported(r)
  BY <1>1, GreenTypes
<1> QED
  BY <1>1, <1>2, <1>4, <1>5, <1>6 DEF CandidateSet

\* filterSameTrip leaves some of an answer.
LEMMA SameTripOfAnswer ==
  ASSUME NEW answer \in SUBSET Routes, IsFiniteSet(answer)
  PROVE  /\ SameTrip(answer) \subseteq Routes /\ IsFiniteSet(SameTrip(answer))
         /\ Cardinality(SameTrip(answer)) <= Cardinality(answer)
<1>1. SameTrip(answer) \in SUBSET answer
  BY DEF SameTrip
<1> QED
  BY <1>1, FS_Subset

\* The pool after new routes have joined it: candidates, within the capacity
\* that was left for them, and a reason for all that was shown before.
LEMMA PoolGrows ==
  ASSUME NEW S, CandidateSet(S), Cardinality(S) <= MaxActive,
         NEW new, CandidateSet(new), Cardinality(new) <= MaxActive - Cardinality(S)
  PROVE  /\ CandidateSet(Deduplicate(S, new)) /\ Cardinality(Deduplicate(S, new)) <= MaxActive
         /\ S \cup new # {} => Deduplicate(S, new) # {}
         /\ \A r \in Results : Grounded(S, r) => Grounded(Deduplicate(S, new), r)
<1> DEFINE K == Deduplicate(S, new)
<1>1. /\ K \subseteq S \cup new /\ Distinct(K)
      /\ \A r \in S \cup new : \E k \in K : k.duration <= r.duration
  BY DeduplicateSound DEF CandidateSet
<1> HIDE DEF K
<1>2. IsFiniteSet(S) /\ IsFiniteSet(new)
  BY DEF CandidateSet
<1>3. /\ IsFiniteSet(S \cup new)
      /\ Cardinality(S \cup new) = Cardinality(S) + Cardinality(new) - Cardinality(S \cap new)
  BY <1>2, FS_Union
<1>4. IsFiniteSet(S \cap new)
  BY <1>2, FS_Intersection
<1>5. IsFiniteSet(K) /\ Cardinality(K) <= Cardinality(S \cup new)
  BY <1>1, <1>3, FS_Subset
<1>6. /\ Cardinality(S) \in Nat /\ Cardinality(new) \in Nat /\ Cardinality(S \cap new) \in Nat
      /\ Cardinality(S \cup new) \in Nat /\ Cardinality(K) \in Nat
  BY <1>2, <1>3, <1>4, <1>5, FS_CardinalityType
<1>7. Cardinality(K) <= MaxActive
  BY <1>3, <1>5, <1>6, GreenTypes
<1>8. CandidateSet(K)
  BY <1>1, <1>5 DEF CandidateSet
<1>9. S \cup new # {} => K # {}
  BY <1>1
<1>10. ASSUME NEW r \in Results, Grounded(S, r) PROVE Grounded(K, r)
  <2> SUFFICES ASSUME NEW q \in Published(r) PROVE \E k \in K : k.duration <= q.duration
    BY DEF Grounded
  <2>1. PICK p \in S : p.duration <= q.duration
    BY <1>10 DEF Grounded
  <2>2. PICK k \in K : k.duration <= p.duration
    BY <1>1
  <2>3. k \in Route /\ p \in Route /\ q \in Route
    BY <1>8, <2>1, <2>2, CandidatesAreRoutes DEF Published, Results
  <2>4. k.duration \in Nat /\ p.duration \in Nat /\ q.duration \in Nat
    BY <2>3 DEF Route
  <2>5. k.duration <= q.duration
    BY <2>1, <2>2, <2>4
  <2> QED
    BY <2>5
<1> QED
  BY <1>7, <1>8, <1>9, <1>10 DEF K

\* A probe or the toll-free question is answered: what joins the pool.
LEMMA AnswerJoins ==
  ASSUME CandidateSet(pool), Cardinality(pool) <= MaxActive, remaining \in 0..Budget,
         NEW answer \in Answers(MaxActive - Cardinality(pool)), NEW cost \in Charges,
         NEW evaluation \in Evaluations(SameTrip(answer), remaining - cost)
  PROVE  /\ CandidateSet(Deduplicate(pool, evaluation.routes))
         /\ Cardinality(Deduplicate(pool, evaluation.routes)) <= MaxActive
         /\ pool # {} => Deduplicate(pool, evaluation.routes) # {}
         /\ \A r \in Results : Grounded(pool, r) => Grounded(Deduplicate(pool, evaluation.routes), r)
         /\ evaluation.left \in 0..Budget
<1>1. Cardinality(pool) \in Nat
  BY FS_CardinalityType DEF CandidateSet
<1>2. MaxActive - Cardinality(pool) \in Nat
  BY <1>1, GreenTypes
<1>3. answer \subseteq Routes /\ IsFiniteSet(answer) /\ Cardinality(answer) <= MaxActive - Cardinality(pool)
  BY <1>2, AnswerBounded
<1>4. /\ SameTrip(answer) \subseteq Routes /\ IsFiniteSet(SameTrip(answer))
      /\ Cardinality(SameTrip(answer)) <= Cardinality(answer)
  BY <1>3, SameTripOfAnswer
<1>5. remaining - cost \in 0..Budget
  BY ChargesWithin
<1>6. remaining - cost \in Nat
  BY <1>5, GreenTypes
<1>7. /\ IsFiniteSet(evaluation.routes)
      /\ Cardinality(evaluation.routes) <= Cardinality(SameTrip(answer))
      /\ CandidateSet(evaluation.routes)
      /\ evaluation.left \in 0..(remaining - cost)
  BY <1>4, <1>6, EvaluationSound DEF CandidateSet
<1>8. /\ Cardinality(evaluation.routes) \in Nat /\ Cardinality(SameTrip(answer)) \in Nat
      /\ Cardinality(answer) \in Nat
  BY <1>3, <1>4, <1>7, FS_CardinalityType
<1>9. Cardinality(evaluation.routes) <= MaxActive - Cardinality(pool)
  BY <1>1, <1>3, <1>4, <1>7, <1>8, GreenTypes
<1>10. evaluation.left \in 0..Budget
  BY <1>5, <1>7, GreenTypes
<1> QED
  BY <1>7, <1>9, <1>10, PoolGrows
-----------------------------------------------------------------------------
(* Every step keeps the invariant.                                         *)

\* A search that has just been created has the invariant.
LEMMA GreenInitSound == RunInit => GreenInv
<1> SUFFICES ASSUME RunInit PROVE GreenInv
  OBVIOUS
<1>1. Places
  BY GreenTypes DEF RunInit, Places, PC
<1>2. IsFiniteSet({}) /\ Cardinality({}) = 0
  BY FS_EmptySet
<1>3. PoolSound
  BY <1>2, GreenTypes DEF RunInit, PoolSound, CandidateSet, Distinct
<1>4. /\ NoResult \in Results /\ Published(NoResult) = {} /\ ValidLists(NoResult)
      /\ Whole(NoResult) /\ NoResult.status = "SEARCHING" /\ NoResult.selected = NoRoute
      /\ NoResult.alternatives = {}
  BY <1>2 DEF NoResult, Results, Status, Published, ValidLists, Distinct, Whole
<1>5. \A mode : Sound(mode, NoResult)
  BY <1>4 DEF Sound
<1>6. Beginning
  BY <1>4 DEF RunInit, Beginning
<1>7. DraftInv
  BY <1>4, <1>5 DEF RunInit, DraftInv
<1>8. ResultInv
  BY <1>4, <1>5 DEF RunInit, ResultInv
<1> QED
  BY <1>1, <1>3, <1>6, <1>7, <1>8 DEF GreenInv

\* Failed and skipped questions: the pool and both results are as before.
LEMMA QuietKeeps ==
  ASSUME GreenInv, TollFreeFailed \/ TollFreeSkipped \/ ProbeFailed
  PROVE  GreenInv'
<1>1. UNCHANGED <<request, pool, result, draft>> /\ pc \in {"tollFree", "probe"} /\ pc' = "probe"
  BY DEF TollFreeFailed, TollFreeSkipped, ProbeFailed, MayProbe
<1>2. remaining' \in 0..Budget
  BY ChargesWithin DEF GreenInv, Places, TollFreeFailed, TollFreeSkipped, ProbeFailed
<1>3. iteration' \in 0..MaxIterations /\ errors' \in 0..2
  BY GreenTypes DEF GreenInv, Places, TollFreeFailed, TollFreeSkipped, ProbeFailed, MayProbe
<1>4. Places'
  BY <1>1, <1>2, <1>3 DEF GreenInv, Places, PC
<1>5. PoolSound'
  BY <1>1 DEF GreenInv, PoolSound
<1>6. Beginning'
  BY <1>1 DEF GreenInv, Beginning
<1>7. DraftInv'
  BY <1>1 DEF GreenInv, DraftInv
<1>8. ResultInv'
  BY <1>1 DEF GreenInv, ResultInv
<1> QED
  BY <1>4, <1>5, <1>6, <1>7, <1>8 DEF GreenInv

\* A panic anywhere in run publishes FAILED.
LEMMA PanicKeeps ==
  ASSUME GreenInv, Panic
  PROVE  GreenInv'
<1>1. UNCHANGED <<request, pool, remaining, iteration, errors, draft>> /\ pc' = "done"
  BY DEF Panic
<1>2. Sound(request.mode, result') /\ result'.status = "FAILED" /\ result'.selected = NoRoute
  BY PanickedSound DEF GreenInv, ResultInv
<1>3. Places'
  BY <1>1 DEF GreenInv, Places, PC
<1>4. PoolSound'
  BY <1>1 DEF GreenInv, PoolSound
<1>5. Beginning'
  BY <1>1 DEF Beginning
<1>6. DraftInv'
  BY <1>1 DEF GreenInv, DraftInv
<1>7. ResultInv'
  BY <1>1, <1>2 DEF ResultInv, ValidSelection
<1> QED
  BY <1>3, <1>4, <1>5, <1>6, <1>7 DEF GreenInv

\* The first question has failed, or nothing of its answer was valid: the search
\* ends DEGRADED with nothing selected.
LEMMA InitialUnavailableKeeps ==
  ASSUME GreenInv, InitialUnavailable
  PROVE  GreenInv'
<1>1. UNCHANGED <<request, pool, iteration, errors, draft>> /\ pc = "initial" /\ pc' = "done" /\ Publish(result)
  BY DEF InitialUnavailable, Publish
<1>2. remaining' \in 0..Budget
  BY ChargesWithin DEF GreenInv, Places, InitialUnavailable
<1>3. Published(result) = {} /\ Whole(result) /\ Sound(request.mode, result)
  BY <1>1 DEF GreenInv, Beginning, ResultInv
<1>4. /\ Sound(request.mode, result') /\ Published(result') = {}
      /\ result'.status = (IF result.selected = NoRoute THEN "DEGRADED" ELSE "COMPLETED")
      /\ result'.selected = result.selected /\ result'.alternatives = result.alternatives
  BY <1>1, <1>3, PublishedSound
<1>5. result'.selected = NoRoute
  BY <1>4 DEF Published
<1>6. Places'
  BY <1>1, <1>2 DEF GreenInv, Places, PC
<1>7. PoolSound'
  BY <1>1 DEF GreenInv, PoolSound
<1>8. Beginning'
  BY <1>1 DEF Beginning
<1>9. DraftInv'
  BY <1>1 DEF GreenInv, DraftInv
<1>10. ResultInv'
  BY <1>1, <1>3, <1>4, <1>5 DEF ResultInv, Whole, ValidSelection
<1> QED
  BY <1>6, <1>7, <1>8, <1>9, <1>10 DEF GreenInv

\* The first answer becomes the candidates, and its fastest is published.
LEMMA InitialAnsweredKeeps ==
  ASSUME GreenInv, NEW answer \in Answers(MaxActive), InitialAnswered(answer)
  PROVE  GreenInv'
<1>1. /\ UNCHANGED <<request, iteration, errors, draft>> /\ pc = "initial" /\ pc' = "evaluate"
      /\ answer # {} /\ pool' = Deduplicate({}, answer)
      /\ result' = [result EXCEPT !.fastest = Fastest(pool')]
  BY DEF InitialAnswered
<1>2. remaining' \in 0..Budget
  BY ChargesWithin DEF GreenInv, Places, InitialAnswered
<1>3. /\ answer \subseteq Routes /\ CandidateSet(answer) /\ Cardinality(answer) <= MaxActive
      /\ MaxActive \in Nat
  BY GreenTypes, AnswerBounded
<1>4. IsFiniteSet({}) /\ Cardinality({}) = 0
  BY FS_EmptySet
<1>5. CandidateSet({}) /\ Cardinality({}) <= MaxActive /\ Cardinality(answer) <= MaxActive - Cardinality({})
  BY <1>3, <1>4 DEF CandidateSet, Distinct
<1>6. CandidateSet(pool') /\ Cardinality(pool') <= MaxActive /\ pool' # {}
  BY <1>1, <1>3, <1>5, PoolGrows
<1>7. pool' \subseteq Routes
  <2>1. Deduplicate({}, answer) \subseteq {} \cup answer
    BY <1>3, <1>5, DeduplicateSound DEF CandidateSet
  <2> QED
    BY <1>1, <1>3, <2>1
<1>8. Fastest(pool') \in Route
  BY <1>6, CandidatesAreRoutes, FastestIsFirst
<1>9. /\ Published(result) = {} /\ Whole(result) /\ Sound(request.mode, result)
      /\ result.status = "SEARCHING" /\ result \in Results
  BY <1>1 DEF GreenInv, Beginning, ResultInv, Sound
<1>10. PICK f : f = Fastest(pool')
  OBVIOUS
<1>11. PICK t : t = [result EXCEPT !.fastest = f]
  OBVIOUS
<1>12. t = [status |-> result.status, fastest |-> f, selected |-> result.selected,
            alternatives |-> result.alternatives, bestEffort |-> result.bestEffort,
            greenTop |-> result.greenTop]
  BY <1>9, <1>11 DEF Results
<1>13. t \in Results
  BY <1>8, <1>9, <1>10, <1>12 DEF Results
<1>14. Published(t) = {} /\ Whole(t) /\ ValidLists(t)
  BY <1>9, <1>12 DEF Published, Whole, ValidLists, Sound
<1>15. Sound(request.mode, t) /\ t.status = "SEARCHING"
  BY <1>9, <1>12, <1>13, <1>14 DEF Sound
<1>16. result' = t
  BY <1>1, <1>10, <1>11
<1>17. Places'
  BY <1>1, <1>2 DEF GreenInv, Places, PC
<1>18. PoolSound'
  BY <1>6 DEF PoolSound
<1>19. Beginning'
  BY <1>1, <1>7, <1>14, <1>16 DEF Beginning
<1>20. DraftInv'
  BY <1>1 DEF GreenInv, DraftInv
<1>21. ResultInv'
  BY <1>1, <1>14, <1>15, <1>16 DEF ResultInv
<1> QED
  BY <1>17, <1>18, <1>19, <1>20, <1>21 DEF GreenInv
\* evaluateAll, and then the first ranking of run.
LEMMA EvaluateInitialKeeps ==
  ASSUME GreenInv, NEW evaluation \in Evaluations(pool, remaining), EvaluateInitial(evaluation)
  PROVE  GreenInv'
<1>1. /\ UNCHANGED <<request, iteration, errors>> /\ pc = "evaluate"
      /\ remaining' = evaluation.left /\ pool' = evaluation.routes
  BY DEF EvaluateInitial
<1>2. pool \subseteq Routes /\ Published(result) = {} /\ Whole(result)
  BY <1>1 DEF GreenInv, Beginning
<1>3. IsFiniteSet(pool) /\ Cardinality(pool) <= MaxActive /\ remaining \in Nat /\ remaining \in 0..Budget
  BY GreenTypes DEF GreenInv, PoolSound, CandidateSet, Places
<1>4. /\ IsFiniteSet(pool') /\ Cardinality(pool') <= Cardinality(pool) /\ CandidateSet(pool')
      /\ remaining' \in 0..remaining
  BY <1>1, <1>2, <1>3, EvaluationSound DEF CandidateSet
<1>5. Cardinality(pool') <= MaxActive
  <2>1. Cardinality(pool) \in Nat /\ Cardinality(pool') \in Nat
    BY <1>3, <1>4, FS_CardinalityType
  <2> QED
    BY <1>3, <1>4, <2>1, GreenTypes
<1>6. remaining' \in 0..Budget
  BY <1>3, <1>4, GreenTypes
<1>7. Sound(request.mode, result) /\ result.status = "SEARCHING" /\ result \in Results
  BY <1>1 DEF GreenInv, ResultInv, Sound
<1>8. PoolSound'
  BY <1>4, <1>5 DEF PoolSound
<1>9. DraftInv /\ request \in Searches /\ request' = request
  BY <1>1 DEF GreenInv, Places
<1>10. CASE evaluation.routes = {}
  <2>1. Publish(result) /\ draft' = draft /\ pc' = "done"
    BY <1>10 DEF EvaluateInitial, Publish
  <2>2. /\ Sound(request.mode, result') /\ Published(result') = {}
        /\ result'.status = (IF result.selected = NoRoute THEN "DEGRADED" ELSE "COMPLETED")
        /\ result'.selected = result.selected /\ result'.alternatives = result.alternatives
    BY <1>2, <1>7, <2>1, PublishedSound
  <2>3. result'.selected = NoRoute
    BY <2>2 DEF Published
  <2>4. Places'
    BY <1>1, <1>6, <2>1 DEF GreenInv, Places, PC
  <2>5. Beginning'
    BY <2>1 DEF Beginning
  <2>6. DraftInv'
    BY <1>9, <2>1 DEF DraftInv
  <2>7. ResultInv'
    BY <1>2, <1>9, <2>1, <2>2, <2>3 DEF ResultInv, Whole, ValidSelection
  <2> QED
    BY <1>8, <2>4, <2>5, <2>6, <2>7 DEF GreenInv
<1>11. CASE evaluation.routes # {}
  <2> DEFINE ranked == Rank(pool')
             first  == [result EXCEPT !.fastest = Fastest(pool'), !.selected = ranked.selected,
                          !.alternatives = ranked.eligible, !.bestEffort = ranked.bestEffort,
                          !.greenTop = GreenTop(pool')]
  <2>1. IF ShouldEnhance(ranked.selected)
        THEN pc' = "tollFree" /\ result' = first /\ draft' = first
        ELSE Publish(first) /\ draft' = draft
    BY <1>11 DEF EvaluateInitial
  <2>2. PICK t : t = first
    OBVIOUS
  <2>3. t = [status |-> result.status, fastest |-> Fastest(pool'), selected |-> Rank(pool').selected,
             alternatives |-> Rank(pool').eligible, bestEffort |-> Rank(pool').bestEffort,
             greenTop |-> GreenTop(pool')]
    BY <1>7, <2>2 DEF Results
  <2>4. pool' # {} /\ result.status \in Status
    BY <1>1, <1>7, <1>11 DEF Results
  <2>5. /\ Sound(request.mode, t) /\ Whole(t) /\ ValidSelection(t) /\ Grounded(pool', t)
        /\ t.status = "SEARCHING"
    <3>1. PICK S : S = pool'
      OBVIOUS
    <3>2. CandidateSet(S) /\ S # {} /\ t = [status |-> result.status, fastest |-> Fastest(S),
             selected |-> Rank(S).selected, alternatives |-> Rank(S).eligible,
             bestEffort |-> Rank(S).bestEffort, greenTop |-> GreenTop(S)]
      BY <1>4, <2>3, <2>4, <3>1
    <3>3. /\ Sound(request.mode, t) /\ Whole(t) /\ ValidSelection(t) /\ Grounded(S, t)
          /\ t.status = result.status
      BY <1>9, <2>4, <3>2, RankedSound
    <3> QED
      BY <1>7, <3>1, <3>3
  <2>6. CASE pc' = "tollFree" /\ result' = t /\ draft' = t
    <3>1. Places'
      BY <1>1, <1>6, <2>6 DEF GreenInv, Places, PC
    <3>2. Beginning'
      BY <2>6 DEF Beginning
    <3>3. DraftInv'
      BY <1>9, <2>4, <2>5, <2>6 DEF DraftInv
    <3>4. ResultInv'
      BY <1>9, <2>5, <2>6 DEF ResultInv
    <3> QED
      BY <1>8, <3>1, <3>2, <3>3, <3>4 DEF GreenInv
  <2>7. CASE Publish(t) /\ draft' = draft
    <3>1. pc' = "done"
      BY <2>7 DEF Publish
    <3>2. /\ Sound(request.mode, result')
          /\ result'.status = (IF t.selected = NoRoute THEN "DEGRADED" ELSE "COMPLETED")
          /\ result'.selected = t.selected /\ result'.alternatives = t.alternatives
          /\ result'.bestEffort = t.bestEffort
      BY <2>5, <2>7, PublishedSound
    <3>3. ValidSelection(result') /\ Whole(result')
      BY <2>5, <3>2 DEF ValidSelection, Whole
    <3>4. result'.status = "COMPLETED" => result'.selected # NoRoute
      BY <3>2
    <3>5. Places'
      BY <1>1, <1>6, <3>1 DEF GreenInv, Places, PC
    <3>6. Beginning'
      BY <3>1 DEF Beginning
    <3>7. DraftInv'
      BY <1>9, <2>7, <3>1 DEF DraftInv
    <3>8. ResultInv'
      BY <1>9, <3>1, <3>2, <3>3, <3>4 DEF ResultInv
    <3> QED
      BY <1>8, <3>5, <3>6, <3>7, <3>8 DEF GreenInv
  <2> HIDE DEF first
  <2> QED
    BY <2>1, <2>2, <2>6, <2>7
<1> QED
  BY <1>10, <1>11

\* The toll-free baseline joins the candidates.
LEMMA TollFreeAnsweredKeeps ==
  ASSUME GreenInv, NEW answer \in Answers(MaxActive - Cardinality(pool)), NEW cost \in Charges,
         TollFreeAnswered(answer, cost)
  PROVE  GreenInv'
<1>1. /\ UNCHANGED <<request, iteration, errors, result>> /\ pc = "tollFree" /\ pc' = "probe"
      /\ draft' = [draft EXCEPT !.greenTop = GreenTop(pool')]
  BY DEF TollFreeAnswered
<1>2. PICK evaluation \in Evaluations(SameTrip(answer), remaining - cost) :
        pool' = Deduplicate(pool, evaluation.routes) /\ remaining' = evaluation.left
  BY DEF TollFreeAnswered
<1>3. CandidateSet(pool) /\ Cardinality(pool) <= MaxActive /\ remaining \in 0..Budget
  BY DEF GreenInv, PoolSound, Places
<1>4. /\ Sound(request.mode, draft) /\ Whole(draft) /\ draft.status = "SEARCHING"
      /\ pool # {} /\ Grounded(pool, draft) /\ ValidSelection(draft) /\ draft \in Results
  BY <1>1 DEF GreenInv, DraftInv, Sound
<1>5. /\ CandidateSet(pool') /\ Cardinality(pool') <= MaxActive /\ pool' # {}
      /\ Grounded(pool', draft) /\ remaining' \in 0..Budget
  BY <1>2, <1>3, <1>4, AnswerJoins
<1>6. /\ Sound(request.mode, draft') /\ Published(draft') = Published(draft)
      /\ draft'.status = draft.status /\ draft'.selected = draft.selected
      /\ draft'.alternatives = draft.alternatives /\ draft'.bestEffort = draft.bestEffort
  <2>1. PICK S : S = pool'
    OBVIOUS
  <2>2. CandidateSet(S) /\ draft' = [draft EXCEPT !.greenTop = GreenTop(S)]
    BY <1>1, <1>5, <2>1
  <2> QED
    BY <1>4, <2>2, GreenTopUpdate
<1>7. Whole(draft') /\ Grounded(pool', draft') /\ ValidSelection(draft')
  BY <1>4, <1>5, <1>6 DEF Whole, Grounded, ValidSelection
<1>8. Places'
  BY <1>1, <1>5 DEF GreenInv, Places, PC
<1>9. PoolSound'
  BY <1>5 DEF PoolSound
<1>10. Beginning'
  BY <1>1 DEF Beginning
<1>11. DraftInv'
  BY <1>1, <1>4, <1>5, <1>6, <1>7 DEF DraftInv
<1>12. ResultInv'
  BY <1>1 DEF GreenInv, ResultInv
<1> QED
  BY <1>8, <1>9, <1>10, <1>11, <1>12 DEF GreenInv

\* One probe of enhance: its answer is filtered, evaluated and ranked.
LEMMA ProbeAnsweredKeeps ==
  ASSUME GreenInv, NEW answer \in Answers(MaxActive - Cardinality(pool)), NEW cost \in Charges,
         ProbeAnswered(answer, cost)
  PROVE  GreenInv'
<1>1. /\ UNCHANGED <<pc, request, result>> /\ pc = "probe" /\ iteration' = iteration + 1
      /\ iteration < MaxIterations /\ errors' = 0
  BY DEF ProbeAnswered, MayProbe
<1>2. CandidateSet(pool) /\ Cardinality(pool) <= MaxActive /\ remaining \in 0..Budget /\ request \in Searches
  BY DEF GreenInv, PoolSound, Places
<1>3. /\ Sound(request.mode, draft) /\ Whole(draft) /\ draft.status = "SEARCHING"
      /\ pool # {} /\ Grounded(pool, draft) /\ (draft.selected \in pool => ValidSelection(draft))
      /\ draft \in Results
  BY <1>1 DEF GreenInv, DraftInv, Sound
<1>4. /\ CandidateSet(pool') /\ Cardinality(pool') <= MaxActive /\ pool' # {}
      /\ remaining' \in 0..Budget
      /\ Sound(request.mode, draft') /\ Whole(draft') /\ draft'.status = "SEARCHING"
      /\ Grounded(pool', draft') /\ (draft'.selected \in pool' => ValidSelection(draft'))
  <2>1. CASE SameTrip(answer) = {}
    <3>1. remaining' = remaining - cost /\ pool' = pool /\ draft' = draft
      BY <2>1 DEF ProbeAnswered
    <3>2. remaining - cost \in 0..Budget
      BY <1>2, ChargesWithin
    <3> QED
      BY <1>2, <1>3, <3>1, <3>2
  <2>2. CASE SameTrip(answer) # {}
    <3>1. PICK evaluation \in Evaluations(SameTrip(answer), remaining - cost) :
            pool' = Deduplicate(pool, evaluation.routes) /\ remaining' = evaluation.left
      BY <2>2 DEF ProbeAnswered
    <3>2. draft' = Improved(pool')
      BY <2>2 DEF ProbeAnswered
    <3>3. /\ CandidateSet(pool') /\ Cardinality(pool') <= MaxActive /\ pool' # {}
          /\ Grounded(pool', draft) /\ remaining' \in 0..Budget
      BY <1>2, <1>3, <3>1, AnswerJoins
    <3>4. PICK S : S = pool'
      OBVIOUS
    <3>5. PICK t : t = Improved(S)
      OBVIOUS
    <3>6. CandidateSet(S) /\ S # {} /\ Grounded(S, draft) /\ draft' = t
      BY <3>2, <3>3, <3>4, <3>5
    <3>7. /\ Sound(request.mode, t) /\ Whole(t) /\ Grounded(S, t)
          /\ (t.selected \in S => ValidSelection(t)) /\ t.status = draft.status
      BY <1>2, <1>3, <3>5, <3>6, ImprovedSound
    <3> QED
      BY <1>3, <3>3, <3>4, <3>6, <3>7
  <2> QED
    BY <2>1, <2>2
<1>5. Places'
  BY <1>1, <1>4, GreenTypes DEF GreenInv, Places
<1>6. PoolSound'
  BY <1>4 DEF PoolSound
<1>7. Beginning'
  BY <1>1 DEF Beginning
<1>8. DraftInv'
  BY <1>1, <1>4 DEF DraftInv
<1>9. ResultInv'
  BY <1>1 DEF GreenInv, ResultInv
<1> QED
  BY <1>5, <1>6, <1>7, <1>8, <1>9 DEF GreenInv

\* enhance ends, and what it found is published.
LEMMA EnhanceEndsKeeps ==
  ASSUME GreenInv, EnhanceEnds
  PROVE  GreenInv'
<1>1. /\ UNCHANGED <<request, pool, remaining, iteration, errors, draft>>
      /\ pc = "probe" /\ pc' = "done" /\ Publish([draft EXCEPT !.greenTop = GreenTop(pool)])
  BY DEF EnhanceEnds, Publish
<1>2. CandidateSet(pool)
  BY DEF GreenInv, PoolSound
<1>3. /\ Sound(request.mode, draft) /\ Whole(draft)
      /\ (draft.selected \in pool => ValidSelection(draft))
  BY <1>1 DEF GreenInv, DraftInv
<1>4. PICK t : t = [draft EXCEPT !.greenTop = GreenTop(pool)]
  OBVIOUS
<1>5. /\ Sound(request.mode, t) /\ t.selected = draft.selected
      /\ t.alternatives = draft.alternatives /\ t.bestEffort = draft.bestEffort
  BY <1>2, <1>3, <1>4, GreenTopUpdate
<1>6. Publish(t)
  BY <1>1, <1>4
<1>7. /\ Sound(request.mode, result')
      /\ result'.status = (IF t.selected = NoRoute THEN "DEGRADED" ELSE "COMPLETED")
      /\ result'.selected = t.selected /\ result'.alternatives = t.alternatives
      /\ result'.bestEffort = t.bestEffort
  BY <1>5, <1>6, PublishedSound
<1>8. Whole(result') /\ (result'.selected \in pool => ValidSelection(result'))
  BY <1>3, <1>5, <1>7 DEF Whole, ValidSelection
<1>9. result'.status = "COMPLETED" => result'.selected # NoRoute
  BY <1>7
<1>10. Places'
  BY <1>1 DEF GreenInv, Places, PC
<1>11. PoolSound'
  BY <1>1 DEF GreenInv, PoolSound
<1>12. Beginning'
  BY <1>1 DEF Beginning
<1>13. DraftInv'
  BY <1>1 DEF GreenInv, DraftInv
<1>14. ResultInv'
  BY <1>1, <1>7, <1>8, <1>9 DEF ResultInv
<1> QED
  BY <1>10, <1>11, <1>12, <1>13, <1>14 DEF GreenInv

\* Every step of a search keeps the invariant.
LEMMA GreenNextSound == GreenInv /\ [RunNext]_runVars => GreenInv'
<1> SUFFICES ASSUME GreenInv, [RunNext]_runVars PROVE GreenInv'
  OBVIOUS
<1>1. CASE InitialUnavailable
  BY <1>1, InitialUnavailableKeeps
<1>2. CASE \E answer \in Answers(MaxActive) : InitialAnswered(answer)
  BY <1>2, InitialAnsweredKeeps
<1>3. CASE \E evaluation \in Evaluations(pool, remaining) : EvaluateInitial(evaluation)
  BY <1>3, EvaluateInitialKeeps
<1>4. CASE Panic
  BY <1>4, PanicKeeps
<1>5. CASE \E answer \in Answers(MaxActive - Cardinality(pool)), cost \in Charges :
             TollFreeAnswered(answer, cost) \/ ProbeAnswered(answer, cost)
  BY <1>5, TollFreeAnsweredKeeps, ProbeAnsweredKeeps
<1>6. CASE TollFreeFailed \/ TollFreeSkipped \/ ProbeFailed
  BY <1>6, QuietKeeps
<1>7. CASE EnhanceEnds
  BY <1>7, EnhanceEndsKeeps
<1>8. CASE UNCHANGED runVars
  BY <1>8 DEF runVars, GreenInv, Places, PoolSound, Beginning, DraftInv, ResultInv
<1> QED
  BY <1>1, <1>2, <1>3, <1>4, <1>5, <1>6, <1>7, <1>8 DEF RunNext

\* The whole invariant: candidates within their capacity, and at every place of
\* the program a draft and a result that are sound.
THEOREM GreenSearchSound == RunSpec => []GreenInv
BY GreenInitSound, GreenNextSound, PTL DEF RunSpec
\* sanitizeProviderCandidates and routeWithBudget: the pool within
\* MaxActiveCandidates and the budget never overspent, for any routes.
THEOREM GreenTypeCorrect == RunSpec => []GreenTypeOK
<1>1. GreenInv => GreenTypeOK
  <2> SUFFICES ASSUME GreenInv PROVE GreenTypeOK
    OBVIOUS
  <2>1. pool \subseteq Route /\ Cardinality(pool) <= MaxActive
    BY CandidatesAreRoutes DEF GreenInv, PoolSound
  <2>2. result \in Results /\ draft \in Results
    BY DEF GreenInv, ResultInv, DraftInv, Sound
  <2>3. Published(result) \subseteq Route /\ Published(draft) \subseteq Route
    BY <2>2 DEF Results, Published
  <2>4. result.status \in Status /\ draft.status \in Status
    BY <2>2 DEF Results
  <2> QED
    BY <2>1, <2>3, <2>4 DEF GreenTypeOK, GreenInv, Places
<1> QED
  BY <1>1, GreenSearchSound, PTL

\* topGreenRoutes, compareBestEffortRoutes and hasStrictGreenViolation against
\* validateResult: what run publishes is never refused by the edge.
THEOREM EdgeAcceptsResultSafe == RunSpec => []EdgeAcceptsResult
<1>1. GreenInv => EdgeAcceptsResult
  BY DEF GreenInv, ResultInv, Sound, EdgeAcceptsResult
<1> QED
  BY <1>1, GreenSearchSound, PTL

\* strictGreenEvidenceViolations: STRICT_GREEN fails closed, for any routes,
\* lost evaluations and near duplicates.
THEOREM StrictGreenIsProvenSafe == RunSpec => []StrictGreenIsProven
<1>1. GreenInv => StrictGreenIsProven
  BY DEF GreenInv, ResultInv, Sound, StrictGreenIsProven, ProvenGreen, Confident
<1> QED
  BY <1>1, GreenSearchSound, PTL

\* scoring.Rank over changing pools, and finish: reference, selection and lists
\* of different rankings fit together.
THEOREM ResultIsCoherentSafe == RunSpec => []ResultIsCoherent
<1>1. GreenInv => ResultIsCoherent
  BY DEF GreenInv, ResultInv, Sound, Whole, ResultIsCoherent
<1> QED
  BY <1>1, GreenSearchSound, PTL

-----------------------------------------------------------------------------
(* ServingChain.                                                           *)

\* Where a search with a primary answer can be: only a primary without
\* suggestions is followed by the fallback.
PrimaryHeeded ==
  /\ suggest.pc \in {"idle", "primary"} => suggest.primary = "none"
  /\ suggest.pc = "fallback" => suggest.primary # "some"

ChainInv == ChainTypeOK /\ PrimaryHeeded /\ ValidAnswerStays

Breaker == [state : {"closed", "open", "elapsed", "halfOpen"}, failures : 0..BreakerThreshold]

\* A breaker is closed below its threshold and only there.
BreakerSound(b) == b \in Breaker /\ ((b.state = "closed") = (b.failures < BreakerThreshold))

Suggestion == [pc : {"idle", "primary", "fallback", "answered"},
               primary : {"none", "some", "empty", "error"},
               answer : {"none", "some", "empty", "error"}]

\* The breakers of circuitBreaker as its transitions make them.
LEMMA BreakersSound ==
  ASSUME NEW b, BreakerSound(b)
  PROVE  /\ BreakerSound(ClosedBreaker) /\ BreakerSound(Probing(b))
         /\ BreakerSound(Tripped(b))
<1>1. BreakerThreshold \in Nat \ {0}
  BY ChainAssumption
<1>2. BreakerSound(ClosedBreaker)
  BY <1>1 DEF BreakerSound, ClosedBreaker, Breaker
<1>3. BreakerSound(Probing(b))
  <2>1. CASE b.state = "elapsed"
    <3>1. PICK q : q = [b EXCEPT !.state = "halfOpen"]
      OBVIOUS
    <3>2. q = [state |-> "halfOpen", failures |-> b.failures]
      BY <3>1 DEF BreakerSound, Breaker
    <3>3. BreakerSound(q)
      BY <2>1, <3>2 DEF BreakerSound, Breaker
    <3> QED
      BY <2>1, <3>1, <3>3 DEF Probing
  <2>2. CASE b.state # "elapsed"
    BY <2>2 DEF Probing
  <2> QED
    BY <2>1, <2>2
<1>4. BreakerSound(Tripped(b))
  <2>1. CASE b.state = "halfOpen" \/ b.failures + 1 >= BreakerThreshold
    BY <1>1, <2>1 DEF Tripped, BreakerSound, Breaker
  <2>2. CASE ~(b.state = "halfOpen" \/ b.failures + 1 >= BreakerThreshold)
    <3>1. PICK q : q = [b EXCEPT !.failures = @ + 1]
      OBVIOUS
    <3>2. q = [state |-> b.state, failures |-> b.failures + 1]
      BY <3>1 DEF BreakerSound, Breaker
    <3>3. b.failures \in 0..BreakerThreshold /\ b.failures < BreakerThreshold
      BY <1>1, <2>2 DEF BreakerSound, Breaker
    <3>4. BreakerSound(q)
      BY <1>1, <2>2, <3>2, <3>3 DEF BreakerSound, Breaker
    <3> QED
      BY <2>2, <3>1, <3>4 DEF Tripped
  <2> QED
    BY <2>1, <2>2
<1> QED
  BY <1>2, <1>3, <1>4
BreakersOK ==
  /\ latched \subseteq Upstream
  /\ breaker \in [Upstream -> Breaker]
  /\ \A u \in Upstream : BreakerSound(breaker[u])

\* Whatever a call comes to, breakers and latches stay sound.
LEMMA CallKeepsBreakers ==
  ASSUME BreakersOK, NEW u \in Upstream, NEW outcome, CallUpstream(u, outcome)
  PROVE  BreakersOK'
<1>1. latched' \subseteq Upstream
  BY DEF BreakersOK, CallUpstream
<1>2. PICK b : b = breaker'[u]
  OBVIOUS
<1>3. BreakerSound(breaker[u])
  BY DEF BreakersOK
<1>4. /\ BreakerSound(ClosedBreaker) /\ BreakerSound(Probing(breaker[u]))
      /\ BreakerSound(Tripped(Probing(breaker[u])))
  BY <1>3, BreakersSound
<1>5. b \in {ClosedBreaker, Probing(breaker[u]), Tripped(Probing(breaker[u]))}
  BY <1>2 DEF BreakersOK, CallUpstream
<1>6. BreakerSound(b)
  BY <1>4, <1>5
<1>7. breaker' = [breaker EXCEPT ![u] = b]
  BY <1>2 DEF BreakersOK, CallUpstream
<1>8. b \in Breaker
  BY <1>6 DEF BreakerSound
<1>9. breaker' \in [Upstream -> Breaker]
  BY <1>7, <1>8 DEF BreakersOK
<1>10. \A v \in Upstream : BreakerSound(breaker'[v])
  BY <1>6, <1>7 DEF BreakersOK
<1> QED
  BY <1>1, <1>9, <1>10 DEF BreakersOK

\* The rest of the type, over a search that is a Suggestion.
Surroundings ==
  /\ resolver \in Resolvers
  /\ world \in [Upstream \cup Stores -> {"up", "down", "denied"}]
  /\ discovered \in BOOLEAN
  /\ rotation \subseteq Process
  /\ breakdowns \in 0..MaxBreakdowns

\* The types of the chain, in parts.
LEMMA ChainTypeParts == ChainTypeOK <=> Surroundings /\ BreakersOK /\ suggest \in Suggestion
BY DEF ChainTypeOK, Surroundings, BreakersOK, Suggestion, Breaker, BreakerSound

\* The chain starts with closed breakers and no search of addresses.
LEMMA ChainInitSound == ChainInit => ChainInv
<1> SUFFICES ASSUME ChainInit PROVE ChainInv
  OBVIOUS
<1>1. BreakerSound(ClosedBreaker)
  BY ChainAssumption DEF BreakerSound, ClosedBreaker, Breaker
<1>2. BreakersOK
  BY <1>1 DEF ChainInit, BreakersOK, BreakerSound
<1>3. Surroundings
  BY ChainAssumption DEF ChainInit, Surroundings
<1>4. NoSuggest \in Suggestion /\ NoSuggest.pc = "idle" /\ NoSuggest.primary = "none"
  BY DEF NoSuggest, Suggestion
<1> QED
  BY <1>2, <1>3, <1>4, ChainTypeParts DEF ChainInit, ChainInv, PrimaryHeeded, ValidAnswerStays

\* A search begins, is answered by one resolver, or ends: the answer a caller
\* gets is no worse than what the primary said.
SearchSound(s) ==
  /\ s \in Suggestion
  /\ s.pc \in {"idle", "primary"} => s.primary = "none"
  /\ s.pc = "fallback" => s.primary # "some"
  /\ s.pc = "answered" =>
       /\ s.primary \in {"some", "empty"} => s.answer # "error"
       /\ s.primary = "some" => s.answer = "some"

\* The invariant of the chain, in parts.
LEMMA ChainParts == ChainInv <=> Surroundings /\ BreakersOK /\ SearchSound(suggest)
BY ChainTypeParts DEF ChainInv, SearchSound, PrimaryHeeded, ValidAnswerStays

\* A search of addresses begins, or its answer is taken.
LEMMA SearchBegins ==
  ASSUME resolver \in Resolvers, SuggestBegins \/ SuggestEnds
  PROVE  SearchSound(suggest')
<1>1. NoSuggest = [pc |-> "idle", primary |-> "none", answer |-> "none"]
  BY DEF NoSuggest
<1>2. suggest' \in {NoSuggest, [NoSuggest EXCEPT !.pc = "primary"],
                    [NoSuggest EXCEPT !.pc = "fallback", !.primary = "error"],
                    [NoSuggest EXCEPT !.pc = "fallback"]}
  <2>1. resolver \in {"auto", "yandex", "2gis"}
    BY ChainAssumption
  <2>2. CASE SuggestEnds
    BY <2>2 DEF SuggestEnds
  <2>3. CASE SuggestBegins
    <3>1. CASE resolver = "yandex" \/ (resolver = "auto" /\ PrimaryReady)
      BY <2>3, <3>1 DEF SuggestBegins
    <3>2. CASE resolver = "auto" /\ ~PrimaryReady
      BY <2>3, <3>2 DEF SuggestBegins
    <3>3. CASE resolver = "2gis"
      BY <2>3, <3>3 DEF SuggestBegins
    <3> QED
      BY <2>1, <3>1, <3>2, <3>3
  <2> QED
    BY <2>2, <2>3
<1>3. SearchSound(NoSuggest)
  BY <1>1 DEF SearchSound, Suggestion
<1>4. PICK a : a = [NoSuggest EXCEPT !.pc = "primary"]
  OBVIOUS
<1>5. a = [pc |-> "primary", primary |-> "none", answer |-> "none"]
  BY <1>1, <1>4
<1>6. PICK b : b = [NoSuggest EXCEPT !.pc = "fallback", !.primary = "error"]
  OBVIOUS
<1>7. b = [pc |-> "fallback", primary |-> "error", answer |-> "none"]
  BY <1>1, <1>6
<1>8. PICK c : c = [NoSuggest EXCEPT !.pc = "fallback"]
  OBVIOUS
<1>9. c = [pc |-> "fallback", primary |-> "none", answer |-> "none"]
  BY <1>1, <1>8
<1>10. SearchSound(a) /\ SearchSound(b) /\ SearchSound(c)
  BY <1>5, <1>7, <1>9 DEF SearchSound, Suggestion
<1> QED
  BY <1>2, <1>3, <1>4, <1>6, <1>8, <1>10

\* An upstream answers it: the fallback is asked only if the primary has no
\* suggestions.
LEMMA SearchAnswered ==
  ASSUME SearchSound(suggest), NEW got \in {"some", "empty", "error"}
  PROVE  /\ suggest.pc = "primary" => SearchSound(AfterPrimary(got))
         /\ suggest.pc = "fallback" => SearchSound(AfterFallback(got))
<1>1. suggest \in Suggestion
  BY DEF SearchSound
<1>2. ASSUME NEW ans \in {"some", "empty", "error"}
      PROVE  Suggested(ans) = [pc |-> "answered", primary |-> suggest.primary, answer |-> ans]
  <2>1. PICK q : q = [suggest EXCEPT !.pc = "answered", !.answer = ans]
    OBVIOUS
  <2>2. q = [pc |-> "answered", primary |-> suggest.primary, answer |-> ans]
    BY <1>1, <2>1 DEF Suggestion
  <2> QED
    BY <2>1, <2>2 DEF Suggested
<1>3. ASSUME suggest.pc = "primary" PROVE SearchSound(AfterPrimary(got))
  <2>1. CASE resolver = "auto" /\ got # "some"
    <3>1. PICK q : q = [suggest EXCEPT !.pc = "fallback", !.primary = got]
      OBVIOUS
    <3>2. q = [pc |-> "fallback", primary |-> got, answer |-> suggest.answer]
      BY <1>1, <3>1 DEF Suggestion
    <3>3. SearchSound(q)
      BY <1>1, <2>1, <3>2 DEF SearchSound, Suggestion
    <3> QED
      BY <2>1, <3>1, <3>3 DEF AfterPrimary
  <2>2. CASE ~(resolver = "auto" /\ got # "some")
    <3>1. PICK s : s = Suggested(got)
      OBVIOUS
    <3>2. s = [pc |-> "answered", primary |-> suggest.primary, answer |-> got]
      BY <1>2, <3>1
    <3>3. PICK q : q = [s EXCEPT !.primary = got]
      OBVIOUS
    <3>4. q = [pc |-> "answered", primary |-> got, answer |-> got]
      BY <3>2, <3>3
    <3>5. SearchSound(q)
      BY <3>4 DEF SearchSound, Suggestion
    <3> QED
      BY <2>2, <3>1, <3>3, <3>5 DEF AfterPrimary
  <2> QED
    BY <2>1, <2>2
<1>4. ASSUME suggest.pc = "fallback" PROVE SearchSound(AfterFallback(got))
  <2>1. PICK ans : ans = IF got = "error" /\ suggest.primary = "empty" THEN "empty" ELSE got
    OBVIOUS
  <2>2. ans \in {"some", "empty", "error"}
    BY <2>1
  <2>3. PICK q : q = Suggested(ans)
    OBVIOUS
  <2>4. q = [pc |-> "answered", primary |-> suggest.primary, answer |-> ans]
    BY <1>2, <2>2, <2>3
  <2>5. suggest.primary # "some"
    BY <1>4 DEF SearchSound
  <2>6. SearchSound(q)
    BY <1>1, <2>1, <2>2, <2>4, <2>5 DEF SearchSound, Suggestion
  <2> QED
    BY <2>1, <2>3, <2>6 DEF AfterFallback
<1> QED
  BY <1>3, <1>4
\* Every step of the chain keeps the invariant.
LEMMA ChainNextSound == ChainInv /\ [ChainNext]_chainVars => ChainInv'
<1> SUFFICES ASSUME ChainInv, [ChainNext]_chainVars PROVE ChainInv'
  OBVIOUS
<1>1. Surroundings /\ BreakersOK /\ SearchSound(suggest)
  BY ChainParts
<1>2. MaxBreakdowns \in Nat
  BY ChainAssumption
<1>3. SUFFICES Surroundings' /\ BreakersOK' /\ SearchSound(suggest)'
  <2>1. ChainInv' <=> Surroundings' /\ BreakersOK' /\ SearchSound(suggest)'
    BY ChainParts, PTL
  <2> QED
    BY <2>1
<1>4. ASSUME NEW p \in Process, ProbeReadiness(p)
      PROVE  Surroundings' /\ BreakersOK' /\ SearchSound(suggest)'
  BY <1>1, <1>4 DEF ProbeReadiness, Surroundings, BreakersOK
<1>5. CASE RefreshCapabilities
  BY <1>1, <1>5 DEF RefreshCapabilities, Surroundings, BreakersOK
<1>6. ASSUME NEW outcome \in Outcome, CallRouter(outcome)
      PROVE  Surroundings' /\ BreakersOK' /\ SearchSound(suggest)'
  <2>1. BreakersOK'
    BY <1>1, <1>6, CallKeepsBreakers DEF CallRouter, Upstream
  <2> QED
    BY <1>1, <1>6, <2>1 DEF CallRouter, Surroundings
<1>7. \A outcome \in Outcome : Got(outcome) \in {"some", "empty", "error"}
  BY DEF Outcome, Got
<1>8. ASSUME NEW outcome \in Outcome, SuggestPrimary(outcome)
      PROVE  Surroundings' /\ BreakersOK' /\ SearchSound(suggest)'
  <2>1. BreakersOK'
    <3>1. CASE CallUpstream("yandexGeocoder", outcome)
      BY <1>1, <3>1, CallKeepsBreakers DEF Upstream
    <3>2. CASE UNCHANGED <<latched, breaker>>
      BY <1>1, <3>2 DEF BreakersOK
    <3> QED
      BY <1>8, <3>1, <3>2 DEF SuggestPrimary
  <2>2. suggest.pc = "primary" /\ suggest' = AfterPrimary(Got(outcome))
    BY <1>8 DEF SuggestPrimary
  <2>3. SearchSound(AfterPrimary(Got(outcome)))
    BY <1>1, <1>7, <2>2, SearchAnswered
  <2> QED
    BY <1>1, <1>8, <2>1, <2>2, <2>3 DEF SuggestPrimary, Surroundings
<1>9. ASSUME NEW outcome \in Outcome, SuggestFallback(outcome)
      PROVE  Surroundings' /\ BreakersOK' /\ SearchSound(suggest)'
  <2>1. BreakersOK'
    <3>1. CASE CallUpstream("2gisGeocoder", outcome)
      BY <1>1, <3>1, CallKeepsBreakers DEF Upstream
    <3>2. CASE UNCHANGED <<latched, breaker>>
      BY <1>1, <3>2 DEF BreakersOK
    <3> QED
      BY <1>9, <3>1, <3>2 DEF SuggestFallback
  <2>2. suggest.pc = "fallback" /\ suggest' = AfterFallback(Got(outcome))
    BY <1>9 DEF SuggestFallback
  <2>3. SearchSound(AfterFallback(Got(outcome)))
    BY <1>1, <1>7, <2>2, SearchAnswered
  <2> QED
    BY <1>1, <1>9, <2>1, <2>2, <2>3 DEF SuggestFallback, Surroundings
<1>10. CASE SuggestBegins \/ SuggestEnds
  <2>1. SearchSound(suggest')
    BY <1>1, <1>10, SearchBegins DEF Surroundings
  <2> QED
    BY <1>1, <1>10, <2>1 DEF SuggestBegins, SuggestEnds, Surroundings, BreakersOK
<1>11. ASSUME NEW u \in Upstream, Elapse(u)
       PROVE  Surroundings' /\ BreakersOK' /\ SearchSound(suggest)'
  <2>1. breaker[u] \in Breaker /\ BreakerSound(breaker[u]) /\ breaker[u].state = "open"
    BY <1>1, <1>11 DEF BreakersOK, Elapse
  <2>2. PICK b : b = [breaker[u] EXCEPT !.state = "elapsed"]
    OBVIOUS
  <2>3. b = [state |-> "elapsed", failures |-> breaker[u].failures]
    BY <2>1, <2>2 DEF Breaker
  <2>4. b \in Breaker /\ BreakerSound(b)
    BY <2>1, <2>3 DEF Breaker, BreakerSound
  <2>5. breaker' = [breaker EXCEPT ![u] = b]
    BY <1>1, <1>11, <2>2 DEF Elapse, BreakersOK
  <2>6. BreakersOK'
    BY <1>1, <1>11, <2>4, <2>5 DEF BreakersOK, Elapse
  <2> QED
    BY <1>1, <1>11, <2>6 DEF Elapse, Surroundings
<1>12. ASSUME NEW d \in DOMAIN world, Mends(d)
       PROVE  Surroundings' /\ BreakersOK' /\ SearchSound(suggest)'
  BY <1>1, <1>12 DEF Mends, Surroundings, BreakersOK
<1>13. ASSUME NEW d \in DOMAIN world, NEW how \in {"down", "denied"}, Breaks(d, how)
       PROVE  Surroundings' /\ BreakersOK' /\ SearchSound(suggest)'
  BY <1>1, <1>2, <1>13 DEF Breaks, Surroundings, BreakersOK
<1>14. CASE RestartAdapter
  <2>1. BreakerSound(ClosedBreaker)
    BY ChainAssumption DEF BreakerSound, ClosedBreaker, Breaker
  <2>2. BreakersOK'
    BY <1>14, <2>1 DEF RestartAdapter, BreakersOK, BreakerSound
  <2>3. SearchSound(NoSuggest)
    BY DEF SearchSound, NoSuggest, Suggestion
  <2> QED
    BY <1>1, <1>2, <1>14, <2>2, <2>3 DEF RestartAdapter, Surroundings
<1>15. CASE UNCHANGED chainVars
  BY <1>1, <1>15 DEF chainVars, Surroundings, BreakersOK
<1> QED
  BY <1>4, <1>5, <1>6, <1>8, <1>9, <1>10, <1>11, <1>12, <1>13, <1>14, <1>15 DEF ChainNext

\* circuitBreaker, credential latches, readiness and discovery keep their
\* types, for any threshold and number of breakdowns: a breaker is closed below
\* its threshold and only there.
THEOREM ChainTypeCorrect == ChainSpec => []ChainTypeOK
<1>1. ChainInv => ChainTypeOK
  BY DEF ChainInv
<1> QED
  BY <1>1, ChainInitSound, ChainNextSound, PTL DEF ChainSpec

\* fallbackAddressResolver.Suggest: no valid answer of the primary becomes an
\* error, and no suggestions are lost, whatever the breakers do in between.
THEOREM ValidAnswerStaysSafe == ChainSpec => []ValidAnswerStays
<1>1. ChainInv => ValidAnswerStays
  BY DEF ChainInv
<1> QED
  BY <1>1, ChainInitSound, ChainNextSound, PTL DEF ChainSpec

-----------------------------------------------------------------------------
(* Loops over a list (DetourLadder computes with them).                    *)

\* A round of the loop h leads from D to D.
Stays(D, N, h) == h[0] \in D /\ \A n \in 1..N : h[n - 1] \in D => h[n] \in D

\* The course of a loop of N rounds that starts at base and goes on by step.
Course(D, N, base, step, f) ==
  f \in [0..N -> D] /\ f[0] = base /\ \A n \in 1..N : f[n] = step[<<n, f[n - 1]>>]

\* What a loop keeps from one round to the next holds in every round.
LEMMA LoopKeeps ==
  ASSUME NEW D, NEW N \in Nat, NEW h, Stays(D, N, h)
  PROVE  \A n \in 0..N : h[n] \in D
<1> DEFINE Bad == {n \in 0..N : h[n] \notin D}
<1> SUFFICES ASSUME Bad # {} PROVE FALSE
  OBVIOUS
<1>1. Bad \subseteq Nat
  OBVIOUS
<1> HIDE DEF Bad
<1>2. PICK m \in Bad : \A n \in Bad : m <= n
  BY <1>1, LeastNumber
<1> USE DEF Bad
<1>3. m \in 1..N
  BY <1>2 DEF Stays
<1>4. m - 1 \in 0..N /\ m - 1 \notin Bad
  <2>1. m - 1 \in 0..N /\ ~(m <= m - 1)
    BY <1>3
  <2> HIDE DEF Bad
  <2> QED
    BY <1>2, <2>1
<1> QED
  BY <1>2, <1>3, <1>4 DEF Stays

\* A loop that starts at base and goes from one value of D to another by step
\* has a course.
LEMMA LoopRuns ==
  ASSUME NEW D, NEW N \in Nat, NEW base \in D, NEW step \in [(1..N) \X D -> D]
  PROVE  \E f : Course(D, N, base, step, f)
<1> DEFINE Runs(m, f) == f \in [0..m -> D] /\ f[0] = base /\ \A n \in 1..m : f[n] = step[<<n, f[n - 1]>>]
           Bad == {m \in 0..N : ~\E f : Runs(m, f)}
<1>1. Bad = {}
  <2> SUFFICES ASSUME Bad # {} PROVE FALSE
    OBVIOUS
  <2>1. Bad \subseteq Nat
    OBVIOUS
  <2> HIDE DEF Bad
  <2>2. PICK m \in Bad : \A n \in Bad : m <= n
    BY <2>1, LeastNumber
  <2> USE DEF Bad
  <2>3. m # 0
    <3> SUFFICES Runs(0, [n \in 0..0 |-> base])
      BY <2>2, ZenonT(30)
    <3> QED
      OBVIOUS
  <2>4. m - 1 \in 0..N /\ m \in 1..N /\ m \in Nat /\ m - 1 \notin Bad
    <3>1. m \in 0..N
      BY <2>2
    <3>2. m - 1 \in 0..N /\ m \in 1..N /\ m \in Nat
      BY <2>3, <3>1
    <3>3. ~(m <= m - 1)
      BY <3>2
    <3> HIDE DEF Bad
    <3> QED
      BY <2>2, <3>2, <3>3
  <2>5. PICK f : Runs(m - 1, f)
    BY <2>4
  <2> DEFINE g == [n \in 0..m |-> IF n = m THEN step[<<m, f[m - 1]>>] ELSE f[n]]
  <2>6. f[m - 1] \in D /\ step[<<m, f[m - 1]>>] \in D
    BY <2>4, <2>5
  <2>7. g \in [0..m -> D]
    <3>1. \A n \in 0..m : n # m => n \in 0..(m - 1)
      BY <2>4
    <3> QED
      BY <2>5, <2>6, <3>1
  <2>8. g[0] = base
    BY <2>4, <2>5
  <2>9. ASSUME NEW n \in 1..m PROVE g[n] = step[<<n, g[n - 1]>>]
    <3>1. n \in 0..m /\ n - 1 \in 0..m /\ n - 1 # m
      BY <2>4
    <3>2. g[n - 1] = f[n - 1] /\ g[n] = IF n = m THEN step[<<m, f[m - 1]>>] ELSE f[n]
      BY <3>1
    <3>4. CASE n = m
      BY <3>2, <3>4
    <3>3. CASE n # m
      <4>1. n \in 1..(m - 1) /\ g[n] = f[n]
        BY <2>4, <3>3
      <4> QED
        BY <2>5, <3>2, <4>1
    <3> QED
      BY <3>3, <3>4
  <2>10. Runs(m, g)
    BY <2>7, <2>8, <2>9
  <2> QED
    BY <2>2, <2>10
<1>2. \E f : Runs(N, f)
  BY <1>1
<1> QED
  BY <1>2 DEF Course

\* What a filter keeps of a list, when all it keeps is in D.
LEMMA ThoseAreSuch ==
  ASSUME NEW E, NEW s \in Seq(E), NEW S, NEW D, \A n \in 1..Len(s) : n \in S => s[n] \in D
  PROVE  Those(s, S) \in Seq(D)
<1> DEFINE N == Len(s)
           Solves(g) == g = [n \in 0..N |-> IF n = 0 THEN <<>>
                               ELSE IF n \in S THEN Append(g[n - 1], s[n]) ELSE g[n - 1]]
           h == CHOOSE g : Solves(g)
           step == [x \in (1..N) \X Seq(D) |-> IF x[1] \in S THEN Append(x[2], s[x[1]]) ELSE x[2]]
<1>1. Those(s, S) = h[N]
  BY DEF Those
<1>2. N \in Nat /\ <<>> \in Seq(D) /\ \A n \in 1..N : n \in S => s[n] \in D
  BY LenProperties, EmptySeq
<1>3. \A n \in 1..N, t \in Seq(D) : n \in S => Append(t, s[n]) \in Seq(D)
  BY <1>2, AppendProperties
<1>4. step \in [(1..N) \X Seq(D) -> Seq(D)]
  BY <1>3
<1>5. \A n \in 1..N, t \in Seq(D) : step[<<n, t>>] = IF n \in S THEN Append(t, s[n]) ELSE t
  OBVIOUS
<1> HIDE DEF step, N
<1>6. PICK f : Course(Seq(D), N, <<>>, step, f)
  BY <1>2, <1>4, LoopRuns
<1>7. Solves(f)
  <2>1. ASSUME NEW n \in 0..N
        PROVE  f[n] = IF n = 0 THEN <<>> ELSE IF n \in S THEN Append(f[n - 1], s[n]) ELSE f[n - 1]
    <3>1. CASE n = 0
      BY <1>6, <3>1 DEF Course
    <3>2. CASE n # 0
      <4>1. n \in 1..N /\ f[n - 1] \in Seq(D)
        BY <1>2, <1>6, <3>2 DEF Course
      <4> QED
        BY <1>5, <1>6, <3>2, <4>1 DEF Course
    <3> QED
      BY <3>1, <3>2
  <2> QED
    BY <1>6, <2>1 DEF Course
<1>8. Solves(h)
  BY <1>7
<1> HIDE DEF h
<1>9. h[0] = <<>>
  BY <1>2, <1>8
<1>10. ASSUME NEW n \in 1..N PROVE h[n] = IF n \in S THEN Append(h[n - 1], s[n]) ELSE h[n - 1]
  <2>1. n \in 0..N /\ n # 0
    OBVIOUS
  <2> QED
    BY <1>8, <2>1
<1>11. Stays(Seq(D), N, h)
  BY <1>2, <1>3, <1>9, <1>10 DEF Stays
<1>12. \A n \in 0..N : h[n] \in Seq(D)
  BY <1>2, <1>11, LoopKeeps
<1> QED
  BY <1>1, <1>2, <1>12

\* A total of numbers is a number.
LEMMA TotalIsNumber ==
  ASSUME NEW f \in Seq(Int)
  PROVE  Total(f) \in Int
<1> DEFINE N == Len(f)
           Solves(q) == q = [n \in 0..N |-> IF n = 0 THEN 0 ELSE q[n - 1] + f[n]]
           h == CHOOSE g : Solves(g)
           step == [x \in (1..N) \X Int |-> x[2] + f[x[1]]]
<1>1. Total(f) = h[N]
  BY DEF Total
<1>2. N \in Nat /\ 0 \in Int /\ \A n \in 1..N : f[n] \in Int
  BY LenProperties, ElementOfSeq
<1>3. \A n \in 1..N, t \in Int : t + f[n] \in Int
  BY <1>2
<1>4. step \in [(1..N) \X Int -> Int]
  BY <1>3
<1>5. \A n \in 1..N, t \in Int : step[<<n, t>>] = t + f[n]
  OBVIOUS
<1> HIDE DEF step, N
<1>6. PICK g : Course(Int, N, 0, step, g)
  BY <1>2, <1>4, LoopRuns
<1>7. Solves(g)
  <2>1. ASSUME NEW n \in 0..N
        PROVE  g[n] = IF n = 0 THEN 0 ELSE g[n - 1] + f[n]
    <3>1. CASE n = 0
      BY <1>6, <3>1 DEF Course
    <3>2. CASE n # 0
      <4>1. n \in 1..N /\ g[n - 1] \in Int
        BY <1>2, <1>6, <3>2 DEF Course
      <4> QED
        BY <1>5, <1>6, <3>2, <4>1 DEF Course
    <3> QED
      BY <3>1, <3>2
  <2> QED
    BY <1>6, <2>1 DEF Course
<1>8. Solves(h)
  BY <1>7
<1> HIDE DEF h
<1>9. h[0] = 0
  BY <1>2, <1>8
<1>10. ASSUME NEW n \in 1..N PROVE h[n] = h[n - 1] + f[n]
  <2>1. n \in 0..N /\ n # 0
    OBVIOUS
  <2> QED
    BY <1>8, <2>1
<1>11. Stays(Int, N, h)
  BY <1>2, <1>3, <1>9, <1>10 DEF Stays
<1>12. \A n \in 0..N : h[n] \in Int
  BY <1>2, <1>11, LoopKeeps
<1> QED
  BY <1>1, <1>2, <1>12

\* The least of some numbers is one of them.
LEMMA MinOfNumbers ==
  ASSUME NEW T, T \subseteq Nat, T # {}
  PROVE  Min(T) \in T
<1>1. PICK m \in T : \A n \in T : m <= n
  BY LeastNumber
<1>2. \E x \in T : \A y \in T : x =< y
  BY <1>1
<1> QED
  BY <1>2 DEF Min

Cluster == [centre: Int, radius: Int, severity: Int, weight: Int]

\* A cluster that is absorbed leaves a cluster (mergeClusters).
LEMMA AbsorbIsCluster ==
  ASSUME NEW m \in Cluster, NEW c \in Cluster
  PROVE  Absorb(m, c) \in Cluster
<1>1. PICK r \in Int, s \in Int, w \in Int :
        /\ r = Min({MaxRadius, Max({m.radius, c.radius})})
        /\ s = Max({m.severity, c.severity})
        /\ w = Max({m.weight, c.weight})
  <2>1. /\ m.radius \in Int /\ c.radius \in Int /\ m.severity \in Int /\ c.severity \in Int
        /\ m.weight \in Int /\ c.weight \in Int /\ MaxRadius \in Int
    BY DEF Cluster, MaxRadius
  <2>2. PICK x : x = Max({m.radius, c.radius})
    OBVIOUS
  <2>3. x \in Int
    BY <2>1, <2>2, MaxOfTwo
  <2>4. Min({MaxRadius, x}) \in Int
    BY <2>1, <2>3, MinOfTwo
  <2>5. Max({m.severity, c.severity}) \in Int /\ Max({m.weight, c.weight}) \in Int
    BY <2>1, MaxOfTwo
  <2> QED
    BY <2>2, <2>4, <2>5
<1>2. Absorb(m, c) = [m EXCEPT !.radius = r, !.severity = s, !.weight = w]
  BY <1>1 DEF Absorb
<1>3. Absorb(m, c) = [centre |-> m.centre, radius |-> r, severity |-> s, weight |-> w]
  BY <1>2 DEF Cluster
<1> QED
  BY <1>3 DEF Cluster

\* A cluster joins one that is near or is added to the others.
LEMMA JoinIsClusters ==
  ASSUME NEW merged \in Seq(Cluster), NEW c \in Cluster
  PROVE  Join(merged, c) \in Seq(Cluster)
<1> DEFINE close == {n \in DOMAIN merged : Distance(merged[n].centre, c.centre)
                                              <= Max({MergeDistance, merged[n].radius})}
<1>1. Join(merged, c) = IF close = {} THEN Append(merged, c)
                        ELSE [merged EXCEPT ![Min(close)] = Absorb(@, c)]
  BY DEF Join
<1>2. close \subseteq 1..Len(merged) /\ close \subseteq Nat
  BY LenProperties
<1> HIDE DEF close
<1>3. CASE close = {}
  BY <1>1, <1>3, AppendProperties
<1>4. CASE close # {}
  <2>1. PICK k : k = Min(close)
    OBVIOUS
  <2>2. k \in 1..Len(merged)
    BY <1>2, <1>4, <2>1, MinOfNumbers
  <2>3. merged[k] \in Cluster
    BY <2>2, ElementOfSeq
  <2>4. PICK a \in Cluster : a = Absorb(merged[k], c)
    BY <2>3, AbsorbIsCluster
  <2>5. Join(merged, c) = [merged EXCEPT ![k] = a]
    BY <1>1, <1>4, <2>1, <2>4
  <2>6. [merged EXCEPT ![k] = a] \in Seq(Cluster)
    BY <2>2, ExceptSeq
  <2> QED
    BY <2>5, <2>6
<1> QED
  BY <1>3, <1>4

\* mergeClusters makes clusters of clusters.
LEMMA MergeIsClusters ==
  ASSUME NEW clusters \in Seq(Cluster)
  PROVE  Merge(clusters) \in Seq(Cluster)
<1> DEFINE N == Len(clusters)
           Solves(g) == g = [n \in 0..N |-> IF n = 0 THEN <<>> ELSE Join(g[n - 1], clusters[n])]
           h == CHOOSE g : Solves(g)
           step == [x \in (1..N) \X Seq(Cluster) |-> Join(x[2], clusters[x[1]])]
<1>1. Merge(clusters) = h[N]
  BY DEF Merge
<1>2. N \in Nat /\ <<>> \in Seq(Cluster) /\ \A n \in 1..N : clusters[n] \in Cluster
  BY LenProperties, ElementOfSeq, EmptySeq
<1>3. \A n \in 1..N, t \in Seq(Cluster) : Join(t, clusters[n]) \in Seq(Cluster)
  BY <1>2, JoinIsClusters
<1>4. step \in [(1..N) \X Seq(Cluster) -> Seq(Cluster)]
  BY <1>3
<1>5. \A n \in 1..N, t \in Seq(Cluster) : step[<<n, t>>] = Join(t, clusters[n])
  OBVIOUS
<1> HIDE DEF step, N
<1>6. PICK f : Course(Seq(Cluster), N, <<>>, step, f)
  BY <1>2, <1>4, LoopRuns
<1>7. Solves(f)
  <2>1. ASSUME NEW n \in 0..N
        PROVE  f[n] = IF n = 0 THEN <<>> ELSE Join(f[n - 1], clusters[n])
    <3>1. CASE n = 0
      BY <1>6, <3>1 DEF Course
    <3>2. CASE n # 0
      <4>1. n \in 1..N /\ f[n - 1] \in Seq(Cluster)
        BY <1>2, <1>6, <3>2 DEF Course
      <4> QED
        BY <1>5, <1>6, <3>2, <4>1 DEF Course
    <3> QED
      BY <3>1, <3>2
  <2> QED
    BY <1>6, <2>1 DEF Course
<1>8. Solves(h)
  BY <1>7
<1> HIDE DEF h
<1>9. h[0] = <<>>
  BY <1>2, <1>8
<1>10. ASSUME NEW n \in 1..N PROVE h[n] = Join(h[n - 1], clusters[n])
  <2>1. n \in 0..N /\ n # 0
    OBVIOUS
  <2> QED
    BY <1>8, <2>1
<1>11. Stays(Seq(Cluster), N, h)
  BY <1>2, <1>3, <1>9, <1>10 DEF Stays
<1>12. \A n \in 0..N : h[n] \in Seq(Cluster)
  BY <1>2, <1>11, LoopKeeps
<1> QED
  BY <1>1, <1>2, <1>12

\* A cluster is put before the lighter ones.
LEMMA InsertIsSorted ==
  ASSUME NEW D, NEW sorted \in Seq(D), NEW c \in D
  PROVE  Insert(sorted, c) \in Seq(D)
<1> DEFINE lighter == {n \in DOMAIN sorted : sorted[n].weight < c.weight}
<1>1. Insert(sorted, c) = IF lighter = {} THEN Append(sorted, c) ELSE InsertAt(sorted, Min(lighter), c)
  BY DEF Insert
<1>2. lighter \subseteq 1..Len(sorted) /\ lighter \subseteq Nat /\ Len(sorted) \in Nat
  BY LenProperties
<1> HIDE DEF lighter
<1>3. CASE lighter = {}
  BY <1>1, <1>3, AppendProperties
<1>4. CASE lighter # {}
  <2>1. PICK k : k = Min(lighter)
    OBVIOUS
  <2>2. k \in 1..Len(sorted)
    BY <1>2, <1>4, <2>1, MinOfNumbers
  <2>3. k \in Int /\ k - 1 \in Int /\ 1 \in Int /\ Len(sorted) \in Int
    BY <1>2, <2>2
  <2>4. \A i \in 1..Len(sorted) : sorted[i] \in D
    BY ElementOfSeq
  <2>5. (\A i \in 1..(k - 1) : sorted[i] \in D) /\ (\A i \in k..Len(sorted) : sorted[i] \in D)
    BY <1>2, <2>2, <2>4
  <2>6. SubSeq(sorted, 1, k - 1) \in Seq(D)
    BY <2>3, <2>5, SubSeqProperties
  <2>7. SubSeq(sorted, k, Len(sorted)) \in Seq(D)
    BY <2>3, <2>5, SubSeqProperties
  <2>8. <<c>> \in Seq(D)
    OBVIOUS
  <2>9. SubSeq(sorted, 1, k - 1) \o <<c>> \in Seq(D)
    BY <2>6, <2>8, ConcatProperties
  <2>10. (SubSeq(sorted, 1, k - 1) \o <<c>>) \o SubSeq(sorted, k, Len(sorted)) \in Seq(D)
    BY <2>7, <2>9, ConcatProperties
  <2> QED
    BY <1>1, <1>4, <2>1, <2>10 DEF InsertAt
<1> QED
  BY <1>3, <1>4

\* Sorting (sort.SliceStable) keeps the members of the list what they are.
LEMMA SortedIsList ==
  ASSUME NEW D, NEW clusters \in Seq(D)
  PROVE  ByWeight(clusters) \in Seq(D)
<1> DEFINE N == Len(clusters)
           Solves(g) == g = [n \in 0..N |-> IF n = 0 THEN <<>> ELSE Insert(g[n - 1], clusters[n])]
           h == CHOOSE g : Solves(g)
           step == [x \in (1..N) \X Seq(D) |-> Insert(x[2], clusters[x[1]])]
<1>1. ByWeight(clusters) = h[N]
  BY DEF ByWeight
<1>2. N \in Nat /\ <<>> \in Seq(D) /\ \A n \in 1..N : clusters[n] \in D
  BY LenProperties, ElementOfSeq, EmptySeq
<1>3. \A n \in 1..N, t \in Seq(D) : Insert(t, clusters[n]) \in Seq(D)
  BY <1>2, InsertIsSorted
<1>4. step \in [(1..N) \X Seq(D) -> Seq(D)]
  BY <1>3
<1>5. \A n \in 1..N, t \in Seq(D) : step[<<n, t>>] = Insert(t, clusters[n])
  OBVIOUS
<1> HIDE DEF step, N
<1>6. PICK f : Course(Seq(D), N, <<>>, step, f)
  BY <1>2, <1>4, LoopRuns
<1>7. Solves(f)
  <2>1. ASSUME NEW n \in 0..N
        PROVE  f[n] = IF n = 0 THEN <<>> ELSE Insert(f[n - 1], clusters[n])
    <3>1. CASE n = 0
      BY <1>6, <3>1 DEF Course
    <3>2. CASE n # 0
      <4>1. n \in 1..N /\ f[n - 1] \in Seq(D)
        BY <1>2, <1>6, <3>2 DEF Course
      <4> QED
        BY <1>5, <1>6, <3>2, <4>1 DEF Course
    <3> QED
      BY <3>1, <3>2
  <2> QED
    BY <1>6, <2>1 DEF Course
<1>8. Solves(h)
  BY <1>7
<1> HIDE DEF h
<1>9. h[0] = <<>>
  BY <1>2, <1>8
<1>10. ASSUME NEW n \in 1..N PROVE h[n] = Insert(h[n - 1], clusters[n])
  <2>1. n \in 0..N /\ n # 0
    OBVIOUS
  <2> QED
    BY <1>8, <2>1
<1>11. Stays(Seq(D), N, h)
  BY <1>2, <1>3, <1>9, <1>10 DEF Stays
<1>12. \A n \in 0..N : h[n] \in Seq(D)
  BY <1>2, <1>11, LoopKeeps
<1> QED
  BY <1>1, <1>2, <1>12

\* Offsets that are left out leave numbers, and one at least (lateralOffsets).
LEMMA SpacedIsList ==
  ASSUME NEW D, NEW offsets \in Seq(D), NEW gap
  PROVE  Spaced(offsets, gap) \in Seq(D) /\ (offsets # <<>> => Spaced(offsets, gap) # <<>>)
<1> DEFINE N == Len(offsets)
           Solves(g) == g = [n \in 0..N |-> IF n = 0 THEN <<>> ELSE AddSpaced(g[n - 1], offsets[n], gap)]
           h == CHOOSE g : Solves(g)
           step == [x \in (1..N) \X Seq(D) |-> AddSpaced(x[2], offsets[x[1]], gap)]
<1>1. Spaced(offsets, gap) = h[N]
  BY DEF Spaced
<1>2. N \in Nat /\ <<>> \in Seq(D) /\ \A n \in 1..N : offsets[n] \in D
  BY LenProperties, ElementOfSeq, EmptySeq
<1>3. \A n \in 1..N, t \in Seq(D) : AddSpaced(t, offsets[n], gap) \in Seq(D)
  BY <1>2, AppendProperties DEF AddSpaced
<1>4. step \in [(1..N) \X Seq(D) -> Seq(D)]
  BY <1>3
<1>5. \A n \in 1..N, t \in Seq(D) : step[<<n, t>>] = AddSpaced(t, offsets[n], gap)
  OBVIOUS
<1> HIDE DEF step, N
<1>6. PICK f : Course(Seq(D), N, <<>>, step, f)
  BY <1>2, <1>4, LoopRuns
<1>7. Solves(f)
  <2>1. ASSUME NEW n \in 0..N
        PROVE  f[n] = IF n = 0 THEN <<>> ELSE AddSpaced(f[n - 1], offsets[n], gap)
    <3>1. CASE n = 0
      BY <1>6, <3>1 DEF Course
    <3>2. CASE n # 0
      <4>1. n \in 1..N /\ f[n - 1] \in Seq(D)
        BY <1>2, <1>6, <3>2 DEF Course
      <4> QED
        BY <1>5, <1>6, <3>2, <4>1 DEF Course
    <3> QED
      BY <3>1, <3>2
  <2> QED
    BY <1>6, <2>1 DEF Course
<1>8. Solves(h)
  BY <1>7
<1> HIDE DEF h
<1>9. h[0] = <<>>
  BY <1>2, <1>8
<1>10. ASSUME NEW n \in 1..N PROVE h[n] = AddSpaced(h[n - 1], offsets[n], gap)
  <2>1. n \in 0..N /\ n # 0
    OBVIOUS
  <2> QED
    BY <1>8, <2>1
<1>11. Stays(Seq(D), N, h)
  BY <1>2, <1>3, <1>9, <1>10 DEF Stays
<1>12. \A n \in 0..N : h[n] \in Seq(D)
  BY <1>2, <1>11, LoopKeeps
<1>13. ASSUME offsets # <<>> PROVE h[N] # <<>>
  <2>1. N \in 1..N
    <3>1. Len(offsets) # 0
      BY <1>13, EmptySeq
    <3> QED
      BY <1>2, <3>1 DEF N
  <2>2. offsets[N] \in D /\ h[N - 1] \in Seq(D) /\ h[N] = AddSpaced(h[N - 1], offsets[N], gap)
    <3>1. N - 1 \in 0..N
      BY <1>2, <2>1
    <3> QED
      BY <1>2, <1>10, <1>12, <2>1, <3>1
  <2>3. Append(h[N - 1], offsets[N]) # <<>>
    BY <2>2, AppendProperties
  <2> QED
    BY <2>2, <2>3 DEF AddSpaced
<1> QED
  BY <1>1, <1>2, <1>12, <1>13

\* A function on the first numbers is a list.
LEMMA FunctionIsList ==
  ASSUME NEW D, NEW N \in Nat, NEW f \in [1..N -> D]
  PROVE  f \in Seq(D) /\ Len(f) = N
<1>1. f \in Seq(D)
  BY SeqDef
<1>2. DOMAIN f = 1..Len(f) /\ Len(f) \in Nat /\ DOMAIN f = 1..N
  BY <1>1, LenProperties
<1>3. Len(f) = N
  BY <1>2
<1> QED
  BY <1>1, <1>3

\* Lists of one kind joined end to end are a list of that kind.
LEMMA FlatIsList ==
  ASSUME NEW D, NEW seqs \in Seq(Seq(D))
  PROVE  FlattenSeq(seqs) \in Seq(D)
<1> DEFINE N == Len(seqs)
           Solves(g) == g = [i \in 1..N |-> IF i = 1 THEN seqs[i] ELSE g[i - 1] \o seqs[i]]
           h == CHOOSE g : Solves(g)
           step == [x \in (1..N) \X Seq(D) |-> x[2] \o seqs[x[1]]]
<1>1. FlattenSeq(seqs) = IF N = 0 THEN seqs ELSE h[N]
  BY DEF FlattenSeq
<1>2. N \in Nat /\ <<>> \in Seq(D) /\ \A n \in 1..N : seqs[n] \in Seq(D)
  BY LenProperties, ElementOfSeq, EmptySeq
<1>3. \A n \in 1..N, t \in Seq(D) : t \o seqs[n] \in Seq(D)
  BY <1>2, ConcatProperties
<1>4. step \in [(1..N) \X Seq(D) -> Seq(D)]
  BY <1>3
<1>5. \A n \in 1..N, t \in Seq(D) : step[<<n, t>>] = t \o seqs[n]
  OBVIOUS
<1>13. N = 0 => seqs = <<>>
  BY LenProperties, EmptySeq
<1>14. \A n \in 1..N : <<>> \o seqs[n] = seqs[n]
  BY <1>2, ConcatEmptySeq
<1> HIDE DEF step, N
<1>6. PICK f : Course(Seq(D), N, <<>>, step, f)
  BY <1>2, <1>4, LoopRuns
<1>7. Solves([n \in 1..N |-> f[n]])
  <2> DEFINE e == [n \in 1..N |-> f[n]]
  <2>1. ASSUME NEW n \in 1..N
        PROVE  f[n] = IF n = 1 THEN seqs[n] ELSE e[n - 1] \o seqs[n]
    <3>0. f[n - 1] \in Seq(D) /\ f[n] = step[<<n, f[n - 1]>>] /\ f[0] = <<>>
      BY <1>2, <1>6 DEF Course
    <3>4. f[n] = f[n - 1] \o seqs[n]
      BY <1>5, <3>0
    <3>1. CASE n = 1
      <4>1. f[n - 1] = <<>>
        BY <3>0, <3>1
      <4> QED
        BY <1>14, <3>1, <3>4, <4>1
    <3>2. CASE n # 1
      <4>1. n - 1 \in 1..N
        BY <1>2, <3>2
      <4>2. e[n - 1] = f[n - 1]
        BY <4>1
      <4> QED
        BY <3>2, <3>4, <4>2
    <3> QED
      BY <3>1, <3>2
  <2> QED
    BY <2>1
<1>8. Solves(h)
  BY <1>7
<1> HIDE DEF h
<1>10. ASSUME NEW n \in 1..N PROVE h[n] = IF n = 1 THEN seqs[n] ELSE h[n - 1] \o seqs[n]
  BY <1>8
<1>11. \A n \in 1..N : h[n] \in Seq(D)
  <2> DEFINE Bad == {n \in 1..N : h[n] \notin Seq(D)}
  <2> SUFFICES ASSUME Bad # {} PROVE FALSE
    OBVIOUS
  <2>1. Bad \subseteq Nat
    OBVIOUS
  <2> HIDE DEF Bad
  <2>2. PICK m \in Bad : \A n \in Bad : m <= n
    BY <2>1, LeastNumber
  <2>3. m \in 1..N /\ h[m] \notin Seq(D) /\ m \in Int
    BY <2>2 DEF Bad
  <2>4. m # 1
    BY <1>2, <1>10, <2>3
  <2>5. m - 1 \in 1..N /\ ~(m <= m - 1)
    BY <1>2, <2>3, <2>4
  <2>6. h[m - 1] \in Seq(D)
    <3>1. m - 1 \notin Bad
      BY <2>2, <2>5
    <3> QED
      BY <2>5, <3>1 DEF Bad
  <2> QED
    BY <1>3, <1>10, <2>3, <2>4, <2>6
<1>12. N # 0 => N \in 1..N
  BY <1>2
<1> QED
  BY <1>1, <1>2, <1>11, <1>12, <1>13

\* The largest of some numbers within bounds is one of them.
LEMMA MaxOfNumbers ==
  ASSUME NEW K \in Nat, NEW T, T \subseteq 0..K, T # {}
  PROVE  Max(T) \in T
<1> DEFINE below == {K - t : t \in T}
<1>1. below \subseteq Nat /\ below # {}
  <2>1. \A t \in T : K - t \in Nat
    OBVIOUS
  <2> QED
    BY <2>1
<1> HIDE DEF below
<1>2. PICK m \in below : \A n \in below : m <= n
  BY <1>1, LeastNumber
<1>3. PICK x \in T : m = K - x
  BY <1>2 DEF below
<1>4. \A y \in T : K - y \in below
  BY DEF below
<1>5. ASSUME NEW y \in T PROVE x >= y
  <2>1. K - x <= K - y
    BY <1>2, <1>3, <1>4
  <2>2. x \in Int /\ y \in Int
    OBVIOUS
  <2> QED
    BY <2>1, <2>2
<1>6. \E z \in T : \A y \in T : z >= y
  BY <1>5
<1> QED
  BY <1>6 DEF Max

\* A number between two others.
LEMMA ClampIsNumber ==
  ASSUME NEW low \in Int, NEW x \in Int, NEW high \in Int
  PROVE  Clamp(low, x, high) \in Int
<1>1. PICK m : m = Min({x, high})
  OBVIOUS
<1>2. m \in Int
  BY <1>1, MinOfTwo
<1> QED
  BY <1>1, <1>2, MaxOfTwo DEF Clamp

\* A stretch of road that leads forward (a segment of a candidate).
Stretch == {s \in Segment : s.from < s.to}

\* Segments of a route make a cluster (newCluster).
LEMMA NewClusterIsCluster ==
  ASSUME NEW route \in Seq(Stretch), NEW i \in 1..Len(route), NEW j \in i..Len(route)
  PROVE  NewCluster(route, i, j) \in Cluster
<1> DEFINE points == [p \in 0..(2 * (j - i) + 1) |-> LET segment == route[i + p \div 2]
                                                     IN IF p % 2 = 0 THEN segment.from ELSE segment.to]
           centre == points[j - i + 1]
           apart == {Distance(centre, points[p]) : p \in DOMAIN points}
           severe == {route[k].severity : k \in i..j}
           severity == Max(severe)
           lengths == [k \in 1..(j - i + 1) |-> route[i + k - 1].to - route[i + k - 1].from]
           losses == [k \in 1..(j - i + 1) |-> route[i + k - 1].lost]
           radius == Clamp(MinRadius, Max(apart), MaxRadius)
           weight == severity * 10000 + Total(lengths) + Total(losses) * 20
<1>1. NewCluster(route, i, j) = [centre |-> centre, radius |-> radius, severity |-> severity, weight |-> weight]
  BY DEF NewCluster
<1>2. Span \in Nat /\ Len(route) \in Nat /\ i \in Nat /\ j \in Nat /\ i <= j /\ 1 <= i /\ j <= Len(route)
  BY LadderAssumption, LenProperties DEF LadderAssumption
<1>3. \A k \in i..j : route[k] \in Stretch
  <2>1. \A k \in i..j : k \in 1..Len(route)
    BY <1>2
  <2> QED
    BY <2>1, ElementOfSeq
<1>4. \A k \in i..j : /\ route[k].from \in 0..Span /\ route[k].to \in 0..Span
                      /\ route[k].severity \in 0..3 /\ route[k].lost \in Nat
  BY <1>3 DEF Stretch, Segment
<1>5. \A p \in 0..(2 * (j - i) + 1) : i + p \div 2 \in i..j
  BY <1>2
<1>6. \A p \in 0..(2 * (j - i) + 1) : points[p] \in 0..Span
  BY <1>4, <1>5
<1>7. j - i + 1 \in 0..(2 * (j - i) + 1)
  BY <1>2
<1>8. centre \in 0..Span
  BY <1>6, <1>7
<1>9. \A k \in 1..(j - i + 1) : i + k - 1 \in i..j
  BY <1>2
<1>10. j - i + 1 \in Nat
  BY <1>2
<1>11. radius \in Int
  <2>1. \A p \in 0..(2 * (j - i) + 1) : Distance(centre, points[p]) \in 0..Span
    <3> HIDE DEF points
    <3> QED
      BY <1>2, <1>6, <1>8 DEF Distance
  <2>2. apart \subseteq 0..Span /\ apart # {}
    BY <1>7, <2>1
  <2> HIDE DEF apart
  <2>3. PICK x \in 0..Span : x = Max(apart)
    BY <1>2, <2>2, MaxOfNumbers
  <2>4. x \in Int /\ MinRadius \in Int /\ MaxRadius \in Int
    BY DEF MinRadius, MaxRadius
  <2> QED
    BY <2>3, <2>4, ClampIsNumber
<1>12. severity \in Int
  <2>1. severe \subseteq 0..3 /\ severe # {}
    BY <1>2, <1>4
  <2>2. 3 \in Nat
    OBVIOUS
  <2> HIDE DEF severe
  <2>3. Max(severe) \in 0..3
    BY <2>1, <2>2, MaxOfNumbers
  <2> QED
    BY <2>3
<1>13. Total(lengths) \in Int
  <2>1. lengths \in [1..(j - i + 1) -> Int]
    BY <1>4, <1>9
  <2>2. lengths \in Seq(Int)
    <3> HIDE DEF lengths
    <3> QED
      BY <1>10, <2>1, FunctionIsList
  <2> QED
    BY <2>2, TotalIsNumber
<1>14. Total(losses) \in Int
  <2>1. losses \in [1..(j - i + 1) -> Int]
    BY <1>4, <1>9
  <2>2. losses \in Seq(Int)
    <3> HIDE DEF losses
    <3> QED
      BY <1>10, <2>1, FunctionIsList
  <2> QED
    BY <2>2, TotalIsNumber
<1>15. weight \in Int
  <2> HIDE DEF severity, lengths, losses
  <2> QED
    BY <1>12, <1>13, <1>14
<1>16. centre \in Int
  BY <1>8
<1> HIDE DEF centre, radius, severity, weight
<1> QED
  BY <1>1, <1>11, <1>12, <1>15, <1>16 DEF Cluster

\* A run of congested segments has an end.
LEMMA RunEnds ==
  ASSUME NEW route \in Seq(Stretch), NEW i \in 1..Len(route), Congested(route, i)
  PROVE  \E j \in i..Len(route) : /\ \A k \in i..j : Congested(route, k)
                                  /\ ~Congested(route, j + 1)
<1> DEFINE N == Len(route)
           Clear == {k \in i..(N + 1) : ~Congested(route, k)}
<1>1. N \in Nat /\ DOMAIN route = 1..N
  BY LenProperties
<1>2. N + 1 \in Clear
  BY <1>1 DEF Congested
<1>3. Clear \subseteq Nat
  BY <1>1
<1> HIDE DEF Clear, N
<1>4. PICK m \in Clear : \A n \in Clear : m <= n
  BY <1>2, <1>3, LeastNumber
<1> USE DEF Clear, N
<1>5. m \in i..(N + 1) /\ ~Congested(route, m) /\ m # i
  BY <1>4
<1>6. m - 1 \in i..N /\ (m - 1) + 1 = m
  BY <1>1, <1>5
<1>7. ASSUME NEW k \in i..(m - 1) PROVE Congested(route, k)
  <2>1. k \in i..(N + 1) /\ ~(m <= k)
    BY <1>1, <1>5
  <2>2. k \notin Clear
    <3> HIDE DEF Clear
    <3> QED
      BY <1>4, <2>1
  <2> QED
    BY <2>1, <2>2
<1> QED
  BY <1>5, <1>6, <1>7

\* A route has clusters of congestion (candidateClusters).
LEMMA CandidateClustersAre ==
  ASSUME NEW route \in Seq(Stretch)
  PROVE  CandidateClusters(route) \in Seq(Cluster)
<1> DEFINE N == Len(route)
           Begins == {i \in 1..N : Congested(route, i) /\ ~Congested(route, i - 1)}
           starts == Those([i \in 1..N |-> i], Begins)
           Ends(i, j) == /\ \A k \in i..j : Congested(route, k)
                         /\ ~Congested(route, j + 1)
           End(i) == CHOOSE j \in i..N : Ends(i, j)
<1>1. N \in Nat /\ DOMAIN route = 1..N
  BY LenProperties
<1>2. CandidateClusters(route) = [n \in DOMAIN starts |-> NewCluster(route, starts[n], End(starts[n]))]
  BY <1>1 DEF CandidateClusters
<1>3. \A n \in DOMAIN starts : starts[n] \in 1..N /\ Congested(route, starts[n])
  <2> DEFINE D == {i \in 1..N : Congested(route, i)}
  <2>1. [i \in 1..N |-> i] \in [1..N -> 1..N]
    OBVIOUS
  <2>2. [i \in 1..N |-> i] \in Seq(1..N) /\ Len([i \in 1..N |-> i]) = N
    BY <1>1, <2>1, FunctionIsList
  <2>3. \A n \in 1..N : n \in Begins => [i \in 1..N |-> i][n] \in D
    OBVIOUS
  <2> DEFINE all == [i \in 1..N |-> i]
  <2> HIDE DEF D, all, Begins, N
  <2>4. starts \in Seq(D)
    BY <2>2, <2>3, ThoseAreSuch
  <2> HIDE DEF starts
  <2>5. \A n \in DOMAIN starts : starts[n] \in D
    BY <2>4, LenProperties, ElementOfSeq
  <2> QED
    BY <2>5 DEF D
<1>4. ASSUME NEW n \in DOMAIN starts
      PROVE  NewCluster(route, starts[n], End(starts[n])) \in Cluster
  <2> HIDE DEF starts
  <2>1. PICK i \in 1..N : i = starts[n]
    BY <1>3
  <2>2. \E j \in i..N : Ends(i, j)
    BY <1>3, <2>1, RunEnds
  <2>3. End(i) \in i..N
    <3> HIDE DEF Ends
    <3> QED
      BY <2>2
  <2> HIDE DEF End
  <2> QED
    BY <2>1, <2>3, NewClusterIsCluster
<1>5. starts \in Seq(Nat)
  <2>1. [i \in 1..N |-> i] \in [1..N -> Nat]
    BY <1>1
  <2>2. [i \in 1..N |-> i] \in Seq(Nat) /\ Len([i \in 1..N |-> i]) = N
    BY <1>1, <2>1, FunctionIsList
  <2>3. \A n \in 1..N : n \in Begins => [i \in 1..N |-> i][n] \in Nat
    BY <1>1
  <2> HIDE DEF Begins, N
  <2> QED
    BY <2>2, <2>3, ThoseAreSuch
<1> HIDE DEF starts, End
<1>6. DOMAIN starts = 1..Len(starts) /\ Len(starts) \in Nat
  BY <1>5, LenProperties
<1>7. [n \in DOMAIN starts |-> NewCluster(route, starts[n], End(starts[n]))] \in [1..Len(starts) -> Cluster]
  BY <1>4, <1>6
<1> QED
  BY <1>2, <1>6, <1>7, FunctionIsList

\* The congestion of all candidates known makes clusters.
LEMMA ObservedIsClusters ==
  Observed \in Seq(Cluster)
<1>1. Candidates \in Seq(Seq(Stretch))
  BY LadderAssumption DEF LadderAssumption, Stretch
<1>2. DOMAIN Candidates = 1..Len(Candidates) /\ Len(Candidates) \in Nat
  BY <1>1, LenProperties
<1>3. ASSUME NEW i \in DOMAIN Candidates
      PROVE  (IF i \in known THEN ClustersOf[i] ELSE <<>>) \in Seq(Cluster)
  <2>1. Candidates[i] \in Seq(Stretch)
    BY <1>1, <1>2, ElementOfSeq
  <2>2. ClustersOf[i] = CandidateClusters(Candidates[i])
    BY DEF ClustersOf
  <2> QED
    BY <2>1, <2>2, CandidateClustersAre, EmptySeq
<1> DEFINE each == [i \in DOMAIN Candidates |-> IF i \in known THEN ClustersOf[i] ELSE <<>>]
<1>4. each \in [1..Len(Candidates) -> Seq(Cluster)]
  BY <1>2, <1>3
<1>5. Observed = FlattenSeq(each)
  BY DEF Observed
<1> HIDE DEF each
<1>6. each \in Seq(Seq(Cluster))
  BY <1>2, <1>4, FunctionIsList
<1> QED
  BY <1>5, <1>6, FlatIsList

\* Clusters whose zone stays off the ends of the trip.
Fitting == {c \in Cluster : c.radius <= Clearance(c)}

\* Zones that stay off the ends of the trip.
Harmless == {z \in [centre: Int, radius: Int] :
               \A end \in {0, Span} : Distance(z.centre, end) - z.radius >= Protection}

\* The names of plans.
PlanName == {"NONE", "AVOID_ALL_RED", "AVOID_RED_AND_ORANGE", "GUARDED_LATERAL", "LATERAL",
             "MULTI_CLUSTER_BYPASS", "AVOID_EVERY_NON_GREEN", "CORRIDOR", "AVOID_WORST"}

\* Plans that ask for the user's trip.
TripPlan ==
  {p \in [label: PlanName \X Int \X Int, zones: Seq(Harmless),
          anchors: Seq([place: Int, offset: Int, side: Int])] :
     p.anchors # <<>> => Len(p.anchors) + setting.waypoints + 2 <= setting.maxWaypoints}

\* A distance is a number.
LEMMA DistanceIsNumber ==
  ASSUME NEW a \in Int, NEW b \in Int
  PROVE  Distance(a, b) \in Int
BY DEF Distance

\* The clearance of a cluster is what both ends allow (congestionClusters).
LEMMA ClearanceOfBoth ==
  ASSUME NEW c \in Cluster
  PROVE  /\ Clearance(c) \in Int
         /\ \A end \in {0, Span} : Clearance(c) + ZoneBuffer + Protection <= Distance(c.centre, end)
<1>1. Span \in Int /\ 0 \in Int /\ c.centre \in Int
  BY LadderAssumption DEF LadderAssumption, Cluster
<1>2. PICK a \in Int, b \in Int : a = Distance(c.centre, 0) /\ b = Distance(c.centre, Span)
  BY <1>1, DistanceIsNumber
<1>3. Min({a, b}) = IF a <= b THEN a ELSE b
  BY MinOfTwo
<1>4. Clearance(c) = Min({a, b}) - Protection - ZoneBuffer
  BY <1>2 DEF Clearance
<1>5. Clearance(c) \in Int /\ Clearance(c) + ZoneBuffer + Protection <= a /\ Clearance(c) + ZoneBuffer + Protection <= b
  BY <1>3, <1>4 DEF Protection, ZoneBuffer
<1> QED
  BY <1>2, <1>5

\* A cluster that is shrunk fits (congestionClusters).
LEMMA ShrunkFits ==
  ASSUME NEW c \in Cluster
  PROVE  Shrunk(c) \in Fitting
<1>1. PICK k \in Int : k = Clearance(c)
  BY ClearanceOfBoth
<1>2. c.radius \in Int
  BY DEF Cluster
<1>3. PICK r \in Int : r = Min({c.radius, k}) /\ r <= k
  BY <1>2, MinOfTwo
<1>4. Shrunk(c) = [c EXCEPT !.radius = r]
  BY <1>1, <1>3 DEF Shrunk
<1>5. PICK d : d = Shrunk(c)
  OBVIOUS
<1>6. d \in Cluster /\ d.radius = r /\ d.centre = c.centre
  BY <1>4, <1>5 DEF Cluster
<1>7. Clearance(d) = Clearance(c)
  BY <1>6 DEF Clearance
<1> QED
  BY <1>1, <1>3, <1>5, <1>6, <1>7 DEF Fitting

\* The zone around a cluster that fits stays off both ends (zonesForClusters).
LEMMA ZoneIsHarmless ==
  ASSUME NEW c \in Fitting
  PROVE  ZoneAround(c) \in Harmless
<1>1. c \in Cluster /\ c.radius \in Int /\ c.centre \in Int /\ c.radius <= Clearance(c)
  BY DEF Fitting, Cluster
<1>2. PICK k \in Int : k = Clearance(c)
  BY <1>1, ClearanceOfBoth
<1>3. PICK x \in Int : x = c.radius + ZoneBuffer
  BY <1>1 DEF ZoneBuffer
<1>4. PICK r \in Int : r = Min({MaxRadius, x}) /\ r <= x
  BY <1>3, MinOfTwo DEF MaxRadius
<1>5. ZoneAround(c) = [centre |-> c.centre, radius |-> r]
  BY <1>3, <1>4 DEF ZoneAround
<1>6. ASSUME NEW end \in {0, Span} PROVE Distance(c.centre, end) - r >= Protection
  <2>1. Distance(c.centre, end) \in Int
    <3>1. end \in Int
      BY LadderAssumption DEF LadderAssumption
    <3> QED
      BY <1>1, <3>1, DistanceIsNumber
  <2>2. k + ZoneBuffer + Protection <= Distance(c.centre, end)
    BY <1>1, <1>2, ClearanceOfBoth
  <2> QED
    BY <1>1, <1>2, <1>3, <1>4, <2>1, <2>2 DEF ZoneBuffer, Protection
<1> QED
  BY <1>1, <1>5, <1>6 DEF Harmless

\* The clusters the ladder is built on fit (congestionClusters).
LEMMA ClustersFit ==
  Clusters \in Seq(Fitting)
<1> DEFINE merged == Merge(Observed)
           room == {n \in DOMAIN merged : Clearance(merged[n]) >= MinRadius}
           clear == Those(merged, room)
           shrunk == [n \in DOMAIN clear |-> Shrunk(clear[n])]
<1>1. Clusters = ByWeight(shrunk)
  BY DEF Clusters
<1>2. merged \in Seq(Cluster)
  BY ObservedIsClusters, MergeIsClusters
<1> HIDE DEF merged, room
<1>3. \A n \in 1..Len(merged) : merged[n] \in Cluster
  BY <1>2, ElementOfSeq
<1>4. clear \in Seq(Cluster)
  BY <1>2, <1>3, ThoseAreSuch
<1> HIDE DEF clear
<1>5. DOMAIN clear = 1..Len(clear) /\ Len(clear) \in Nat /\ \A n \in 1..Len(clear) : clear[n] \in Cluster
  BY <1>4, LenProperties, ElementOfSeq
<1>6. shrunk \in [1..Len(clear) -> Fitting]
  BY <1>5, ShrunkFits
<1> HIDE DEF shrunk
<1>7. shrunk \in Seq(Fitting)
  BY <1>5, <1>6, FunctionIsList
<1> QED
  BY <1>1, <1>7, SortedIsList

\* The zones of clusters that fit (zonesForClusters).
LEMMA ZonesAreHarmless ==
  ASSUME NEW clusters \in Seq(Fitting), NEW limit \in Nat
  PROVE  ZonesFor(clusters, limit) \in Seq(Harmless)
<1>1. Len(clusters) \in Nat /\ \A n \in 1..Len(clusters) : clusters[n] \in Fitting
  BY LenProperties, ElementOfSeq
<1>2. PICK m \in Nat : m = Min({limit, Len(clusters)}) /\ m <= Len(clusters)
  BY <1>1, MinOfTwo
<1>3. [n \in 1..m |-> ZoneAround(clusters[n])] \in [1..m -> Harmless]
  BY <1>1, <1>2, ZoneIsHarmless
<1>4. ZonesFor(clusters, limit) = [n \in 1..m |-> ZoneAround(clusters[n])]
  BY <1>2 DEF ZonesFor
<1> QED
  BY <1>3, <1>4, FunctionIsList

\* A plan of zones only keeps the trip.
LEMMA ZonePlanKeeps ==
  ASSUME NEW name \in PlanName, NEW side \in Int, NEW size \in Int, NEW zones \in Seq(Harmless)
  PROVE  Plan(<<name, side, size>>, zones, <<>>) \in TripPlan
<1>1. <<>> \in Seq([place: Int, offset: Int, side: Int])
  BY EmptySeq
<1> QED
  BY <1>1 DEF Plan, TripPlan

\* One plan is a list of one.
LEMMA OneIsList ==
  ASSUME NEW D, NEW e \in D
  PROVE  <<e>> \in Seq(D) /\ Len(<<e>>) = 1
OBVIOUS

\* A plan that avoids clusters keeps the trip (greenDetourPlans).
LEMMA AvoidKeeps ==
  ASSUME NEW name \in PlanName, NEW clusters \in Seq(Fitting)
  PROVE  Avoid(name, clusters) \in Seq(TripPlan)
<1>1. PICK zones \in Seq(Harmless) : zones = ZonesFor(clusters, MaxZones)
  BY ZonesAreHarmless DEF MaxZones
<1>2. Len(zones) \in Int /\ 0 \in Int
  BY LenProperties
<1>3. Plan(<<name, 0, Len(zones)>>, zones, <<>>) \in TripPlan
  BY <1>2, ZonePlanKeeps
<1>4. <<Plan(<<name, 0, Len(zones)>>, zones, <<>>)>> \in Seq(TripPlan)
  BY <1>3, OneIsList
<1> QED
  BY <1>1, <1>4, EmptySeq DEF Avoid

\* A plan around the worst clusters keeps the trip (greenDetourPlans).
LEMMA WorstKeeps ==
  ASSUME NEW clusters \in Seq(Fitting), NEW size \in Nat
  PROVE  WorstPlan(clusters, size) \in TripPlan
<1>1. ZonesFor(clusters, size) \in Seq(Harmless)
  BY ZonesAreHarmless
<1>2. 0 \in Int /\ size \in Int
  OBVIOUS
<1>3. "AVOID_WORST" \in PlanName
  BY DEF PlanName
<1> QED
  BY <1>1, <1>2, <1>3, ZonePlanKeeps DEF WorstPlan

\* A side is a number.
LEMMA SideIsNumber ==
  ASSUME NEW n PROVE Side(n) \in Int
BY DEF Side

\* A rounded fraction is a number (math.Round).
LEMMA RoundIsNumber ==
  ASSUME NEW a \in Int, NEW d \in Nat \ {0}
  PROVE  Round(a, d) \in Int
BY DEF Round

\* The offsets of the laterals are numbers, and one at least (lateralOffsets).
LEMMA LateralOffsetsAre ==
  ASSUME setting \in Setting
  PROVE  LateralOffsets \in Seq(Int) /\ LateralOffsets # <<>>
<1> DEFINE extra == IF setting.extra = 0 THEN 9000 ELSE setting.extra
           wide == [n \in 1..4 |-> Clamp(MinLateral, Round(extra * <<12, 30, 62, 100>>[n], 300), MaxLateral)]
<1>1. LateralOffsets = Spaced(wide, 150)
  BY DEF LateralOffsets
<1>2. extra \in Nat
  BY DEF Setting
<1>3. \A n \in 1..4 : <<12, 30, 62, 100>>[n] \in Nat
  OBVIOUS
<1> HIDE DEF extra
<1>4. ASSUME NEW n \in 1..4
      PROVE  Clamp(MinLateral, Round(extra * <<12, 30, 62, 100>>[n], 300), MaxLateral) \in Int
  <2>1. PICK k \in Nat : k = <<12, 30, 62, 100>>[n]
    BY <1>3
  <2>2. extra * k \in Int /\ 300 \in Nat \ {0}
    BY <1>2
  <2>3. Round(extra * k, 300) \in Int
    BY <2>2, RoundIsNumber
  <2>4. MinLateral \in Int /\ MaxLateral \in Int
    BY DEF MinLateral, MaxLateral
  <2> QED
    BY <2>1, <2>3, <2>4, ClampIsNumber
<1>5. wide \in [1..4 -> Int]
  BY <1>4
<1> HIDE DEF wide
<1>6. wide \in Seq(Int) /\ Len(wide) = 4
  <2>1. PICK k \in Nat : k = 4
    OBVIOUS
  <2>2. wide \in [1..k -> Int]
    BY <1>5, <2>1
  <2>3. wide \in Seq(Int) /\ Len(wide) = k
    BY <2>2, FunctionIsList
  <2> QED
    BY <2>1, <2>3
<1>7. wide # <<>>
  <2>1. Len(<<>>) = 0
    BY EmptySeq
  <2>2. ASSUME wide = <<>> PROVE Len(wide) = 0
    BY <2>1, <2>2, Zenon
  <2>3. 4 # 0
    OBVIOUS
  <2> QED
    BY <1>6, <2>2, <2>3, Zenon
<1> QED
  BY <1>1, <1>6, <1>7, SpacedIsList

\* The offsets of the corridors are numbers (corridorOffsets).
LEMMA CorridorOffsetsAre ==
  ASSUME setting \in Setting
  PROVE  CorridorOffsets \in Seq(Int)
<1> DEFINE quarters == [n \in 1..2 |-> Min({4 * MaxLateral, Min({n * Span, 2 * setting.extra})})]
           enough == {n \in 1..2 : quarters[n] >= 4 * MinCorridor}
           wide == Those(quarters, enough)
           round == [n \in DOMAIN wide |-> Round(wide[n], 4)]
<1>1. CorridorOffsets = Spaced(round, 500)
  BY DEF CorridorOffsets
<1>2. Span \in Nat /\ setting.extra \in Nat /\ 4 * MaxLateral \in Int /\ 2 * setting.extra \in Int
  BY LadderAssumption DEF LadderAssumption, Setting, MaxLateral
<1>3. ASSUME NEW n \in 1..2
      PROVE  Min({4 * MaxLateral, Min({n * Span, 2 * setting.extra})}) \in Int
  <2>1. n * Span \in Int
    BY <1>2
  <2>2. PICK x \in Int : x = Min({n * Span, 2 * setting.extra})
    BY <1>2, <2>1, MinOfTwo
  <2> QED
    BY <1>2, <2>2, MinOfTwo
<1>4. quarters \in [1..2 -> Int]
  BY <1>3
<1> HIDE DEF quarters, enough
<1>5. quarters \in Seq(Int) /\ \A n \in 1..Len(quarters) : quarters[n] \in Int
  BY <1>4, FunctionIsList, ElementOfSeq
<1>6. wide \in Seq(Int)
  BY <1>5, ThoseAreSuch
<1> HIDE DEF wide
<1>7. DOMAIN wide = 1..Len(wide) /\ Len(wide) \in Nat /\ \A n \in 1..Len(wide) : wide[n] \in Int
  BY <1>6, LenProperties, ElementOfSeq
<1>8. round \in [1..Len(wide) -> Int]
  <2>1. 4 \in Nat \ {0}
    OBVIOUS
  <2> QED
    BY <1>7, <2>1, RoundIsNumber
<1> HIDE DEF round
<1>9. round \in Seq(Int)
  BY <1>7, <1>8, FunctionIsList
<1> QED
  BY <1>1, <1>9, SpacedIsList

\* Anchors within the capacity are within the limit of waypoints
\* (anchorCapacity).
LEMMA CapacityIsWithin ==
  ASSUME setting \in Setting, NEW n \in Int, n <= AnchorCapacity, n >= 1
  PROVE  n + setting.waypoints + 2 <= setting.maxWaypoints
<1>1. setting.maxWaypoints \in Int /\ setting.waypoints \in Int
  BY DEF Setting
<1>2. PICK k \in Int : k = setting.maxWaypoints - setting.waypoints - 2
  BY <1>1
<1>3. AnchorCapacity = IF 0 >= k THEN 0 ELSE k
  BY <1>2, MaxOfTwo DEF AnchorCapacity
<1> QED
  BY <1>1, <1>2, <1>3

\* A plan with anchors within the capacity keeps the trip (greenDetourPlans).
LEMMA AnchoredKeeps ==
  ASSUME NEW label \in PlanName \X Int \X Int, NEW zones \in Seq(Harmless),
         NEW anchors \in Seq([place: Int, offset: Int, side: Int]),
         Len(anchors) <= AnchorCapacity, Len(anchors) >= 1, setting \in Setting
  PROVE  Plan(label, zones, anchors) \in TripPlan
<1>1. Len(anchors) \in Int
  BY LenProperties
<1>2. Len(anchors) + setting.waypoints + 2 <= setting.maxWaypoints
  BY <1>1, CapacityIsWithin
<1> QED
  BY <1>2 DEF Plan, TripPlan

\* The laterals keep the trip (greenDetourPlans).
LEMMA LateralKeeps ==
  ASSUME setting \in Setting, AnchorCapacity >= 1,
         NEW clusters \in Seq(Fitting), clusters # <<>>, NEW red \in Seq(Fitting)
  PROVE  LateralPlans(clusters, red) \in Seq(TripPlan)
<1>1. PICK offsets \in Seq(Int) : offsets = LateralOffsets
  BY LateralOffsetsAre
<1>2. Len(offsets) \in Nat /\ \A k \in 1..Len(offsets) : offsets[k] \in Int
  BY LenProperties, ElementOfSeq
<1>3. clusters[1].centre \in Int
  <2>1. Len(clusters) \in Nat \ {0}
    BY EmptySeq
  <2>2. clusters[1] \in Fitting
    BY <2>1, ElementOfSeq
  <2> QED
    BY <2>2 DEF Fitting, Cluster
<1>4. ZonesFor(red, 2) \in Seq(Harmless) /\ <<>> \in Seq(Harmless)
  BY ZonesAreHarmless, EmptySeq
<1> DEFINE k(n) == (n + 1) \div 2
           guarded(n) == setting.zones /\ k(n) >= 2
           plan(n) == Plan(<<IF guarded(n) THEN "GUARDED_LATERAL" ELSE "LATERAL", Side(n), offsets[k(n)]>>,
                           IF guarded(n) THEN ZonesFor(red, 2) ELSE <<>>,
                           <<Anchor(clusters[1].centre, offsets[k(n)], Side(n))>>)
<1>5. ASSUME NEW n \in 1..(2 * Len(offsets)) PROVE plan(n) \in TripPlan
  <2>1. k(n) \in 1..Len(offsets)
    BY <1>2
  <2>2. PICK offset \in Int : offset = offsets[k(n)]
    BY <1>2, <2>1
  <2>3. PICK side \in Int : side = Side(n)
    BY SideIsNumber
  <2>4. Anchor(clusters[1].centre, offset, side) \in [place: Int, offset: Int, side: Int]
    BY <1>3 DEF Anchor
  <2>5. /\ <<Anchor(clusters[1].centre, offset, side)>> \in Seq([place: Int, offset: Int, side: Int])
        /\ Len(<<Anchor(clusters[1].centre, offset, side)>>) = 1
    BY <2>4, OneIsList
  <2>6. PICK name \in PlanName : name = IF guarded(n) THEN "GUARDED_LATERAL" ELSE "LATERAL"
    BY DEF PlanName
  <2>7. PICK zones \in Seq(Harmless) : zones = IF guarded(n) THEN ZonesFor(red, 2) ELSE <<>>
    BY <1>4
  <2>8. <<name, side, offset>> \in PlanName \X Int \X Int
    OBVIOUS
  <2>9. 1 >= 1
    OBVIOUS
  <2>10. Plan(<<name, side, offset>>, zones, <<Anchor(clusters[1].centre, offset, side)>>) \in TripPlan
    BY <2>5, <2>8, <2>9, AnchoredKeeps
  <2> QED
    BY <2>2, <2>3, <2>6, <2>7, <2>10
<1>6. LateralPlans(clusters, red) = [n \in 1..(2 * Len(offsets)) |-> plan(n)]
  BY <1>1 DEF LateralPlans
<1> HIDE DEF plan
<1>7. [n \in 1..(2 * Len(offsets)) |-> plan(n)] \in [1..(2 * Len(offsets)) -> TripPlan]
  BY <1>5
<1>8. 2 * Len(offsets) \in Nat
  BY <1>2
<1> QED
  BY <1>6, <1>7, <1>8, FunctionIsList

\* The corridors keep the trip (corridorPlans).
LEMMA CorridorKeeps ==
  ASSUME setting \in Setting, AnchorCapacity >= 1
  PROVE  CorridorPlans \in Seq(TripPlan)
<1>1. PICK offsets \in Seq(Int) : offsets = CorridorOffsets
  BY CorridorOffsetsAre
<1>2. Len(offsets) \in Nat /\ \A k \in 1..Len(offsets) : offsets[k] \in Int
  BY LenProperties, ElementOfSeq
<1>3. Span \div 2 \in Int
  BY LadderAssumption DEF LadderAssumption
<1> DEFINE k(n) == (n + 1) \div 2
           plan(n) == Plan(<<"CORRIDOR", Side(n), offsets[k(n)]>>, <<>>,
                           <<Anchor(Span \div 2, offsets[k(n)], Side(n))>>)
<1>5. ASSUME NEW n \in 1..(2 * Len(offsets)) PROVE plan(n) \in TripPlan
  <2>1. k(n) \in 1..Len(offsets)
    BY <1>2
  <2>2. PICK offset \in Int : offset = offsets[k(n)]
    BY <1>2, <2>1
  <2>3. PICK side \in Int : side = Side(n)
    BY SideIsNumber
  <2>4. Anchor(Span \div 2, offset, side) \in [place: Int, offset: Int, side: Int]
    BY <1>3 DEF Anchor
  <2>5. /\ <<Anchor(Span \div 2, offset, side)>> \in Seq([place: Int, offset: Int, side: Int])
        /\ Len(<<Anchor(Span \div 2, offset, side)>>) = 1
    BY <2>4, OneIsList
  <2>6. <<"CORRIDOR", side, offset>> \in PlanName \X Int \X Int
    BY DEF PlanName
  <2>7. <<>> \in Seq(Harmless)
    BY EmptySeq
  <2>8. 1 >= 1
    OBVIOUS
  <2>9. Plan(<<"CORRIDOR", side, offset>>, <<>>, <<Anchor(Span \div 2, offset, side)>>) \in TripPlan
    BY <2>5, <2>6, <2>7, <2>8, AnchoredKeeps
  <2> QED
    BY <2>2, <2>3, <2>9
<1>6. CorridorPlans = [n \in 1..(2 * Len(offsets)) |-> plan(n)]
  BY <1>1 DEF CorridorPlans
<1> HIDE DEF plan
<1>7. [n \in 1..(2 * Len(offsets)) |-> plan(n)] \in [1..(2 * Len(offsets)) -> TripPlan]
  BY <1>5
<1>8. 2 * Len(offsets) \in Nat
  BY <1>2
<1> QED
  BY <1>6, <1>7, <1>8, FunctionIsList

\* The bypass of two clusters keeps the trip (greenDetourPlans).
LEMMA BypassKeeps ==
  ASSUME setting \in Setting, AnchorCapacity >= 2, NEW clusters \in Seq(Fitting), Len(clusters) > 1
  PROVE  BypassPlan(clusters) \in TripPlan
<1>1. PICK offset \in Int : offset = LateralOffsets[1]
  <2>1. LateralOffsets \in Seq(Int) /\ LateralOffsets # <<>>
    BY LateralOffsetsAre
  <2>2. Len(LateralOffsets) \in Nat \ {0}
    BY <2>1, EmptySeq
  <2>3. 1 \in 1..Len(LateralOffsets)
    BY <2>2
  <2> QED
    BY <2>1, <2>3, ElementOfSeq
<1>2. \A n \in 1..2 : clusters[n].centre \in Int
  <2>1. \A n \in 1..2 : n \in 1..Len(clusters)
    BY LenProperties
  <2>2. \A n \in 1..2 : clusters[n] \in Fitting
    BY <2>1, ElementOfSeq
  <2> QED
    BY <2>2 DEF Fitting, Cluster
<1> DEFINE anchors == [n \in 1..2 |-> Anchor(clusters[n].centre, offset, 1)]
<1>3. anchors \in [1..2 -> [place: Int, offset: Int, side: Int]]
  BY <1>2 DEF Anchor
<1>4. BypassPlan(clusters) = Plan(<<"MULTI_CLUSTER_BYPASS", 0, 0>>, ZonesFor(clusters, MaxZones), anchors)
  BY <1>1 DEF BypassPlan
<1> HIDE DEF anchors
<1>5. anchors \in Seq([place: Int, offset: Int, side: Int]) /\ Len(anchors) = 2
  BY <1>3, FunctionIsList
<1>6. ZonesFor(clusters, MaxZones) \in Seq(Harmless)
  BY ZonesAreHarmless DEF MaxZones
<1>7. <<"MULTI_CLUSTER_BYPASS", 0, 0>> \in PlanName \X Int \X Int
  BY DEF PlanName
<1>8. Len(anchors) >= 1 /\ Len(anchors) <= AnchorCapacity
  BY <1>5
<1> QED
  BY <1>4, <1>5, <1>6, <1>7, <1>8, AnchoredKeeps

\* A rung is a list of plans.
LEMMA RungIsList ==
  ASSUME NEW D, NEW wanted \in BOOLEAN, NEW plans, wanted => plans \in Seq(D)
  PROVE  Rung(wanted, plans) \in Seq(D)
BY EmptySeq DEF Rung

\* Every plan of the ladder keeps the trip (greenDetourPlans).
LEMMA PlansKeepTrip ==
  ASSUME setting \in Setting, NEW clusters \in Seq(Fitting)
  PROVE  GreenDetourPlans(clusters) \in Seq(TripPlan)
<1> DEFINE severe(s) == {n \in DOMAIN clusters : clusters[n].severity >= s}
           red == Those(clusters, severe(3))
           redOrange == Those(clusters, severe(2))
           reaches == setting.anchors /\ AnchorCapacity >= 1
           bypasses == setting.zones /\ setting.anchors /\ AnchorCapacity >= 2 /\ Len(clusters) > 1
           wide == setting.zones /\ Min({MaxZones, Len(redOrange)}) > Len(red)
           every == setting.zones /\ (setting.strict \/ redOrange = <<>>)
           r1 == Rung(setting.zones, Avoid("AVOID_ALL_RED", red))
           r2 == Rung(wide, Avoid("AVOID_RED_AND_ORANGE", redOrange))
           r3 == Rung(reaches, LateralPlans(clusters, red))
           r4 == Rung(bypasses, <<BypassPlan(clusters)>>)
           r5 == Rung(every, Avoid("AVOID_EVERY_NON_GREEN", clusters))
           r6 == Rung(reaches, CorridorPlans)
           r7 == Rung(setting.zones /\ Len(clusters) >= 3, <<WorstPlan(clusters, 3)>>)
           r8 == Rung(setting.zones, <<WorstPlan(clusters, 1)>>)
<1>1. GreenDetourPlans(clusters)
        = IF clusters = <<>> THEN <<>> ELSE r1 \o r2 \o r3 \o r4 \o r5 \o r6 \o r7 \o r8
  BY DEF GreenDetourPlans
<1>2. <<>> \in Seq(TripPlan)
  BY EmptySeq
<1>3. ASSUME clusters # <<>>
      PROVE  r1 \o r2 \o r3 \o r4 \o r5 \o r6 \o r7 \o r8 \in Seq(TripPlan)
  <2>1. \A n \in 1..Len(clusters) : clusters[n] \in Fitting
    BY ElementOfSeq
  <2>2. red \in Seq(Fitting) /\ redOrange \in Seq(Fitting)
    <3> HIDE DEF severe
    <3> QED
      BY <2>1, ThoseAreSuch
  <2>3. setting.zones \in BOOLEAN /\ setting.anchors \in BOOLEAN
    BY DEF Setting
  <2>4. reaches \in BOOLEAN /\ bypasses \in BOOLEAN /\ wide \in BOOLEAN /\ every \in BOOLEAN
        /\ (setting.zones /\ Len(clusters) >= 3) \in BOOLEAN
    BY <2>3
  <2> HIDE DEF red, redOrange
  <2>5. "AVOID_ALL_RED" \in PlanName /\ "AVOID_RED_AND_ORANGE" \in PlanName /\ "AVOID_EVERY_NON_GREEN" \in PlanName
    BY DEF PlanName
  <2>11. r1 \in Seq(TripPlan)
    BY <2>2, <2>3, <2>5, AvoidKeeps, RungIsList
  <2>12. r2 \in Seq(TripPlan)
    <3>1. Avoid("AVOID_RED_AND_ORANGE", redOrange) \in Seq(TripPlan)
      BY <2>2, <2>5, AvoidKeeps
    <3> HIDE DEF wide
    <3> QED
      BY <2>4, <3>1, RungIsList
  <2>13. r3 \in Seq(TripPlan)
    <3>1. reaches => LateralPlans(clusters, red) \in Seq(TripPlan)
      BY <1>3, <2>2, LateralKeeps
    <3> HIDE DEF reaches
    <3> QED
      BY <2>4, <3>1, RungIsList
  <2>14. r4 \in Seq(TripPlan)
    <3>1. bypasses => BypassPlan(clusters) \in TripPlan
      BY BypassKeeps
    <3> HIDE DEF bypasses
    <3>2. bypasses => <<BypassPlan(clusters)>> \in Seq(TripPlan)
      BY <3>1, OneIsList
    <3> QED
      BY <2>4, <3>2, RungIsList
  <2>15. r5 \in Seq(TripPlan)
    <3>1. Avoid("AVOID_EVERY_NON_GREEN", clusters) \in Seq(TripPlan)
      BY <2>5, AvoidKeeps
    <3> HIDE DEF every
    <3> QED
      BY <2>4, <3>1, RungIsList
  <2>16. r6 \in Seq(TripPlan)
    <3>1. reaches => CorridorPlans \in Seq(TripPlan)
      BY CorridorKeeps
    <3> HIDE DEF reaches
    <3> QED
      BY <2>4, <3>1, RungIsList
  <2>17. r7 \in Seq(TripPlan) /\ r8 \in Seq(TripPlan)
    <3>1. WorstPlan(clusters, 3) \in TripPlan /\ WorstPlan(clusters, 1) \in TripPlan
      BY WorstKeeps
    <3>2. <<WorstPlan(clusters, 3)>> \in Seq(TripPlan) /\ <<WorstPlan(clusters, 1)>> \in Seq(TripPlan)
      BY <3>1, OneIsList
    <3> QED
      BY <2>3, <2>4, <3>2, RungIsList
  <2> HIDE DEF r1, r2, r3, r4, r5, r6, r7, r8
  <2>21. r1 \o r2 \in Seq(TripPlan)
    BY <2>11, <2>12, ConcatProperties
  <2>22. r1 \o r2 \o r3 \in Seq(TripPlan)
    BY <2>13, <2>21, ConcatProperties
  <2>23. r1 \o r2 \o r3 \o r4 \in Seq(TripPlan)
    BY <2>14, <2>22, ConcatProperties
  <2>24. r1 \o r2 \o r3 \o r4 \o r5 \in Seq(TripPlan)
    BY <2>15, <2>23, ConcatProperties
  <2>25. r1 \o r2 \o r3 \o r4 \o r5 \o r6 \in Seq(TripPlan)
    BY <2>16, <2>24, ConcatProperties
  <2>26. r1 \o r2 \o r3 \o r4 \o r5 \o r6 \o r7 \in Seq(TripPlan)
    BY <2>17, <2>25, ConcatProperties
  <2> QED
    BY <2>17, <2>26, ConcatProperties
<1> HIDE DEF r1, r2, r3, r4, r5, r6, r7, r8
<1> QED
  BY <1>1, <1>2, <1>3

-----------------------------------------------------------------------------
(* The loop of enhance asks for the user's trip.                           *)

\* Every question comes from the ladder, and two failures in a row are the most
\* there are before the loop stops.
LadderInv ==
  /\ LadderTypeOK
  /\ IsFiniteSet(tried)
  /\ probe \in {"choose", "asked"} => inARow <= 1
  /\ question \in TripPlan

\* Limits are numbers.
LEMMA LadderLimits ==
  /\ MaxProbes \in Nat /\ MaxPool \in Nat /\ MaxUnroutable \in Nat /\ MaxOutages \in Nat
  /\ Settings \subseteq Setting
  /\ DOMAIN Candidates = 1..Len(Candidates) /\ Len(Candidates) \in Nat
<1>1. Candidates \in Seq(Seq(Stretch))
  BY LadderAssumption DEF LadderAssumption, Stretch
<1>2. DOMAIN Candidates = 1..Len(Candidates) /\ Len(Candidates) \in Nat
  BY <1>1, LenProperties
<1> QED
  BY <1>2, LadderAssumption DEF LadderAssumption

\* A search of detours begins with candidates and no question.
LEMMA LadderBegins ==
  ASSUME LadderInit
  PROVE  LadderInv
<1>1. NoQuestion \in TripPlan
  <2>1. <<>> \in Seq(Harmless) /\ <<>> \in Seq([place: Int, offset: Int, side: Int])
    BY EmptySeq
  <2>2. <<"NONE", 0, 0>> \in PlanName \X Int \X Int
    BY DEF PlanName
  <2> QED
    BY <2>1, <2>2 DEF NoQuestion, TripPlan
<1>2. IsFiniteSet({}) /\ Cardinality({}) = 0
  BY FS_EmptySet
<1>3. IsFiniteSet(tried) /\ Cardinality(tried) = probes
  BY <1>2 DEF LadderInit
<1>4. LadderTypeOK
  BY <1>3, LadderLimits DEF LadderInit, LadderTypeOK
<1> QED
  BY <1>1, <1>3, <1>4 DEF LadderInit, LadderInv

\* What keeps the trip does so for the whole search.
LEMMA SameSearch ==
  ASSUME setting' = setting
  PROVE  TripPlan' = TripPlan
BY DEF TripPlan

\* Asking the next question (enhance, nextUntriedPlan).
LEMMA AskNextKeeps ==
  ASSUME LadderInv, AskNext
  PROVE  LadderInv'
<1>1. setting \in Setting
  BY LadderLimits DEF LadderInv, LadderTypeOK
<1>2. PICK plans \in Seq(TripPlan) : plans = GreenDetourPlans(Clusters)
  BY <1>1, ClustersFit, PlansKeepTrip
<1>3. PICK n \in FirstUntried(plans) : question' = plans[n]
  BY <1>2 DEF AskNext
<1>4. n \in 1..Len(plans) /\ plans[n].label \notin tried
  BY <1>2, <1>3, LenProperties DEF FirstUntried
<1>5. question' \in TripPlan /\ question'.label \notin tried
  BY <1>3, <1>4, ElementOfSeq
<1>6. IsFiniteSet(tried) /\ Cardinality(tried) = probes
  BY DEF LadderInv, LadderTypeOK
<1>7. PICK label : label = question'.label
  OBVIOUS
<1>8. IsFiniteSet(tried \cup {label}) /\ Cardinality(tried \cup {label}) = Cardinality(tried) + 1
  BY <1>5, <1>6, <1>7, FS_AddElement
<1>9. tried' = tried \cup {label} /\ probes' = probes + 1 /\ probe' = "asked" /\ probe = "choose"
      /\ probes < MaxProbes
      /\ setting' = setting /\ known' = known /\ inARow' = inARow /\ unroutable' = unroutable
      /\ outages' = outages
  BY <1>7 DEF AskNext
<1>10. IsFiniteSet(tried') /\ Cardinality(tried') = probes'
  BY <1>6, <1>8, <1>9
<1>11. probes' \in 0..MaxProbes
  BY <1>9, LadderLimits DEF LadderInv, LadderTypeOK
<1>12. LadderTypeOK'
  BY <1>9, <1>10, <1>11 DEF LadderInv, LadderTypeOK
<1>13. question' \in TripPlan'
  BY <1>5, <1>9, SameSearch
<1> QED
  BY <1>9, <1>10, <1>12, <1>13 DEF LadderInv

\* A question that fails (the error path of enhance).
LEMMA FailedKeeps ==
  ASSUME LadderInv, Failed, unroutable' \in 0..MaxUnroutable, outages' \in 0..MaxOutages
  PROVE  LadderInv'
<1>1. probe = "asked" /\ inARow \in 0..2 /\ inARow <= 1
  BY DEF Failed, LadderInv, LadderTypeOK
<1>2. inARow' = inARow + 1 /\ probe' = IF inARow' >= 2 THEN "stopped" ELSE "choose"
  BY DEF Failed
<1>3. inARow' \in 0..2 /\ (probe' = "stopped" \/ (probe' = "choose" /\ inARow' <= 1))
  BY <1>1, <1>2
<1>4. setting' = setting /\ known' = known /\ tried' = tried /\ question' = question /\ probes' = probes
  BY DEF Failed
<1>5. LadderTypeOK'
  BY <1>3, <1>4 DEF LadderInv, LadderTypeOK
<1>6. question' \in TripPlan'
  BY <1>4, SameSearch DEF LadderInv
<1> QED
  BY <1>3, <1>4, <1>5, <1>6 DEF LadderInv

\* A question that is answered (deduplicateAndScore keeps a candidate).
LEMMA AnsweredKeeps ==
  ASSUME LadderInv, NEW kept \in SUBSET DOMAIN Candidates, QuestionAnswered(kept)
  PROVE  LadderInv'
<1>1. known \subseteq DOMAIN Candidates /\ known # {}
  BY DEF LadderInv, LadderTypeOK
<1>0. MaxPool \in Nat
  BY LadderLimits
<1>2. kept # {}
  BY <1>1 DEF QuestionAnswered
<1>3. IsFiniteSet(DOMAIN Candidates)
  BY LadderLimits, FS_Interval
<1>4. IsFiniteSet(known \cup kept)
  <2>1. known \cup kept \subseteq DOMAIN Candidates
    BY <1>1
  <2> QED
    BY <1>3, <2>1, FS_Subset
<1>5. Cardinality(kept) <= Cardinality(known \cup kept) /\ IsFiniteSet(kept)
  BY <1>4, FS_Subset
<1>6. Cardinality(known \cup kept) <= MaxPool
  BY DEF QuestionAnswered
<1>7. Cardinality(kept) \in Nat /\ Cardinality(known \cup kept) \in Nat
  BY <1>4, <1>5, FS_CardinalityType
<1>8. Cardinality(kept) <= MaxPool
  BY <1>0, <1>5, <1>6, <1>7
<1>9. known' = kept /\ inARow' = 0 /\ probe' = "choose" /\ setting' = setting /\ tried' = tried
      /\ question' = question /\ probes' = probes /\ unroutable' = unroutable /\ outages' = outages
  BY DEF QuestionAnswered
<1>10. known' \in (SUBSET DOMAIN Candidates) \ {{}} /\ Cardinality(known') <= MaxPool
  BY <1>2, <1>8, <1>9
<1>11. inARow' <= 1 /\ inARow' \in 0..2
  BY <1>9
<1>12. LadderTypeOK'
  BY <1>9, <1>10, <1>11 DEF LadderInv, LadderTypeOK
<1>13. question' \in TripPlan'
  BY <1>9, SameSearch DEF LadderInv
<1> QED
  BY <1>9, <1>11, <1>12, <1>13 DEF LadderInv

\* Every step of the loop.
LEMMA LadderStep ==
  ASSUME LadderInv, [LadderNext]_ladderVars
  PROVE  LadderInv'
<1>1. CASE AskNext
  BY <1>1, AskNextKeeps
<1>2. CASE QuestionRejected
  BY <1>2, FailedKeeps DEF QuestionRejected, LadderInv, LadderTypeOK
<1>3. CASE QuestionUnroutable
  <2>1. Failed /\ outages' \in 0..MaxOutages
    BY <1>3 DEF QuestionUnroutable, LadderInv, LadderTypeOK
  <2>2. unroutable' \in 0..MaxUnroutable
    BY <1>3, LadderLimits DEF QuestionUnroutable, LadderInv, LadderTypeOK
  <2> QED
    BY <2>1, <2>2, FailedKeeps
<1>4. CASE QuestionFailed
  <2>1. Failed /\ unroutable' \in 0..MaxUnroutable
    BY <1>4 DEF QuestionFailed, LadderInv, LadderTypeOK
  <2>2. outages' \in 0..MaxOutages
    BY <1>4, LadderLimits DEF QuestionFailed, LadderInv, LadderTypeOK
  <2> QED
    BY <2>1, <2>2, FailedKeeps
<1>5. CASE \E kept \in SUBSET DOMAIN Candidates : QuestionAnswered(kept)
  BY <1>5, AnsweredKeeps
<1>6. CASE LadderEnds
  <2>1. probe' = "ended" /\ setting' = setting /\ known' = known /\ tried' = tried
        /\ question' = question /\ probes' = probes /\ inARow' = inARow
        /\ unroutable' = unroutable /\ outages' = outages
    BY <1>6 DEF LadderEnds
  <2>2. question' \in TripPlan'
    BY <2>1, SameSearch DEF LadderInv
  <2> QED
    BY <2>1, <2>2 DEF LadderInv, LadderTypeOK
<1>7. CASE UNCHANGED ladderVars
  <2>1. probe' = probe /\ setting' = setting /\ known' = known /\ tried' = tried
        /\ question' = question /\ probes' = probes /\ inARow' = inARow
        /\ unroutable' = unroutable /\ outages' = outages
    BY <1>7 DEF ladderVars
  <2>2. question' \in TripPlan'
    BY <2>1, SameSearch DEF LadderInv
  <2> QED
    BY <2>1, <2>2 DEF LadderInv, LadderTypeOK
<1> QED
  BY <1>1, <1>2, <1>3, <1>4, <1>5, <1>6, <1>7 DEF LadderNext

\* The loop of enhance keeps its invariant.
THEOREM LadderSound == LadderSpec => []LadderInv
<1>1. LadderInit => LadderInv
  BY LadderBegins
<1>2. LadderInv /\ [LadderNext]_ladderVars => LadderInv'
  BY LadderStep
<1> QED
  BY <1>1, <1>2, PTL DEF LadderSpec

\* Probes within MaxEnhancedIterations, a label never asked twice and candidates
\* within MaxActiveCandidates, however the ladder and the answers come.
THEOREM LadderTypeCorrect == LadderSpec => []LadderTypeOK
<1>1. LadderInv => LadderTypeOK
  BY DEF LadderInv
<1> QED
  BY <1>1, LadderSound, PTL

\* A question of the ladder keeps the trip.
LEMMA LadderInvKeepsTrip ==
  LadderInv => TripIsKept
<1> SUFFICES ASSUME LadderInv PROVE TripIsKept
  OBVIOUS
<1>1. question \in TripPlan
  BY DEF LadderInv
<1>2. question.zones \in Seq(Harmless)
  BY <1>1 DEF TripPlan
<1>3. \A n \in DOMAIN question.zones : question.zones[n] \in Harmless
  BY <1>2, LenProperties, ElementOfSeq
<1>4. \A zone \in ToSet(question.zones) : zone \in Harmless
  BY <1>3 DEF ToSet
<1>5. \A zone \in ToSet(question.zones), end \in {0, Span} : Distance(zone.centre, end) - zone.radius >= Protection
  BY <1>4 DEF Harmless
<1>6. question.anchors # <<>> => Len(question.anchors) + setting.waypoints + 2 <= setting.maxWaypoints
  BY <1>1 DEF TripPlan
<1> QED
  BY <1>5, <1>6 DEF TripIsKept

\* No zone the provider is asked to avoid reaches an end of the trip, and no
\* anchors lengthen a question beyond MaxWaypoints, for every congestion, length
\* of the trip and configuration.
THEOREM TripIsKeptSafe == LadderSpec => []TripIsKept
BY LadderInvKeepsTrip, LadderSound, PTL

-----------------------------------------------------------------------------
(* The four side by side (MCEngine).                                       *)

\* A step of the composition is one of each component or leaves it alone.
LEMMA EngineStep ==
  ASSUME [ResultNext \/ DetourNext \/ SpendingNext \/ ServiceNext]_engineVars
  PROVE  [Next]_vars /\ [RunNext]_runVars /\ [LadderNext]_ladderVars /\ [ChainNext]_chainVars
<1>1. CASE ResultNext
  <2>1. UNCHANGED <<vars, ladderVars, chainVars>>
    BY <1>1 DEF ResultNext, OnResult
  <2>2. \/ InitialUnavailable
        \/ \E answer \in Answers(MaxActive) : InitialAnswered(answer)
        \/ \E evaluation \in Evaluations(pool, remaining) : EvaluateInitial(evaluation)
        \/ Panic
        \/ \E answer \in Answers(MaxActive - Cardinality(pool)), cost \in Charges :
             TollFreeAnswered(answer, cost) \/ ProbeAnswered(answer, cost)
        \/ TollFreeFailed \/ TollFreeSkipped
        \/ ProbeFailed \/ EnhanceEnds
    BY <1>1 DEF ResultNext, OnResult
  <2>3. RunNext
    BY <2>2 DEF RunNext
  <2> QED
    BY <2>1, <2>3
<1>2. CASE DetourNext
  <2>1. UNCHANGED <<vars, runVars, chainVars>>
    BY <1>2 DEF DetourNext, OnLadder
  <2>2. \/ AskNext \/ QuestionRejected \/ QuestionUnroutable \/ QuestionFailed \/ LadderEnds
        \/ \E kept \in SUBSET DOMAIN Candidates : QuestionAnswered(kept)
    BY <1>2 DEF DetourNext, OnLadder
  <2>3. LadderNext
    BY <2>2 DEF LadderNext
  <2> QED
    BY <2>1, <2>3
<1>3. CASE SpendingNext
  <2>1. UNCHANGED <<runVars, ladderVars, chainVars>>
    BY <1>3 DEF SpendingNext, OnBudget
  <2>2. \E c \in Calls :
          \/ Lease(c) \/ LeaseRefused(c)
          \/ RouteSucceeded(c) \/ RouteFailed(c) \/ RoutePanicked(c)
          \/ Deliver(c) \/ Attempt(c) \/ Answer(c) \/ GiveUp(c)
    BY <1>3 DEF SpendingNext, OnBudget
  <2>3. Next
    BY <2>2 DEF Next
  <2> QED
    BY <2>1, <2>3
<1>4. CASE ServiceNext
  <2>1. UNCHANGED <<vars, runVars, ladderVars>>
    BY <1>4 DEF ServiceNext, AtChain
  <2>2. \/ \E p \in Process : ProbeReadiness(p)
        \/ RefreshCapabilities
        \/ \E outcome \in Outcome :
             CallRouter(outcome) \/ SuggestPrimary(outcome) \/ SuggestFallback(outcome)
        \/ SuggestBegins \/ SuggestEnds
        \/ \E u \in Upstream : Elapse(u)
        \/ \E d \in DOMAIN world : Mends(d) \/ \E how \in {"down", "denied"} : Breaks(d, how)
        \/ RestartAdapter
    BY <1>4 DEF ServiceNext, AtChain
  <2>3. ChainNext
    BY <2>2 DEF ChainNext
  <2> QED
    BY <2>1, <2>3
<1>5. CASE UNCHANGED engineVars
  BY <1>5 DEF engineVars
<1> QED
  BY <1>1, <1>2, <1>3, <1>4, <1>5

\* Side by side the components behave as each does alone: what is proved of
\* the budget, of the search and of the ladder holds of the composition.  The
\* fairness of the chain is left out, which the composition does not give it.
THEOREM EngineIsFour ==
  EngineSpec => Spec /\ RunSpec /\ LadderSpec /\ ChainInit /\ [][ChainNext]_chainVars
<1>1. EngineInit => Init /\ RunInit /\ LadderInit /\ ChainInit
  BY DEF EngineInit
<1>2. [ResultNext \/ DetourNext \/ SpendingNext \/ ServiceNext]_engineVars
        => [Next]_vars /\ [RunNext]_runVars /\ [LadderNext]_ladderVars /\ [ChainNext]_chainVars
  BY EngineStep
<1> QED
  BY <1>1, <1>2, PTL DEF EngineSpec, Spec, RunSpec, LadderSpec

\* The variables of all four keep their types in the composition.
THEOREM EngineTypeCorrect == EngineSpec => []EngineTypeOK
<1>1. Spec => []TypeOK
  BY TypeCorrect
<1>2. RunSpec => []GreenTypeOK
  BY GreenTypeCorrect
<1>3. LadderSpec => []LadderTypeOK
  BY LadderTypeCorrect
<1>4. ChainInit /\ [][ChainNext]_chainVars => []ChainTypeOK
  <2>1. ChainInv => ChainTypeOK
    BY DEF ChainInv
  <2> QED
    BY <2>1, ChainInitSound, ChainNextSound, PTL
<1>5. TypeOK /\ GreenTypeOK /\ LadderTypeOK /\ ChainTypeOK => EngineTypeOK
  BY DEF EngineTypeOK
<1> QED
  BY <1>1, <1>2, <1>3, <1>4, <1>5, EngineIsFour, PTL
=============================================================================
