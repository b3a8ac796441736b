-------------------------- MODULE EventStreamProofs --------------------------
(***************************************************************************)
(* Proofs about the streams of one search and their followers, for any     *)
(* number of followers, attempts, slots, events and disturbances.          *)
(*                                                                         *)
(* Every step moves at most one stream and the follower it is for, so one  *)
(* lemma (StepKeeps) carries the whole: a slot is taken and given back     *)
(* with the place of its stream, and a follower knows where its streams    *)
(* are (Placed): the present one is open and at the event last received,   *)
(* later ones have not begun.                                              *)
(***************************************************************************)
EXTENDS EventStream, FiniteSetTheorems, SequenceTheorems, TLAPS

StreamRecord   == [pc: PC, after: 0..MaxEvents, got: 0..MaxEvents, empty: BOOLEAN]
FollowerRecord == [mode: Mode, attempt: 0..MaxAttempts, last: 0..MaxEvents,
                   failures: 0..(MaxPollFailures - 1),
                   shown: Seq(1..MaxEvents), half: SUBSET (1..MaxEvents)]

\* A stream on which something may still arrive.
Live == {"global", "get"} \cup Loop

\* The tokens of sseGlobal and of the principal that a stream at p holds.
GlobalTokens(p) == IF p \in {"none", "done"} THEN 0 ELSE 1
OwnerTokens(p)  == IF p \in {"get", "closing"} \cup Loop THEN 1 ELSE 0

LogInv ==
  /\ log \in Seq({"event", "undecodable"})
  /\ Len(log) <= MaxEvents
  /\ ~concluded => Len(log) < MaxEvents
  /\ concluded \in BOOLEAN
  /\ gone \in BOOLEAN

SlotInv ==
  /\ stream \in [Streams -> StreamRecord]
  /\ \A s \in Streams : /\ stream[s].after <= Len(log)
                        /\ stream[s].pc \in {"global", "get"} => stream[s].got = stream[s].after
  /\ global \in 0..MaxStreams
  /\ owner \in 0..MaxPerPrincipal
  /\ SlotsExact

\* Where the streams of follower c are, when its record is f.
Placed(c, f) ==
  /\ f.mode \in {"connect", "backoff"} =>
       /\ f.attempt < MaxAttempts
       /\ \A n \in 1..MaxAttempts : n > f.attempt => stream[<<c, n>>].pc = "none"
  /\ f.mode = "stream" =>
       /\ f.attempt < MaxAttempts
       /\ stream[<<c, f.attempt + 1>>].pc \in Live
       /\ stream[<<c, f.attempt + 1>>].got = f.last
       /\ \A n \in 1..MaxAttempts : n > f.attempt + 1 => stream[<<c, n>>].pc = "none"

\* What a follower was shown: in order, and together with the half events all
\* there is up to the last.
InOrder(f) ==
  /\ \A k \in 2..Len(f.shown) : f.shown[k - 1] < f.shown[k]
  /\ {f.shown[k] : k \in DOMAIN f.shown} \cup f.half = 1..f.last

FollowerInv ==
  /\ follower \in [Followers -> FollowerRecord]
  /\ \A c \in Followers : /\ Placed(c, follower[c])
                          /\ InOrder(follower[c])
                          /\ follower[c].last <= Len(log)

StreamInv == LogInv /\ SlotInv /\ FollowerInv /\ faults \in 0..MaxFaults

\* Stream s moves to t, and follower c to f.
Moves(s, t, c, f) ==
  /\ stream' = [stream EXCEPT ![s] = t] /\ t \in StreamRecord
  /\ follower' = [follower EXCEPT ![c] = f] /\ f \in FollowerRecord

-----------------------------------------------------------------------------
(* Slots.                                                                  *)

\* The streams there can be are finitely many.
LEMMA StreamsFinite == IsFiniteSet(Streams)
<1>1. IsFiniteSet(1..MaxAttempts)
  BY StreamAssumption, FS_Interval
<1> QED BY <1>1, StreamAssumption, FS_Product DEF Streams

\* A stream that moves takes or gives back its tokens, and no others.
LEMMA SlotsMove ==
  ASSUME SlotInv, NEW s \in Streams, NEW t \in StreamRecord,
         stream' = [stream EXCEPT ![s] = t],
         global' = global + GlobalTokens(t.pc) - GlobalTokens(stream[s].pc),
         owner' = owner + OwnerTokens(t.pc) - OwnerTokens(stream[s].pc)
  PROVE  SlotsExact' /\ global' \in Nat /\ owner' \in Nat
<1> DEFINE Holding == {u \in Streams : stream[u].pc \notin {"none", "done"}}
           Owned   == {u \in Streams : stream[u].pc \in {"get", "closing"} \cup Loop}
<1>1. /\ stream'[s] = t /\ \A u \in Streams : u # s => stream'[u] = stream[u]
      /\ global = Cardinality(Holding) /\ owner = Cardinality(Owned)
      /\ global \in Nat /\ owner \in Nat
  BY StreamAssumption DEF SlotInv, SlotsExact
<1>2. IsFiniteSet(Holding) /\ IsFiniteSet(Owned)
  BY StreamsFinite, FS_Subset
<1> HIDE DEF Holding, Owned
<1>3. Cardinality(Holding') = global' /\ global' \in Nat
  <2>1. CASE GlobalTokens(t.pc) = GlobalTokens(stream[s].pc)
    <3>1. Holding' = Holding
      BY <1>1, <2>1 DEF GlobalTokens, Holding
    <3> QED BY <1>1, <2>1, <3>1 DEF GlobalTokens
  <2>2. CASE GlobalTokens(t.pc) = 1 /\ GlobalTokens(stream[s].pc) = 0
    <3>1. Holding' = Holding \cup {s} /\ s \notin Holding
      BY <1>1, <2>2 DEF GlobalTokens, Holding
    <3>2. Cardinality(Holding \cup {s}) = Cardinality(Holding) + 1
      BY <1>2, <3>1, FS_AddElement
    <3> QED BY <1>1, <2>2, <3>1, <3>2
  <2>3. CASE GlobalTokens(t.pc) = 0 /\ GlobalTokens(stream[s].pc) = 1
    <3>1. Holding' = Holding \ {s} /\ s \in Holding
      BY <1>1, <2>3 DEF GlobalTokens, Holding
    <3>2. Cardinality(Holding \ {s}) = Cardinality(Holding) - 1
      BY <1>2, <3>1, FS_RemoveElement
    <3>3. Cardinality(Holding \ {s}) \in Nat
      BY <1>2, FS_Subset, FS_CardinalityType
    <3> QED BY <1>1, <2>3, <3>1, <3>2, <3>3
  <2> QED BY <2>1, <2>2, <2>3 DEF GlobalTokens
<1>4. Cardinality(Owned') = owner' /\ owner' \in Nat
  <2>1. CASE OwnerTokens(t.pc) = OwnerTokens(stream[s].pc)
    <3>1. Owned' = Owned
      BY <1>1, <2>1 DEF OwnerTokens, Owned
    <3> QED BY <1>1, <2>1, <3>1 DEF OwnerTokens
  <2>2. CASE OwnerTokens(t.pc) = 1 /\ OwnerTokens(stream[s].pc) = 0
    <3>1. Owned' = Owned \cup {s} /\ s \notin Owned
      BY <1>1, <2>2 DEF OwnerTokens, Owned
    <3>2. Cardinality(Owned \cup {s}) = Cardinality(Owned) + 1
      BY <1>2, <3>1, FS_AddElement
    <3> QED BY <1>1, <2>2, <3>1, <3>2
  <2>3. CASE OwnerTokens(t.pc) = 0 /\ OwnerTokens(stream[s].pc) = 1
    <3>1. Owned' = Owned \ {s} /\ s \in Owned
      BY <1>1, <2>3 DEF OwnerTokens, Owned
    <3>2. Cardinality(Owned \ {s}) = Cardinality(Owned) - 1
      BY <1>2, <3>1, FS_RemoveElement
    <3>3. Cardinality(Owned \ {s}) \in Nat
      BY <1>2, FS_Subset, FS_CardinalityType
    <3> QED BY <1>1, <2>3, <3>1, <3>2, <3>3
  <2> QED BY <2>1, <2>2, <2>3 DEF OwnerTokens
<1> QED BY <1>3, <1>4 DEF SlotsExact, Holding, Owned

-----------------------------------------------------------------------------
(* One step, of one stream and its follower.                               *)

\* A step keeps the invariant if the stream and the follower it moves are well
\* placed and its tokens are within the limits.
LEMMA StepKeeps ==
  ASSUME StreamInv, NEW c \in Followers, NEW f, NEW n \in 1..MaxAttempts, NEW t,
         Moves(<<c, n>>, t, c, f), UNCHANGED recordVars, faults' \in 0..MaxFaults,
         global' = global + GlobalTokens(t.pc) - GlobalTokens(stream[<<c, n>>].pc),
         owner' = owner + OwnerTokens(t.pc) - OwnerTokens(stream[<<c, n>>].pc),
         global' <= MaxStreams, owner' <= MaxPerPrincipal,
         t.after <= Len(log), t.pc \in {"global", "get"} => t.got = t.after,
         f.last <= Len(log), InOrder(f), Placed(c, f)'
  PROVE  StreamInv'
<1>1. <<c, n>> \in Streams
  BY DEF Streams
<1>2. /\ stream' \in [Streams -> StreamRecord] /\ stream'[<<c, n>>] = t
      /\ \A u \in Streams : u # <<c, n>> => stream'[u] = stream[u]
  BY <1>1 DEF StreamInv, SlotInv, Moves
<1>3. /\ follower' \in [Followers -> FollowerRecord] /\ follower'[c] = f
      /\ \A d \in Followers : d # c => follower'[d] = follower[d]
  BY DEF StreamInv, FollowerInv, Moves
<1>4. log' = log /\ concluded' = concluded /\ gone' = gone
  BY DEF recordVars
<1>5. SlotInv'
  <2>1. SlotsExact' /\ global' \in Nat /\ owner' \in Nat
    BY <1>1, SlotsMove DEF StreamInv, Moves
  <2>2. \A u \in Streams : /\ stream'[u].after <= Len(log')
                           /\ stream'[u].pc \in {"global", "get"} => stream'[u].got = stream'[u].after
    BY <1>2, <1>4 DEF StreamInv, SlotInv
  <2> QED BY <1>2, <2>1, <2>2, StreamAssumption DEF SlotInv
<1>6. ASSUME NEW d \in Followers, NEW g \in FollowerRecord, g = follower'[d]
      PROVE  Placed(d, g)' /\ InOrder(g) /\ g.last <= Len(log')
  <2>1. CASE d = c
    BY <1>3, <1>4, <1>6, <2>1
  <2>2. CASE d # c
    <3>1. g = follower[d] /\ Placed(d, g) /\ InOrder(g) /\ g.last <= Len(log)
      BY <1>3, <1>6, <2>2 DEF StreamInv, FollowerInv
    <3>2. \A m \in 1..MaxAttempts : stream'[<<d, m>>] = stream[<<d, m>>]
      BY <1>2, <2>2 DEF Streams
    <3>3. g.attempt \in 0..MaxAttempts
      BY DEF FollowerRecord
    <3>4. Placed(d, g)'
      BY <3>1, <3>2, <3>3, StreamAssumption DEF Placed
    <3> QED BY <1>4, <3>1, <3>4
  <2> QED BY <2>1, <2>2
<1>7. FollowerInv'
  <2>1. (\A d \in Followers : Placed(d, follower[d]) /\ InOrder(follower[d]) /\ follower[d].last <= Len(log))'
    BY <1>3, <1>6
  <2> QED BY <1>3, <2>1 DEF FollowerInv
<1>8. LogInv'
  BY <1>4 DEF StreamInv, LogInv
<1> QED BY <1>5, <1>7, <1>8 DEF StreamInv

\* A step of a stream alone: if it is the present one of its follower, it stays
\* open and loses nothing of what the follower received.
LEMMA StreamStepKeeps ==
  ASSUME StreamInv, NEW s \in Streams, NEW t \in StreamRecord, stream' = [stream EXCEPT ![s] = t],
         stream[s].pc # "none", UNCHANGED <<recordVars, follower>>, faults' \in 0..MaxFaults,
         global' = global + GlobalTokens(t.pc) - GlobalTokens(stream[s].pc),
         owner' = owner + OwnerTokens(t.pc) - OwnerTokens(stream[s].pc),
         global' <= MaxStreams, owner' <= MaxPerPrincipal,
         t.after <= Len(log), t.pc \in {"global", "get"} => t.got = t.after,
         IsCurrent(s) => t.pc \in Live /\ t.got = stream[s].got
  PROVE  StreamInv'
<1>1. PICK c \in Followers, n \in 1..MaxAttempts : s = <<c, n>>
  BY DEF Streams
<1>2. PICK f \in FollowerRecord : f = follower[c] /\ Placed(c, f) /\ InOrder(f) /\ f.last <= Len(log)
  BY DEF StreamInv, FollowerInv
<1>3. follower' = [follower EXCEPT ![c] = f]
  BY <1>2 DEF StreamInv, FollowerInv
<1>4. /\ stream'[<<c, n>>] = t
      /\ \A m \in 1..MaxAttempts : m # n => stream'[<<c, m>>] = stream[<<c, m>>]
  BY <1>1 DEF StreamInv, SlotInv, Streams
<1>5. IsCurrent(s) <=> f.mode = "stream" /\ n = f.attempt + 1
  BY <1>1, <1>2 DEF IsCurrent, Current
<1>6. f.attempt \in 0..MaxAttempts
  BY DEF FollowerRecord
<1>7. Placed(c, f)'
  <2>1. CASE f.mode \in {"connect", "backoff"}
    <3>1. f.attempt < MaxAttempts /\ n <= f.attempt
      BY <1>1, <1>2, <1>6, <2>1, StreamAssumption DEF Placed
    <3>2. \A m \in 1..MaxAttempts : m > f.attempt => stream'[<<c, m>>].pc = "none"
      BY <1>2, <1>4, <1>6, <2>1, <3>1, StreamAssumption DEF Placed
    <3> QED BY <2>1, <3>1, <3>2 DEF Placed
  <2>2. CASE f.mode = "stream"
    <3>1. f.attempt < MaxAttempts /\ f.attempt + 1 \in 1..MaxAttempts /\ n <= f.attempt + 1
      <4>1. f.attempt < MaxAttempts /\ (n > f.attempt + 1 => stream[<<c, n>>].pc = "none")
        BY <1>2, <2>2 DEF Placed
      <4>2. n <= f.attempt + 1
        BY <1>1, <1>6, <4>1, StreamAssumption
      <4> QED BY <1>6, <4>1, <4>2, StreamAssumption
    <3>2. \A m \in 1..MaxAttempts : m > f.attempt + 1 => stream'[<<c, m>>].pc = "none"
      BY <1>2, <1>4, <1>6, <2>2, <3>1, StreamAssumption DEF Placed
    <3>3. /\ stream'[<<c, f.attempt + 1>>].pc \in Live
          /\ stream'[<<c, f.attempt + 1>>].got = f.last
      <4>1. CASE n = f.attempt + 1
        BY <1>1, <1>2, <1>4, <1>5, <2>2, <4>1 DEF Placed
      <4>2. CASE n # f.attempt + 1
        BY <1>2, <1>4, <2>2, <3>1, <4>2 DEF Placed
      <4> QED BY <4>1, <4>2
    <3> QED BY <2>2, <3>1, <3>2, <3>3 DEF Placed
  <2>3. CASE f.mode \notin {"connect", "backoff", "stream"}
    BY <2>3 DEF Placed
  <2> QED BY <2>1, <2>2, <2>3
<1>8. Moves(<<c, n>>, t, c, f)
  BY <1>1, <1>3 DEF Moves
<1> QED BY <1>1, <1>2, <1>7, <1>8, StepKeeps

\* A step of a follower alone.
LEMMA FollowerStepKeeps ==
  ASSUME StreamInv, NEW c \in Followers, NEW f \in FollowerRecord,
         follower' = [follower EXCEPT ![c] = f],
         UNCHANGED <<recordVars, stream, slotVars>>, faults' \in 0..MaxFaults,
         InOrder(f), f.last <= Len(log), Placed(c, f)
  PROVE  StreamInv'
<1>1. 1 \in 1..MaxAttempts /\ <<c, 1>> \in Streams
  BY StreamAssumption DEF Streams
<1>2. PICK t \in StreamRecord : t = stream[<<c, 1>>]
  BY <1>1 DEF StreamInv, SlotInv
<1>3. Moves(<<c, 1>>, t, c, f)
  BY <1>1, <1>2 DEF Moves, StreamInv, SlotInv
<1>4. Placed(c, f)'
  BY DEF Placed
<1>5. /\ global' = global /\ owner' = owner /\ global \in 0..MaxStreams /\ owner \in 0..MaxPerPrincipal
      /\ t.after <= Len(log) /\ (t.pc \in {"global", "get"} => t.got = t.after)
  BY <1>1, <1>2 DEF StreamInv, SlotInv, slotVars
<1>6. /\ global' = global + GlobalTokens(t.pc) - GlobalTokens(stream[<<c, 1>>].pc)
      /\ owner' = owner + OwnerTokens(t.pc) - OwnerTokens(stream[<<c, 1>>].pc)
      /\ global' <= MaxStreams /\ owner' <= MaxPerPrincipal
  BY <1>2, <1>5, StreamAssumption DEF GlobalTokens, OwnerTokens
<1> QED BY <1>1, <1>3, <1>4, <1>5, <1>6, StepKeeps

-----------------------------------------------------------------------------
(* What becomes of a follower.                                             *)

\* A monitor that is over has no streams and has shown nothing.
LEMMA IdleIsSound ==
  ASSUME StreamInv, NEW c \in Followers, NEW mode \in {"ready", "error", "expired", "left"}
  PROVE  /\ Idle(mode) \in FollowerRecord /\ InOrder(Idle(mode))
         /\ Idle(mode).last <= Len(log)
         /\ Placed(c, Idle(mode)) /\ Placed(c, Idle(mode))'
<1>1. PICK f : f = Idle(mode)
  OBVIOUS
<1>2. f = [mode |-> mode, attempt |-> 0, last |-> 0, failures |-> 0, shown |-> <<>>, half |-> {}]
  BY <1>1 DEF Idle
<1>3. f \in FollowerRecord
  <2>1. <<>> \in Seq(1..MaxEvents) /\ 0 \in 0..(MaxPollFailures - 1) /\ 0 \in 0..MaxEvents /\ 0 \in 0..MaxAttempts
    BY StreamAssumption
  <2> QED BY <1>2, <2>1 DEF FollowerRecord, Mode
<1>4. InOrder(f)
  BY <1>2 DEF InOrder
<1>5. f.last <= Len(log)
  BY <1>2 DEF StreamInv, LogInv
<1>6. Placed(c, f) /\ Placed(c, f)'
  BY <1>2 DEF Placed
<1> QED BY <1>1, <1>3, <1>4, <1>5, <1>6

\* After an attempt the follower waits for the next one or turns to polling,
\* with what it was shown; its later streams have not begun.
LEMMA AfterAttemptIsSound ==
  ASSUME StreamInv, NEW c \in Followers, follower[c].mode \in {"connect", "stream"}
  PROVE  \E f \in FollowerRecord :
           /\ f = AfterAttempt(c)
           /\ f.mode \in {"backoff", "poll"} /\ f.attempt = follower[c].attempt + 1
           /\ f.last = follower[c].last /\ f.shown = follower[c].shown /\ f.half = follower[c].half
           /\ f.failures = follower[c].failures
           /\ f.mode = "backoff" => /\ f.attempt < MaxAttempts
                                    /\ \A n \in 1..MaxAttempts : n > f.attempt => stream[<<c, n>>].pc = "none"
<1>1. PICK old \in FollowerRecord : old = follower[c] /\ Placed(c, old)
  BY DEF StreamInv, FollowerInv
<1>2. old.attempt \in 0..MaxAttempts /\ old.attempt < MaxAttempts
  BY <1>1 DEF Placed, FollowerRecord
<1>3. PICK m \in {"backoff", "poll"} : m = IF old.attempt + 1 < MaxAttempts THEN "backoff" ELSE "poll"
  OBVIOUS
<1>4. PICK f : f = [old EXCEPT !.attempt = old.attempt + 1, !.mode = m]
  OBVIOUS
<1>5. f = [mode |-> m, attempt |-> old.attempt + 1, last |-> old.last, failures |-> old.failures,
           shown |-> old.shown, half |-> old.half]
  BY <1>4 DEF FollowerRecord
<1>6. f \in FollowerRecord
  <2>1. old.attempt + 1 \in 0..MaxAttempts /\ m \in Mode
    BY <1>2, StreamAssumption DEF Mode
  <2> QED BY <1>5, <2>1 DEF FollowerRecord
<1>7. f = AfterAttempt(c)
  BY <1>1, <1>3, <1>4 DEF AfterAttempt
<1>8. f.mode = "backoff" => /\ f.attempt < MaxAttempts
                            /\ \A n \in 1..MaxAttempts : n > f.attempt => stream[<<c, n>>].pc = "none"
  BY <1>1, <1>2, <1>3, <1>5, StreamAssumption DEF Placed
<1> QED BY <1>1, <1>5, <1>6, <1>7, <1>8

\* The present stream of a follower ends, or the monitor does.
LEMMA AttemptOver ==
  ASSUME StreamInv, NEW c \in Followers, follower[c].mode = "stream",
         NEW f \in FollowerRecord, NEW t \in StreamRecord, NEW s, s = Current(c),
         stream' = [stream EXCEPT ![s] = t], follower' = [follower EXCEPT ![c] = f],
         UNCHANGED recordVars, faults' \in 0..MaxFaults,
         global' = global + GlobalTokens(t.pc) - GlobalTokens(stream[s].pc),
         owner' = owner + OwnerTokens(t.pc) - OwnerTokens(stream[s].pc),
         global' <= MaxStreams, owner' <= MaxPerPrincipal,
         t.after <= Len(log), t.pc \in {"global", "get"} => t.got = t.after,
         InOrder(f), f.last <= Len(log), f.mode \notin {"connect", "stream"},
         f.mode = "backoff" => f.attempt = follower[c].attempt + 1 /\ f.attempt < MaxAttempts
  PROVE  StreamInv'
<1>1. PICK old \in FollowerRecord : old = follower[c] /\ Placed(c, old)
  BY DEF StreamInv, FollowerInv
<1>2. PICK n \in 1..MaxAttempts : n = old.attempt + 1
  <2>1. old.attempt \in 0..MaxAttempts /\ old.attempt < MaxAttempts
    BY <1>1 DEF Placed, FollowerRecord
  <2>2. old.attempt + 1 \in 1..MaxAttempts
    BY <2>1, StreamAssumption
  <2> QED BY <2>2
<1>3. s = <<c, n>> /\ s \in Streams
  BY <1>1, <1>2 DEF Current, Streams
<1>4. \A m \in 1..MaxAttempts : m > n => stream'[<<c, m>>].pc = "none"
  <2>1. \A m \in 1..MaxAttempts : m > n => stream[<<c, m>>].pc = "none"
    BY <1>1, <1>2 DEF Placed
  <2>2. \A m \in 1..MaxAttempts : m # n => stream'[<<c, m>>] = stream[<<c, m>>]
    BY <1>3 DEF StreamInv, SlotInv, Streams
  <2> QED BY <1>2, <2>1, <2>2, StreamAssumption
<1>5. Placed(c, f)'
  <2>1. f.mode = "backoff" => f.attempt = n /\ f.attempt < MaxAttempts
    BY <1>1, <1>2
  <2> QED BY <1>4, <2>1 DEF Placed
<1>6. Moves(<<c, n>>, t, c, f)
  BY <1>3 DEF Moves
<1> QED BY <1>3, <1>5, <1>6, StepKeeps

-----------------------------------------------------------------------------
(* The log.                                                                *)

\* A log that grows leaves cursors and followers behind its end.
LEMMA LogGrows ==
  ASSUME StreamInv, LogInv', Len(log) <= Len(log'),
         UNCHANGED <<stream, slotVars, follower>>, faults' \in 0..MaxFaults
  PROVE  StreamInv'
<1>1. /\ stream' = stream /\ follower' = follower /\ global' = global /\ owner' = owner
      /\ Len(log) \in Nat /\ Len(log') \in Nat
  BY DEF StreamInv, LogInv, slotVars
<1>2. SlotInv'
  <2>1. \A s \in Streams : stream[s].after \in Nat /\ stream[s].after <= Len(log)
    BY StreamAssumption DEF StreamInv, SlotInv, StreamRecord
  <2>2. \A s \in Streams : stream[s].after <= Len(log')
    BY <1>1, <2>1
  <2>3. SlotsExact'
    BY <1>1 DEF StreamInv, SlotInv, SlotsExact
  <2> QED BY <1>1, <2>2, <2>3 DEF StreamInv, SlotInv
<1>3. FollowerInv'
  <2>1. \A c \in Followers : follower[c].last \in Nat /\ follower[c].last <= Len(log)
    BY StreamAssumption DEF StreamInv, FollowerInv, FollowerRecord
  <2>2. \A c \in Followers : follower[c].last <= Len(log')
    BY <1>1, <2>1
  <2>3. \A c \in Followers, f \in FollowerRecord : Placed(c, f) => Placed(c, f)'
    BY <1>1 DEF Placed
  <2>4. (\A c \in Followers : Placed(c, follower[c]))'
    BY <1>1, <2>3 DEF StreamInv, FollowerInv
  <2> QED BY <1>1, <2>2, <2>4 DEF StreamInv, FollowerInv
<1> QED BY <1>2, <1>3 DEF StreamInv

\* A disturbance counts within its bound.
LEMMA FaultCounts ==
  ASSUME StreamInv, Fault \/ UNCHANGED faults
  PROVE  faults' \in 0..MaxFaults
BY StreamAssumption DEF StreamInv, Fault

\* An appended event is one of the two kinds EventsAfter meets.
LEMMA AppendKeeps ==
  ASSUME StreamInv, NEW e \in BOOLEAN, log' = Append(log, Stored(e)), gone' = gone,
         ~concluded, concluded' \in BOOLEAN, concluded' \/ Len(log) < MaxEvents - 1,
         UNCHANGED <<stream, slotVars, follower, faults>>
  PROVE  StreamInv'
<1>1. Stored(e) \in {"event", "undecodable"}
  BY DEF Stored
<1>2. log \in Seq({"event", "undecodable"}) /\ Len(log) < MaxEvents
  BY DEF StreamInv, LogInv
<1>3. log' \in Seq({"event", "undecodable"}) /\ Len(log') = Len(log) + 1 /\ Len(log) \in Nat
  BY <1>1, <1>2, AppendProperties
<1>4. LogInv'
  BY <1>2, <1>3, StreamAssumption DEF StreamInv, LogInv
<1> QED BY <1>3, <1>4, LogGrows DEF StreamInv

\* The worker reports progress (engine.go appendEvent).
LEMMA AppendEventKeeps == StreamInv /\ AppendEvent => StreamInv'
BY AppendKeeps DEF AppendEvent, StreamInv, LogInv

\* finalize closes the search with its terminal event.
LEMMA FinalizeKeeps == StreamInv /\ Finalize => StreamInv'
BY AppendKeeps DEF Finalize

\* The record is deleted or expires; streams and followers find out later.
LEMMA VanishKeeps == StreamInv /\ Vanish => StreamInv'
<1> SUFFICES ASSUME StreamInv, Vanish PROVE StreamInv'
  OBVIOUS
<1>1. faults' \in 0..MaxFaults
  BY FaultCounts DEF Vanish
<1>2. LogInv' /\ Len(log) <= Len(log')
  BY DEF Vanish, StreamInv, LogInv
<1> QED BY <1>1, <1>2, LogGrows DEF Vanish

-----------------------------------------------------------------------------
(* Steps of a stream.                                                      *)

\* Goto moves one stream and keeps its cursor and what the browser has read.
LEMMA GotoMoves ==
  ASSUME StreamInv, NEW s \in Streams, NEW p \in PC, Goto(s, p)
  PROVE  \E t \in StreamRecord :
           /\ stream' = [stream EXCEPT ![s] = t] /\ t.pc = p
           /\ t.after = stream[s].after /\ t.got = stream[s].got /\ t.after <= Len(log)
<1>1. PICK old \in StreamRecord : old = stream[s] /\ old.after <= Len(log)
  BY DEF StreamInv, SlotInv
<1>2. PICK t : t = [old EXCEPT !.pc = p]
  OBVIOUS
<1>3. t = [pc |-> p, after |-> old.after, got |-> old.got, empty |-> old.empty]
  BY <1>2 DEF StreamRecord
<1>4. t \in StreamRecord
  BY <1>3 DEF StreamRecord
<1>5. stream' = [stream EXCEPT ![s] = t]
  BY <1>1, <1>2 DEF Goto
<1> QED BY <1>1, <1>3, <1>4, <1>5

\* Leaves moves one stream and drops its cursor.
LEMMA LeavesMoves ==
  ASSUME StreamInv, NEW s, NEW p \in PC, Leaves(s, p)
  PROVE  \E t \in StreamRecord :
           /\ stream' = [stream EXCEPT ![s] = t] /\ t.pc = p
           /\ t.after = 0 /\ t.got = 0 /\ t.after <= Len(log)
<1>1. PICK t : t = [pc |-> p, after |-> 0, got |-> 0, empty |-> FALSE]
  OBVIOUS
<1>2. t \in StreamRecord
  BY <1>1, StreamAssumption DEF StreamRecord
<1>3. stream' = [stream EXCEPT ![s] = t]
  BY <1>1 DEF Leaves
<1>4. 0 <= Len(log)
  BY DEF StreamInv, LogInv
<1> QED BY <1>1, <1>2, <1>3, <1>4

\* The slots in use, and one stream's part in them.
LEMMA SlotTypes ==
  ASSUME StreamInv
  PROVE  /\ global \in Nat /\ global <= MaxStreams /\ MaxStreams \in Nat
         /\ owner \in Nat /\ owner <= MaxPerPrincipal /\ MaxPerPrincipal \in Nat
         /\ \A s \in Streams : stream[s].pc \in {"global", "get"} => stream[s].got = stream[s].after
BY StreamAssumption DEF StreamInv, SlotInv

\* The present stream of a follower is open.
LEMMA CurrentIsLive ==
  ASSUME StreamInv, NEW c \in Followers, follower[c].mode = "stream"
  PROVE  /\ Current(c) \in Streams /\ follower[c].attempt < MaxAttempts
         /\ stream[Current(c)].pc \in Live /\ stream[Current(c)].got = follower[c].last
<1>1. PICK f \in FollowerRecord : f = follower[c] /\ Placed(c, f)
  BY DEF StreamInv, FollowerInv
<1>2. /\ f.attempt < MaxAttempts /\ f.attempt \in 0..MaxAttempts
      /\ stream[<<c, f.attempt + 1>>].pc \in Live
      /\ stream[<<c, f.attempt + 1>>].got = f.last
  BY <1>1 DEF Placed, FollowerRecord
<1>3. f.attempt + 1 \in 1..MaxAttempts
  BY <1>2, StreamAssumption
<1> QED BY <1>1, <1>2, <1>3 DEF Current, Streams

\* acquireSSE counts the principal's stream.
LEMMA AcquireOwnerKeeps ==
  ASSUME StreamInv, NEW s \in Streams, AcquireOwner(s)
  PROVE  StreamInv'
<1>1. PICK t \in StreamRecord :
        /\ stream' = [stream EXCEPT ![s] = t] /\ t.pc = "get"
        /\ t.after = stream[s].after /\ t.got = stream[s].got /\ t.after <= Len(log)
  BY GotoMoves DEF AcquireOwner, PC
<1>2. /\ global' = global + GlobalTokens(t.pc) - GlobalTokens(stream[s].pc)
      /\ owner' = owner + OwnerTokens(t.pc) - OwnerTokens(stream[s].pc)
      /\ global' <= MaxStreams /\ owner' <= MaxPerPrincipal /\ t.got = t.after
  BY <1>1, SlotTypes DEF AcquireOwner, PrincipalHasRoom, GlobalTokens, OwnerTokens, Loop
<1> QED BY <1>1, <1>2, FaultCounts, StreamStepKeeps DEF AcquireOwner, Live

\* The stream is opened at the orchestrator.
LEMMA OpenKeeps ==
  ASSUME StreamInv, NEW s \in Streams, Open(s)
  PROVE  StreamInv'
<1>1. PICK t \in StreamRecord :
        /\ stream' = [stream EXCEPT ![s] = t] /\ t.pc = "events"
        /\ t.after = stream[s].after /\ t.got = stream[s].got /\ t.after <= Len(log)
  BY GotoMoves DEF Open, PC, Loop
<1>2. /\ global' = global + GlobalTokens(t.pc) - GlobalTokens(stream[s].pc)
      /\ owner' = owner + OwnerTokens(t.pc) - OwnerTokens(stream[s].pc)
      /\ global' <= MaxStreams /\ owner' <= MaxPerPrincipal
  BY <1>1, SlotTypes DEF Open, slotVars, GlobalTokens, OwnerTokens, Loop
<1> QED BY <1>1, <1>2, FaultCounts, StreamStepKeeps DEF Open, Live, Loop

\* The handlers of a stream nobody reads return.
LEMMA CloseKeeps ==
  ASSUME StreamInv, NEW s \in Streams, Close(s)
  PROVE  StreamInv'
<1>1. PICK t \in StreamRecord :
        /\ stream' = [stream EXCEPT ![s] = t] /\ t.pc = "closing"
        /\ t.after = 0 /\ t.got = 0 /\ t.after <= Len(log)
  BY LeavesMoves DEF Close, PC
<1>2. /\ global' = global + GlobalTokens(t.pc) - GlobalTokens(stream[s].pc)
      /\ owner' = owner + OwnerTokens(t.pc) - OwnerTokens(stream[s].pc)
      /\ global' <= MaxStreams /\ owner' <= MaxPerPrincipal
  BY <1>1, SlotTypes DEF Close, slotVars, GlobalTokens, OwnerTokens, Loop
<1> QED BY <1>1, <1>2, FaultCounts, StreamStepKeeps DEF Close, Loop

\* A stream past its end is not one its follower still reads.
LEMMA PastIsNotCurrent ==
  ASSUME StreamInv, NEW s \in Streams, stream[s].pc \notin Live
  PROVE  ~IsCurrent(s)
<1>1. s[1] \in Followers
  BY DEF Streams
<1> QED BY <1>1, CurrentIsLive DEF IsCurrent

\* release gives the principal's count back.
LEMMA ReleaseOwnerKeeps ==
  ASSUME StreamInv, NEW s \in Streams, ReleaseOwner(s)
  PROVE  StreamInv'
<1>1. PICK t \in StreamRecord :
        /\ stream' = [stream EXCEPT ![s] = t] /\ t.pc = "release"
        /\ t.after = stream[s].after /\ t.got = stream[s].got /\ t.after <= Len(log)
  BY GotoMoves DEF ReleaseOwner, PC
<1>2. /\ global' = global + GlobalTokens(t.pc) - GlobalTokens(stream[s].pc)
      /\ owner' = owner + OwnerTokens(t.pc) - OwnerTokens(stream[s].pc)
      /\ global' <= MaxStreams /\ owner' <= MaxPerPrincipal
  BY <1>1, SlotTypes DEF ReleaseOwner, GlobalTokens, OwnerTokens, Loop
<1>3. ~IsCurrent(s)
  BY PastIsNotCurrent DEF ReleaseOwner, Live, Loop
<1> QED BY <1>1, <1>2, <1>3, FaultCounts, StreamStepKeeps DEF ReleaseOwner

\* release gives the global token back.
LEMMA ReleaseGlobalKeeps ==
  ASSUME StreamInv, NEW s \in Streams, ReleaseGlobal(s)
  PROVE  StreamInv'
<1>1. PICK t \in StreamRecord :
        /\ stream' = [stream EXCEPT ![s] = t] /\ t.pc = "done"
        /\ t.after = 0 /\ t.got = 0 /\ t.after <= Len(log)
  BY LeavesMoves DEF ReleaseGlobal, PC
<1>2. /\ global' = global + GlobalTokens(t.pc) - GlobalTokens(stream[s].pc)
      /\ owner' = owner + OwnerTokens(t.pc) - OwnerTokens(stream[s].pc)
      /\ global' <= MaxStreams /\ owner' <= MaxPerPrincipal
  BY <1>1, SlotTypes DEF ReleaseGlobal, GlobalTokens, OwnerTokens, Loop
<1>3. ~IsCurrent(s)
  BY PastIsNotCurrent DEF ReleaseGlobal, Live, Loop
<1> QED BY <1>1, <1>2, <1>3, FaultCounts, StreamStepKeeps DEF ReleaseGlobal

\* The events one read returns lie between the cursor and the end of the log.
LEMMA ReadWithinLog ==
  ASSUME StreamInv, NEW a \in Nat, a <= Len(log)
  PROVE  Cardinality(EventsAfter(a)) \in Nat /\ a + Cardinality(EventsAfter(a)) <= Len(log)
<1>1. Len(log) \in Nat /\ DOMAIN log = 1..Len(log)
  BY DEF StreamInv, LogInv
<1>2. EventsAfter(a) \in SUBSET ((a + 1)..Len(log))
  BY <1>1 DEF EventsAfter
<1>3. /\ IsFiniteSet((a + 1)..Len(log))
      /\ Cardinality((a + 1)..Len(log)) = Len(log) - a
  <2>1. a + 1 \in Int /\ Len(log) \in Int
    BY <1>1
  <2>2. /\ IsFiniteSet((a + 1)..Len(log))
        /\ Cardinality((a + 1)..Len(log)) = IF a + 1 > Len(log) THEN 0 ELSE Len(log) - (a + 1) + 1
    BY <2>1, FS_Interval
  <2> QED BY <1>1, <2>2
<1>4. /\ Cardinality(EventsAfter(a)) \in Nat
      /\ Cardinality(EventsAfter(a)) <= Cardinality((a + 1)..Len(log))
  BY <1>2, <1>3, FS_Subset, FS_CardinalityType
<1> QED BY <1>1, <1>3, <1>4

\* One turn of the loop: the cursor moves on by what was read, or the loop ends.
LEMMA ReadEventsKeeps ==
  ASSUME StreamInv, NEW s \in Streams, ReadEvents(s)
  PROVE  StreamInv'
<1>1. PICK old \in StreamRecord : old = stream[s] /\ old.after <= Len(log)
  BY DEF StreamInv, SlotInv
<1>2. /\ old.after \in Nat /\ old.after \in 0..MaxEvents
      /\ Len(log) \in Nat /\ Len(log) <= MaxEvents /\ MaxEvents \in Nat
  BY StreamAssumption DEF StreamRecord, StreamInv, LogInv
<1>3. PICK k \in Nat : k = Cardinality(EventsAfter(old.after)) /\ old.after + k <= Len(log)
  BY <1>1, <1>2, ReadWithinLog
<1>4. PICK t : t = stream'[s]
  OBVIOUS
<1>5. stream' = [stream EXCEPT ![s] = t]
  BY <1>4 DEF ReadEvents, StreamInv, SlotInv
<1>6. \/ t = [old EXCEPT !.pc = "eof"]
      \/ t = [old EXCEPT !.pc = "status", !.after = old.after + k, !.empty = (EventsAfter(old.after) = {})]
  BY <1>1, <1>3, <1>4 DEF ReadEvents, StreamInv, SlotInv
<1>7. /\ t \in StreamRecord /\ t.after <= Len(log) /\ t.got = old.got
      /\ t.pc \in {"eof", "status"}
  <2>1. old.after + k \in 0..MaxEvents
    BY <1>2, <1>3
  <2>2. CASE t = [old EXCEPT !.pc = "eof"]
    <3>1. t = [pc |-> "eof", after |-> old.after, got |-> old.got, empty |-> old.empty]
      BY <2>2 DEF StreamRecord
    <3> QED BY <1>1, <3>1 DEF StreamRecord, PC, Loop
  <2>3. CASE t = [old EXCEPT !.pc = "status", !.after = old.after + k, !.empty = (EventsAfter(old.after) = {})]
    <3>1. t = [pc |-> "status", after |-> old.after + k, got |-> old.got, empty |-> (EventsAfter(old.after) = {})]
      BY <2>3 DEF StreamRecord
    <3>2. t.pc = "status" /\ t.after = old.after + k /\ t.got = old.got
      BY <3>1
    <3>3. t \in StreamRecord
      BY <2>1, <3>1 DEF StreamRecord, PC, Loop
    <3> QED BY <1>3, <3>2, <3>3
  <2> QED BY <1>6, <2>2, <2>3
<1>8. /\ global' = global + GlobalTokens(t.pc) - GlobalTokens(stream[s].pc)
      /\ owner' = owner + OwnerTokens(t.pc) - OwnerTokens(stream[s].pc)
      /\ global' <= MaxStreams /\ owner' <= MaxPerPrincipal
  BY <1>7, SlotTypes DEF ReadEvents, slotVars, GlobalTokens, OwnerTokens, Loop
<1> QED BY <1>1, <1>5, <1>7, <1>8, FaultCounts, StreamStepKeeps DEF ReadEvents, Live, Loop

\* The other half of a turn: the status after the events.
LEMMA CheckStatusKeeps ==
  ASSUME StreamInv, NEW s \in Streams, CheckStatus(s)
  PROVE  StreamInv'
<1>1. PICK old \in StreamRecord : old = stream[s] /\ old.after <= Len(log)
  BY DEF StreamInv, SlotInv
<1>2. PICK p \in {"eof", "events"} : p = IF gone \/ (concluded /\ old.empty) THEN "eof" ELSE "events"
  OBVIOUS
<1>3. PICK t : t = [old EXCEPT !.empty = FALSE, !.pc = p]
  OBVIOUS
<1>4. t = [pc |-> p, after |-> old.after, got |-> old.got, empty |-> FALSE]
  BY <1>3 DEF StreamRecord
<1>5. t \in StreamRecord
  BY <1>2, <1>4 DEF StreamRecord, PC, Loop
<1>6. stream' = [stream EXCEPT ![s] = t]
  BY <1>1, <1>2, <1>3 DEF CheckStatus, StreamInv, SlotInv
<1>7. /\ global' = global + GlobalTokens(t.pc) - GlobalTokens(stream[s].pc)
      /\ owner' = owner + OwnerTokens(t.pc) - OwnerTokens(stream[s].pc)
      /\ global' <= MaxStreams /\ owner' <= MaxPerPrincipal
  BY <1>2, <1>4, SlotTypes DEF CheckStatus, slotVars, GlobalTokens, OwnerTokens, Loop
<1> QED BY <1>1, <1>2, <1>4, <1>5, <1>6, <1>7, FaultCounts, StreamStepKeeps DEF CheckStatus, Live, Loop

\* Tokens of a stream that a refusal ends: 429 gives its token back, 404 and
\* 401 hold both until the handler returns.
LEMMA RejectOwnerKeeps ==
  ASSUME StreamInv, NEW s \in Streams, RejectOwner(s)
  PROVE  StreamInv'
<1>1. PICK t \in StreamRecord :
        /\ stream' = [stream EXCEPT ![s] = t] /\ t.pc = "done"
        /\ t.after = 0 /\ t.got = 0 /\ t.after <= Len(log)
  BY LeavesMoves DEF RejectOwner, PC
<1>2. /\ global' = global + GlobalTokens(t.pc) - GlobalTokens(stream[s].pc)
      /\ owner' = owner + OwnerTokens(t.pc) - OwnerTokens(stream[s].pc)
      /\ global' <= MaxStreams /\ owner' <= MaxPerPrincipal
  BY <1>1, SlotTypes DEF RejectOwner, GlobalTokens, OwnerTokens, Loop
<1>3. CASE ~IsCurrent(s)
  BY <1>1, <1>2, <1>3, FaultCounts, StreamStepKeeps DEF RejectOwner
<1>4. CASE IsCurrent(s)
  <2>1. PICK c \in Followers : c = s[1]
    BY DEF Streams
  <2>2. follower[c].mode = "stream" /\ s = Current(c)
    BY <1>4, <2>1 DEF IsCurrent
  <2>3. PICK f \in FollowerRecord :
          /\ f = AfterAttempt(c)
          /\ f.mode \in {"backoff", "poll"} /\ f.attempt = follower[c].attempt + 1
          /\ f.last = follower[c].last /\ f.shown = follower[c].shown /\ f.half = follower[c].half
          /\ f.mode = "backoff" => f.attempt < MaxAttempts
    BY <2>2, AfterAttemptIsSound
  <2>4. InOrder(f) /\ f.last <= Len(log)
    BY <2>3 DEF StreamInv, FollowerInv, InOrder
  <2>5. follower' = [follower EXCEPT ![c] = f]
    BY <1>4, <2>1, <2>3 DEF RejectOwner
  <2> QED BY <1>1, <1>2, <2>2, <2>3, <2>4, <2>5, FaultCounts, AttemptOver DEF RejectOwner
<1> QED BY <1>3, <1>4

\* 404 or 401: the follower turns to polling, and the stream is closed.
LEMMA OpenDeniedKeeps ==
  ASSUME StreamInv, NEW s \in Streams, OpenDenied(s)
  PROVE  StreamInv'
<1>1. PICK t \in StreamRecord :
        /\ stream' = [stream EXCEPT ![s] = t] /\ t.pc = "closing"
        /\ t.after = 0 /\ t.got = 0 /\ t.after <= Len(log)
  BY LeavesMoves DEF OpenDenied, PC
<1>2. /\ global' = global + GlobalTokens(t.pc) - GlobalTokens(stream[s].pc)
      /\ owner' = owner + OwnerTokens(t.pc) - OwnerTokens(stream[s].pc)
      /\ global' <= MaxStreams /\ owner' <= MaxPerPrincipal
  BY <1>1, SlotTypes DEF OpenDenied, slotVars, GlobalTokens, OwnerTokens, Loop
<1>3. faults' \in 0..MaxFaults
  BY FaultCounts DEF OpenDenied
<1>4. CASE ~IsCurrent(s)
  BY <1>1, <1>2, <1>3, <1>4, StreamStepKeeps DEF OpenDenied
<1>5. CASE IsCurrent(s)
  <2>1. PICK c \in Followers : c = s[1]
    BY DEF Streams
  <2>2. follower[c].mode = "stream" /\ s = Current(c)
    BY <1>5, <2>1 DEF IsCurrent
  <2>3. PICK old \in FollowerRecord : old = follower[c] /\ InOrder(old) /\ old.last <= Len(log)
    BY DEF StreamInv, FollowerInv
  <2>4. PICK f : f = [old EXCEPT !.mode = "poll"]
    OBVIOUS
  <2>5. f = [mode |-> "poll", attempt |-> old.attempt, last |-> old.last, failures |-> old.failures,
             shown |-> old.shown, half |-> old.half]
    BY <2>4 DEF FollowerRecord
  <2>6. f \in FollowerRecord /\ InOrder(f) /\ f.last <= Len(log) /\ f.mode = "poll"
    BY <2>3, <2>5 DEF FollowerRecord, InOrder, Mode
  <2>7. follower' = [follower EXCEPT ![c] = f]
    BY <1>5, <2>1, <2>3, <2>4 DEF OpenDenied
  <2> QED BY <1>1, <1>2, <1>3, <2>2, <2>6, <2>7, AttemptOver DEF OpenDenied
<1> QED BY <1>4, <1>5

-----------------------------------------------------------------------------
(* Steps of a follower.                                                    *)

\* acquireSSE takes a global token, and the attempt begins where Last-Event-ID
\* says.
LEMMA ConnectKeeps ==
  ASSUME StreamInv, NEW c \in Followers, Connect(c)
  PROVE  StreamInv'
<1>1. PICK old \in FollowerRecord :
        old = follower[c] /\ Placed(c, old) /\ InOrder(old) /\ old.last <= Len(log)
  BY DEF StreamInv, FollowerInv
<1>2. old.mode = "connect" /\ old.attempt < MaxAttempts /\ old.attempt \in 0..MaxAttempts
  BY <1>1 DEF Connect, Placed, FollowerRecord
<1>3. old.attempt + 1 \in 1..MaxAttempts
  BY <1>2, StreamAssumption
<1>4. PICK n \in 1..MaxAttempts : n = old.attempt + 1
  BY <1>3
<1>5. /\ Current(c) = <<c, n>> /\ <<c, n>> \in Streams
      /\ \A m \in 1..MaxAttempts : m >= n => stream[<<c, m>>].pc = "none"
  BY <1>1, <1>2, <1>4, StreamAssumption DEF Current, Streams, Placed
<1>6. PICK t \in StreamRecord : t = [pc |-> "global", after |-> old.last, got |-> old.last, empty |-> FALSE]
  BY DEF FollowerRecord, StreamRecord, PC
<1>7. PICK f : f = [old EXCEPT !.mode = "stream"]
  OBVIOUS
<1>8. f = [mode |-> "stream", attempt |-> old.attempt, last |-> old.last, failures |-> old.failures,
           shown |-> old.shown, half |-> old.half]
  BY <1>7 DEF FollowerRecord
<1>9. f \in FollowerRecord /\ InOrder(f) /\ f.last <= Len(log)
  BY <1>1, <1>8 DEF FollowerRecord, InOrder, Mode
<1>10. Moves(<<c, n>>, t, c, f)
  <2>1. follower' = [follower EXCEPT ![c] = f]
    BY <1>1, <1>7 DEF Connect
  <2>2. stream' = [stream EXCEPT ![<<c, n>>] = t]
    BY <1>1, <1>5, <1>6 DEF Connect, Resume
  <2> QED BY <1>9, <2>1, <2>2 DEF Moves
<1>11. Placed(c, f)'
  <2>1. /\ stream'[<<c, n>>] = t
        /\ \A m \in 1..MaxAttempts : m # n => stream'[<<c, m>>] = stream[<<c, m>>]
    BY <1>5, <1>10 DEF StreamInv, SlotInv, Streams, Moves
  <2>2. \A m \in 1..MaxAttempts : m > n => stream'[<<c, m>>].pc = "none"
    BY <1>5, <2>1, StreamAssumption
  <2>3. f.mode = "stream" /\ f.attempt + 1 = n /\ f.attempt < MaxAttempts /\ f.last = t.got /\ t.pc = "global"
    BY <1>2, <1>4, <1>6, <1>8
  <2> QED BY <2>1, <2>2, <2>3 DEF Placed, Live
<1>12. /\ global' = global + GlobalTokens(t.pc) - GlobalTokens(stream[<<c, n>>].pc)
       /\ owner' = owner + OwnerTokens(t.pc) - OwnerTokens(stream[<<c, n>>].pc)
       /\ global' <= MaxStreams /\ owner' <= MaxPerPrincipal
  <2>1. stream[<<c, n>>].pc = "none" /\ t.pc = "global"
    BY <1>4, <1>5, <1>6
  <2> QED BY <2>1, SlotTypes DEF Connect, GlobalTokens, OwnerTokens, Loop
<1>13. t.after <= Len(log) /\ t.got = t.after
  BY <1>1, <1>6
<1> QED BY <1>9, <1>10, <1>11, <1>12, <1>13, FaultCounts, StepKeeps DEF Connect

\* A follower whose attempt ends while no stream moves: 503, or a connection
\* that breaks.
LEMMA AttemptFails ==
  ASSUME StreamInv, NEW c \in Followers, follower[c].mode \in {"connect", "stream"},
         follower' = [follower EXCEPT ![c] = AfterAttempt(c)],
         UNCHANGED <<recordVars, stream, slotVars>>, faults' \in 0..MaxFaults
  PROVE  StreamInv'
<1>1. PICK f \in FollowerRecord :
           /\ f = AfterAttempt(c)
           /\ f.mode \in {"backoff", "poll"} /\ f.attempt = follower[c].attempt + 1
           /\ f.last = follower[c].last /\ f.shown = follower[c].shown /\ f.half = follower[c].half
           /\ f.mode = "backoff" => /\ f.attempt < MaxAttempts
                                    /\ \A n \in 1..MaxAttempts : n > f.attempt => stream[<<c, n>>].pc = "none"
  BY AfterAttemptIsSound
<1>2. InOrder(f) /\ f.last <= Len(log)
  BY <1>1 DEF StreamInv, FollowerInv, InOrder
<1>3. Placed(c, f)
  BY <1>1 DEF Placed
<1> QED BY <1>1, <1>2, <1>3, FollowerStepKeeps

\* 503 ends an attempt that never had a stream.
LEMMA ConnectRefusedKeeps ==
  ASSUME StreamInv, NEW c \in Followers, ConnectRefused(c)
  PROVE  StreamInv'
BY FaultCounts, AttemptFails DEF ConnectRefused

\* A broken connection ends an attempt whose handlers run on.
LEMMA DisconnectKeeps ==
  ASSUME StreamInv, NEW c \in Followers, Disconnect(c)
  PROVE  StreamInv'
BY FaultCounts, AttemptFails DEF Disconnect

\* The wait before the next attempt is over.
LEMMA BackoffOverKeeps ==
  ASSUME StreamInv, NEW c \in Followers, BackoffOver(c)
  PROVE  StreamInv'
<1>1. PICK old \in FollowerRecord :
        old = follower[c] /\ Placed(c, old) /\ InOrder(old) /\ old.last <= Len(log)
  BY DEF StreamInv, FollowerInv
<1>2. PICK f : f = [old EXCEPT !.mode = "connect"]
  OBVIOUS
<1>3. f = [mode |-> "connect", attempt |-> old.attempt, last |-> old.last, failures |-> old.failures,
           shown |-> old.shown, half |-> old.half]
  BY <1>2 DEF FollowerRecord
<1>4. f \in FollowerRecord /\ InOrder(f) /\ f.last <= Len(log)
  BY <1>1, <1>3 DEF FollowerRecord, InOrder, Mode
<1>5. Placed(c, f)
  BY <1>1, <1>3 DEF BackoffOver, Placed
<1>6. follower' = [follower EXCEPT ![c] = f]
  BY <1>1, <1>2 DEF BackoffOver
<1> QED BY <1>4, <1>5, <1>6, FaultCounts, FollowerStepKeeps DEF BackoffOver

\* The monitor is over while no stream moves.
LEMMA MonitorEnds ==
  ASSUME StreamInv, NEW c \in Followers, NEW mode \in {"ready", "error", "expired", "left"},
         follower' = [follower EXCEPT ![c] = Idle(mode)],
         UNCHANGED <<recordVars, stream, slotVars>>, faults' \in 0..MaxFaults
  PROVE  StreamInv'
<1>1. PICK f : f = Idle(mode)
  OBVIOUS
<1>2. f \in FollowerRecord /\ InOrder(f) /\ f.last <= Len(log) /\ Placed(c, f)
  BY <1>1, IdleIsSound
<1> QED BY <1>1, <1>2, FollowerStepKeeps

\* cancel, reset and unmount abort the monitor at any point.
LEMMA LeaveKeeps ==
  ASSUME StreamInv, NEW c \in Followers, Leave(c)
  PROVE  StreamInv'
BY FaultCounts, MonitorEnds DEF Leave

\* The deadline of monitorWithPolling.
LEMMA PollLateKeeps ==
  ASSUME StreamInv, NEW c \in Followers, PollLate(c)
  PROVE  StreamInv'
BY FaultCounts, MonitorEnds DEF PollLate

\* A poll that counts failures in a row and leaves the rest of the monitor alone.
LEMMA PollCounts ==
  ASSUME StreamInv, NEW c \in Followers, follower[c].mode = "poll", NEW n \in 0..(MaxPollFailures - 1),
         follower' = [follower EXCEPT ![c] = [follower[c] EXCEPT !.failures = n]],
         UNCHANGED <<recordVars, stream, slotVars>>, faults' \in 0..MaxFaults
  PROVE  StreamInv'
<1>1. PICK old \in FollowerRecord : old = follower[c] /\ InOrder(old) /\ old.last <= Len(log)
  BY DEF StreamInv, FollowerInv
<1>2. PICK f : f = [old EXCEPT !.failures = n]
  OBVIOUS
<1>3. f = [mode |-> old.mode, attempt |-> old.attempt, last |-> old.last, failures |-> n,
           shown |-> old.shown, half |-> old.half]
  BY <1>2 DEF FollowerRecord
<1>4. f \in FollowerRecord /\ InOrder(f) /\ f.last <= Len(log) /\ f.mode = "poll"
  BY <1>1, <1>3 DEF FollowerRecord, InOrder
<1>5. Placed(c, f)
  BY <1>4 DEF Placed
<1>6. follower' = [follower EXCEPT ![c] = f]
  BY <1>1, <1>2
<1> QED BY <1>4, <1>5, <1>6, FollowerStepKeeps

\* A poll answered with the outcome ends the monitor, any other resets the count.
LEMMA PollAnsweredKeeps ==
  ASSUME StreamInv, NEW c \in Followers, PollAnswered(c)
  PROVE  StreamInv'
<1>1. CASE concluded
  BY <1>1, FaultCounts, MonitorEnds DEF PollAnswered
<1>2. CASE ~concluded
  <2>1. 0 \in 0..(MaxPollFailures - 1)
    BY StreamAssumption
  <2> QED BY <1>2, <2>1, FaultCounts, PollCounts DEF PollAnswered
<1> QED BY <1>1, <1>2

\* The failure that reaches the limit ends the monitor.
LEMMA PollFailedKeeps ==
  ASSUME StreamInv, NEW c \in Followers, PollFailed(c)
  PROVE  StreamInv'
<1>1. faults' \in 0..MaxFaults
  BY FaultCounts DEF PollFailed
<1>2. PICK n \in Nat : n = follower[c].failures + 1
  BY StreamAssumption DEF StreamInv, FollowerInv, FollowerRecord
<1>3. CASE n < MaxPollFailures
  <2>1. n \in 0..(MaxPollFailures - 1)
    BY <1>2, <1>3, StreamAssumption
  <2> QED BY <1>1, <1>2, <1>3, <2>1, PollCounts DEF PollFailed
<1>4. CASE ~(n < MaxPollFailures)
  BY <1>1, <1>2, <1>4, MonitorEnds DEF PollFailed
<1> QED BY <1>3, <1>4

-----------------------------------------------------------------------------
(* Steps of a follower and its present stream.                             *)

\* The stream ended in order: its handlers return and the attempt is over.
LEMMA EndedKeeps ==
  ASSUME StreamInv, NEW c \in Followers, Ended(c)
  PROVE  StreamInv'
<1>1. PICK s \in Streams : s = Current(c) /\ stream[s].pc = "eof"
  BY CurrentIsLive DEF Ended
<1>2. PICK t \in StreamRecord :
        /\ stream' = [stream EXCEPT ![s] = t] /\ t.pc = "closing"
        /\ t.after = 0 /\ t.got = 0 /\ t.after <= Len(log)
  BY <1>1, LeavesMoves DEF Ended, PC
<1>3. /\ global' = global + GlobalTokens(t.pc) - GlobalTokens(stream[s].pc)
      /\ owner' = owner + OwnerTokens(t.pc) - OwnerTokens(stream[s].pc)
      /\ global' <= MaxStreams /\ owner' <= MaxPerPrincipal
  BY <1>1, <1>2, SlotTypes DEF Ended, slotVars, GlobalTokens, OwnerTokens, Loop
<1>4. PICK f \in FollowerRecord :
        /\ f = AfterAttempt(c)
        /\ f.mode \in {"backoff", "poll"} /\ f.attempt = follower[c].attempt + 1
        /\ f.last = follower[c].last /\ f.shown = follower[c].shown /\ f.half = follower[c].half
        /\ f.mode = "backoff" => f.attempt < MaxAttempts
  BY AfterAttemptIsSound DEF Ended
<1>5. InOrder(f) /\ f.last <= Len(log)
  BY <1>4 DEF StreamInv, FollowerInv, InOrder
<1> QED BY <1>1, <1>2, <1>3, <1>4, <1>5, FaultCounts, AttemptOver DEF Ended

\* The event that arrives on the present stream is the next one, and it is in
\* the log; the stream is past its opening.
LEMMA NextEvent ==
  ASSUME StreamInv, NEW c \in Followers, follower[c].mode = "stream", Pending(c)
  PROVE  \E s \in Streams, i \in 1..MaxEvents :
           /\ s = Current(c) /\ stream[s].pc \in Loop /\ i = stream[s].got + 1
           /\ i = follower[c].last + 1 /\ i <= stream[s].after /\ i <= Len(log)
<1>1. PICK s \in Streams : s = Current(c) /\ stream[s].pc \in Live /\ stream[s].got = follower[c].last
  BY CurrentIsLive
<1>2. PICK old \in StreamRecord : old = stream[s] /\ old.after <= Len(log)
  BY DEF StreamInv, SlotInv
<1>3. /\ old.got \in Nat /\ old.after \in Nat /\ MaxEvents \in Nat
      /\ old.after <= MaxEvents /\ Len(log) \in Nat
  BY StreamAssumption DEF StreamRecord, StreamInv, LogInv
<1>4. old.got < old.after
  BY <1>1, <1>2 DEF Pending
<1>5. stream[s].pc \in Loop
  BY <1>1, <1>2, <1>3, <1>4, SlotTypes DEF Live
<1>6. PICK i \in 1..MaxEvents : i = old.got + 1
  BY <1>3, <1>4
<1>7. /\ s = Current(c) /\ stream[s].pc \in Loop /\ i = stream[s].got + 1
      /\ i = follower[c].last + 1 /\ i <= stream[s].after /\ i <= Len(log)
  BY <1>1, <1>2, <1>3, <1>4, <1>5, <1>6
<1> QED BY <1>1, <1>7

\* The half event that ends a truncated response is the next one, and takes the
\* place of a whole one.
LEMMA TruncateKeeps ==
  ASSUME StreamInv, NEW c \in Followers, Truncate(c)
  PROVE  StreamInv'
<1>1. PICK s \in Streams, i \in 1..MaxEvents :
        /\ s = Current(c) /\ stream[s].pc \in Loop /\ i = stream[s].got + 1
        /\ i = follower[c].last + 1 /\ i <= Len(log)
  BY NextEvent DEF Truncate
<1>2. PICK t \in StreamRecord :
        /\ stream' = [stream EXCEPT ![s] = t] /\ t.pc = "closing"
        /\ t.after = 0 /\ t.got = 0 /\ t.after <= Len(log)
  BY <1>1, LeavesMoves DEF Truncate, PC
<1>3. /\ global' = global + GlobalTokens(t.pc) - GlobalTokens(stream[s].pc)
      /\ owner' = owner + OwnerTokens(t.pc) - OwnerTokens(stream[s].pc)
      /\ global' <= MaxStreams /\ owner' <= MaxPerPrincipal
  BY <1>1, <1>2, SlotTypes DEF Truncate, slotVars, GlobalTokens, OwnerTokens, Loop
<1>4. PICK g \in FollowerRecord :
        /\ g = AfterAttempt(c)
        /\ g.mode \in {"backoff", "poll"} /\ g.attempt = follower[c].attempt + 1
        /\ g.last = follower[c].last /\ g.shown = follower[c].shown /\ g.half = follower[c].half
        /\ g.mode = "backoff" => g.attempt < MaxAttempts
  BY AfterAttemptIsSound DEF Truncate
<1>5. PICK f : f = [g EXCEPT !.last = i, !.half = follower[c].half \cup {i}]
  OBVIOUS
<1>6. f = [mode |-> g.mode, attempt |-> g.attempt, last |-> i, failures |-> g.failures,
           shown |-> g.shown, half |-> g.half \cup {i}]
  BY <1>4, <1>5 DEF FollowerRecord
<1>7. f \in FollowerRecord
  <2>1. i \in 0..MaxEvents /\ g.half \cup {i} \in SUBSET (1..MaxEvents)
    BY StreamAssumption DEF FollowerRecord
  <2> QED BY <1>6, <2>1 DEF FollowerRecord
<1>8. InOrder(f)
  <2>1. InOrder(g)
    BY <1>4 DEF StreamInv, FollowerInv, InOrder
  <2>2. g.last \in Nat /\ i = g.last + 1 /\ f.shown = g.shown /\ f.half = g.half \cup {i} /\ f.last = i
    BY <1>1, <1>4, <1>6, StreamAssumption DEF FollowerRecord
  <2>3. 1..i = 1..g.last \cup {i}
    BY <2>2
  <2> QED BY <2>1, <2>2, <2>3 DEF InOrder
<1>9. /\ f.last <= Len(log) /\ f.mode \notin {"connect", "stream"}
      /\ f.mode = "backoff" => f.attempt = follower[c].attempt + 1 /\ f.attempt < MaxAttempts
  BY <1>1, <1>4, <1>6
<1>10. follower' = [follower EXCEPT ![c] = f]
  BY <1>1, <1>4, <1>5 DEF Truncate
<1> QED BY <1>1, <1>2, <1>3, <1>7, <1>8, <1>9, <1>10, FaultCounts, AttemptOver DEF Truncate

\* A whole event is shown once and after those before it.
LEMMA ShownGrows ==
  ASSUME NEW g \in FollowerRecord, InOrder(g), NEW f \in FollowerRecord,
         f.last = g.last + 1, f.shown = Append(g.shown, f.last), f.half = g.half
  PROVE  InOrder(f)
<1>1. /\ g.shown \in Seq(1..MaxEvents) /\ f.shown \in Seq(1..MaxEvents) /\ g.last \in Nat
      /\ Len(g.shown) \in Nat /\ DOMAIN g.shown = 1..Len(g.shown) /\ DOMAIN f.shown = 1..Len(f.shown)
  BY StreamAssumption DEF FollowerRecord
<1>2. f.last \in 1..MaxEvents
  BY <1>1, StreamAssumption DEF FollowerRecord
<1>3. /\ Len(f.shown) = Len(g.shown) + 1 /\ f.shown[Len(g.shown) + 1] = f.last
      /\ \A k \in 1..Len(g.shown) : f.shown[k] = g.shown[k]
  BY <1>1, <1>2, AppendProperties
<1>4. \A k \in 1..Len(g.shown) : g.shown[k] <= g.last /\ g.shown[k] \in Nat
  <2> SUFFICES ASSUME NEW k \in 1..Len(g.shown) PROVE g.shown[k] \in 1..g.last
    BY <1>1
  <2>1. g.shown[k] \in {g.shown[j] : j \in DOMAIN g.shown}
    BY <1>1
  <2> QED BY <2>1 DEF InOrder
<1>5. ASSUME NEW k \in 2..Len(f.shown) PROVE f.shown[k - 1] < f.shown[k]
  <2>1. k - 1 \in 1..Len(g.shown) /\ f.shown[k - 1] = g.shown[k - 1]
    BY <1>1, <1>3
  <2>2. CASE k \in 1..Len(g.shown)
    <3>1. k \in 2..Len(g.shown)
      BY <1>1, <1>3, <2>2
    <3> QED BY <1>3, <2>1, <2>2, <3>1 DEF InOrder
  <2>3. CASE k = Len(g.shown) + 1
    BY <1>1, <1>3, <1>4, <2>1, <2>3
  <2> QED BY <1>1, <1>3, <2>2, <2>3
<1>6. {f.shown[k] : k \in DOMAIN f.shown} = {g.shown[k] : k \in DOMAIN g.shown} \cup {f.last}
  <2>1. DOMAIN f.shown = DOMAIN g.shown \cup {Len(g.shown) + 1}
    BY <1>1, <1>3
  <2> QED BY <1>1, <1>3, <2>1
<1>7. 1..f.last = 1..g.last \cup {f.last}
  BY <1>1
<1> QED BY <1>5, <1>6, <1>7 DEF InOrder

\* A whole event is the next one; the terminal one ends the monitor.
LEMMA ReceiveKeeps ==
  ASSUME StreamInv, NEW c \in Followers, Receive(c)
  PROVE  StreamInv'
<1>1. PICK s \in Streams, i \in 1..MaxEvents :
        /\ s = Current(c) /\ stream[s].pc \in Loop /\ i = stream[s].got + 1
        /\ i = follower[c].last + 1 /\ i <= Len(log)
  BY NextEvent DEF Receive
<1>2. PICK was \in StreamRecord : was = stream[s] /\ was.after <= Len(log)
  BY DEF StreamInv, SlotInv
<1>3. PICK t : t = [was EXCEPT !.got = i]
  OBVIOUS
<1>4. t = [pc |-> was.pc, after |-> was.after, got |-> i, empty |-> was.empty]
  BY <1>3 DEF StreamRecord
<1>5. t \in StreamRecord
  BY <1>4, StreamAssumption DEF StreamRecord
<1>6. stream' = [stream EXCEPT ![s] = t]
  BY <1>1, <1>2, <1>3 DEF Receive
<1>7. /\ global' = global + GlobalTokens(t.pc) - GlobalTokens(stream[s].pc)
      /\ owner' = owner + OwnerTokens(t.pc) - OwnerTokens(stream[s].pc)
      /\ global' <= MaxStreams /\ owner' <= MaxPerPrincipal
      /\ t.after <= Len(log) /\ t.pc \in Loop /\ t.pc \notin {"global", "get"}
  BY <1>1, <1>2, <1>4, SlotTypes DEF Receive, slotVars, GlobalTokens, OwnerTokens, Loop
<1>8. CASE IsTerminal(i)
  <2>1. PICK f : f = Idle("ready")
    OBVIOUS
  <2>2. f \in FollowerRecord /\ InOrder(f) /\ f.last <= Len(log) /\ f.mode = "ready"
    BY <2>1, IdleIsSound DEF Idle
  <2>3. follower' = [follower EXCEPT ![c] = f]
    BY <1>1, <1>8, <2>1 DEF Receive
  <2>4. UNCHANGED recordVars /\ faults' \in 0..MaxFaults /\ follower[c].mode = "stream"
    BY FaultCounts DEF Receive
  <2>5. f.mode \notin {"connect", "stream"} /\ f.mode # "backoff"
    BY <2>2
  <2>6. t.after <= Len(log) /\ (t.pc \in {"global", "get"} => t.got = t.after)
    BY <1>7
  <2> QED BY <1>1, <1>5, <1>6, <1>7, <2>2, <2>3, <2>4, <2>5, <2>6, AttemptOver
<1>9. CASE ~IsTerminal(i)
  <2>1. PICK old \in FollowerRecord :
          old = follower[c] /\ InOrder(old) /\ Placed(c, old) /\ old.mode = "stream"
    BY DEF Receive, StreamInv, FollowerInv
  <2>2. PICK f : f = [old EXCEPT !.last = i, !.shown = Append(old.shown, i)]
    OBVIOUS
  <2>3. f = [mode |-> old.mode, attempt |-> old.attempt, last |-> i, failures |-> old.failures,
             shown |-> Append(old.shown, i), half |-> old.half]
    BY <2>2 DEF FollowerRecord
  <2>4. f \in FollowerRecord
    <3>1. Append(old.shown, i) \in Seq(1..MaxEvents) /\ i \in 0..MaxEvents
      BY StreamAssumption, AppendProperties DEF FollowerRecord
    <3> QED BY <2>3, <3>1 DEF FollowerRecord
  <2>5. InOrder(f) /\ f.last <= Len(log)
    BY <1>1, <2>1, <2>3, <2>4, ShownGrows
  <2>6. follower' = [follower EXCEPT ![c] = f]
    BY <1>1, <1>9, <2>1, <2>2 DEF Receive
  <2>7. PICK n \in 1..MaxAttempts : n = old.attempt + 1 /\ s = <<c, n>>
    BY <1>1, <2>1, CurrentIsLive DEF Current, Streams
  <2>8. Placed(c, f)'
    <3>1. /\ stream'[<<c, n>>] = t
          /\ \A m \in 1..MaxAttempts : m # n => stream'[<<c, m>>] = stream[<<c, m>>]
      BY <1>6, <2>7 DEF StreamInv, SlotInv, Streams
    <3>2. \A m \in 1..MaxAttempts : m > n => stream'[<<c, m>>].pc = "none"
      BY <2>1, <2>7, <3>1, StreamAssumption DEF Placed
    <3>3. /\ f.mode = "stream" /\ f.attempt + 1 = n /\ f.attempt < MaxAttempts
          /\ t.pc \in Live /\ t.got = f.last
      BY <1>4, <1>7, <2>1, <2>3, <2>7 DEF Placed, Live
    <3> QED BY <3>1, <3>2, <3>3 DEF Placed
  <2>9. Moves(<<c, n>>, t, c, f)
    BY <1>5, <1>6, <2>4, <2>6, <2>7 DEF Moves
  <2>10. /\ global' = global + GlobalTokens(t.pc) - GlobalTokens(stream[<<c, n>>].pc)
         /\ owner' = owner + OwnerTokens(t.pc) - OwnerTokens(stream[<<c, n>>].pc)
    BY <1>7, <2>7
  <2>11. UNCHANGED recordVars /\ faults' \in 0..MaxFaults
    BY FaultCounts DEF Receive
  <2>12. t.after <= Len(log) /\ (t.pc \in {"global", "get"} => t.got = t.after)
    BY <1>7
  <2>13. global' <= MaxStreams /\ owner' <= MaxPerPrincipal
    BY <1>7
  <2> QED BY <2>5, <2>7, <2>8, <2>9, <2>10, <2>11, <2>12, <2>13, StepKeeps
<1> QED BY <1>8, <1>9

-----------------------------------------------------------------------------
(* The specification.                                                      *)

\* The search begins with at most its accepted event, no stream and followers
\* about to connect.
LEMMA StreamStarts == Init => StreamInv
<1> SUFFICES ASSUME Init PROVE StreamInv
  OBVIOUS
<1>1. LogInv
  <2>1. PICK e \in {"event", "undecodable"} : e = Stored(TRUE)
    BY DEF Stored
  <2>2. log \in Seq({"event", "undecodable"}) /\ Len(log) \in Nat /\ Len(log) <= 1
    <3>1. CASE log = <<>>
      BY <3>1
    <3>2. CASE log = <<e>>
      <4>1. <<>> \in Seq({"event", "undecodable"}) /\ Len(<<>>) = 0 /\ log = Append(<<>>, e)
        BY <3>2
      <4>2. log \in Seq({"event", "undecodable"}) /\ Len(log) = 0 + 1
        BY <2>1, <4>1, AppendProperties
      <4> QED BY <4>2
    <3> QED BY <2>1, <3>1, <3>2 DEF Init
  <2>3. concluded \in BOOLEAN /\ gone \in BOOLEAN
    BY DEF Init
  <2>4. Len(log) <= MaxEvents /\ Len(log) < MaxEvents
    BY <2>2, StreamAssumption
  <2> QED BY <2>2, <2>3, <2>4 DEF LogInv
<1>2. SlotInv
  <2>1. stream \in [Streams -> StreamRecord]
    BY StreamAssumption DEF Init, StreamRecord, PC
  <2>2. \A s \in Streams : stream[s].pc = "none" /\ stream[s].after = 0 /\ stream[s].got = 0
    BY DEF Init
  <2>3. /\ {s \in Streams : stream[s].pc \notin {"none", "done"}} = {}
        /\ {s \in Streams : stream[s].pc \in {"get", "closing"} \cup Loop} = {}
    BY <2>2 DEF Loop
  <2>4. SlotsExact
    BY <2>3, FS_EmptySet DEF Init, SlotsExact
  <2>5. \A s \in Streams : stream[s].after <= Len(log)
    BY <1>1, <2>2 DEF LogInv
  <2> QED BY <2>1, <2>2, <2>4, <2>5, StreamAssumption DEF Init, SlotInv
<1>3. FollowerInv
  <2>1. PICK f : f = Idle("connect")
    OBVIOUS
  <2>2. f = [mode |-> "connect", attempt |-> 0, last |-> 0, failures |-> 0, shown |-> <<>>, half |-> {}]
    BY <2>1 DEF Idle
  <2>3. f \in FollowerRecord
    <3>1. <<>> \in Seq(1..MaxEvents) /\ 0 \in 0..(MaxPollFailures - 1) /\ 0 \in 0..MaxEvents /\ 0 \in 0..MaxAttempts
      BY StreamAssumption
    <3> QED BY <2>2, <3>1 DEF FollowerRecord, Mode
  <2>4. InOrder(f)
    BY <2>2 DEF InOrder
  <2>5. f.last <= Len(log)
    BY <1>1, <2>2 DEF LogInv
  <2>6. \A c \in Followers : Placed(c, f)
    BY <2>2, StreamAssumption DEF Init, Placed, Streams
  <2>7. \A c \in Followers : follower[c] = f
    BY <2>1 DEF Init
  <2>8. follower \in [Followers -> FollowerRecord]
    BY <2>1, <2>3 DEF Init
  <2> QED BY <2>4, <2>5, <2>6, <2>7, <2>8 DEF FollowerInv
<1> QED BY <1>1, <1>2, <1>3, StreamAssumption DEF Init, StreamInv

\* Every step of the search, of a follower or of a stream keeps the invariant.
LEMMA StreamContinues == StreamInv /\ [Next]_vars => StreamInv'
<1> SUFFICES ASSUME StreamInv, [Next]_vars PROVE StreamInv'
  OBVIOUS
<1>1. CASE AppendEvent
  BY <1>1, AppendEventKeeps
<1>2. CASE Finalize
  BY <1>2, FinalizeKeeps
<1>3. CASE Vanish
  BY <1>3, VanishKeeps
<1>4. ASSUME NEW c \in Followers, FollowerStep(c) PROVE StreamInv'
  BY <1>4, ConnectKeeps, ConnectRefusedKeeps, BackoffOverKeeps, ReceiveKeeps, EndedKeeps,
     PollAnsweredKeeps, PollFailedKeeps DEF FollowerStep
<1>5. ASSUME NEW c \in Followers, PollLate(c) \/ Truncate(c) \/ Disconnect(c) \/ Leave(c) PROVE StreamInv'
  BY <1>5, PollLateKeeps, TruncateKeeps, DisconnectKeeps, LeaveKeeps
<1>6. ASSUME NEW s \in Streams, StreamStep(s) PROVE StreamInv'
  BY <1>6, AcquireOwnerKeeps, RejectOwnerKeeps, OpenKeeps, OpenDeniedKeeps, ReadEventsKeeps,
     CheckStatusKeeps, CloseKeeps, ReleaseOwnerKeeps, ReleaseGlobalKeeps DEF StreamStep
<1>7. CASE UNCHANGED vars
  <2>1. faults' \in 0..MaxFaults
    BY <1>7, FaultCounts DEF vars
  <2>2. LogInv' /\ Len(log) <= Len(log')
    BY <1>7 DEF vars, StreamInv, LogInv
  <2> QED BY <1>7, <2>1, <2>2, LogGrows DEF vars, slotVars
<1> QED BY <1>1, <1>2, <1>3, <1>4, <1>5, <1>6, <1>7 DEF Next

\* The inductive invariant of the event stream: log, slots and followers.
THEOREM StreamInvariant == Spec => []StreamInv
<1>1. Init => StreamInv
  BY StreamStarts
<1>2. StreamInv /\ [Next]_vars => StreamInv'
  BY StreamContinues
<1> QED BY <1>1, <1>2, PTL DEF Spec

\* The variables keep their types: in particular sseGlobal and sseByOwner stay
\* within their limits and no cursor passes the end of the log.
THEOREM StreamTypeCorrect == Spec => []TypeOK
<1>1. StreamInv => TypeOK
  BY DEF StreamInv, LogInv, SlotInv, FollowerInv, StreamRecord, FollowerRecord, TypeOK
<1> QED BY <1>1, StreamInvariant, PTL

\* acquireSSE and its release (edge-api server.go) count the open streams
\* exactly, for any number of followers and overlapping attempts.
THEOREM SlotsExactSafe == Spec => []SlotsExact
<1>1. StreamInv => SlotsExact
  BY DEF StreamInv, SlotInv
<1> QED BY <1>1, StreamInvariant, PTL

\* ADR-006: with Last-Event-ID (sse.ts) and EventsAfter a follower is shown
\* every event once and in order, however often its streams break, except one
\* a truncated response cut in half.
THEOREM ShownOnceInOrderSafe == Spec => []ShownOnceInOrder
<1>1. StreamInv => ShownOnceInOrder
  BY DEF StreamInv, FollowerInv, InOrder, ShownOnceInOrder
<1> QED BY <1>1, StreamInvariant, PTL
=============================================================================
