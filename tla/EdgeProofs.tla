----------------------------- MODULE EdgeProofs -----------------------------
(***************************************************************************)
(* Proofs about edge-api: the POSTs under one Idempotency-Key, for any     *)
(* number of POSTs and bodies, of failed round trips and of claims that    *)
(* run out, and for both kinds of state; and the calls at the front door,  *)
(* for any number of calls and replicas, any capacity, limit and window.   *)
(*                                                                         *)
(* The invariant of a key says what its record and its fingerprint stand   *)
(* for (KeyInv), and of each POST what it may rely on where it is (Sound). *)
(* A POST relies on one of two anchors: the fingerprint while no FORGET    *)
(* has deleted it, the record while no claim was lost.  A step of one POST *)
(* moves the anchors only so far (Grows) that all others may rely on them. *)
(*                                                                         *)
(* The invariant of the front door follows the counter of each key with    *)
(* what passed while every call had to charge it (MeterSound, Horizon):    *)
(* through a rotation one of the two counters always saw a whole window.   *)
(***************************************************************************)
EXTENDS MCEdge, FiniteSetTheorems, WellFoundedInduction, TLAPS

StoredRecord  == [state: {"none", "pending", "done"}, body: Bodies, token: Requests]
RequestRecord == [pc: PC, body: Bodies, token: Requests]

\* The searches with an owner entry, or deleted by the client.
Kept == owned \cup deleted

\* No round trip has failed and no claim has run out.
Untroubled == faults = 0 /\ expiries = 0

\* The fingerprint is an anchor: it never goes over to another accepted body.
Anchored == ~freed \/ ~distributed

\* Places of a POST: with its own token, with an owner entry in view, past the
\* check of its fingerprint, and on its way to an answer with a search.
Fresh  == {"new", "get", "mark", "compare", "claim", "reread", "start"}
Owning == {"own", "undo", "complete", "replay"}
Work   == {"start", "own", "complete", "recover", "replay"}
Beyond == {"repair", "claim", "reread", "undo", "forget"} \cup Work

SharedTypes ==
  /\ distributed \in Deployments
  /\ record \in StoredRecord
  /\ fingerprint \in Bodies \cup {NoBody}
  /\ upstream \subseteq Bodies
  /\ owned \subseteq Bodies
  /\ deleting \subseteq Bodies
  /\ deleted \subseteq Bodies
  /\ accepted \subseteq Bodies
  /\ faults \in 0..MaxFaults
  /\ expiries \in 0..MaxExpiries
  /\ freed \in BOOLEAN

KeyInv ==
  /\ record.state = "done" => record.body \in Kept \ Rejected
  /\ upstream \cap Rejected = {}
  /\ deleting \subseteq deleted
  /\ accepted \subseteq Kept \ Rejected
  /\ Anchored => /\ accepted \subseteq {fingerprint}
                 /\ record.state # "none" => record.body = fingerprint
  /\ Untroubled => \A b \in accepted : record.state # "none" /\ record.body = b

\* What holds for POST r at q, a place, a body and a token.
Sound(r, q) ==
  /\ record.state = "pending" /\ record.token = r =>
       /\ q.pc \notin {"new", "get", "repair", "mark", "compare", "claim"}
       /\ q.body = record.body \/ q.pc = "done"
  /\ q.pc \in Fresh => q.token = r
  /\ q.pc \in Owning => q.body \notin Rejected
  /\ q.pc \in {"complete", "replay"} => q.body \in Kept
  /\ q.pc = "repair" /\ q.token = r => q.body \in Kept \ Rejected
  /\ faults = 0 \/ ~distributed => /\ q.pc # "undo"
                                   /\ q.pc = "forget" => q.token = r /\ q.body \in Rejected
  /\ ~freed /\ q.pc \in Beyond => q.body = fingerprint
  /\ ~distributed => /\ q.pc \notin {"repair", "mark", "compare", "claim", "reread"}
                     /\ q.pc \in Work /\ q.body \notin Rejected => q.body = fingerprint
  /\ Untroubled /\ q.pc \in Work \cup {"repair"} /\ q.body \notin Rejected =>
       record.state # "none" /\ record.body = q.body

IdempotencyInv ==
  /\ SharedTypes
  /\ request \in [Requests -> RequestRecord]
  /\ KeyInv
  /\ \A r \in Requests : Sound(r, request[r])

\* How far a step may move the anchors.
Grows ==
  /\ distributed' = distributed
  /\ freed => freed'
  /\ faults' \in 0..MaxFaults /\ faults' >= faults
  /\ expiries' \in 0..MaxExpiries /\ expiries' >= expiries
  /\ Kept \subseteq Kept'
  /\ Anchored' /\ fingerprint \notin Rejected \cup {NoBody} => fingerprint' = fingerprint
  /\ ~freed' /\ fingerprint # NoBody => fingerprint' = fingerprint
  /\ Untroubled' /\ record.state # "none" /\ record.body \notin Rejected =>
       record'.state # "none" /\ record'.body = record.body

\* A POST moves to q.
Moved(r, q) == q \in RequestRecord /\ request' = [request EXCEPT ![r] = q]

\* A step that at most accepts the POST's body leaves the key as it is.
Quiet ==
  /\ UNCHANGED <<distributed, record, fingerprint, freed, expiries, searchVars>>
  /\ faults' \in 0..MaxFaults /\ faults' >= faults

Accepts(r) ==
  \/ accepted' = accepted
  \/ accepted' = accepted \cup {request[r].body} /\ request[r].pc \in {"complete", "replay"}

\* A body, a record and a request exist to begin with.
LEMMA Defaults ==
  /\ Body \in Bodies
  /\ NoRecord \in StoredRecord /\ NoRecord.state = "none"
<1>1. Body \in Bodies /\ (CHOOSE r \in Requests : TRUE) \in Requests
  BY IdempotencyAssumption DEF Body
<1> QED BY <1>1 DEF NoRecord, StoredRecord

\* The invariant holds before the first POST.
LEMMA IdempotencyInitial == Init => IdempotencyInv
<1> SUFFICES ASSUME Init PROVE IdempotencyInv
  OBVIOUS
<1>1. SharedTypes
  <2>1. 0 \in 0..MaxFaults /\ 0 \in 0..MaxExpiries
    BY IdempotencyAssumption
  <2>2. record \in StoredRecord
    BY Defaults DEF Init
  <2> QED BY <2>1, <2>2 DEF Init, SharedTypes
<1>2. \A r \in Requests : request[r] = [pc |-> "new", body |-> Body, token |-> r]
  BY DEF Init
<1>3. request \in [Requests -> RequestRecord]
  <2>1. \A r \in Requests : [pc |-> "new", body |-> Body, token |-> r] \in RequestRecord
    BY Defaults DEF RequestRecord, PC
  <2>2. request = [r \in Requests |-> request[r]]
    BY DEF Init
  <2> QED BY <1>2, <2>1, <2>2
<1>4. KeyInv
  BY Defaults DEF Init, KeyInv, Kept
<1>5. ASSUME NEW r \in Requests PROVE Sound(r, request[r])
  BY <1>2, Defaults DEF Init, Sound, Fresh, Owning, Beyond, Work
<1> QED BY <1>1, <1>3, <1>4, <1>5 DEF IdempotencyInv

\* The variables have the types TypeOK gives them.
LEMMA IdempotencyTyped == IdempotencyInv => TypeOK
BY DEF IdempotencyInv, SharedTypes, StoredRecord, RequestRecord, TypeOK

-----------------------------------------------------------------------------
(* What a step leaves to the others.                                       *)

\* A POST that does not move keeps what it relies on, as long as its claim is
\* not made by another.
LEMMA OthersStaySound ==
  ASSUME IdempotencyInv, Grows, NEW r \in Requests, NEW q \in RequestRecord, Sound(r, q),
         record'.state = "pending" /\ record'.token = r => record' = record
  PROVE  Sound(r, q)'
<1>1. q.body \in Bodies /\ NoBody \notin Bodies
  BY IdempotencyAssumption DEF RequestRecord
<1>2. /\ faults \in Nat /\ expiries \in Nat
      /\ faults' \in Nat /\ expiries' \in Nat /\ faults' >= faults /\ expiries' >= expiries
  BY IdempotencyAssumption DEF IdempotencyInv, SharedTypes, Grows
<1>3. /\ Untroubled' => Untroubled
      /\ faults' = 0 => faults = 0
      /\ distributed' = distributed /\ (~freed' => ~freed)
      /\ Kept \subseteq Kept'
  BY <1>2 DEF Untroubled, Grows
<1>4. record'.state = "pending" /\ record'.token = r =>
       /\ q.pc \notin {"new", "get", "repair", "mark", "compare", "claim"}
       /\ q.body = record'.body \/ q.pc = "done"
  BY DEF Sound
<1>5. ~freed' /\ q.pc \in Beyond => q.body = fingerprint'
  BY <1>1, <1>3 DEF Sound, Grows
<1>6. ~distributed' => /\ q.pc \notin {"repair", "mark", "compare", "claim", "reread"}
                       /\ q.pc \in Work /\ q.body \notin Rejected => q.body = fingerprint'
  BY <1>1, <1>3 DEF Sound, Grows, Anchored
<1>7. Untroubled' /\ q.pc \in Work \cup {"repair"} /\ q.body \notin Rejected =>
       record'.state # "none" /\ record'.body = q.body
  BY <1>3 DEF Sound, Grows
<1> QED BY <1>3, <1>4, <1>5, <1>6, <1>7 DEF Sound

\* The record and the fingerprint stand for what was accepted.
LEMMA KeyStaysSound ==
  ASSUME IdempotencyInv, Grows, NEW r \in Requests, Accepts(r),
         record'.state = "done" => record'.body \in Kept' \ Rejected,
         upstream' \cap Rejected = {}, deleting' \subseteq deleted',
         Anchored' /\ record'.state # "none" => record'.body = fingerprint'
  PROVE  KeyInv'
<1>1. request[r] \in RequestRecord /\ Sound(r, request[r]) /\ KeyInv /\ accepted \subseteq Bodies
      /\ request[r].body \in Bodies /\ NoBody \notin Bodies
  BY IdempotencyAssumption DEF IdempotencyInv, SharedTypes, RequestRecord
<1>2. /\ Untroubled' => Untroubled
      /\ Anchored' => Anchored
      /\ Kept \subseteq Kept'
  BY IdempotencyAssumption DEF IdempotencyInv, SharedTypes, Untroubled, Anchored, Grows
<1>3. request[r].pc \in {"complete", "replay"} =>
        /\ request[r].body \in Kept \ Rejected
        /\ Anchored => request[r].body = fingerprint
        /\ Untroubled => record.state # "none" /\ record.body = request[r].body
  BY <1>1 DEF Sound, Owning, Work, Beyond, Anchored
<1>4. ASSUME NEW b \in accepted'
      PROVE  /\ b \in Bodies /\ b \in Kept \ Rejected
             /\ Anchored => b = fingerprint
             /\ Untroubled => record.state # "none" /\ record.body = b
  BY <1>1, <1>3, <1>4 DEF Accepts, KeyInv
<1>5. ASSUME NEW b \in accepted'
      PROVE  /\ b \in Kept' \ Rejected
             /\ Anchored' => b = fingerprint'
             /\ Untroubled' => record'.state # "none" /\ record'.body = b
  BY <1>1, <1>2, <1>4, <1>5 DEF Grows
<1> QED BY <1>5 DEF KeyInv

\* A POST moves to a place where it is sound, and the others stay where they are.
LEMMA MoveKeeps ==
  ASSUME IdempotencyInv, Grows, NEW r \in Requests, NEW q, Moved(r, q),
         SharedTypes', KeyInv', Sound(r, q)',
         record'.state = "pending" => record' = record \/ record'.token = r
  PROVE  IdempotencyInv'
<1>1. request' \in [Requests -> RequestRecord] /\ request'[r] = q
      /\ \A s \in Requests : s # r => request'[s] = request[s]
  BY DEF IdempotencyInv, Moved
<1>2. ASSUME NEW s \in Requests, NEW t \in RequestRecord, t = request'[s] PROVE Sound(s, t)'
  <2>1. CASE s = r
    BY <1>1, <1>2, <2>1
  <2>2. CASE s # r
    BY <1>1, <1>2, <2>2, OthersStaySound DEF IdempotencyInv
  <2> QED BY <2>1, <2>2
<1>3. (\A s \in Requests : Sound(s, request[s]))'
  BY <1>1, <1>2
<1> QED BY <1>1, <1>3 DEF IdempotencyInv

\* A step that leaves the key as it is.
LEMMA QuietKeeps ==
  ASSUME IdempotencyInv, NEW r \in Requests, NEW q, Moved(r, q), Quiet, Accepts(r), Sound(r, q)'
  PROVE  IdempotencyInv'
<1>1. faults \in Nat /\ expiries \in 0..MaxExpiries /\ request[r].body \in Bodies
  BY IdempotencyAssumption DEF IdempotencyInv, SharedTypes, RequestRecord
<1>2. Grows
  BY <1>1, IdempotencyAssumption DEF Grows, Quiet, searchVars, Kept, Anchored
<1>3. KeyInv'
  BY <1>2, KeyStaysSound DEF IdempotencyInv, KeyInv, Quiet, searchVars, Kept, Anchored
<1>4. SharedTypes'
  BY <1>1 DEF IdempotencyInv, SharedTypes, Quiet, searchVars, Accepts
<1> QED BY <1>2, <1>3, <1>4, MoveKeeps DEF Quiet

-----------------------------------------------------------------------------
(* The moves of a POST.                                                    *)

\* The next place, with the body and the token the POST has.
LEMMA GotoMoves ==
  ASSUME IdempotencyInv, NEW r \in Requests, NEW p \in PC, Goto(r, p)
  PROVE  \E q : /\ Moved(r, q)
                /\ q.pc = p /\ q.body = request[r].body /\ q.token = request[r].token
<1>1. PICK q : q = [request[r] EXCEPT !.pc = p]
  OBVIOUS
<1>2. PICK old \in RequestRecord : old = request[r]
  BY DEF IdempotencyInv
<1>3. q = [pc |-> p, body |-> old.body, token |-> old.token]
  BY <1>1, <1>2 DEF RequestRecord
<1>4. q \in RequestRecord
  BY <1>3 DEF RequestRecord
<1>5. request' = [request EXCEPT ![r] = q]
  BY <1>1 DEF Goto
<1>6. Moved(r, q) /\ q.pc = p /\ q.body = request[r].body /\ q.token = request[r].token
  BY <1>2, <1>3, <1>4, <1>5 DEF Moved
<1> QED BY <1>6

\* The handler returns, and relies on nothing any more.
LEMMA ReturnMoves ==
  ASSUME IdempotencyInv, NEW r \in Requests, Return(r)
  PROVE  \E q : Moved(r, q) /\ Sound(r, q)'
<1>1. PICK q : q = [pc |-> "done", body |-> Body, token |-> r]
  OBVIOUS
<1>2. Moved(r, q)
  BY <1>1, Defaults DEF Moved, Return, RequestRecord, PC
<1>3. Sound(r, q)'
  BY <1>1 DEF Sound, Fresh, Owning, Work, Beyond
<1> QED BY <1>2, <1>3

\* A POST that reads a record of another body gives up; otherwise it joins the
\* claim, with the claim's token, or replays.
LEMMA ExistingMoves ==
  ASSUME IdempotencyInv, NEW r \in Requests, NEW pending \in PC, NEW done \in PC,
         Existing(r, pending, done)
  PROVE  /\ accepted' = accepted
         /\ \E q : /\ Moved(r, q)
                   /\ \/ Sound(r, q)'
                      \/ /\ q.body = request[r].body /\ record.body = q.body
                         /\ \/ record.state = "pending" /\ q.pc = pending /\ q.token = record.token
                            \/ record.state # "pending" /\ q.pc = done /\ q.token = request[r].token
<1>1. CASE Answer(r)
  BY <1>1, ReturnMoves DEF Answer
<1>2. CASE record.body = request[r].body /\ record.state = "pending"
           /\ request' = [request EXCEPT ![r].pc = pending, ![r].token = record.token]
           /\ accepted' = accepted
  <2>1. PICK old \in RequestRecord : old = request[r]
    BY DEF IdempotencyInv
  <2>2. PICK q : q = [old EXCEPT !.pc = pending, !.token = record.token]
    OBVIOUS
  <2>3. q = [pc |-> pending, body |-> old.body, token |-> record.token]
    BY <2>2 DEF RequestRecord
  <2>4. q \in RequestRecord
    BY <2>3 DEF RequestRecord, StoredRecord, IdempotencyInv, SharedTypes
  <2>5. request' = [request EXCEPT ![r] = q]
    BY <1>2, <2>1, <2>2 DEF IdempotencyInv
  <2>6. /\ Moved(r, q) /\ q.body = request[r].body /\ record.body = q.body
        /\ q.pc = pending /\ q.token = record.token
    BY <1>2, <2>1, <2>3, <2>4, <2>5 DEF Moved
  <2> QED BY <1>2, <2>6
<1>3. CASE record.body = request[r].body /\ record.state # "pending"
           /\ Goto(r, done) /\ accepted' = accepted
  BY <1>3, GotoMoves
<1> QED BY <1>1, <1>2, <1>3 DEF Existing, Goto

-----------------------------------------------------------------------------
(* BEGIN.                                                                  *)

\* A POST arrives with its body.
LEMMA PostKeeps ==
  ASSUME IdempotencyInv, NEW r \in Requests, NEW b \in Bodies, Post(r, b), distributed' = distributed
  PROVE  IdempotencyInv'
<1>1. PICK old \in RequestRecord : old = request[r] /\ Sound(r, old) /\ old.pc = "new"
  BY DEF IdempotencyInv, Post, At
<1>2. PICK q : q = [old EXCEPT !.pc = "get", !.body = b]
  OBVIOUS
<1>3. q = [pc |-> "get", body |-> b, token |-> old.token]
  BY <1>2 DEF RequestRecord
<1>4. Moved(r, q)
  <2>1. q \in RequestRecord
    BY <1>3 DEF RequestRecord, PC
  <2>2. request' = [request EXCEPT ![r] = q]
    BY <1>1, <1>2 DEF Post, IdempotencyInv
  <2> QED BY <2>1, <2>2 DEF Moved
<1>5. Quiet /\ Accepts(r)
  BY IdempotencyAssumption DEF Post, Quiet, Accepts, IdempotencyInv, SharedTypes
<1>6. Sound(r, q)'
  BY <1>1, <1>3, <1>5 DEF Sound, Quiet, searchVars, Kept, Fresh, Owning, Work, Beyond
<1> QED BY <1>4, <1>5, <1>6, QuietKeeps

\* GET record, and the second look of a POST that lost the claim.
LEMMA ReadsKeep ==
  ASSUME IdempotencyInv, NEW r \in Requests, GetRecord(r) \/ RereadRecord(r),
         distributed' = distributed
  PROVE  IdempotencyInv'
<1>1. Quiet /\ Accepts(r)
  BY IdempotencyAssumption
  DEF GetRecord, RereadRecord, Existing, Answer, Quiet, Accepts, IdempotencyInv, SharedTypes
<1>2. PICK old \in RequestRecord : old = request[r] /\ Sound(r, old)
  BY DEF IdempotencyInv
<1>3. KeyInv /\ record \in StoredRecord
  BY DEF IdempotencyInv, SharedTypes
<1>4. CASE GetRecord(r)
  <2>1. distributed /\ old.pc = "get"
    BY <1>2, <1>4 DEF GetRecord, At
  <2>2. CASE record.state # "none" /\ Existing(r, "repair", "repair")
    <3>1. PICK q : /\ Moved(r, q)
                   /\ \/ Sound(r, q)'
                      \/ /\ q.body = old.body /\ record.body = q.body /\ q.pc = "repair"
                         /\ \/ record.state = "pending" /\ q.token = record.token
                            \/ record.state # "pending" /\ q.token = old.token
      <4>1. "repair" \in PC
        BY DEF PC
      <4> QED
        BY <1>2, <2>2, <4>1, ExistingMoves, SMTT(30)
    <3>2. q.pc = "repair" /\ q.token = r /\ record.body = q.body => record.state = "done" \/ Sound(r, q)'
      BY <1>2, <1>3, <2>1, <2>2, <3>1 DEF Sound, StoredRecord
    <3>3. Sound(r, q)'
      BY <1>1, <1>2, <1>3, <2>1, <2>2, <3>1, <3>2
      DEF Sound, KeyInv, Anchored, Quiet, searchVars, Kept, Fresh, Owning, Work, Beyond, Untroubled
    <3> QED BY <1>1, <3>1, <3>3, QuietKeeps
  <2>3. CASE record.state = "none" /\ Goto(r, "mark")
    <3>1. PICK q : Moved(r, q) /\ q.pc = "mark" /\ q.body = old.body /\ q.token = old.token
      BY <1>2, <2>3, GotoMoves DEF PC
    <3>2. Sound(r, q)'
      BY <1>1, <1>2, <2>1, <3>1 DEF Sound, Quiet, searchVars, Fresh, Owning, Work, Beyond
    <3> QED BY <1>1, <3>1, <3>2, QuietKeeps
  <2> QED BY <1>4, <2>2, <2>3 DEF GetRecord
<1>5. CASE RereadRecord(r)
  <2>1. distributed /\ old.pc = "reread" /\ old.token = r
    BY <1>2, <1>5 DEF RereadRecord, At, Sound, Fresh
  <2>2. CASE record.state # "none" /\ Existing(r, "recover", "replay")
    <3>1. PICK q : /\ Moved(r, q)
                   /\ \/ Sound(r, q)'
                      \/ /\ q.body = old.body /\ record.body = q.body
                         /\ \/ record.state = "pending" /\ q.pc = "recover" /\ q.token = record.token
                            \/ record.state = "done" /\ q.pc = "replay" /\ q.token = old.token
      <4>1. "recover" \in PC /\ "replay" \in PC
        BY DEF PC
      <4>2. record.state # "pending" => record.state = "done"
        BY <1>3, <2>2 DEF StoredRecord
      <4> QED
        BY <1>2, <2>2, <4>1, <4>2, ExistingMoves, SMTT(30)
    <3>2. Sound(r, q)'
      BY <1>1, <1>2, <1>3, <2>1, <2>2, <3>1
      DEF Sound, KeyInv, Anchored, Quiet, searchVars, Kept, Fresh, Owning, Work, Beyond, Untroubled
    <3> QED BY <1>1, <3>1, <3>2, QuietKeeps
  <2>3. CASE record.state = "none" /\ Goto(r, "get")
    <3>1. PICK q : Moved(r, q) /\ q.pc = "get" /\ q.body = old.body /\ q.token = old.token
      BY <1>2, <2>3, GotoMoves DEF PC
    <3>2. Sound(r, q)'
      BY <1>1, <1>2, <2>1, <2>3, <3>1 DEF Sound, Quiet, searchVars, Fresh, Owning, Work, Beyond
    <3> QED BY <1>1, <3>1, <3>2, QuietKeeps
  <2> QED BY <1>5, <2>2, <2>3 DEF RereadRecord
<1> QED BY <1>4, <1>5

\* SETNX fingerprint: an anchor that is there is not moved.
LEMMA FingerprintKeeps ==
  ASSUME IdempotencyInv, NEW r \in Requests, NEW q, Moved(r, q), SetFingerprintIfAbsent(r),
         UNCHANGED <<distributed, record, searchVars, accepted, expiries, freed>>,
         faults' \in 0..MaxFaults, faults' >= faults,
         Sound(r, q)'
  PROVE  IdempotencyInv'
<1>1. request[r].body \in Bodies /\ NoBody \notin Bodies /\ record \in StoredRecord
      /\ expiries \in 0..MaxExpiries
  BY IdempotencyAssumption DEF IdempotencyInv, SharedTypes, RequestRecord
<1>2. fingerprint # NoBody => fingerprint' = fingerprint
  BY DEF SetFingerprintIfAbsent
<1>3. Grows
  BY <1>1, <1>2, IdempotencyAssumption DEF Grows, searchVars, Kept
<1>4. KeyInv'
  <2>1. Anchored' /\ record'.state # "none" => record'.body = fingerprint'
    BY <1>1, <1>2 DEF IdempotencyInv, KeyInv, Anchored, StoredRecord
  <2> QED BY <1>3, <2>1, KeyStaysSound DEF IdempotencyInv, KeyInv, searchVars, Kept, Accepts
<1>5. SharedTypes'
  BY <1>1 DEF IdempotencyInv, SharedTypes, SetFingerprintIfAbsent, searchVars
<1> QED BY <1>3, <1>4, <1>5, MoveKeeps

\* SETNX record: a new claim, made with the POST's own fingerprint in place.
LEMMA ClaimKeeps ==
  ASSUME IdempotencyInv, NEW r \in Requests, NEW q, Moved(r, q),
         record.state = "none", record' = Claimed(r),
         Anchored => fingerprint' = request[r].body,
         fingerprint' = fingerprint \/ (fingerprint = NoBody /\ fingerprint' = request[r].body),
         UNCHANGED <<distributed, searchVars, accepted, expiries, freed>>,
         faults' \in 0..MaxFaults, faults' >= faults,
         Sound(r, q)'
  PROVE  IdempotencyInv'
<1>1. request[r].body \in Bodies /\ NoBody \notin Bodies /\ expiries \in 0..MaxExpiries
  BY IdempotencyAssumption DEF IdempotencyInv, SharedTypes, RequestRecord
<1>2. record' = [state |-> "pending", body |-> request[r].body, token |-> r]
  BY DEF Claimed
<1>3. Grows
  BY <1>1, IdempotencyAssumption DEF Grows, searchVars, Kept
<1>4. KeyInv'
  <2>1. Anchored' => Anchored
    BY DEF Anchored
  <2> QED BY <1>2, <1>3, <2>1, KeyStaysSound DEF IdempotencyInv, KeyInv, searchVars, Accepts
<1>5. SharedTypes'
  BY <1>1, <1>2 DEF IdempotencyInv, SharedTypes, StoredRecord, searchVars
<1> QED BY <1>2, <1>3, <1>4, <1>5, MoveKeeps

\* A fault is one more, within the bound.
LEMMA FaultCounts ==
  ASSUME IdempotencyInv
  PROVE  /\ Fault => faults' \in 0..MaxFaults /\ faults' >= faults /\ faults' # 0
         /\ faults' = faults => faults' \in 0..MaxFaults /\ faults' >= faults
BY IdempotencyAssumption DEF IdempotencyInv, SharedTypes, Fault

\* The fingerprint commands of Redis BEGIN.
LEMMA FingerprintStepsKeep ==
  ASSUME IdempotencyInv, NEW r \in Requests,
         RepairFingerprint(r) \/ MarkFingerprint(r) \/ CompareFingerprint(r),
         distributed' = distributed
  PROVE  IdempotencyInv'
<1>1. PICK old \in RequestRecord : old = request[r] /\ Sound(r, old)
  BY DEF IdempotencyInv
<1>2. faults' \in 0..MaxFaults /\ faults' >= faults /\ faults' = faults
  BY FaultCounts DEF RepairFingerprint, MarkFingerprint, CompareFingerprint
<1>3. CASE RepairFingerprint(r)
  <2>1. old.pc = "repair" /\ distributed
    BY <1>1, <1>3 DEF RepairFingerprint, At, Sound, IdempotencyInv, SharedTypes
  <2>2. PICK p \in PC : /\ Goto(r, p)
                        /\ p = "recover" \/ (p = "replay" /\ old.token = r)
    BY <1>1, <1>3 DEF RepairFingerprint, PC
  <2>3. PICK q : Moved(r, q) /\ q.pc = p /\ q.body = old.body /\ q.token = old.token
    BY <1>1, <2>2, GotoMoves
  <2>4. ~freed => fingerprint' = old.body
    BY <1>1, <1>3, <2>1, IdempotencyAssumption
    DEF RepairFingerprint, SetFingerprintIfAbsent, Sound, Beyond, RequestRecord
  <2>5. Sound(r, q)'
    BY <1>1, <1>2, <1>3, <2>1, <2>2, <2>3, <2>4
    DEF RepairFingerprint, Sound, searchVars, Kept, Fresh, Owning, Work, Beyond, Untroubled
  <2> QED BY <1>2, <1>3, <2>3, <2>5, FingerprintKeeps DEF RepairFingerprint
<1>4. CASE MarkFingerprint(r)
  <2>1. old.pc = "mark" /\ distributed
    BY <1>1, <1>4 DEF MarkFingerprint, At, Sound, IdempotencyInv, SharedTypes
  <2>2. PICK p \in PC : /\ Goto(r, p)
                        /\ p = "compare" \/ (p = "claim" /\ fingerprint = NoBody)
    BY <1>4 DEF MarkFingerprint, PC
  <2>3. PICK q : Moved(r, q) /\ q.pc = p /\ q.body = old.body /\ q.token = old.token
    BY <1>1, <2>2, GotoMoves
  <2>4. p = "claim" => fingerprint' = old.body
    BY <1>1, <1>4, <2>2 DEF MarkFingerprint, SetFingerprintIfAbsent
  <2>5. Sound(r, q)'
    BY <1>1, <1>2, <1>4, <2>1, <2>2, <2>3, <2>4
    DEF MarkFingerprint, Sound, searchVars, Fresh, Owning, Work, Beyond
  <2> QED BY <1>2, <1>4, <2>3, <2>5, FingerprintKeeps DEF MarkFingerprint
<1>5. CASE CompareFingerprint(r)
  <2>1. old.pc = "compare" /\ distributed
    BY <1>1, <1>5 DEF CompareFingerprint, At, Sound, IdempotencyInv, SharedTypes
  <2>2. Quiet /\ Accepts(r)
    BY <1>2, <1>5 DEF CompareFingerprint, Answer, Quiet, Accepts
  <2>3. CASE Answer(r)
    BY <2>2, <2>3, ReturnMoves, QuietKeeps DEF Answer
  <2>4. CASE ~Answer(r)
    <3>1. PICK p \in PC : /\ Goto(r, p)
                          /\ p = "get" \/ (p = "claim" /\ fingerprint = old.body)
      BY <1>1, <1>5, <2>4 DEF CompareFingerprint, FingerprintMatches, PC
    <3>2. PICK q : Moved(r, q) /\ q.pc = p /\ q.body = old.body /\ q.token = old.token
      BY <1>1, <3>1, GotoMoves
    <3>3. Sound(r, q)'
      BY <1>1, <2>1, <2>2, <3>1, <3>2 DEF Quiet, Sound, searchVars, Fresh, Owning, Work, Beyond
    <3> QED BY <2>2, <3>2, <3>3, QuietKeeps
  <2> QED BY <2>3, <2>4
<1> QED BY <1>3, <1>4, <1>5

\* The claim of Redis BEGIN, and the claim the client library repeated.
LEMMA ClaimStepsKeep ==
  ASSUME IdempotencyInv, NEW r \in Requests, ClaimRecord(r) \/ ClaimRetried(r),
         distributed' = distributed
  PROVE  IdempotencyInv'
<1>1. PICK old \in RequestRecord : old = request[r] /\ Sound(r, old)
  BY DEF IdempotencyInv
<1>2. old.pc = "claim" /\ distributed /\ old.token = r
  BY <1>1 DEF ClaimRecord, ClaimRetried, At, Sound, Fresh, IdempotencyInv, SharedTypes
<1>3. faults' \in 0..MaxFaults /\ faults' >= faults
  BY FaultCounts DEF ClaimRecord, ClaimRetried, StateFault
<1>4. PICK p \in PC : /\ Goto(r, p) /\ UNCHANGED <<fingerprint, searchVars, accepted, expiries, freed>>
                      /\ \/ /\ p \in {"start", "reread"}
                            /\ record.state = "none" /\ record' = Claimed(r)
                            /\ p = "reread" => faults' # 0
                         \/ p = "reread" /\ record.state # "none" /\ UNCHANGED <<record, faults>>
  BY FaultCounts DEF ClaimRecord, ClaimRetried, StateFault, PC
<1>5. PICK q : Moved(r, q) /\ q.pc = p /\ q.body = old.body /\ q.token = old.token
  BY <1>1, <1>4, GotoMoves
<1>6. CASE record' = Claimed(r) /\ record.state = "none"
  <2>1. record'.state = "pending" /\ record'.body = old.body /\ record'.token = r
    BY <1>1, <1>6 DEF Claimed
  <2>2. Anchored => fingerprint' = old.body
    BY <1>1, <1>2, <1>4 DEF Anchored, Sound, Beyond
  <2>3. p \in {"start", "reread"}
    BY <1>4
  <2>4. Sound(r, q)'
    BY <1>1, <1>2, <1>4, <1>5, <2>1, <2>2, <2>3
    DEF Sound, searchVars, Kept, Fresh, Owning, Work, Beyond, Anchored
  <2> QED BY <1>1, <1>3, <1>4, <1>5, <1>6, <2>2, <2>4, ClaimKeeps
<1>7. CASE p = "reread" /\ UNCHANGED <<record, faults>>
  <2>1. Quiet /\ Accepts(r)
    BY <1>3, <1>4, <1>7 DEF Quiet, Accepts
  <2>2. Sound(r, q)'
    BY <1>1, <1>2, <1>4, <1>5, <1>7, <2>1 DEF Sound, Quiet, searchVars, Fresh, Owning, Work, Beyond
  <2> QED BY <1>5, <2>1, <2>2, QuietKeeps
<1> QED BY <1>4, <1>6, <1>7

\* In-process BEGIN: record and fingerprint in one step.
LEMMA InProcessKeeps ==
  ASSUME IdempotencyInv, NEW r \in Requests, BeginInProcess(r), distributed' = distributed
  PROVE  IdempotencyInv'
<1>1. PICK old \in RequestRecord : old = request[r] /\ Sound(r, old) /\ old.pc = "get"
  BY DEF IdempotencyInv, BeginInProcess, At
<1>2. /\ ~distributed /\ old.token = r /\ KeyInv /\ record \in StoredRecord
      /\ UNCHANGED <<searchVars, faults, expiries, freed>>
      /\ faults' \in 0..MaxFaults /\ faults' >= faults
  BY <1>1, FaultCounts DEF BeginInProcess, Sound, Fresh, IdempotencyInv, SharedTypes
<1>3. CASE record.state # "none"
  <2>1. Existing(r, "recover", "replay") /\ UNCHANGED record /\ fingerprint' = fingerprint
    BY <1>2, <1>3 DEF BeginInProcess, KeyInv, Anchored
  <2>2. PICK q : /\ Moved(r, q)
                 /\ \/ Sound(r, q)'
                    \/ /\ q.body = old.body /\ record.body = q.body
                       /\ \/ record.state = "pending" /\ q.pc = "recover" /\ q.token = record.token
                          \/ record.state = "done" /\ q.pc = "replay" /\ q.token = old.token
    <3>1. "recover" \in PC /\ "replay" \in PC
      BY DEF PC
    <3>2. record.state # "pending" => record.state = "done"
      BY <1>2, <1>3 DEF StoredRecord
    <3> QED
      BY <1>1, <1>2, <2>1, <3>1, <3>2, ExistingMoves, SMTT(30)
  <2>3. Quiet /\ Accepts(r)
    <3>1. accepted' = accepted
      BY <2>1, ExistingMoves DEF PC
    <3> QED BY <1>2, <2>1, <3>1 DEF Quiet, Accepts
  <2>4. Sound(r, q)'
    BY <1>1, <1>2, <1>3, <2>2, <2>3
    DEF Sound, KeyInv, Anchored, Quiet, searchVars, Kept, Fresh, Owning, Work, Beyond, Untroubled
  <2> QED BY <2>2, <2>3, <2>4, QuietKeeps
<1>4. CASE record.state = "none" /\ fingerprint # NoBody /\ ~FingerprintMatches(r)
  <2>1. Quiet /\ Accepts(r) /\ Return(r)
    BY <1>2, <1>4 DEF BeginInProcess, Answer, Quiet, Accepts
  <2> QED BY <2>1, ReturnMoves, QuietKeeps
<1>5. CASE record.state = "none" /\ (fingerprint = NoBody \/ FingerprintMatches(r))
  <2>1. /\ record' = Claimed(r) /\ fingerprint' = old.body /\ Goto(r, "start") /\ accepted' = accepted
        /\ fingerprint = NoBody \/ fingerprint' = fingerprint
    BY <1>1, <1>5 DEF BeginInProcess, FingerprintMatches
  <2>2. PICK q : Moved(r, q) /\ q.pc = "start" /\ q.body = old.body /\ q.token = old.token
    BY <1>1, <2>1, GotoMoves DEF PC
  <2>3. record'.state = "pending" /\ record'.body = old.body /\ record'.token = r
    BY <1>1, <2>1 DEF Claimed
  <2>4. Sound(r, q)'
    BY <1>2, <2>1, <2>2, <2>3 DEF Sound, Fresh, Owning, Work, Beyond
  <2> QED BY <1>1, <1>2, <1>5, <2>1, <2>2, <2>4, ClaimKeeps
<1> QED BY <1>3, <1>4, <1>5

\* BEGIN ended by a Redis error, whose SETNX may have been applied.
LEMMA BeginFailedKeeps ==
  ASSUME IdempotencyInv, NEW r \in Requests, BeginFailed(r), distributed' = distributed
  PROVE  IdempotencyInv'
<1>1. PICK old \in RequestRecord : old = request[r] /\ Sound(r, old)
  BY DEF IdempotencyInv
<1>2. PICK q : Moved(r, q) /\ Sound(r, q)'
  BY ReturnMoves DEF BeginFailed, Answer
<1>3. /\ faults' \in 0..MaxFaults /\ faults' >= faults
      /\ UNCHANGED <<searchVars, accepted, expiries, freed>>
  BY FaultCounts DEF BeginFailed, StateFault, Answer
<1>4. CASE UNCHANGED <<record, fingerprint>>
  BY <1>2, <1>3, <1>4, QuietKeeps DEF Quiet, Accepts
<1>5. CASE SetFingerprintIfAbsent(r) /\ UNCHANGED record
  BY <1>2, <1>3, <1>5, FingerprintKeeps
<1>6. CASE At(r, "claim") /\ record.state = "none" /\ record' = Claimed(r) /\ UNCHANGED fingerprint
  <2>1. Anchored => fingerprint' = old.body
    BY <1>1, <1>6 DEF At, Anchored, Sound, Beyond
  <2> QED BY <1>1, <1>2, <1>3, <1>6, <2>1, ClaimKeeps
<1> QED BY <1>4, <1>5, <1>6 DEF BeginFailed

-----------------------------------------------------------------------------
(* The orchestrator call and what follows it.                              *)

\* A POST that moves while searches and owner entries come and go.
LEMMA SearchesKeep ==
  ASSUME IdempotencyInv, NEW r \in Requests, NEW q, Moved(r, q), Sound(r, q)',
         UNCHANGED <<distributed, record, fingerprint, accepted, deleting, deleted, expiries, freed>>,
         owned \subseteq owned', owned' \subseteq Bodies, upstream' \subseteq Bodies \ Rejected,
         faults' \in 0..MaxFaults, faults' >= faults
  PROVE  IdempotencyInv'
<1>1. expiries \in 0..MaxExpiries
  BY DEF IdempotencyInv, SharedTypes
<1>2. Grows
  BY <1>1, IdempotencyAssumption DEF Grows, Kept, Anchored
<1>3. KeyInv'
  <2>1. KeyInv /\ (Anchored' => Anchored) /\ Kept \subseteq Kept'
    BY DEF IdempotencyInv, Anchored, Kept
  <2>2. upstream' \cap Rejected = {}
    OBVIOUS
  <2> QED BY <1>2, <2>1, <2>2, KeyStaysSound DEF KeyInv, Accepts
<1>4. SharedTypes'
  BY <1>1 DEF IdempotencyInv, SharedTypes
<1> QED BY <1>2, <1>3, <1>4, MoveKeeps

\* What startSearch does when it finds a claim in progress or a completed
\* record, and when the orchestrator refuses the body.
LEMMA LookupsKeep ==
  ASSUME IdempotencyInv, NEW r \in Requests, Recover(r) \/ Replay(r) \/ StartRejected(r),
         distributed' = distributed
  PROVE  IdempotencyInv'
<1>1. PICK old \in RequestRecord : old = request[r] /\ Sound(r, old)
  BY DEF IdempotencyInv
<1>2. faults' \in 0..MaxFaults /\ faults' >= faults
      /\ UNCHANGED <<record, fingerprint, searchVars, expiries, freed>>
  BY FaultCounts DEF Recover, Replay, StartRejected, NoFault
<1>3. Quiet
  BY <1>2 DEF Quiet
<1>4. CASE Return(r)
  <2>1. accepted' = accepted \/ (accepted' = accepted \cup {request[r].body} /\ request[r].pc = "replay")
    BY DEF Recover, Replay, StartRejected, Answer, AnswerAccepted, At
  <2> QED BY <1>3, <1>4, <2>1, ReturnMoves, QuietKeeps DEF Accepts
<1>5. CASE Recover(r) /\ old.body \in upstream /\ Goto(r, "own") /\ UNCHANGED accepted
  <2>1. old.pc = "recover" /\ old.body \notin Rejected
    BY <1>1, <1>5 DEF Recover, At, IdempotencyInv, KeyInv
  <2>2. PICK q : Moved(r, q) /\ q.pc = "own" /\ q.body = old.body /\ q.token = old.token
    BY <1>1, <1>5, GotoMoves DEF PC
  <2>3. Sound(r, q)'
    BY <1>1, <1>2, <2>1, <2>2, OthersStaySound
    DEF Sound, searchVars, Fresh, Owning, Work, Beyond, Untroubled, IdempotencyInv, SharedTypes
  <2> QED BY <1>3, <1>5, <2>2, <2>3, QuietKeeps DEF Accepts
<1>6. CASE StartRejected(r)
  <2>1. old.pc = "start" /\ old.body \in Rejected /\ old.token = r /\ Goto(r, "forget") /\ accepted' = accepted
    BY <1>1, <1>6 DEF StartRejected, At, Sound, Fresh
  <2>2. PICK q : Moved(r, q) /\ q.pc = "forget" /\ q.body = old.body /\ q.token = old.token
    BY <1>1, <2>1, GotoMoves DEF PC
  <2>3. Sound(r, q)'
    BY <1>1, <1>2, <2>1, <2>2 DEF Sound, searchVars, Fresh, Owning, Work, Beyond
  <2> QED BY <1>3, <2>1, <2>2, <2>3, QuietKeeps DEF Accepts
<1> QED BY <1>1, <1>4, <1>5, <1>6 DEF Recover, Replay, Answer, AnswerAccepted

\* The start of the search, answered or not.
LEMMA StartsKeep ==
  ASSUME IdempotencyInv, NEW r \in Requests, StartSearch(r) \/ StartFailed(r),
         distributed' = distributed
  PROVE  IdempotencyInv'
<1>1. PICK old \in RequestRecord : old = request[r] /\ Sound(r, old) /\ old.pc = "start"
  BY DEF IdempotencyInv, StartSearch, StartFailed, At
<1>2. faults' \in 0..MaxFaults /\ faults' >= faults
      /\ UNCHANGED <<record, fingerprint, owned, deleting, deleted, accepted, expiries, freed>>
  BY FaultCounts DEF StartSearch, StartFailed, Answer
<1>3. upstream' \subseteq Bodies \ Rejected /\ owned' \subseteq Bodies
  BY <1>1, <1>2 DEF StartSearch, StartFailed, IdempotencyInv, SharedTypes, KeyInv, RequestRecord
<1>4. CASE Return(r)
  BY <1>2, <1>3, <1>4, ReturnMoves, SearchesKeep
<1>5. CASE Goto(r, "own") /\ old.body \notin Rejected
  <2>1. PICK q : Moved(r, q) /\ q.pc = "own" /\ q.body = old.body /\ q.token = old.token
    BY <1>1, <1>5, GotoMoves DEF PC
  <2>2. Untroubled' => Untroubled
    BY <1>2, IdempotencyAssumption DEF Untroubled, IdempotencyInv, SharedTypes
  <2>3. Sound(r, q)'
    BY <1>1, <1>2, <1>5, <2>1, <2>2 DEF Sound, Fresh, Owning, Work, Beyond
  <2> QED BY <1>2, <1>3, <2>1, <2>3, SearchesKeep
<1> QED BY <1>1, <1>3, <1>4, <1>5 DEF StartSearch, StartFailed, Answer

\* The owner entry is stored, or not, and the search undone.
LEMMA OwnersKeep ==
  ASSUME IdempotencyInv, NEW r \in Requests, SetOwner(r) \/ SetOwnerFailed(r) \/ UndoStart(r),
         distributed' = distributed
  PROVE  IdempotencyInv'
<1>1. PICK old \in RequestRecord : old = request[r] /\ Sound(r, old)
  BY DEF IdempotencyInv
<1>2. faults' \in 0..MaxFaults /\ faults' >= faults
      /\ UNCHANGED <<record, fingerprint, deleting, deleted, accepted, expiries, freed>>
  BY FaultCounts DEF SetOwner, SetOwnerFailed, StateFault, UndoStart, Answer, NoFault
<1>3. /\ upstream' \subseteq Bodies \ Rejected
      /\ owned \subseteq owned' /\ owned' \subseteq Bodies
  BY <1>1 DEF SetOwner, SetOwnerFailed, UndoStart, IdempotencyInv, SharedTypes, KeyInv, RequestRecord
<1>4. Untroubled' => Untroubled
  BY <1>2, IdempotencyAssumption DEF Untroubled, IdempotencyInv, SharedTypes
<1>5. CASE SetOwner(r)
  <2>1. old.pc = "own" /\ Goto(r, "complete") /\ old.body \in owned'
    BY <1>1, <1>5 DEF SetOwner, At
  <2>2. PICK q : Moved(r, q) /\ q.pc = "complete" /\ q.body = old.body /\ q.token = old.token
    BY <1>1, <2>1, GotoMoves DEF PC
  <2>3. Sound(r, q)'
    BY <1>1, <1>2, <1>4, <2>1, <2>2 DEF Sound, Kept, Fresh, Owning, Work, Beyond
  <2> QED BY <1>2, <1>3, <2>2, <2>3, SearchesKeep
<1>6. CASE SetOwnerFailed(r)
  <2>1. old.pc = "own" /\ Goto(r, "undo") /\ distributed /\ faults' # 0
    BY <1>1, <1>6, FaultCounts DEF SetOwnerFailed, At, StateFault
  <2>2. PICK q : Moved(r, q) /\ q.pc = "undo" /\ q.body = old.body /\ q.token = old.token
    BY <1>1, <2>1, GotoMoves DEF PC
  <2>3. Sound(r, q)'
    BY <1>1, <1>2, <2>1, <2>2 DEF Sound, Fresh, Owning, Work, Beyond
  <2> QED BY <1>2, <1>3, <2>2, <2>3, SearchesKeep
<1>7. CASE UndoStart(r)
  <2>1. old.pc = "undo" /\ faults # 0 /\ distributed
    BY <1>1, <1>7 DEF UndoStart, At, Sound, IdempotencyInv, SharedTypes
  <2>2. CASE Return(r)
    BY <1>2, <1>3, <2>2, ReturnMoves, SearchesKeep
  <2>3. CASE Goto(r, "forget")
    <3>1. PICK q : Moved(r, q) /\ q.pc = "forget" /\ q.body = old.body /\ q.token = old.token
      BY <1>1, <2>3, GotoMoves DEF PC
    <3>2. faults' # 0
      BY <1>2, <2>1, IdempotencyAssumption DEF IdempotencyInv, SharedTypes
    <3>3. Sound(r, q)'
      BY <1>1, <1>2, <2>1, <3>1, <3>2 DEF Sound, Fresh, Owning, Work, Beyond
    <3> QED BY <1>2, <1>3, <3>1, <3>3, SearchesKeep
  <2> QED BY <1>7, <2>2, <2>3 DEF UndoStart, Answer
<1> QED BY <1>5, <1>6, <1>7

\* FORGET: where an anchor counts it deletes only a refused body's.
LEMMA ForgetKeeps ==
  ASSUME IdempotencyInv, NEW r \in Requests, ForgetIdempotency(r), distributed' = distributed
  PROVE  IdempotencyInv'
<1>1. PICK old \in RequestRecord : old = request[r] /\ Sound(r, old) /\ old.pc = "forget"
  BY DEF IdempotencyInv, ForgetIdempotency, At
<1>2. PICK q : Moved(r, q) /\ Sound(r, q)'
  BY ReturnMoves DEF ForgetIdempotency, Answer
<1>3. faults' \in 0..MaxFaults /\ faults' >= faults
      /\ UNCHANGED <<searchVars, accepted, expiries>>
  BY FaultCounts DEF ForgetIdempotency, NoFault, StateFault, Answer
<1>4. CASE UNCHANGED <<record, fingerprint, freed>>
  BY <1>2, <1>3, <1>4, QuietKeeps DEF Quiet, Accepts
<1>5. CASE HoldsClaim(r) /\ record' = NoRecord /\ fingerprint' = NoBody /\ freed' = TRUE
  <2>1. expiries \in 0..MaxExpiries /\ record'.state = "none" /\ record' \in StoredRecord
    BY <1>5, Defaults DEF IdempotencyInv, SharedTypes
  <2>2. faults = 0 \/ ~distributed => record.body \in Rejected
    BY <1>1, <1>5 DEF HoldsClaim, Sound
  <2>3. Untroubled' => record.body \in Rejected
    BY <1>3, <2>2, IdempotencyAssumption DEF Untroubled, IdempotencyInv, SharedTypes
  <2>4. Anchored' => fingerprint \in Rejected
    BY <1>5, <2>2 DEF Anchored, HoldsClaim, IdempotencyInv, KeyInv
  <2>5. Grows
    BY <1>3, <1>5, <2>1, <2>3, <2>4, IdempotencyAssumption DEF Grows, searchVars, Kept
  <2>6. KeyInv'
    BY <1>3, <2>1, <2>5, KeyStaysSound DEF IdempotencyInv, KeyInv, searchVars, Accepts
  <2>7. SharedTypes'
    BY <1>3, <1>5, <2>1 DEF IdempotencyInv, SharedTypes, searchVars
  <2> QED BY <1>2, <2>1, <2>5, <2>6, <2>7, MoveKeeps
<1> QED BY <1>4, <1>5 DEF ForgetIdempotency

\* COMPLETE: the claim becomes the answer of every later POST.
LEMMA CompleteKeeps ==
  ASSUME IdempotencyInv, NEW r \in Requests, CompleteIdempotency(r), distributed' = distributed
  PROVE  IdempotencyInv'
<1>1. PICK old \in RequestRecord : old = request[r] /\ Sound(r, old) /\ old.pc = "complete"
  BY DEF IdempotencyInv, CompleteIdempotency, At
<1>2. PICK q : Moved(r, q) /\ Sound(r, q)'
  BY ReturnMoves DEF CompleteIdempotency, AnswerAccepted
<1>3. /\ faults' \in 0..MaxFaults /\ faults' >= faults
      /\ accepted' = accepted \cup {request[r].body} /\ Accepts(r)
      /\ UNCHANGED <<searchVars, expiries, freed>>
  BY <1>1, FaultCounts DEF CompleteIdempotency, NoFault, StateFault, AnswerAccepted, Accepts
<1>4. CASE UNCHANGED <<record, fingerprint>>
  BY <1>2, <1>3, <1>4, QuietKeeps DEF Quiet
<1>5. CASE HoldsClaim(r) /\ record.body = request[r].body
           /\ record' = Completed(r) /\ fingerprint' = request[r].body
  <2>1. /\ record'.state = "done" /\ record'.body = old.body /\ record' \in StoredRecord
        /\ expiries \in 0..MaxExpiries
    <3>1. record \in StoredRecord
      BY DEF IdempotencyInv, SharedTypes
    <3>2. record' = [state |-> "done", body |-> record.body, token |-> record.token]
      BY <1>5, <3>1 DEF Completed, StoredRecord
    <3> QED BY <1>1, <1>5, <3>1, <3>2 DEF StoredRecord, IdempotencyInv, SharedTypes
  <2>2. old.body \in Kept \ Rejected
    BY <1>1 DEF Sound, Owning
  <2>3. Anchored => fingerprint = old.body
    BY <1>1, <1>5 DEF HoldsClaim, IdempotencyInv, KeyInv
  <2>4. Grows
    BY <1>1, <1>3, <1>5, <2>1, <2>3, IdempotencyAssumption DEF Grows, searchVars, Kept, Anchored
  <2>5. KeyInv'
    BY <1>1, <1>3, <1>5, <2>1, <2>2, <2>4, KeyStaysSound DEF IdempotencyInv, KeyInv, searchVars, Kept
  <2>6. SharedTypes'
    BY <1>1, <1>3, <1>5, <2>1 DEF IdempotencyInv, SharedTypes, searchVars, RequestRecord
  <2> QED BY <1>2, <2>1, <2>4, <2>5, <2>6, MoveKeeps
<1> QED BY <1>4, <1>5 DEF CompleteIdempotency

-----------------------------------------------------------------------------
(* The client, the clock and the orchestrator's losses.                    *)

\* A step no POST takes part in, which may take the record away.
LEMMA EnvironmentKeeps ==
  ASSUME IdempotencyInv, Grows, request' = request, accepted' = accepted,
         record' = record \/ (record' \in StoredRecord /\ record'.state = "none"),
         UNCHANGED <<fingerprint, freed>>,
         upstream' \subseteq upstream, owned' \subseteq owned,
         deleting' \subseteq deleted', deleted' \subseteq Bodies
  PROVE  IdempotencyInv'
<1>1. ASSUME NEW s \in Requests, NEW t \in RequestRecord, t = request[s] PROVE Sound(s, t)'
  BY <1>1, OthersStaySound DEF IdempotencyInv
<1>2. (\A s \in Requests : Sound(s, request[s]))'
  BY <1>1 DEF IdempotencyInv
<1>3. PICK r \in Requests : TRUE
  BY IdempotencyAssumption
<1>4. KeyInv /\ (Anchored' => Anchored) /\ Kept \subseteq Kept'
  BY DEF IdempotencyInv, Anchored, Grows
<1>5. KeyInv'
  <2>1. record'.state = "done" => record'.body \in Kept' \ Rejected
    BY <1>4 DEF KeyInv
  <2>2. Anchored' /\ record'.state # "none" => record'.body = fingerprint'
    BY <1>4 DEF KeyInv
  <2>3. upstream' \cap Rejected = {}
    BY <1>4 DEF KeyInv
  <2> QED BY <1>3, <2>1, <2>2, <2>3, KeyStaysSound DEF Accepts
<1>6. SharedTypes'
  BY DEF IdempotencyInv, SharedTypes, Grows
<1> QED BY <1>2, <1>5, <1>6 DEF IdempotencyInv

\* DELETE in its two steps, an expired claim and a forgotten search.
LEMMA OutsideKeeps ==
  ASSUME IdempotencyInv, distributed' = distributed,
         \/ ClaimExpires
         \/ \E b \in Bodies : DeleteSearch(b) \/ DeleteOwner(b) \/ UpstreamForgets(b)
  PROVE  IdempotencyInv'
<1>1. /\ expiries \in 0..MaxExpiries /\ faults \in 0..MaxFaults /\ deleting \subseteq deleted
      /\ owned \subseteq Bodies /\ deleted \subseteq Bodies
  BY DEF IdempotencyInv, SharedTypes, KeyInv
<1>2. CASE ClaimExpires
  <2>1. expiries' = expiries + 1 /\ expiries' \in 0..MaxExpiries /\ record' = NoRecord
        /\ UNCHANGED <<fingerprint, searchVars, accepted, request, faults, freed>>
    BY <1>1, <1>2, IdempotencyAssumption DEF ClaimExpires
  <2>2. ~Untroubled'
    BY <1>1, <2>1, IdempotencyAssumption DEF Untroubled
  <2>3. Grows
    BY <1>1, <2>1, <2>2, IdempotencyAssumption DEF Grows, searchVars, Kept
  <2> QED BY <1>1, <2>1, <2>3, Defaults, EnvironmentKeeps DEF searchVars
<1>3. ASSUME NEW b \in Bodies, DeleteSearch(b) \/ DeleteOwner(b) \/ UpstreamForgets(b)
      PROVE  IdempotencyInv'
  <2>1. /\ faults' \in 0..MaxFaults /\ faults' >= faults
        /\ UNCHANGED <<record, fingerprint, accepted, request, expiries, freed>>
    BY <1>3, FaultCounts DEF DeleteSearch, DeleteOwner, UpstreamForgets, NoFault, StateFault
  <2>2. /\ upstream' \subseteq upstream /\ owned' \subseteq owned
        /\ deleting' \subseteq deleted' /\ deleted' \subseteq Bodies
        /\ Kept \subseteq Kept'
    BY <1>1, <1>3 DEF DeleteSearch, DeleteOwner, UpstreamForgets, Kept
  <2>3. Grows
    BY <1>1, <2>1, <2>2, IdempotencyAssumption DEF Grows, Untroubled
  <2> QED BY <2>1, <2>2, <2>3, EnvironmentKeeps
<1> QED BY <1>2, <1>3

-----------------------------------------------------------------------------
(* The results.                                                            *)

\* Every step of Next.
LEMMA IdempotencyStep == IdempotencyInv /\ [Next]_vars => IdempotencyInv'
<1> SUFFICES ASSUME IdempotencyInv, [Next]_vars PROVE IdempotencyInv'
  OBVIOUS
<1>1. CASE Next
  <2>1. distributed' = distributed
    BY <1>1 DEF Next
  <2>2. ASSUME NEW r \in Requests, RequestStep(r) PROVE IdempotencyInv'
    BY <2>1, <2>2, ReadsKeep, FingerprintStepsKeep, ClaimStepsKeep, InProcessKeeps, BeginFailedKeeps,
       LookupsKeep, StartsKeep, OwnersKeep, ForgetKeeps, CompleteKeeps DEF RequestStep
  <2>3. ASSUME NEW r \in Requests, NEW b \in Bodies, Post(r, b) PROVE IdempotencyInv'
    BY <2>1, <2>3, PostKeeps
  <2> QED BY <1>1, <2>1, <2>2, <2>3, OutsideKeeps DEF Next
<1>2. CASE UNCHANGED vars
  <2>1. UNCHANGED <<distributed, record, fingerprint, freed, expiries, faults, accepted, request>>
        /\ UNCHANGED searchVars
    BY <1>2 DEF vars, searchVars
  <2>2. SharedTypes' /\ KeyInv'
    BY <2>1 DEF searchVars, IdempotencyInv, SharedTypes, KeyInv, Kept, Anchored, Untroubled
  <2>3. (\A r \in Requests : Sound(r, request[r]))'
    BY <2>1 DEF searchVars, IdempotencyInv, Sound, Kept, Untroubled
  <2> QED BY <2>1, <2>2, <2>3 DEF IdempotencyInv
<1> QED BY <1>1, <1>2

\* The invariant of startSearch and its key holds in every reachable state.
THEOREM IdempotencyInvariant == Spec => []IdempotencyInv
BY IdempotencyInitial, IdempotencyStep, PTL DEF Spec

\* The record, the fingerprint, the ownership map and the POSTs keep their types.
THEOREM IdempotencyTypeCorrect == Spec => []TypeOK
BY IdempotencyInvariant, IdempotencyTyped, PTL

\* A search the client was given, and has not deleted, is one it may read
\* (SetOwner before 202, DeleteOwner only after the DELETE).
THEOREM AcceptedIsOwnedSafe == Spec => []AcceptedIsOwned
<1>1. IdempotencyInv => AcceptedIsOwned
  BY DEF IdempotencyInv, KeyInv, Kept, AcceptedIsOwned
<1> QED BY IdempotencyInvariant, <1>1, PTL

\* One key is accepted for one body as long as no FORGET freed it, or nothing
\* failed and no claim ran out, or BEGIN is in-process.
THEOREM OneBodyUnlessFreedSafe == Spec => []OneBodyUnlessFreed
<1>1. ASSUME IdempotencyInv PROVE OneBodyUnlessFreed
  <2>1. ASSUME NEW b, accepted \subseteq {b} PROVE Cardinality(accepted) <= 1
    <3>1. IsFiniteSet({b}) /\ Cardinality({b}) = 1
      BY FS_Singleton
    <3> QED BY <2>1, <3>1, FS_Subset
  <2>2. Anchored => accepted \subseteq {fingerprint}
    BY <1>1 DEF IdempotencyInv, KeyInv
  <2>3. Untroubled => accepted \subseteq {record.body}
    BY <1>1 DEF IdempotencyInv, KeyInv
  <2> QED BY <2>1, <2>2, <2>3 DEF OneBodyUnlessFreed, Anchored, Untroubled
<1> QED BY IdempotencyInvariant, <1>1, PTL

\* A completed record is final: every write of the record needs it free or
\* pending (SETNX, the guards of the COMPLETE and FORGET scripts).
THEOREM CompletionIsFinalSafe == Spec => CompletionIsFinal
<1>1. ASSUME [Next]_vars, record.state = "done" PROVE record' = record
  <2>1. CASE UNCHANGED vars
    BY <2>1 DEF vars
  <2>2. ASSUME NEW r \in Requests, RequestStep(r) PROVE record' = record
    <3>1. CASE \/ BeginInProcess(r) \/ GetRecord(r) \/ RepairFingerprint(r) \/ MarkFingerprint(r)
               \/ CompareFingerprint(r) \/ ClaimRecord(r) \/ ClaimRetried(r)
      BY <1>1, <3>1 DEF BeginInProcess, GetRecord, RepairFingerprint, MarkFingerprint,
         CompareFingerprint, ClaimRecord, ClaimRetried
    <3>2. CASE RereadRecord(r) \/ BeginFailed(r) \/ Recover(r) \/ Replay(r) \/ StartSearch(r)
      BY <1>1, <3>2 DEF RereadRecord, BeginFailed, Recover, Replay, StartSearch
    <3>3. CASE \/ StartRejected(r) \/ StartFailed(r) \/ SetOwner(r) \/ SetOwnerFailed(r)
               \/ UndoStart(r)
      BY <3>3 DEF StartRejected, StartFailed, SetOwner, SetOwnerFailed, UndoStart
    <3>4. CASE ForgetIdempotency(r) \/ CompleteIdempotency(r)
      BY <1>1, <3>4 DEF ForgetIdempotency, CompleteIdempotency, HoldsClaim
    <3> QED
      BY <2>2, <3>1, <3>2, <3>3, <3>4 DEF RequestStep
  <2>3. ASSUME NEW r \in Requests, NEW b \in Bodies, Post(r, b) PROVE record' = record
    BY <2>3 DEF Post
  <2>4. ASSUME NEW b \in Bodies, DeleteSearch(b) \/ DeleteOwner(b) \/ UpstreamForgets(b)
        PROVE  record' = record
    BY <2>4 DEF DeleteSearch, DeleteOwner, UpstreamForgets
  <2>5. CASE ClaimExpires
    BY <1>1, <2>5 DEF ClaimExpires
  <2> QED
    BY <1>1, <2>1, <2>2, <2>3, <2>4, <2>5 DEF Next
<1>2. [Next]_vars => [record.state = "done" => record' = record]_vars
  BY <1>1
<1> QED BY <1>2, PTL DEF Spec, CompletionIsFinal

-----------------------------------------------------------------------------
(* Sums over the calls that passed.                                        *)

\* A call and its place among those of its tick: as many as f counts.
Units(f, s) == UNION {{t} \X (1..f[t]) : t \in s}

\* There are finitely many, if f counts natural numbers.
LEMMA UnitsFinite ==
  ASSUME NEW s, IsFiniteSet(s), NEW f, \A t \in s : f[t] \in Nat
  PROVE  IsFiniteSet(Units(f, s))
<1> DEFINE Layer == [t \in s |-> {t} \X (1..f[t])]
           Layers == {{t} \X (1..f[t]) : t \in s}
<1>1. Layer \in Surjection(s, Layers)
  BY DEF Surjection
<1>2. IsFiniteSet(Layers)
  BY <1>1, FS_Surjection
<1>3. ASSUME NEW t \in s
      PROVE  IsFiniteSet({t} \X (1..f[t]))
  <2>1. f[t] \in Int
    OBVIOUS
  <2>2. IsFiniteSet(1..f[t])
    BY <2>1, FS_Interval
  <2>3. IsFiniteSet({t})
    BY FS_Singleton
  <2> QED
    BY <2>2, <2>3, FS_Product
<1>4. \A T \in Layers : IsFiniteSet(T)
  BY <1>3
<1> HIDE DEF Layers
<1>5. IsFiniteSet(UNION Layers)
  BY <1>2, <1>4, FS_UNION
<1> QED
  BY <1>5 DEF Layers, Units

\* One tick more adds what f counts for it.
LEMMA UnitsAdded ==
  ASSUME NEW s, IsFiniteSet(s), NEW x, x \notin s, NEW f,
         \A t \in s \cup {x} : f[t] \in Nat
  PROVE  Cardinality(Units(f, s \cup {x})) = f[x] + Cardinality(Units(f, s))
<1> DEFINE Layer == {x} \X (1..f[x])
<1>1. Units(f, s \cup {x}) = Layer \cup Units(f, s) /\ Layer \cap Units(f, s) = {}
  BY DEF Units
<1>2. IsFiniteSet(Units(f, s))
  BY UnitsFinite
<1>3. IsFiniteSet({x}) /\ Cardinality({x}) = 1
  BY FS_Singleton
<1>4. f[x] \in Nat
  OBVIOUS
<1>5. IsFiniteSet(1..f[x]) /\ Cardinality(1..f[x]) = f[x]
  <2>1. 1 \in Int /\ f[x] \in Int
    BY <1>4
  <2>2. IsFiniteSet(1..f[x]) /\ Cardinality(1..f[x]) = IF 1 > f[x] THEN 0 ELSE f[x] - 1 + 1
    BY <2>1, FS_Interval, Zenon
  <2> QED
    BY <1>4, <2>2
<1>6. IsFiniteSet(Layer) /\ Cardinality(Layer) = Cardinality({x}) * Cardinality(1..f[x])
  BY <1>3, <1>5, FS_Product
<1>7. Cardinality(Layer) = f[x]
  BY <1>3, <1>4, <1>5, <1>6
<1> HIDE DEF Layer
<1>8. Cardinality(Layer \cup Units(f, s)) =
        Cardinality(Layer) + Cardinality(Units(f, s)) - Cardinality(Layer \cap Units(f, s))
  BY <1>2, <1>6, FS_Union
<1>9. Cardinality(Units(f, s)) \in Nat
  BY <1>2, FS_CardinalityType
<1>10. Cardinality(Layer \cap Units(f, s)) = 0
  BY <1>1, FS_EmptySet
<1>11. Cardinality(Units(f, s \cup {x})) = Cardinality(Layer \cup Units(f, s))
  BY <1>1, Zenon
<1> QED
  BY <1>4, <1>7, <1>8, <1>9, <1>10, <1>11

\* FoldFunctionOnSet adds f up, in whatever order it takes the indices: its
\* recursion has one solution, the number of the units.
LEMMA SumCountsUnits ==
  ASSUME NEW S, IsFiniteSet(S), NEW f, \A t \in S : f[t] \in Nat
  PROVE  FoldFunctionOnSet(+, 0, f, S) = Cardinality(Units(f, S))
<1> DEFINE Pick(s) == CHOOSE x \in s : TRUE
           Solves(h) == h = [s \in SUBSET S |->
                               IF s = {} THEN 0 ELSE f[Pick(s)] + h[s \ {Pick(s)}]]
           h == CHOOSE g : Solves(g)
           g == [s \in SUBSET S |-> Cardinality(Units(f, s))]
<1>1. FoldFunctionOnSet(+, 0, f, S) = h[S]
  BY DEF FoldFunctionOnSet, MapThenFoldSet
<1>2. Cardinality(Units(f, {})) = 0
  BY FS_EmptySet DEF Units
<1>3. ASSUME NEW s \in SUBSET S, s # {}
      PROVE  Pick(s) \in s /\ Cardinality(Units(f, s)) = f[Pick(s)] + Cardinality(Units(f, s \ {Pick(s)}))
  <2>1. PICK x : x = Pick(s)
    OBVIOUS
  <2>2. x \in s
    BY <1>3, <2>1
  <2>3. IsFiniteSet(s \ {x}) /\ (s \ {x}) \cup {x} = s
    BY <2>2, FS_Subset
  <2>4. Cardinality(Units(f, (s \ {x}) \cup {x})) = f[x] + Cardinality(Units(f, s \ {x}))
    BY <2>2, <2>3, UnitsAdded
  <2> QED
    BY <2>1, <2>2, <2>3, <2>4
<1> HIDE DEF Pick
<1>4. Solves(g)
  <2> DEFINE Right == [s \in SUBSET S |-> IF s = {} THEN 0 ELSE f[Pick(s)] + g[s \ {Pick(s)}]]
  <2>1. ASSUME NEW s \in SUBSET S
        PROVE  g[s] = Right[s]
    <3>1. CASE s = {}
      BY <1>2, <3>1
    <3>2. CASE s # {}
      BY <1>3, <3>2
    <3> QED
      BY <3>1, <3>2
  <2> QED
    BY <2>1
<1>5. Solves(h)
  BY <1>4
<1>6. \A s \in SUBSET S : h[s] = IF s = {} THEN 0 ELSE f[Pick(s)] + h[s \ {Pick(s)}]
  BY <1>5
<1> HIDE DEF h, g
<1> DEFINE Wrong == {s \in SUBSET S : h[s] # Cardinality(Units(f, s))}
<1>7. Wrong = {}
  <2> SUFFICES ASSUME Wrong # {}
               PROVE  FALSE
    OBVIOUS
  <2>1. IsWellFoundedOn(StrictSubsetOrdering(S), SUBSET S)
    BY FS_FiniteSubsetsOfFinite, FS_StrictSubsetOrderingWellFounded
  <2>2. PICK s \in Wrong : \A u \in Wrong : ~(<<u, s>> \in StrictSubsetOrdering(S))
    <3>1. Wrong \subseteq SUBSET S
      OBVIOUS
    <3> HIDE DEF Wrong
    <3> QED
      BY <2>1, <3>1, WFMin
  <2>3. s # {}
    BY <1>2, <1>6, <2>2
  <2>4. Pick(s) \in s /\ s \in SUBSET S
    BY <1>3, <2>2, <2>3
  <2>5. <<s \ {Pick(s)}, s>> \in StrictSubsetOrdering(S)
    BY <2>4 DEF StrictSubsetOrdering
  <2>6. h[s \ {Pick(s)}] = Cardinality(Units(f, s \ {Pick(s)}))
    BY <2>2, <2>4, <2>5
  <2>7. h[s] = f[Pick(s)] + h[s \ {Pick(s)}]
    BY <1>6, <2>3, <2>4
  <2> QED
    BY <1>3, <2>2, <2>3, <2>4, <2>6, <2>7
<1> QED
  BY <1>1, <1>7

\* A set of numbers has a least one.
LEMMA LeastNumber ==
  ASSUME NEW T, T \subseteq Nat, T # {}
  PROVE  \E m \in T : \A n \in T : m <= n
<1> DEFINE R == OpToRel(<, Nat)
<1>1. IsWellFoundedOn(R, Nat)
  BY NatLessThanWellFounded
<1>2. \A m, n \in Nat : <<n, m>> \in R <=> n < m
  BY DEF OpToRel
<1> HIDE DEF R
<1>3. PICK m \in T : \A n \in T : ~(<<n, m>> \in R)
  BY <1>1, WFMin
<1>4. \A n \in T : ~(n < m)
  BY <1>2, <1>3
<1> QED
  BY <1>4

-----------------------------------------------------------------------------
(* The calls that passed in the last n ticks.                              *)

SumTo(f, n) == FoldFunctionOnSet(+, 0, f, 1..n)

\* The sum of no tick is zero, and each adds what was counted in it.
LEMMA SumToIsSum ==
  ASSUME NEW w \in Nat, NEW f \in [1..w -> Nat]
  PROVE  /\ SumTo(f, 0) = 0
         /\ \A n \in 1..w : SumTo(f, n) = f[n] + SumTo(f, n - 1)
         /\ \A n \in 0..w : SumTo(f, n) \in Nat
<1>1. ASSUME NEW n \in 0..w
      PROVE  SumTo(f, n) = Cardinality(Units(f, 1..n)) /\ SumTo(f, n) \in Nat
  <2>1. n \in Int /\ \A t \in 1..n : f[t] \in Nat
    OBVIOUS
  <2>2. IsFiniteSet(1..n)
    BY <2>1, FS_Interval
  <2>3. SumTo(f, n) = Cardinality(Units(f, 1..n))
    BY <2>1, <2>2, SumCountsUnits DEF SumTo
  <2>4. IsFiniteSet(Units(f, 1..n))
    BY <2>1, <2>2, UnitsFinite
  <2> QED
    BY <2>3, <2>4, FS_CardinalityType
<1>2. SumTo(f, 0) = 0
  <2>1. Units(f, 1..0) = {}
    BY DEF Units
  <2>2. SumTo(f, 0) = Cardinality(Units(f, 1..0))
    BY <1>1
  <2> QED
    BY <2>1, <2>2, FS_EmptySet
<1>3. ASSUME NEW n \in 1..w
      PROVE  SumTo(f, n) = f[n] + SumTo(f, n - 1)
  <2>1. PICK p : p = n - 1
    OBVIOUS
  <2>2. /\ p \in 0..w /\ p \in Int /\ n \in 0..w
        /\ 1..n = (1..p) \cup {n} /\ n \notin 1..p
        /\ \A t \in (1..p) \cup {n} : f[t] \in Nat
    BY <2>1
  <2>3. IsFiniteSet(1..p)
    BY <2>2, FS_Interval
  <2>4. Cardinality(Units(f, (1..p) \cup {n})) = f[n] + Cardinality(Units(f, 1..p))
    BY <2>2, <2>3, UnitsAdded
  <2> QED
    BY <1>1, <2>1, <2>2, <2>4
<1> QED
  BY <1>1, <1>2, <1>3

\* More ticks hold no fewer calls.
LEMMA SumToMonotone ==
  ASSUME NEW w \in Nat, NEW f \in [1..w -> Nat], NEW m \in 0..w, NEW n \in 0..w, m <= n
  PROVE  SumTo(f, m) <= SumTo(f, n)
<1> DEFINE Wrong == {k \in m..w : SumTo(f, m) > SumTo(f, k)}
<1>1. Wrong = {}
  <2> SUFFICES ASSUME Wrong # {}
               PROVE  FALSE
    OBVIOUS
  <2>1. Wrong \subseteq Nat
    OBVIOUS
  <2>2. PICK k \in Wrong : \A l \in Wrong : k <= l
    <3> HIDE DEF Wrong
    <3> QED
      BY <2>1, LeastNumber
  <2>3. k \in 1..w /\ k - 1 \in m..w
    <3>1. k \in m..w /\ SumTo(f, m) > SumTo(f, k) /\ SumTo(f, m) \in Nat
      BY <2>2, SumToIsSum
    <3>2. k # m
      BY <3>1
    <3> QED
      BY <3>1, <3>2
  <2>4. k - 1 \notin Wrong
    BY <2>2
  <2>5. SumTo(f, m) <= SumTo(f, k - 1)
    <3>1. k - 1 \in m..w /\ m \in 0..w /\ k - 1 \in 0..w
      BY <2>3
    <3>2. SumTo(f, m) \in Nat /\ SumTo(f, k - 1) \in Nat
      BY <3>1, SumToIsSum
    <3>3. ~(SumTo(f, m) > SumTo(f, k - 1))
      BY <2>4, <3>1
    <3> QED
      BY <3>2, <3>3
  <2>6. SumTo(f, k) = f[k] + SumTo(f, k - 1) /\ f[k] \in Nat
    BY <2>3, SumToIsSum
  <2>7. SumTo(f, m) \in Nat /\ SumTo(f, k - 1) \in Nat /\ SumTo(f, k) \in Nat
    <3>1. m \in 0..w /\ k - 1 \in 0..w /\ k \in 0..w
      BY <2>3
    <3> QED
      BY <3>1, SumToIsSum
  <2>8. SumTo(f, m) > SumTo(f, k)
    BY <2>2
  <2> QED
    BY <2>5, <2>6, <2>7, <2>8
<1>2. SumTo(f, m) \in Nat /\ SumTo(f, n) \in Nat
  BY SumToIsSum
<1>3. n \notin Wrong /\ n \in m..w
  BY <1>1
<1> QED
  BY <1>2, <1>3

\* Time moves the counts by one tick and begins a new one.
Shifted(w, f) == [t \in 1..w |-> IF t = 1 THEN 0 ELSE f[t - 1]]

\* A sum after the tick is the one before it, of one tick less.
LEMMA SumToShifted ==
  ASSUME NEW w \in Nat, NEW f \in [1..w -> Nat]
  PROVE  /\ Shifted(w, f) \in [1..w -> Nat]
         /\ \A n \in 1..w : SumTo(Shifted(w, f), n) = SumTo(f, n - 1)
<1> DEFINE g == Shifted(w, f)
<1>1. /\ g \in [1..w -> Nat]
      /\ \A t \in 1..w : g[t] = IF t = 1 THEN 0 ELSE f[t - 1]
  BY DEF Shifted
<1> HIDE DEF g
<1> DEFINE Wrong == {n \in 1..w : SumTo(g, n) # SumTo(f, n - 1)}
<1>2. Wrong = {}
  <2> SUFFICES ASSUME Wrong # {}
               PROVE  FALSE
    OBVIOUS
  <2>1. Wrong \subseteq Nat
    OBVIOUS
  <2>2. PICK n \in Wrong : \A k \in Wrong : n <= k
    <3> HIDE DEF Wrong
    <3> QED
      BY <2>1, LeastNumber
  <2>3. SumTo(g, n) = g[n] + SumTo(g, n - 1) /\ n \in 1..w
    BY <1>1, <2>2, SumToIsSum
  <2>4. CASE n = 1
    <3>1. SumTo(g, 0) = 0 /\ SumTo(f, 0) = 0 /\ g[1] = 0
      BY <1>1, <2>3, <2>4, SumToIsSum
    <3> QED
      BY <2>2, <2>3, <2>4, <3>1
  <2>5. CASE n # 1
    <3>1. n - 1 \in 1..w /\ n - 1 \notin Wrong
      BY <2>2, <2>5
    <3>2. SumTo(g, n - 1) = SumTo(f, (n - 1) - 1)
      BY <3>1
    <3>3. SumTo(f, n - 1) = f[n - 1] + SumTo(f, (n - 1) - 1)
      BY <3>1, SumToIsSum
    <3>4. g[n] = f[n - 1]
      BY <1>1, <2>3, <2>5
    <3> QED
      BY <2>2, <2>3, <3>2, <3>3, <3>4
  <2> QED
    BY <2>4, <2>5
<1> QED
  BY <1>1, <1>2 DEF g

\* A call that passes counts for this tick, and so in every sum.
OneMore(w, f) == [t \in 1..w |-> IF t = 1 THEN f[1] + 1 ELSE f[t]]

\* Every sum that includes this tick grows by the call.
LEMMA SumToPassed ==
  ASSUME NEW w \in Nat \ {0}, NEW f \in [1..w -> Nat], NEW g, g = OneMore(w, f)
  PROVE  /\ g \in [1..w -> Nat]
         /\ \A n \in 1..w : SumTo(g, n) = SumTo(f, n) + 1
<1>1. /\ g \in [1..w -> Nat] /\ 1 \in 1..w
      /\ \A t \in 1..w : g[t] = IF t = 1 THEN f[1] + 1 ELSE f[t]
  BY DEF OneMore
<1> DEFINE Wrong == {n \in 1..w : SumTo(g, n) # SumTo(f, n) + 1}
<1>2. Wrong = {}
  <2> SUFFICES ASSUME Wrong # {}
               PROVE  FALSE
    OBVIOUS
  <2>1. Wrong \subseteq Nat
    OBVIOUS
  <2>2. PICK n \in Wrong : \A k \in Wrong : n <= k
    <3> HIDE DEF Wrong
    <3> QED
      BY <2>1, LeastNumber
  <2>3. n \in 1..w /\ n - 1 \in 0..w
    BY <2>2
  <2>4. SumTo(g, n) = g[n] + SumTo(g, n - 1)
    BY <1>1, <2>3, SumToIsSum
  <2>5. SumTo(f, n) = f[n] + SumTo(f, n - 1)
    BY <2>3, SumToIsSum
  <2>6. SumTo(f, n - 1) \in Nat /\ f[n] \in Nat
    BY <2>3, SumToIsSum
  <2>7. CASE n = 1
    <3>1. SumTo(g, 0) = 0 /\ SumTo(f, 0) = 0 /\ g[1] = f[1] + 1
      BY <1>1, SumToIsSum
    <3> QED
      BY <2>2, <2>4, <2>5, <2>6, <2>7, <3>1
  <2>8. CASE n # 1
    <3>1. n - 1 \in 1..w /\ n - 1 \notin Wrong
      <4>1. n - 1 \in 1..w
        BY <2>3, <2>8
      <4>2. ~(n <= n - 1)
        BY <2>3
      <4> QED
        BY <2>2, <4>1, <4>2
    <3>2. SumTo(g, n - 1) = SumTo(f, n - 1) + 1
      BY <3>1
    <3>3. g[n] = f[n]
      BY <1>1, <2>3, <2>8
    <3> QED
      BY <2>2, <2>4, <2>5, <2>6, <3>2, <3>3
  <2> QED
    BY <2>7, <2>8
<1> QED
  BY <1>1, <1>2

-----------------------------------------------------------------------------
(* A counter and the calls that passed under it.                           *)

Least(a, b) == IF a <= b THEN a ELSE b

MeterRecord == [count: 0..(Limit + 1), left: 0..Window]

\* Ticks since the window of a counter began.
Age(m) == Window - m.left

\* What a counter m stands for, if of the last h ticks every call that passed
\* charged it, f of them in each tick, and b calls have charged it that have
\* not passed yet.  Calls of its own window it has counted; those from after
\* its first tick it has counted besides the one it began with; and before its
\* window at most a limit passed less one.
MeterSound(m, h, f, b) ==
  /\ m.count = 0 <=> m.left = 0
  /\ m.count = 0 => /\ b = 0
                    /\ h >= 1 => f[1] = 0
                    /\ SumTo(f, h) <= Limit - 1
  /\ m.count > 0 =>
       /\ SumTo(f, Least(h, Age(m) + 1)) + b <= Least(m.count, Limit)
       /\ Age(m) >= 1 => SumTo(f, Least(h, Age(m))) + b <= Least(m.count, Limit) - 1
       /\ SumTo(f, h) - SumTo(f, Least(h, Age(m) + 1)) <= Limit - 1

\* Every limit and the window are positive (config.go refuses others).
LEMMA LimitPositive ==
  ASSUME watched \in Scope
  PROVE  Limit \in Nat \ {0} /\ Window \in Nat \ {0}
BY DoorAssumption DEF Limit

\* The cap of a counter, as arithmetic.
LEMMA MinIsLeast ==
  ASSUME NEW a \in Nat, NEW b \in Nat
  PROVE  Min({a, b}) = Least(a, b)
<1>1. CASE a <= b
  <2>1. \A x \in {a, b} : (\A y \in {a, b} : x <= y) <=> x = a
    BY <1>1
  <2> QED
    BY <1>1, <2>1 DEF Min, Least
<1>2. CASE ~(a <= b)
  <2>1. \A x \in {a, b} : (\A y \in {a, b} : x <= y) <=> x = b
    BY <1>2
  <2> QED
    BY <1>2, <2>1 DEF Min, Least
<1> QED
  BY <1>1, <1>2

\* The sums of a sound meter, as numbers.
LEMMA MeterSums ==
  ASSUME watched \in Scope, NEW m \in MeterRecord, NEW h \in 0..Window,
         NEW f \in [1..Window -> Nat], m.count > 0, m.left > 0
  PROVE  /\ Least(h, Age(m) + 1) \in 0..Window /\ Least(h, Age(m)) \in 0..Window
         /\ SumTo(f, h) \in Nat
         /\ SumTo(f, Least(h, Age(m) + 1)) \in Nat
         /\ SumTo(f, Least(h, Age(m))) \in Nat
         /\ Age(m) \in 0..(Window - 1)
         /\ Least(h, 1) \in 0..Window
<1>1. Window \in Nat /\ Window >= 1
  BY LimitPositive
<1>2. m.left \in 1..Window
  BY <1>1 DEF MeterRecord
<1>3. Age(m) \in 0..(Window - 1)
  BY <1>1, <1>2 DEF Age
<1>4. Least(h, Age(m) + 1) \in 0..Window /\ Least(h, Age(m)) \in 0..Window /\ Least(h, 1) \in 0..Window
  BY <1>1, <1>3 DEF Least
<1> QED
  BY <1>1, <1>3, <1>4, SumToIsSum

\* A counter that has begun holds one call of the first tick, whatever is in it.
LEMMA FirstTickCounted ==
  ASSUME NEW h \in 0..Window, NEW f \in [1..Window -> Nat], Window \in Nat \ {0},
         h >= 1 => f[1] = 0
  PROVE  SumTo(f, Least(h, 1)) = 0
<1>1. CASE h = 0
  <2>1. Least(h, 1) = 0
    BY <1>1 DEF Least
  <2> QED
    BY <2>1, SumToIsSum
<1>2. CASE h # 0
  <2>1. Least(h, 1) = 1 /\ 1 \in 1..Window /\ f[1] = 0
    BY <1>2 DEF Least
  <2>2. SumTo(f, 1) = f[1] + SumTo(f, 1 - 1) /\ SumTo(f, 0) = 0
    BY <2>1, SumToIsSum
  <2> QED
    BY <2>1, <2>2
<1> QED
  BY <1>1, <1>2

\* INCR, and PEXPIRE with the first.
Began(m) == [count |-> Least(m.count, Limit) + 1, left |-> IF m.count = 0 THEN Window ELSE m.left]

\* What a charge makes of the counter.
LEMMA BeganShape ==
  ASSUME watched \in Scope, NEW m \in MeterRecord, m.count = 0 <=> m.left = 0,
         NEW n, n = Began(m)
  PROVE  /\ n \in MeterRecord /\ n.count > 0 /\ n.left > 0
         /\ m.count = 0 => Age(n) = 0 /\ n.count = 1
         /\ m.count > 0 => Age(n) = Age(m)
         /\ m.count > 0 => n.count = Least(m.count, Limit) + 1
<1>1. /\ Limit \in Nat /\ Window \in Nat /\ Limit >= 1 /\ Window >= 1
      /\ m.count \in Nat /\ m.left \in Nat /\ m.left <= Window
  BY LimitPositive DEF MeterRecord
<1>2. n.count = Least(m.count, Limit) + 1 /\ n.left = IF m.count = 0 THEN Window ELSE m.left
  BY DEF Began
<1>3. n.count \in 0..(Limit + 1) /\ n.left \in 0..Window /\ n.count > 0 /\ n.left > 0
  BY <1>1, <1>2 DEF Least
<1>4. n \in MeterRecord
  BY <1>3 DEF Began, MeterRecord
<1>5. m.count = 0 => Age(n) = 0 /\ n.count = 1
  BY <1>1, <1>2 DEF Least, Age
<1>6. m.count > 0 => Age(n) = Age(m)
  BY <1>1, <1>2 DEF Age
<1> QED
  BY <1>2, <1>3, <1>4, <1>5, <1>6

\* A charge counts a call whether or not it passes: the meter stays sound, and
\* has room for calls that no longer wait to pass.
LEMMA MeterCharged ==
  ASSUME watched \in Scope, NEW m \in MeterRecord, NEW h \in 0..Window,
         NEW f \in [1..Window -> Nat], NEW b \in Nat, NEW a \in Nat, a <= b,
         MeterSound(m, h, f, b), NEW n, n = Began(m)
  PROVE  MeterSound(n, h, f, a)
<1>1. Limit \in Nat /\ Limit >= 1 /\ Window \in Nat \ {0} /\ m.count \in Nat
  BY LimitPositive DEF MeterRecord
<1>2. n \in MeterRecord /\ n.count > 0 /\ n.left > 0
  BY BeganShape DEF MeterSound
<1>3. CASE m.count = 0
  <2>1. b = 0 /\ (h >= 1 => f[1] = 0) /\ SumTo(f, h) <= Limit - 1 /\ Age(n) = 0 /\ n.count = 1
    BY <1>3, BeganShape DEF MeterSound
  <2>2. SumTo(f, Least(h, Age(n) + 1)) = 0
    BY <1>1, <2>1, FirstTickCounted
  <2>3. SumTo(f, h) \in Nat
    BY <1>1, SumToIsSum
  <2> QED
    BY <1>1, <1>2, <2>1, <2>2, <2>3 DEF MeterSound, Least
<1>4. CASE m.count > 0
  <2>1. /\ SumTo(f, Least(h, Age(m) + 1)) + b <= Least(m.count, Limit)
        /\ Age(m) >= 1 => SumTo(f, Least(h, Age(m))) + b <= Least(m.count, Limit) - 1
        /\ SumTo(f, h) - SumTo(f, Least(h, Age(m) + 1)) <= Limit - 1
        /\ m.left > 0
    BY <1>4 DEF MeterSound, MeterRecord
  <2>2. Age(n) = Age(m) /\ n.count = Least(m.count, Limit) + 1
    BY <1>4, BeganShape DEF MeterSound
  <2>3. Least(m.count, Limit) <= Least(n.count, Limit) /\ Least(m.count, Limit) \in Nat /\ Least(n.count, Limit) \in Nat
    BY <1>1, <2>2 DEF Least
  <2>4. SumTo(f, Least(h, Age(m) + 1)) \in Nat /\ SumTo(f, Least(h, Age(m))) \in Nat
    BY <1>4, <2>1, MeterSums
  <2>5. SumTo(f, Least(h, Age(n) + 1)) + a <= Least(n.count, Limit)
    BY <2>1, <2>2, <2>3, <2>4
  <2>6. Age(n) >= 1 => SumTo(f, Least(h, Age(n))) + a <= Least(n.count, Limit) - 1
    BY <2>1, <2>2, <2>3, <2>4
  <2> QED
    BY <1>1, <1>2, <2>1, <2>2, <2>5, <2>6 DEF MeterSound, MeterRecord
<1> QED
  BY <1>1, <1>3, <1>4

\* Within its limit a counter has counted the call that has charged it and now
\* waits to pass.
LEMMA MeterReserved ==
  ASSUME watched \in Scope, NEW m \in MeterRecord, NEW h \in 0..Window,
         NEW f \in [1..Window -> Nat], NEW b \in Nat, m.count + 1 <= Limit,
         MeterSound(m, h, f, b), NEW n, n = Began(m)
  PROVE  MeterSound(n, h, f, b + 1)
<1>1. Limit \in Nat /\ Limit >= 1 /\ Window \in Nat \ {0} /\ m.count \in Nat
  BY LimitPositive DEF MeterRecord
<1>2. n \in MeterRecord /\ n.count > 0 /\ n.left > 0
  BY BeganShape DEF MeterSound
<1>3. CASE m.count = 0
  <2>1. b = 0 /\ (h >= 1 => f[1] = 0) /\ SumTo(f, h) <= Limit - 1 /\ Age(n) = 0 /\ n.count = 1
    BY <1>3, BeganShape DEF MeterSound
  <2>2. SumTo(f, Least(h, Age(n) + 1)) = 0
    BY <1>1, <2>1, FirstTickCounted
  <2>3. SumTo(f, h) \in Nat
    BY <1>1, SumToIsSum
  <2> QED
    BY <1>1, <1>2, <2>1, <2>2, <2>3 DEF MeterSound, Least
<1>4. CASE m.count > 0
  <2>1. /\ SumTo(f, Least(h, Age(m) + 1)) + b <= Least(m.count, Limit)
        /\ Age(m) >= 1 => SumTo(f, Least(h, Age(m))) + b <= Least(m.count, Limit) - 1
        /\ SumTo(f, h) - SumTo(f, Least(h, Age(m) + 1)) <= Limit - 1
        /\ m.left > 0
    BY <1>4 DEF MeterSound, MeterRecord
  <2>2. Age(n) = Age(m) /\ n.count = Least(m.count, Limit) + 1
    BY <1>4, BeganShape DEF MeterSound
  <2>3. /\ Least(m.count, Limit) + 1 = Least(n.count, Limit)
        /\ Least(m.count, Limit) \in Nat /\ Least(n.count, Limit) \in Nat
    BY <1>1, <2>2 DEF Least
  <2>4. SumTo(f, Least(h, Age(m) + 1)) \in Nat /\ SumTo(f, Least(h, Age(m))) \in Nat
    BY <1>4, <2>1, MeterSums
  <2>5. SumTo(f, Least(h, Age(n) + 1)) + (b + 1) <= Least(n.count, Limit)
    BY <2>1, <2>2, <2>3, <2>4
  <2>6. Age(n) >= 1 => SumTo(f, Least(h, Age(n))) + (b + 1) <= Least(n.count, Limit) - 1
    BY <2>1, <2>2, <2>3, <2>4
  <2> QED
    BY <1>1, <1>2, <2>1, <2>2, <2>5, <2>6, SMTT(30) DEF MeterSound, MeterRecord
<1> QED
  BY <1>1, <1>3, <1>4

\* A call that passes moves the sums of the last ticks by one at most, and those
\* of two periods by the same.
LEMMA SumsPassed ==
  ASSUME Window \in Nat \ {0}, NEW f \in [1..Window -> Nat], NEW g, g = OneMore(Window, f),
         NEW x \in 0..Window
  PROVE  /\ SumTo(g, x) \in Nat /\ SumTo(f, x) \in Nat
         /\ SumTo(g, x) = IF x = 0 THEN SumTo(f, x) ELSE SumTo(f, x) + 1
<1>1. /\ g \in [1..Window -> Nat]
      /\ \A y \in 1..Window : SumTo(g, y) = SumTo(f, y) + 1
  BY SumToPassed
<1>2. SumTo(g, 0) = 0 /\ SumTo(f, 0) = 0
  BY <1>1, SumToIsSum
<1>3. x # 0 => x \in 1..Window
  OBVIOUS
<1>4. SumTo(g, x) \in Nat /\ SumTo(f, x) \in Nat
  BY <1>1, SumToIsSum
<1> QED
  BY <1>1, <1>2, <1>3, <1>4

\* A call passes that had charged the counter before.
LEMMA MeterSettled ==
  ASSUME watched \in Scope, NEW m \in MeterRecord, NEW h \in 0..Window,
         NEW f \in [1..Window -> Nat], NEW b \in Nat, NEW a \in Nat, b = a + 1,
         MeterSound(m, h, f, b), NEW g, g = OneMore(Window, f)
  PROVE  MeterSound(m, h, g, a)
<1>1. Limit \in Nat /\ Limit >= 1 /\ Window \in Nat \ {0} /\ m.count \in Nat
  BY LimitPositive DEF MeterRecord
<1>2. m.count > 0 /\ m.left > 0
  BY <1>1 DEF MeterSound, MeterRecord
<1>3. PICK p : p = Least(h, Age(m) + 1)
  OBVIOUS
<1>4. PICK q : q = Least(h, Age(m))
  OBVIOUS
<1>5. p \in 0..Window /\ q \in 0..Window /\ (p = 0 <=> h = 0)
  BY <1>2, <1>3, <1>4, MeterSums DEF Least
<1>6. /\ SumTo(f, p) + b <= Least(m.count, Limit)
      /\ Age(m) >= 1 => SumTo(f, q) + b <= Least(m.count, Limit) - 1
      /\ SumTo(f, h) - SumTo(f, p) <= Limit - 1
  BY <1>2, <1>3, <1>4 DEF MeterSound
<1>7. Least(m.count, Limit) \in Nat
  BY <1>1 DEF Least
<1>8. /\ SumTo(g, p) \in Nat /\ SumTo(f, p) \in Nat
      /\ SumTo(g, p) = IF p = 0 THEN SumTo(f, p) ELSE SumTo(f, p) + 1
  BY <1>1, <1>5, SumsPassed
<1>9. /\ SumTo(g, q) \in Nat /\ SumTo(f, q) \in Nat
      /\ SumTo(g, q) = IF q = 0 THEN SumTo(f, q) ELSE SumTo(f, q) + 1
  BY <1>1, <1>5, SumsPassed
<1>10. /\ SumTo(g, h) \in Nat /\ SumTo(f, h) \in Nat
       /\ SumTo(g, h) = IF h = 0 THEN SumTo(f, h) ELSE SumTo(f, h) + 1
  BY <1>1, SumsPassed
<1>11. /\ SumTo(g, p) + a <= Least(m.count, Limit)
       /\ Age(m) >= 1 => SumTo(g, q) + a <= Least(m.count, Limit) - 1
       /\ SumTo(g, h) - SumTo(g, p) <= Limit - 1
  <2>1. SumTo(g, p) + a <= Least(m.count, Limit)
    BY <1>6, <1>7, <1>8
  <2>2. Age(m) >= 1 => SumTo(g, q) + a <= Least(m.count, Limit) - 1
    BY <1>6, <1>7, <1>9
  <2>3. SumTo(g, h) - SumTo(g, p) <= Limit - 1
    BY <1>1, <1>5, <1>6, <1>8, <1>10
  <2> QED
    BY <2>1, <2>2, <2>3
<1> QED
  BY <1>1, <1>2, <1>3, <1>4, <1>11 DEF MeterSound, MeterRecord

\* A call charges the counter and passes: as one that charges it and then
\* passes.
LEMMA MeterPassed ==
  ASSUME watched \in Scope, NEW m \in MeterRecord, NEW h \in 0..Window,
         NEW f \in [1..Window -> Nat], NEW b \in Nat, m.count + 1 <= Limit,
         MeterSound(m, h, f, b), NEW n, n = Began(m), NEW g, g = OneMore(Window, f)
  PROVE  MeterSound(n, h, g, b)
<1>1. PICK c : c = b + 1 /\ c \in Nat
  OBVIOUS
<1>2. MeterSound(n, h, f, c)
  BY <1>1, MeterReserved
<1>3. n \in MeterRecord
  BY BeganShape DEF MeterSound
<1> QED
  BY <1>1, <1>2, <1>3, MeterSettled

\* Fewer calls wait to pass, or none of the last ticks matters: what passes then
\* does not matter either.
LEMMA MeterBlind ==
  ASSUME watched \in Scope, NEW m \in MeterRecord, NEW h \in 0..Window,
         NEW f \in [1..Window -> Nat], NEW g \in [1..Window -> Nat], NEW b \in Nat, NEW a \in Nat, a <= b,
         MeterSound(m, h, f, b)
  PROVE  MeterSound(m, h, f, a) /\ MeterSound(m, 0, g, a)
<1>1. Limit \in Nat /\ Limit >= 1 /\ Window \in Nat \ {0} /\ m.count \in Nat
  BY LimitPositive DEF MeterRecord
<1>2. SumTo(g, 0) = 0
  BY <1>1, SumToIsSum
<1>3. CASE m.count = 0
  <2>1. a = 0
    BY <1>3 DEF MeterSound
  <2> QED
    BY <1>1, <1>2, <1>3, <2>1 DEF MeterSound
<1>4. CASE m.count > 0
  <2>1. m.left > 0
    BY <1>4 DEF MeterSound, MeterRecord
  <2>2. PICK p : p = Least(h, Age(m) + 1)
    OBVIOUS
  <2>3. PICK q : q = Least(h, Age(m))
    OBVIOUS
  <2>4. /\ SumTo(f, p) + b <= Least(m.count, Limit)
        /\ Age(m) >= 1 => SumTo(f, q) + b <= Least(m.count, Limit) - 1
        /\ SumTo(f, h) - SumTo(f, p) <= Limit - 1
    BY <1>4, <2>2, <2>3 DEF MeterSound
  <2>5. /\ SumTo(f, p) \in Nat /\ SumTo(f, q) \in Nat /\ SumTo(f, h) \in Nat
        /\ Age(m) \in 0..(Window - 1)
    BY <1>4, <2>1, <2>2, <2>3, MeterSums
  <2>6. Least(m.count, Limit) \in Nat /\ Least(m.count, Limit) >= 1
    BY <1>1, <1>4 DEF Least
  <2>7. Least(0, Age(m) + 1) = 0 /\ Least(0, Age(m)) = 0
    BY <1>1, <2>5 DEF Least
  <2>8. /\ SumTo(f, p) + a <= Least(m.count, Limit)
        /\ Age(m) >= 1 => SumTo(f, q) + a <= Least(m.count, Limit) - 1
    BY <2>4, <2>5, <2>6, SMTT(30)
  <2>9. MeterSound(m, h, f, a)
    BY <1>1, <1>4, <2>1, <2>2, <2>3, <2>4, <2>8 DEF MeterSound, MeterRecord
  <2>10. a <= Least(m.count, Limit) /\ (Age(m) >= 1 => a <= Least(m.count, Limit) - 1)
    BY <2>5, <2>6, <2>8
  <2>11. MeterSound(m, 0, g, a)
    BY <1>1, <1>2, <1>4, <2>1, <2>7, <2>10, SMTT(30) DEF MeterSound, MeterRecord
  <2> QED
    BY <2>9, <2>11
<1> QED
  BY <1>1, <1>3, <1>4

\* A tick: a window that runs out leaves the counter at zero, and what passed in
\* it is less than a limit without its first tick, which is now too long ago.
LEMMA MeterAged ==
  ASSUME watched \in Scope, NEW m \in MeterRecord, NEW h \in 0..Window,
         NEW f \in [1..Window -> Nat], MeterSound(m, h, f, 0),
         NEW g, g = Shifted(Window, f), NEW i \in 0..Window, i <= h + 1,
         NEW n, n = IF m.left <= 1 THEN [count |-> 0, left |-> 0] ELSE [count |-> m.count, left |-> m.left - 1]
  PROVE  MeterSound(n, i, g, 0)
<1>1. /\ Limit \in Nat /\ Limit >= 1 /\ Window \in Nat /\ Window >= 1
      /\ m.count \in Nat /\ m.left \in 0..Window
  BY LimitPositive DEF MeterRecord
<1>2. g \in [1..Window -> Nat] /\ \A x \in 1..Window : SumTo(g, x) = SumTo(f, x - 1)
  BY <1>1, SumToShifted
<1>3. SumTo(g, 0) = 0 /\ SumTo(f, 0) = 0 /\ g[1] = 0
  <2>1. g[1] = 0
    BY <1>1 DEF Shifted
  <2>2. SumTo(g, 0) = 0 /\ SumTo(f, 0) = 0
    BY <1>1, <1>2, SumToIsSum
  <2> QED
    BY <2>1, <2>2
<1>4. \A x \in 0..Window : SumTo(g, x) \in Nat /\ SumTo(f, x) \in Nat
  BY <1>1, <1>2, SumToIsSum
<1>5. \A x, y \in 0..Window : x <= y => SumTo(f, x) <= SumTo(f, y)
  BY <1>1, SumToMonotone
<1>6. CASE m.count = 0
  <2>1. n.count = 0 /\ n.left = 0
    BY <1>1, <1>6 DEF MeterSound
  <2>2. SumTo(f, h) <= Limit - 1
    BY <1>6 DEF MeterSound
  <2>3. SumTo(g, i) <= Limit - 1
    <3>1. CASE i = 0
      BY <1>1, <1>3, <3>1
    <3>2. CASE i # 0
      <4>1. i \in 1..Window /\ i - 1 \in 0..Window /\ i - 1 <= h
        BY <1>1, <3>2
      <4>2. SumTo(g, i) = SumTo(f, i - 1) /\ SumTo(f, i - 1) <= SumTo(f, h)
        BY <1>2, <1>5, <4>1
      <4>3. SumTo(f, i - 1) \in Nat /\ SumTo(f, h) \in Nat
        BY <1>4, <4>1
      <4> QED
        BY <1>1, <2>2, <4>2, <4>3
    <3> QED
      BY <3>1, <3>2
  <2> QED
    BY <1>1, <1>3, <2>1, <2>3 DEF MeterSound
<1>7. CASE m.count > 0
  <2>1. m.left \in 1..Window /\ Age(m) \in 0..(Window - 1)
    <3>1. m.left # 0
      BY <1>7 DEF MeterSound
    <3>2. m.left \in 1..Window
      BY <1>1, <3>1
    <3> QED
      BY <1>1, <3>2 DEF Age
  <2>2. PICK p : p = Least(h, Age(m) + 1)
    OBVIOUS
  <2>3. PICK q : q = Least(h, Age(m))
    OBVIOUS
  <2>4. /\ SumTo(f, p) + 0 <= Least(m.count, Limit)
        /\ Age(m) >= 1 => SumTo(f, q) + 0 <= Least(m.count, Limit) - 1
        /\ SumTo(f, h) - SumTo(f, p) <= Limit - 1
    BY <1>7, <2>2, <2>3 DEF MeterSound
  <2>5. p \in 0..Window /\ q \in 0..Window /\ SumTo(f, p) \in Nat /\ SumTo(f, q) \in Nat
    <3>1. p \in 0..Window /\ q \in 0..Window
      BY <1>1, <2>1, <2>2, <2>3 DEF Least
    <3> QED
      BY <1>4, <3>1
  <2>6. Least(m.count, Limit) \in Nat /\ 1 <= Least(m.count, Limit) /\ Least(m.count, Limit) <= Limit
    BY <1>1, <1>7 DEF Least
  \* Without its first tick, the window has passed less than a limit.
  <2>7. SumTo(f, q) <= Least(m.count, Limit) - 1
    <3>1. CASE Age(m) = 0
      <4>1. q = 0
        BY <2>3, <3>1 DEF Least
      <4> QED
        BY <1>3, <2>6, <4>1
    <3>2. CASE Age(m) >= 1
      BY <2>4, <2>5, <2>6, <3>2
    <3> QED
      BY <2>1, <3>1, <3>2
  <2>8. CASE m.left = 1
    <3>1. n.count = 0 /\ n.left = 0
      BY <2>8
    <3>2. SumTo(g, i) <= Limit - 1
      <4>1. CASE i = 0
        BY <1>1, <1>3, <4>1
      <4>2. CASE i # 0
        <5>1. i \in 1..Window /\ i - 1 \in 0..Window /\ i - 1 <= q
          BY <1>1, <2>3, <2>8, <4>2 DEF Least, Age
        <5>2. SumTo(g, i) = SumTo(f, i - 1) /\ SumTo(f, i - 1) <= SumTo(f, q)
          BY <1>2, <1>5, <2>5, <5>1
        <5>3. SumTo(f, i - 1) \in Nat
          BY <1>4, <5>1
        <5> QED
          BY <1>1, <2>5, <2>6, <2>7, <5>2, <5>3
      <4> QED
        BY <4>1, <4>2
    <3> QED
      BY <1>1, <1>3, <3>1, <3>2 DEF MeterSound
  <2>9. CASE m.left > 1
    <3>1. n = [count |-> m.count, left |-> m.left - 1] /\ n.count = m.count /\ n.left = m.left - 1
      BY <1>1, <2>9
    <3>2. Age(n) = Age(m) + 1 /\ Age(n) + 1 \in 1..Window /\ Age(n) \in Nat
      <4>1. n.left \in Int /\ n.left = m.left - 1 /\ m.left \in Int
        BY <1>1, <2>1, <2>9, <3>1
      <4> QED
        <5>1. Age(n) = Window - n.left /\ Age(m) = Window - m.left
          BY DEF Age
        <5>2. Window \in Int /\ m.left <= Window
          BY <1>1
        <5>3. PICK a, c : a = m.left /\ c = n.left
          OBVIOUS
        <5>4. a \in Int /\ c \in Int /\ c = a - 1 /\ a > 1 /\ a <= Window
          BY <2>9, <4>1, <5>2, <5>3
        <5>5. Age(n) = Window - c /\ Age(m) = Window - a
          BY <5>1, <5>3
        <5> QED
          BY <5>2, <5>4, <5>5
    <3>0. /\ h \in Int /\ i \in Int /\ i <= h + 1
           /\ Age(m) \in Int /\ Age(n) \in Int /\ Age(n) = Age(m) + 1
      BY <1>1, <2>1, <3>2
    <3>3. PICK u : u = Least(i, Age(n) + 1)
      OBVIOUS
    <3>4. PICK v : v = Least(i, Age(n))
      OBVIOUS
    <3>5. u \in 0..Window /\ v \in 0..Window
      BY <1>1, <3>2, <3>3, <3>4 DEF Least
    \* The sums of the meter now are those of the tick before, one tick shorter.
    <3>6. SumTo(g, u) <= SumTo(f, p)
      <4>1. CASE u = 0
        BY <1>3, <2>5, <4>1
      <4>2. CASE u # 0
        <5>1. u \in 1..Window /\ u - 1 \in 0..Window /\ u - 1 <= p
          <6>1. u \in 1..Window /\ u - 1 \in 0..Window
            BY <1>1, <3>5, <4>2
          <6>2. u <= i /\ u <= Age(m) + 2
            BY <3>3, <3>0 DEF Least
          <6>3. u \in Int
            BY <6>1
          <6> QED
            BY <2>2, <3>0, <6>1, <6>2, <6>3 DEF Least
        <5> QED
          BY <1>2, <1>5, <2>5, <5>1
      <4> QED
        BY <4>1, <4>2
    <3>7. SumTo(g, v) <= SumTo(f, q)
      <4>1. CASE v = 0
        BY <1>3, <2>5, <4>1
      <4>2. CASE v # 0
        <5>1. v \in 1..Window /\ v - 1 \in 0..Window /\ v - 1 <= q
          <6>1. v \in 1..Window /\ v - 1 \in 0..Window
            BY <1>1, <3>5, <4>2
          <6>2. v <= i /\ v <= Age(m) + 1
            BY <3>4, <3>0 DEF Least
          <6>3. v \in Int
            BY <6>1
          <6> QED
            BY <2>3, <3>0, <6>1, <6>2, <6>3 DEF Least
        <5> QED
          BY <1>2, <1>5, <2>5, <5>1
      <4> QED
        BY <4>1, <4>2
    <3>8. SumTo(g, i) - SumTo(g, u) <= Limit - 1
      <4>1. CASE u = i
        <5>1. SumTo(g, i) \in Nat /\ SumTo(g, i) - SumTo(g, i) = 0
          BY <1>4
        <5> QED
          BY <1>1, <4>1, <5>1
      <4>2. CASE u # i
        <5>1. u = Age(n) + 1 /\ u < i /\ u \in 1..Window /\ i \in 1..Window
          BY <1>1, <3>2, <3>3, <4>2 DEF Least
        <5>2. u - 1 = Age(m) + 1 /\ p = u - 1
          <6>1. u = Age(m) + 2 /\ u - 1 <= h
            BY <3>0, <5>1
          <6> QED
            BY <2>2, <3>0, <6>1 DEF Least
        <5>3. SumTo(g, u) = SumTo(f, p)
          BY <1>2, <5>1, <5>2
        <5>4. i - 1 \in 0..Window /\ i - 1 <= h
          BY <1>1, <5>1
        <5>5. SumTo(g, i) = SumTo(f, i - 1) /\ SumTo(f, i - 1) <= SumTo(f, h)
          BY <1>2, <1>5, <5>1, <5>4
        <5>6. SumTo(f, h) \in Nat /\ SumTo(f, i - 1) \in Nat
          BY <1>4, <5>4
        <5> QED
          BY <1>1, <2>4, <2>5, <5>3, <5>5, <5>6, SMTT(30)
      <4> QED
        BY <4>1, <4>2
    <3>9. SumTo(g, u) \in Nat /\ SumTo(g, v) \in Nat
      BY <1>4, <3>5
    <3>10. SumTo(g, u) + 0 <= Least(n.count, Limit)
      BY <2>4, <2>5, <2>6, <3>1, <3>6, <3>9
    <3>11. SumTo(g, v) + 0 <= Least(n.count, Limit) - 1
      BY <2>5, <2>6, <2>7, <3>1, <3>7, <3>9
    <3> QED
      BY <1>1, <1>7, <2>9, <3>1, <3>3, <3>4, <3>8, <3>10, <3>11 DEF MeterSound
  <2> QED
    BY <2>1, <2>8, <2>9
<1> QED
  BY <1>1, <1>6, <1>7

\* Of the last window, two adjacent windows of the counter have passed their
\* limits, less the call that began the first.
LEMMA MeterBounds ==
  ASSUME watched \in Scope, NEW m \in MeterRecord, NEW f \in [1..Window -> Nat], NEW b \in Nat,
         MeterSound(m, Window, f, b)
  PROVE  FoldFunction(+, 0, f) <= 2 * Limit - 1
<1>1. Limit \in Nat /\ Limit >= 1 /\ Window \in Nat /\ Window \in 0..Window /\ m.count \in Nat
  BY LimitPositive DEF MeterRecord
<1>2. DOMAIN f = 1..Window
  OBVIOUS
<1>3. FoldFunction(+, 0, f) = SumTo(f, Window)
  BY <1>2 DEF FoldFunction, SumTo
<1>4. SumTo(f, Window) \in Nat
  BY <1>1, SumToIsSum
<1> SUFFICES SumTo(f, Window) <= 2 * Limit - 1
  BY <1>3, Zenon
<1>5. CASE m.count = 0
  BY <1>1, <1>4, <1>5 DEF MeterSound
<1>6. CASE m.count > 0
  <2>1. m.left > 0
    BY <1>6 DEF MeterSound, MeterRecord
  <2>2. PICK p : p = Least(Window, Age(m) + 1)
    OBVIOUS
  <2>3. SumTo(f, p) \in Nat
    BY <1>1, <1>6, <2>1, <2>2, MeterSums
  <2>4. SumTo(f, p) + b <= Least(m.count, Limit) /\ SumTo(f, Window) - SumTo(f, p) <= Limit - 1
    BY <1>6, <2>2 DEF MeterSound
  <2>5. Least(m.count, Limit) <= Limit /\ Least(m.count, Limit) \in Nat
    BY <1>1 DEF Least
  <2> QED
    BY <1>1, <1>4, <2>3, <2>4, <2>5
<1> QED
  BY <1>1, <1>5, <1>6

-----------------------------------------------------------------------------
(* The invariant of the front door.                                        *)

CallRecord == [pc: {"idle", "auth", "serve"} \cup Scope, kind: Kinds \cup {"health"},
               replica: Replicas, key: 1..2]

\* The last ticks in which every call that passed charged this key: under the
\* old one all do until a replica drops it, under the new one all do once all
\* replicas know it.
Horizon(k) == IF k = "new" THEN overlap
              ELSE IF \A r \in Replicas : stage[r] <= 1 THEN Window ELSE 0

\* The calls between the two keys of their replica: they have charged the new one.
Reserved   == {c \in Calls : call[c].key = 2}
Between(k) == IF k = "new" THEN Cardinality(Reserved) ELSE 0

Metered(k) == MeterSound(counter[k], Horizon(k), passed, Between(k))

RotationInv ==
  /\ \A c \in Calls : call[c].key = 2 => call[c].pc = watched /\ stage[call[c].replica] = 1
  /\ overlap > 0 => \A r \in Replicas : stage[r] >= 1
  /\ (\E r \in Replicas : stage[r] = 2) => overlap = Window
  /\ \A k \in Key : Metered(k)

DoorInv == DoorTypeOK /\ RotationInv

\* The meter of a key after a step, from its parts after the step.
LEMMA MeteredNext ==
  ASSUME watched' = watched, NEW k \in Key, NEW m, m = counter'[k], NEW h, h = Horizon(k)',
         NEW f, f = passed', NEW b, b = Between(k)', MeterSound(m, h, f, b)
  PROVE  Metered(k)'
BY DEF Metered, MeterSound, Limit

\* The types of what a meter is about.
LEMMA MeterTypes ==
  ASSUME DoorTypeOK, NEW k \in Key
  PROVE  /\ watched \in Scope /\ Window \in Nat \ {0} /\ Limit \in Nat \ {0}
         /\ counter[k] \in MeterRecord
         /\ Horizon(k) \in 0..Window
         /\ passed \in [1..Window -> Nat]
         /\ IsFiniteSet(Reserved) /\ Cardinality(Reserved) \in Nat
         /\ Between(k) \in Nat
<1>1. watched \in Scope /\ Window \in Nat \ {0} /\ Limit \in Nat \ {0}
  BY LimitPositive DEF DoorTypeOK
<1>2. counter[k] \in MeterRecord /\ passed \in [1..Window -> Nat]
  BY DEF DoorTypeOK, MeterRecord
<1>3. Horizon(k) \in 0..Window
  BY <1>1 DEF DoorTypeOK, Horizon
<1>4. IsFiniteSet(Reserved)
  BY DoorAssumption, FS_Subset DEF Reserved
<1>5. Cardinality(Reserved) \in Nat
  BY <1>4, FS_CardinalityType
<1> QED
  BY <1>1, <1>2, <1>3, <1>4, <1>5 DEF Between

\* One call goes over into t.
CallMoves(c, t) == call' = [call EXCEPT ![c] = t]

\* A call that moves changes what is reserved by itself alone.
LEMMA ReservedMoves ==
  ASSUME DoorTypeOK, NEW c \in Calls, NEW t \in CallRecord, CallMoves(c, t)
  PROVE  /\ Cardinality(Reserved)' \in Nat
         /\ call[c].key # 2 /\ t.key = 2 => Cardinality(Reserved)' = Cardinality(Reserved) + 1
         /\ call[c].key = 2 /\ t.key # 2 => Cardinality(Reserved) = Cardinality(Reserved)' + 1
         /\ call[c].key # 2 /\ t.key # 2 => Cardinality(Reserved)' = Cardinality(Reserved)
<1>1. PICK Now : Now = Reserved
  OBVIOUS
<1>2. PICK Then : Then = Reserved'
  OBVIOUS
<1>3. call'[c] = t /\ \A d \in Calls : d # c => call'[d] = call[d]
  BY DEF CallMoves, DoorTypeOK
<1>4. Now = {d \in Calls : call[d].key = 2} /\ Then = {d \in Calls : call'[d].key = 2}
  BY <1>1, <1>2 DEF Reserved
<1>5. IsFiniteSet(Now) /\ IsFiniteSet(Then)
  BY <1>4, DoorAssumption, FS_Subset
<1>6. Cardinality(Now) \in Nat /\ Cardinality(Then) \in Nat
  BY <1>5, FS_CardinalityType
<1>7. CASE call[c].key # 2 /\ t.key = 2
  <2>1. Then = Now \cup {c} /\ c \notin Now
    BY <1>3, <1>4, <1>7
  <2>2. Cardinality(Then) = Cardinality(Now) + 1
    BY <1>5, <2>1, FS_AddElement
  <2> QED
    BY <1>1, <1>2, <1>6, <1>7, <2>2
<1>8. CASE call[c].key = 2 /\ t.key # 2
  <2>1. Now = Then \cup {c} /\ c \notin Then
    BY <1>3, <1>4, <1>8
  <2>2. Cardinality(Now) = Cardinality(Then) + 1
    BY <1>5, <2>1, FS_AddElement
  <2> QED
    BY <1>1, <1>2, <1>6, <1>8, <2>2
<1>9. CASE call[c].key # 2 /\ t.key # 2
  <2>1. Then = Now
    BY <1>3, <1>4, <1>9
  <2> QED
    BY <1>1, <1>2, <1>6, <1>9, <2>1
<1>10. CASE call[c].key = 2 /\ t.key = 2
  BY <1>1, <1>2, <1>6, <1>10
<1> QED
  BY <1>7, <1>8, <1>9, <1>10

\* The calls a replica works on.
Working(r) == {c \in Calls : call[c].pc # "idle" /\ call[c].replica = r /\ TakesSlot(call[c].kind)}

\* A replica works on finitely many calls.
LEMMA WorkingFinite ==
  ASSUME NEW r
  PROVE  IsFiniteSet(Working(r)) /\ IsFiniteSet(Working(r)')
BY DoorAssumption, FS_Subset DEF Working

\* A call on its way keeps its slot.
LEMMA SlotKept ==
  ASSUME DoorTypeOK, NEW c \in Calls, NEW t \in CallRecord, CallMoves(c, t),
         call[c].pc # "idle", t.pc # "idle", t.kind = call[c].kind, t.replica = call[c].replica,
         bulkhead' = bulkhead
  PROVE  \A r \in Replicas : bulkhead'[r] = Cardinality(Working(r)')
<1>1. call'[c] = t /\ \A d \in Calls : d # c => call'[d] = call[d]
  BY DEF CallMoves, DoorTypeOK
<1>2. ASSUME NEW r \in Replicas
      PROVE  Working(r)' = Working(r)
  BY <1>1 DEF Working
<1>3. \A r \in Replicas : bulkhead[r] = Cardinality(Working(r))
  BY DEF DoorTypeOK, Working
<1> QED
  BY <1>2, <1>3

\* A call that leaves gives back the slot it holds.
LEMMA SlotReleased ==
  ASSUME DoorTypeOK, NEW c \in Calls, call[c].pc # "idle", Leaves(c)
  PROVE  /\ bulkhead' \in [Replicas -> 0..MaximumConcurrent]
         /\ \A r \in Replicas : bulkhead'[r] = Cardinality(Working(r)')
<1>1. /\ call'[c].pc = "idle" /\ \A d \in Calls : d # c => call'[d] = call[d]
      /\ call[c].replica \in Replicas
  BY DEF DoorTypeOK, Leaves, AtRest
<1>2. \A r \in Replicas : bulkhead[r] = Cardinality(Working(r)) /\ bulkhead[r] \in 0..MaximumConcurrent
  BY DEF DoorTypeOK, Working
<1>3. MaximumConcurrent \in Nat
  BY DoorAssumption
<1>4. ASSUME NEW r \in Replicas
      PROVE  bulkhead'[r] = Cardinality(Working(r)') /\ bulkhead'[r] \in 0..MaximumConcurrent
  <2>1. CASE ~TakesSlot(call[c].kind)
    <3>1. Working(r)' = Working(r) /\ bulkhead' = bulkhead
      BY <1>1, <2>1 DEF Working, Leaves
    <3> QED
      BY <1>2, <3>1
  <2>2. CASE TakesSlot(call[c].kind) /\ r # call[c].replica
    <3>1. Working(r)' = Working(r)
      BY <1>1, <2>2 DEF Working
    <3>2. bulkhead'[r] = bulkhead[r]
      BY <2>2 DEF Leaves, DoorTypeOK
    <3> QED
      BY <1>2, <3>1, <3>2
  <2>3. CASE TakesSlot(call[c].kind) /\ r = call[c].replica
    <3>1. Working(r) = Working(r)' \cup {c} /\ c \notin Working(r)'
      BY <1>1, <2>3 DEF Working
    <3>2. bulkhead'[r] = bulkhead[r] - 1
      BY <2>3 DEF Leaves, DoorTypeOK
    <3>3. PICK W : W = Working(r)'
      OBVIOUS
    <3>4. IsFiniteSet(W) /\ Cardinality(W) \in Nat
      BY <3>3, WorkingFinite, FS_CardinalityType
    <3>5. Cardinality(W \cup {c}) = Cardinality(W) + 1
      BY <3>1, <3>3, <3>4, FS_AddElement
    <3>6. bulkhead[r] = Cardinality(W) + 1
      <4>1. Cardinality(Working(r)) = Cardinality(W) + 1 /\ bulkhead[r] = Cardinality(Working(r))
        BY <1>2, <3>1, <3>3, <3>5
      <4> QED
        BY <4>1
    <3> QED
      BY <1>2, <1>3, <3>2, <3>3, <3>4, <3>6
  <2> QED
    BY <2>1, <2>2, <2>3
<1>5. DOMAIN bulkhead' = Replicas /\ bulkhead' = [r \in Replicas |-> bulkhead'[r]]
  BY DEF DoorTypeOK, Leaves
<1> QED
  BY <1>4, <1>5

\* A call that arrives takes a slot, if there is one.
LEMMA SlotTaken ==
  ASSUME DoorTypeOK, NEW c \in Calls, NEW kind \in Kinds, NEW s \in Replicas, Arrive(c, kind, s)
  PROVE  /\ bulkhead' \in [Replicas -> 0..MaximumConcurrent]
         /\ \A r \in Replicas : bulkhead'[r] = Cardinality(Working(r)')
<1>1. /\ call'[c].pc # "idle" /\ call'[c].replica = s /\ call'[c].kind = kind
      /\ \A d \in Calls : d # c => call'[d] = call[d]
      /\ call[c].pc = "idle"
  BY DEF DoorTypeOK, Arrive, AtRest
<1>2. \A r \in Replicas : bulkhead[r] = Cardinality(Working(r)) /\ bulkhead[r] \in 0..MaximumConcurrent
  BY DEF DoorTypeOK, Working
<1>3. MaximumConcurrent \in Nat
  BY DoorAssumption
<1>4. ASSUME NEW r \in Replicas
      PROVE  bulkhead'[r] = Cardinality(Working(r)') /\ bulkhead'[r] \in 0..MaximumConcurrent
  <2>1. CASE ~TakesSlot(kind)
    <3>1. Working(r)' = Working(r) /\ bulkhead' = bulkhead
      BY <1>1, <2>1 DEF Working, Arrive
    <3> QED
      BY <1>2, <3>1
  <2>2. CASE TakesSlot(kind) /\ r # s
    <3>1. Working(r)' = Working(r)
      BY <1>1, <2>2 DEF Working
    <3>2. bulkhead'[r] = bulkhead[r]
      BY <2>2 DEF Arrive, DoorTypeOK
    <3> QED
      BY <1>2, <3>1, <3>2
  <2>3. CASE TakesSlot(kind) /\ r = s
    <3>1. Working(r)' = Working(r) \cup {c} /\ c \notin Working(r)
      BY <1>1, <2>3 DEF Working
    <3>2. bulkhead'[r] = bulkhead[r] + 1 /\ bulkhead[r] < MaximumConcurrent
      BY <2>3 DEF Arrive, DoorTypeOK
    <3>3. Cardinality(Working(r) \cup {c}) = Cardinality(Working(r)) + 1
      BY <3>1, WorkingFinite, FS_AddElement
    <3> QED
      BY <1>2, <1>3, <3>1, <3>2, <3>3
  <2> QED
    BY <2>1, <2>2, <2>3
<1>5. DOMAIN bulkhead' = Replicas /\ bulkhead' = [r \in Replicas |-> bulkhead'[r]]
  BY DEF DoorTypeOK, Arrive
<1> QED
  BY <1>4, <1>5

-----------------------------------------------------------------------------
(* The steps of a call.                                                    *)

\* The counter a call charges, by the step of its replica in the rotation.
LEMMA ChargedKey ==
  ASSUME DoorInv, NEW c \in Calls, call[c].pc = watched
  PROVE  \E k \in Key :
           /\ k = Pseudonyms(c)[call[c].key]
           /\ \/ /\ call[c].key = 1 /\ Len(Pseudonyms(c)) = 1
                 /\ k = "old" /\ stage[call[c].replica] = 0
              \/ /\ call[c].key = 1 /\ Len(Pseudonyms(c)) = 2
                 /\ k = "new" /\ stage[call[c].replica] = 1
              \/ /\ call[c].key = 2 /\ Len(Pseudonyms(c)) = 2
                 /\ k = "old" /\ stage[call[c].replica] = 1
              \/ /\ call[c].key = 1 /\ Len(Pseudonyms(c)) = 1
                 /\ k = "new" /\ stage[call[c].replica] = 2
<1>1. call[c].key \in {1, 2} /\ stage[call[c].replica] \in {0, 1, 2}
  BY DEF DoorInv, DoorTypeOK
<1>2. call[c].key = 2 => stage[call[c].replica] = 1
  BY DEF DoorInv, RotationInv
<1>3. CASE stage[call[c].replica] = 0
  <2>1. Pseudonyms(c) = <<"old">> /\ call[c].key = 1
    BY <1>1, <1>2, <1>3 DEF Pseudonyms, AbuseKeys
  <2> QED
    BY <1>3, <2>1 DEF Key
<1>4. CASE stage[call[c].replica] = 1
  <2>1. Pseudonyms(c) = <<"new", "old">>
    BY <1>4 DEF Pseudonyms, AbuseKeys
  <2> QED
    BY <1>1, <1>4, <2>1 DEF Key
<1>5. CASE stage[call[c].replica] = 2
  <2>1. Pseudonyms(c) = <<"new">> /\ call[c].key = 1
    BY <1>1, <1>2, <1>5 DEF Pseudonyms, AbuseKeys
  <2> QED
    BY <1>5, <2>1 DEF Key
<1> QED
  BY <1>1, <1>3, <1>4, <1>5

\* Charging begins or counts on in this counter, and in no other.
LEMMA ChargeCounts ==
  ASSUME DoorTypeOK, NEW c \in Calls, NEW k \in Key, k = Pseudonyms(c)[call[c].key], Charge(c)
  PROVE  /\ counter' \in [Key -> [count: 0..(Limit + 1), left: 0..Window]]
         /\ counter'[k] = Began(counter[k])
         /\ \A j \in Key : j # k => counter'[j] = counter[j]
<1>1. Limit \in Nat /\ Limit >= 1 /\ Window \in Nat /\ counter[k] \in MeterRecord
  BY MeterTypes
<1>2. counter[k].count \in Nat /\ counter[k].left \in 0..Window
  BY <1>1 DEF MeterRecord
<1>3. Min({counter[k].count, Limit}) = Least(counter[k].count, Limit)
  BY <1>1, <1>2, MinIsLeast
<1>4. ChargedAnew(c) = Began(counter[k])
  BY <1>3 DEF ChargedAnew, Charged, Began
<1>5. Began(counter[k]) \in [count: 0..(Limit + 1), left: 0..Window]
  <2>1. Least(counter[k].count, Limit) + 1 \in 0..(Limit + 1)
    BY <1>1, <1>2 DEF Least
  <2>2. Window \in 0..Window
    BY <1>1
  <2> QED
    BY <1>2, <2>1, <2>2 DEF Began
<1>6. counter' = [counter EXCEPT ![k] = Began(counter[k])]
  BY <1>4 DEF Charge
<1> QED
  BY <1>5, <1>6 DEF DoorTypeOK

\* A call whose first key is the next leaves the rotation as it was.
LEMMA RotationKept ==
  ASSUME DoorInv, NEW c \in Calls, NEW t \in CallRecord, t.key = 1,
         CallMoves(c, t), UNCHANGED settingVars
  PROVE  /\ \A d \in Calls : call'[d].key = 2 => call'[d].pc = watched' /\ stage'[call'[d].replica] = 1
         /\ overlap' > 0 => \A r \in Replicas : stage'[r] >= 1
         /\ (\E r \in Replicas : stage'[r] = 2) => overlap' = Window
<1>1. call'[c] = t /\ \A d \in Calls : d # c => call'[d] = call[d]
  BY DEF CallMoves, DoorInv, DoorTypeOK
<1>2. watched' = watched /\ stage' = stage /\ overlap' = overlap
  BY DEF settingVars
<1>3. t.key # 2
  OBVIOUS
<1>4. ASSUME NEW d \in Calls, call'[d].key = 2
      PROVE  call'[d].pc = watched' /\ stage'[call'[d].replica] = 1
  <2>1. call'[d] = call[d] /\ call[d].key = 2
    BY <1>1, <1>3, <1>4
  <2>2. call[d].pc = watched /\ stage[call[d].replica] = 1
    BY <2>1 DEF DoorInv, RotationInv
  <2> QED
    BY <1>2, <2>1, <2>2
<1>5. /\ overlap > 0 => \A r \in Replicas : stage[r] >= 1
      /\ (\E r \in Replicas : stage[r] = 2) => overlap = Window
  BY DEF DoorInv, RotationInv
<1> QED
  BY <1>2, <1>4, <1>5

\* A call that does not pass, and is at no second key, charges at most: every
\* meter stays sound.
LEMMA MetersKept ==
  ASSUME DoorInv, NEW c \in Calls, NEW t \in CallRecord, t.key = 1,
         CallMoves(c, t), UNCHANGED <<settingVars, passed>>,
         \/ counter' = counter
         \/ call[c].pc = watched /\ Charge(c)
  PROVE  \A k \in Key : Metered(k)'
<1> SUFFICES ASSUME NEW k \in Key
             PROVE  Metered(k)'
  OBVIOUS
<1>1. DoorTypeOK /\ watched \in Scope /\ counter[k] \in MeterRecord /\ passed \in [1..Window -> Nat]
  BY MeterTypes DEF DoorInv
<1>2. PICK b : b = Between(k)
  OBVIOUS
<1>3. PICK a : a = Between(k)'
  OBVIOUS
<1>4. a \in Nat /\ b \in Nat /\ a <= b
  <2>1. /\ Cardinality(Reserved)' \in Nat /\ Cardinality(Reserved) \in Nat
        /\ call[c].key = 2 => Cardinality(Reserved) = Cardinality(Reserved)' + 1
        /\ call[c].key # 2 => Cardinality(Reserved)' = Cardinality(Reserved)
    BY <1>1, ReservedMoves, MeterTypes
  <2>2. b = IF k = "new" THEN Cardinality(Reserved) ELSE 0
    BY <1>2 DEF Between
  <2>3. a = IF k = "new" THEN Cardinality(Reserved)' ELSE 0
    BY <1>3 DEF Between
  <2> QED
    BY <2>1, <2>2, <2>3
<1>5. PICK h : h = Horizon(k)
  OBVIOUS
<1>6. h \in 0..Window /\ h = Horizon(k)'
  BY <1>1, <1>5, MeterTypes DEF Horizon, settingVars
<1>7. PICK m : m = counter[k]
  OBVIOUS
<1>8. m \in MeterRecord /\ MeterSound(m, h, passed, b)
  BY <1>1, <1>2, <1>5, <1>7 DEF DoorInv, RotationInv, Metered
<1>9. PICK n : n = counter'[k]
  OBVIOUS
<1>10. n = m \/ n = Began(m)
  <2>1. CASE counter' = counter
    BY <1>7, <1>9, <2>1
  <2>2. CASE call[c].pc = watched /\ Charge(c)
    <3>1. PICK j \in Key : j = Pseudonyms(c)[call[c].key]
      BY <2>2, ChargedKey
    <3>2. counter'[j] = Began(counter[j]) /\ \A i \in Key : i # j => counter'[i] = counter[i]
      BY <1>1, <2>2, <3>1, ChargeCounts
    <3> QED
      BY <1>7, <1>9, <3>2
  <2> QED
    BY <2>1, <2>2
<1>11. MeterSound(n, h, passed, a)
  <2>1. CASE n = m
    BY <1>1, <1>4, <1>6, <1>8, <2>1, MeterBlind
  <2>2. CASE n = Began(m)
    BY <1>1, <1>4, <1>6, <1>8, <2>2, MeterCharged
  <2> QED
    BY <1>10, <2>1, <2>2
<1>12. PICK f : f = passed
  OBVIOUS
<1>13. watched' = watched /\ f = passed' /\ MeterSound(n, h, f, a)
  BY <1>11, <1>12 DEF settingVars
<1> QED
  BY <1>3, <1>6, <1>9, <1>13, MeteredNext

\* A call that has left middleware is one again that may arrive.
LEMMA RestIsCall ==
  AtRest \in CallRecord /\ AtRest.key = 1 /\ AtRest.pc = "idle"
<1>1. (CHOOSE r \in Replicas : TRUE) \in Replicas
  BY DoorAssumption
<1> QED
  BY <1>1 DEF AtRest, CallRecord

\* The types of the front door, and of it a call that moves on within them.
LEMMA CallTypes ==
  ASSUME DoorTypeOK, NEW c \in Calls
  PROVE  /\ call[c] \in CallRecord
         /\ \A t \in CallRecord : CallMoves(c, t) => call' \in [Calls -> CallRecord]
BY DEF DoorTypeOK, CallRecord, CallMoves

\* A step in which a call does not pass the limit watched, and the bulkhead
\* stays exact.
LEMMA CallStepSafe ==
  ASSUME DoorInv, NEW c \in Calls, NEW t \in CallRecord, t.key = 1, CallMoves(c, t),
         UNCHANGED <<settingVars, passed>>,
         \/ counter' = counter
         \/ call[c].pc = watched /\ Charge(c),
         failures' \in 0..MaxAllowFailures,
         bulkhead' \in [Replicas -> 0..MaximumConcurrent],
         \A r \in Replicas : bulkhead'[r] = Cardinality(Working(r)')
  PROVE  DoorInv'
<1>1. DoorTypeOK
  BY DEF DoorInv
<1>2. counter' \in [Key -> [count: 0..(Limit + 1), left: 0..Window]]
  <2>1. CASE counter' = counter
    BY <1>1, <2>1 DEF DoorTypeOK
  <2>2. CASE call[c].pc = watched /\ Charge(c)
    BY <1>1, <2>2, ChargedKey, ChargeCounts
  <2> QED
    BY <2>1, <2>2
<1>3. call' \in [Calls -> CallRecord]
  BY <1>1, CallTypes
<1>4. DoorTypeOK'
  <2>1. watched' \in Scope /\ stage' \in [Replicas -> 0..2] /\ overlap' \in 0..Window
        /\ passed' \in [1..Window -> Nat] /\ watched' = watched
    BY <1>1 DEF DoorTypeOK, settingVars
  <2>2. counter' \in [Key -> [count: 0..(Limit' + 1), left: 0..Window]]
    BY <1>2, <2>1 DEF Limit
  <2>3. \A r \in Replicas :
          bulkhead'[r] = Cardinality({d \in Calls : /\ call'[d].pc # "idle" /\ call'[d].replica = r
                                                     /\ TakesSlot(call'[d].kind)})
    BY DEF Working
  <2> QED
    BY <1>3, <2>1, <2>2, <2>3 DEF DoorTypeOK, CallRecord
<1>5. \A k \in Key : Metered(k)'
  BY MetersKept
<1>6. UNCHANGED settingVars
  OBVIOUS
<1>7. RotationInv'
  BY <1>5, <1>6, RotationKept DEF RotationInv
<1> QED
  BY <1>4, <1>7 DEF DoorInv

\* OverLimit, AllowFails and the ways out that charge nothing.
LEMMA LeavingSafe ==
  ASSUME DoorInv, NEW c \in Calls, call[c].pc # "idle", Leaves(c),
         UNCHANGED <<settingVars, passed>>,
         \/ counter' = counter
         \/ call[c].pc = watched /\ Charge(c),
         failures' \in 0..MaxAllowFailures
  PROVE  DoorInv'
<1>1. CallMoves(c, AtRest)
  BY DEF Leaves, CallMoves
<1>2. /\ bulkhead' \in [Replicas -> 0..MaximumConcurrent]
      /\ \A r \in Replicas : bulkhead'[r] = Cardinality(Working(r)')
  BY SlotReleased DEF DoorInv
<1> QED
  BY <1>1, <1>2, RestIsCall, CallStepSafe

\* PassOther and Authenticated.
LEMMA MovingOnSafe ==
  ASSUME DoorInv, NEW c \in Calls, call[c].pc # "idle", call[c].pc # watched,
         NEW pc \in {"auth", "serve"} \cup Scope, call' = [call EXCEPT ![c].pc = pc],
         UNCHANGED <<settingVars, bulkhead, counter, failures, passed>>
  PROVE  DoorInv'
<1>1. DoorTypeOK /\ call[c] \in CallRecord
  BY CallTypes DEF DoorInv
<1>2. call[c].key = 1
  <2>1. call[c].key # 2
    BY DEF DoorInv, RotationInv
  <2> QED
    BY <1>1, <2>1 DEF CallRecord
<1>3. PICK t : t = [call[c] EXCEPT !.pc = pc]
  OBVIOUS
<1>4. t = [pc |-> pc, kind |-> call[c].kind, replica |-> call[c].replica, key |-> 1]
  BY <1>1, <1>2, <1>3 DEF CallRecord
<1>5. /\ t \in CallRecord /\ t.key = 1 /\ t.pc # "idle"
      /\ t.kind = call[c].kind /\ t.replica = call[c].replica
  BY <1>1, <1>4 DEF CallRecord, Scope
<1>6. CallMoves(c, t)
  BY <1>3 DEF CallMoves
<1>7. /\ bulkhead' \in [Replicas -> 0..MaximumConcurrent]
      /\ \A r \in Replicas : bulkhead'[r] = Cardinality(Working(r)')
      /\ failures' \in 0..MaxAllowFailures
  BY <1>1, <1>5, <1>6, SlotKept DEF DoorTypeOK
<1> QED
  BY <1>5, <1>6, <1>7, CallStepSafe

\* A call that arrives charges nothing yet.
LEMMA ArriveSafe ==
  ASSUME DoorInv, NEW c \in Calls, NEW kind \in Kinds, NEW r \in Replicas, Arrive(c, kind, r)
  PROVE  DoorInv'
<1>1. PICK t : t = [AtRest EXCEPT !.kind = kind, !.replica = r,
                                  !.pc = IF kind = "health" THEN "serve" ELSE "ip"]
  OBVIOUS
<1>2. t = [pc |-> IF kind = "health" THEN "serve" ELSE "ip", kind |-> kind, replica |-> r, key |-> 1]
  BY <1>1 DEF AtRest
<1>3. t \in CallRecord /\ t.key = 1
  BY <1>2 DEF CallRecord, Scope
<1>4. CallMoves(c, t)
  BY <1>1 DEF CallMoves, Arrive
<1>5. /\ bulkhead' \in [Replicas -> 0..MaximumConcurrent]
      /\ \A s \in Replicas : bulkhead'[s] = Cardinality(Working(s)')
  BY SlotTaken DEF DoorInv
<1>6. failures' \in 0..MaxAllowFailures /\ counter' = counter /\ UNCHANGED <<settingVars, passed>>
  BY DEF DoorInv, DoorTypeOK, Arrive
<1> QED
  BY <1>3, <1>4, <1>5, <1>6, CallStepSafe

\* AllowNext under the last key: the call passes.
LEMMA PassSafe ==
  ASSUME DoorInv, NEW c \in Calls, AllowNext(c), ~(call[c].key < Len(Pseudonyms(c)))
  PROVE  DoorInv'
<1>1. DoorTypeOK /\ call[c] \in CallRecord /\ call[c].pc = watched /\ Charge(c)
  BY CallTypes DEF DoorInv, AllowNext
<1>2. watched \in Scope /\ Window \in Nat \ {0}
  BY <1>1, DoorAssumption DEF DoorTypeOK
<1>3. PICK t : t = [call[c] EXCEPT !.pc = Onward(c), !.key = 1]
  OBVIOUS
<1>4. t = [pc |-> Onward(c), kind |-> call[c].kind, replica |-> call[c].replica, key |-> 1]
  BY <1>1, <1>3 DEF CallRecord
<1>5. /\ t \in CallRecord /\ t.key = 1 /\ t.pc # "idle"
      /\ t.kind = call[c].kind /\ t.replica = call[c].replica
  <2>1. Onward(c) \in {"auth", "search", "serve"}
    BY DEF Onward
  <2> QED
    BY <1>1, <1>4, <2>1 DEF CallRecord, Scope
<1>6. CallMoves(c, t)
  BY <1>3 DEF CallMoves, AllowNext
<1>7. UNCHANGED settingVars /\ bulkhead' = bulkhead /\ failures' = failures /\ watched' = watched
  BY DEF AllowNext, settingVars
<1>8. passed' = OneMore(Window, passed)
  BY <1>1 DEF AllowNext, OneMore, DoorTypeOK
<1>9. passed \in [1..Window -> Nat] /\ passed' \in [1..Window -> Nat]
  BY <1>1, <1>2, <1>8, SumToPassed DEF DoorTypeOK
<1>10. PICK j \in Key :
         /\ j = Pseudonyms(c)[call[c].key]
         /\ \/ call[c].key = 1 /\ j = "old" /\ stage[call[c].replica] = 0
            \/ call[c].key = 2 /\ j = "old" /\ stage[call[c].replica] = 1
            \/ call[c].key = 1 /\ j = "new" /\ stage[call[c].replica] = 2
  BY <1>1, ChargedKey
<1>11. /\ counter' \in [Key -> [count: 0..(Limit + 1), left: 0..Window]]
       /\ counter'[j] = Began(counter[j])
       /\ \A i \in Key : i # j => counter'[i] = counter[i]
  BY <1>1, <1>10, ChargeCounts
<1>12. counter[j].count + 1 <= Limit
  BY <1>10 DEF AllowNext, WithinLimit, Charged
<1>13. call[c].replica \in Replicas
  BY <1>1 DEF CallRecord
<1>14. ASSUME NEW k \in Key
       PROVE  Metered(k)'
  <2>1. PICK b : b = Between(k)
    OBVIOUS
  <2>2. PICK a : a = Between(k)'
    OBVIOUS
  <2>3. PICK h : h = Horizon(k)
    OBVIOUS
  <2>4. PICK m : m = counter[k]
    OBVIOUS
  <2>5. PICK n : n = counter'[k]
    OBVIOUS
  <2>6. PICK f : f = passed
    OBVIOUS
  <2>7. PICK g : g = passed'
    OBVIOUS
  <2>8. /\ b \in Nat /\ h \in 0..Window /\ m \in MeterRecord /\ f \in [1..Window -> Nat]
        /\ g \in [1..Window -> Nat] /\ g = OneMore(Window, f)
    BY <1>1, <1>8, <1>9, <2>1, <2>3, <2>4, <2>6, <2>7, MeterTypes
  <2>9. h = Horizon(k)'
    BY <1>7, <2>3 DEF Horizon, settingVars
  <2>10. MeterSound(m, h, f, b)
    BY <2>1, <2>3, <2>4, <2>6 DEF DoorInv, RotationInv, Metered
  <2>11. /\ a \in Nat
         /\ k = "old" => a = 0 /\ b = 0
         /\ call[c].key = 2 /\ k = "new" => b = a + 1
         /\ call[c].key # 2 => a = b
    <3>1. /\ Cardinality(Reserved)' \in Nat
          /\ call[c].key = 2 => Cardinality(Reserved) = Cardinality(Reserved)' + 1
          /\ call[c].key # 2 => Cardinality(Reserved)' = Cardinality(Reserved)
      BY <1>1, <1>5, <1>6, ReservedMoves
    <3>2. b = IF k = "new" THEN Cardinality(Reserved) ELSE 0
      BY <2>1 DEF Between
    <3>3. a = IF k = "new" THEN Cardinality(Reserved)' ELSE 0
      BY <2>2 DEF Between
    <3> QED
      BY <3>1, <3>2, <3>3
  <2>12. MeterSound(n, h, g, a)
    \* The key this call has charged.
    <3>1. CASE k = j
      <4>1. n = Began(m) /\ m.count + 1 <= Limit
        BY <1>11, <1>12, <2>4, <2>5, <3>1
      <4>2. a = b
        BY <1>10, <2>11, <3>1
      <4> QED
        BY <1>2, <2>8, <2>10, <4>1, <4>2, MeterPassed
    \* The new key, which it has charged before.
    <3>2. CASE k # j /\ call[c].key = 2
      <4>1. n = m /\ k = "new" /\ b = a + 1
        BY <1>10, <1>11, <2>4, <2>5, <2>11, <3>2 DEF Key
      <4> QED
        BY <1>2, <2>8, <2>10, <2>11, <4>1, MeterSettled
    \* A key its replica does not know: not all of the last ticks' calls charged it.
    <3>3. CASE k # j /\ call[c].key # 2
      <4>1. n = m /\ a = b
        BY <1>11, <2>4, <2>5, <2>11, <3>3
      <4>2. h = 0
        <5>1. CASE j = "old"
          <6>1. k = "new" /\ stage[call[c].replica] = 0
            BY <1>10, <3>3, <5>1 DEF Key
          <6>2. ~(overlap > 0)
            BY <1>13, <6>1 DEF DoorInv, RotationInv
          <6>3. overlap \in 0..Window
            BY <1>1 DEF DoorTypeOK
          <6> QED
            BY <1>2, <2>3, <6>1, <6>2, <6>3 DEF Horizon
        <5>2. CASE j = "new"
          <6>1. k = "old" /\ stage[call[c].replica] = 2
            BY <1>10, <3>3, <5>2 DEF Key
          <6>2. ~(\A r \in Replicas : stage[r] <= 1)
            BY <1>13, <6>1
          <6> QED
            BY <2>3, <6>1, <6>2 DEF Horizon
        <5> QED
          BY <5>1, <5>2 DEF Key
      <4>3. MeterSound(m, 0, g, b)
        BY <1>2, <2>8, <2>10, MeterBlind
      <4> QED
        BY <4>1, <4>2, <4>3
    <3> QED
      BY <3>1, <3>2, <3>3
  <2> QED
    BY <1>7, <2>2, <2>5, <2>7, <2>9, <2>12, MeteredNext
<1>15. RotationInv'
  BY <1>5, <1>6, <1>7, <1>14, RotationKept DEF RotationInv
<1>16. DoorTypeOK'
  <2>1. call' \in [Calls -> CallRecord]
    BY <1>1, <1>5, <1>6, CallTypes
  <2>2. \A r \in Replicas : bulkhead'[r] = Cardinality(Working(r)')
    BY <1>1, <1>5, <1>6, <1>7, SlotKept, <1>2 DEF Scope
  <2>3. \A r \in Replicas :
          bulkhead'[r] = Cardinality({d \in Calls : /\ call'[d].pc # "idle" /\ call'[d].replica = r
                                                     /\ TakesSlot(call'[d].kind)})
    BY <2>2 DEF Working
  <2>4. counter' \in [Key -> [count: 0..(Limit' + 1), left: 0..Window]]
    BY <1>7, <1>11 DEF Limit
  <2>5. /\ watched' \in Scope /\ stage' \in [Replicas -> 0..2] /\ overlap' \in 0..Window
        /\ bulkhead' \in [Replicas -> 0..MaximumConcurrent] /\ failures' \in 0..MaxAllowFailures
    BY <1>1, <1>7 DEF DoorTypeOK, settingVars
  <2> QED
    BY <1>9, <2>1, <2>3, <2>4, <2>5 DEF DoorTypeOK, CallRecord
<1> QED
  BY <1>15, <1>16 DEF DoorInv

\* AllowNext under the first of two keys: the call is counted, and waits.
LEMMA ReserveSafe ==
  ASSUME DoorInv, NEW c \in Calls, AllowNext(c), call[c].key < Len(Pseudonyms(c))
  PROVE  DoorInv'
<1>1. DoorTypeOK /\ call[c] \in CallRecord /\ call[c].pc = watched /\ Charge(c)
  BY CallTypes DEF DoorInv, AllowNext
<1>2. watched \in Scope /\ Window \in Nat \ {0}
  BY <1>1, DoorAssumption DEF DoorTypeOK
<1>3. PICK j \in Key :
        /\ j = Pseudonyms(c)[call[c].key] /\ call[c].key = 1
        /\ j = "new" /\ stage[call[c].replica] = 1
  <2>1. PICK n : n = Len(Pseudonyms(c))
    OBVIOUS
  <2>2. call[c].key < n
    BY <2>1
  <2>3. /\ ~(call[c].key = 1 /\ n = 1)
        /\ ~(call[c].key = 2 /\ n = 2)
    BY <2>2
  <2> QED
    BY <1>1, <2>1, <2>3, ChargedKey
<1>4. PICK t : t = [call[c] EXCEPT !.key = @ + 1]
  OBVIOUS
<1>5. t = [pc |-> call[c].pc, kind |-> call[c].kind, replica |-> call[c].replica, key |-> 2]
  BY <1>1, <1>3, <1>4 DEF CallRecord
<1>6. /\ t \in CallRecord /\ t.key = 2 /\ t.pc = watched /\ t.pc # "idle" /\ call[c].pc # "idle"
      /\ t.kind = call[c].kind /\ t.replica = call[c].replica /\ call[c].replica \in Replicas
  BY <1>1, <1>2, <1>5 DEF CallRecord, Scope
<1>7. CallMoves(c, t)
  BY <1>4 DEF CallMoves, AllowNext
<1>8. /\ UNCHANGED settingVars /\ bulkhead' = bulkhead /\ failures' = failures
      /\ watched' = watched /\ stage' = stage /\ overlap' = overlap /\ passed' = passed
  BY DEF AllowNext, settingVars
<1>9. /\ counter' \in [Key -> [count: 0..(Limit + 1), left: 0..Window]]
      /\ counter'[j] = Began(counter[j])
      /\ \A i \in Key : i # j => counter'[i] = counter[i]
  BY <1>1, <1>3, ChargeCounts
<1>10. counter[j].count + 1 <= Limit
  BY <1>3 DEF AllowNext, WithinLimit, Charged
<1>11. ASSUME NEW k \in Key
       PROVE  Metered(k)'
  <2>1. PICK b : b = Between(k)
    OBVIOUS
  <2>2. PICK a : a = Between(k)'
    OBVIOUS
  <2>3. PICK h : h = Horizon(k)
    OBVIOUS
  <2>4. PICK m : m = counter[k]
    OBVIOUS
  <2>5. PICK n : n = counter'[k]
    OBVIOUS
  <2>6. PICK f : f = passed
    OBVIOUS
  <2>7. /\ b \in Nat /\ h \in 0..Window /\ m \in MeterRecord /\ f \in [1..Window -> Nat]
        /\ f = passed'
    BY <1>1, <1>8, <2>1, <2>3, <2>4, <2>6, MeterTypes
  <2>8. h = Horizon(k)'
    BY <1>8, <2>3 DEF Horizon
  <2>9. MeterSound(m, h, f, b)
    BY <2>1, <2>3, <2>4, <2>6 DEF DoorInv, RotationInv, Metered
  <2>10. a = IF k = "new" THEN b + 1 ELSE b
    <3>1. Cardinality(Reserved)' = Cardinality(Reserved) + 1
      BY <1>1, <1>3, <1>6, <1>7, ReservedMoves
    <3>2. b = IF k = "new" THEN Cardinality(Reserved) ELSE 0
      BY <2>1 DEF Between
    <3>3. a = IF k = "new" THEN Cardinality(Reserved)' ELSE 0
      BY <2>2 DEF Between
    <3> QED
      BY <3>1, <3>2, <3>3
  <2>11. MeterSound(n, h, f, a)
    <3>1. CASE k = "new"
      <4>1. n = Began(m) /\ m.count + 1 <= Limit /\ a = b + 1
        BY <1>3, <1>9, <1>10, <2>4, <2>5, <2>10, <3>1
      <4> QED
        BY <1>2, <2>7, <2>9, <4>1, MeterReserved
    <3>2. CASE k # "new"
      BY <1>3, <1>9, <2>4, <2>5, <2>9, <2>10, <3>2
    <3> QED
      BY <3>1, <3>2
  <2> QED
    BY <1>8, <2>2, <2>5, <2>7, <2>8, <2>11, MeteredNext
<1>12. RotationInv'
  <2>1. call'[c] = t /\ \A d \in Calls : d # c => call'[d] = call[d]
    BY <1>1, <1>7 DEF CallMoves, DoorTypeOK
  <2>2. ASSUME NEW d \in Calls, call'[d].key = 2
        PROVE  call'[d].pc = watched' /\ stage'[call'[d].replica] = 1
    <3>1. CASE d = c
      BY <1>3, <1>6, <1>8, <2>1, <3>1
    <3>2. CASE d # c
      <4>1. call'[d] = call[d] /\ call[d].key = 2
        BY <2>1, <2>2, <3>2
      <4>2. call[d].pc = watched /\ stage[call[d].replica] = 1
        BY <4>1 DEF DoorInv, RotationInv
      <4> QED
        BY <1>8, <4>1, <4>2
    <3> QED
      BY <3>1, <3>2
  <2>3. /\ overlap' > 0 => \A r \in Replicas : stage'[r] >= 1
        /\ (\E r \in Replicas : stage'[r] = 2) => overlap' = Window
    BY <1>8 DEF DoorInv, RotationInv
  <2> QED
    BY <1>11, <2>2, <2>3 DEF RotationInv
<1>13. DoorTypeOK'
  <2>1. call' \in [Calls -> CallRecord]
    BY <1>1, <1>6, <1>7, CallTypes
  <2>2. \A r \in Replicas : bulkhead'[r] = Cardinality(Working(r)')
    BY <1>1, <1>6, <1>7, <1>8, SlotKept
  <2>3. \A r \in Replicas :
          bulkhead'[r] = Cardinality({d \in Calls : /\ call'[d].pc # "idle" /\ call'[d].replica = r
                                                     /\ TakesSlot(call'[d].kind)})
    BY <2>2 DEF Working
  <2>4. counter' \in [Key -> [count: 0..(Limit' + 1), left: 0..Window]]
    BY <1>8, <1>9 DEF Limit
  <2>5. /\ watched' \in Scope /\ stage' \in [Replicas -> 0..2] /\ overlap' \in 0..Window
        /\ bulkhead' \in [Replicas -> 0..MaximumConcurrent] /\ failures' \in 0..MaxAllowFailures
        /\ passed' \in [1..Window -> Nat]
    BY <1>1, <1>8 DEF DoorTypeOK
  <2> QED
    BY <2>1, <2>3, <2>4, <2>5 DEF DoorTypeOK, CallRecord
<1> QED
  BY <1>12, <1>13 DEF DoorInv

-----------------------------------------------------------------------------
(* Time and the rotation.                                                  *)

\* A tick, of which no call is between its keys.
LEMMA TickSafe ==
  ASSUME DoorInv, Tick
  PROVE  DoorInv'
<1>1. DoorTypeOK /\ watched \in Scope /\ Window \in Nat /\ Window >= 1
  BY DoorAssumption DEF DoorInv, DoorTypeOK
<1>2. /\ watched' = watched /\ stage' = stage /\ bulkhead' = bulkhead /\ call' = call
      /\ failures' = failures
  BY DEF Tick
<1>3. overlap \in 0..Window /\ stage \in [Replicas -> 0..2]
  BY <1>1 DEF DoorTypeOK
<1>4. overlap' = IF \A r \in Replicas : stage[r] >= 1 THEN Least(Window, overlap + 1) ELSE 0
  <2>1. Min({Window, overlap + 1}) = Least(Window, overlap + 1)
    BY <1>1, <1>3, MinIsLeast
  <2> QED
    BY <2>1 DEF Tick
<1>5. overlap' \in 0..Window /\ overlap' <= overlap + 1
  BY <1>1, <1>3, <1>4 DEF Least
<1>6. passed' = Shifted(Window, passed)
  BY DEF Tick, Shifted
<1>7. passed \in [1..Window -> Nat] /\ passed' \in [1..Window -> Nat]
  BY <1>1, <1>6, SumToShifted DEF DoorTypeOK
<1>8. ASSUME NEW k \in Key
      PROVE  /\ counter[k] \in MeterRecord
             /\ counter'[k] \in MeterRecord
             /\ counter'[k] = IF counter[k].left <= 1 THEN [count |-> 0, left |-> 0]
                              ELSE [count |-> counter[k].count, left |-> counter[k].left - 1]
  <2>1. counter[k] \in MeterRecord /\ Limit \in Nat
    BY <1>1, MeterTypes
  <2>2. Aged(counter[k]) = IF counter[k].left <= 1 THEN [count |-> 0, left |-> 0]
                           ELSE [count |-> counter[k].count, left |-> counter[k].left - 1]
    BY <2>1 DEF Aged, NoCounter, MeterRecord
  <2>3. counter'[k] = Aged(counter[k])
    BY DEF Tick
  <2>4. Aged(counter[k]) \in MeterRecord
    <3>1. CASE counter[k].left <= 1
      BY <1>1, <2>1, <2>2, <3>1 DEF MeterRecord
    <3>2. CASE ~(counter[k].left <= 1)
      <4>1. counter[k].left - 1 \in 0..Window /\ counter[k].count \in 0..(Limit + 1)
        BY <1>1, <2>1, <3>2 DEF MeterRecord
      <4> QED
        BY <2>2, <3>2, <4>1 DEF MeterRecord
    <3> QED
      BY <3>1, <3>2
  <2> QED
    BY <2>1, <2>2, <2>3, <2>4
<1>9. Reserved = {} /\ Reserved' = {}
  <2>1. \A c \in Calls : call[c].key # 2
    BY <1>1 DEF Tick, BetweenKeys, DoorTypeOK
  <2> QED
    BY <1>2, <2>1 DEF Reserved
<1>10. ASSUME NEW k \in Key
       PROVE  Metered(k)'
  <2>1. Between(k) = 0 /\ Between(k)' = 0
    <3>1. Cardinality(Reserved) = 0 /\ Cardinality(Reserved)' = 0
      BY <1>9, FS_EmptySet
    <3> QED
      BY <3>1 DEF Between
  <2>2. PICK b : b = Between(k)'
    OBVIOUS
  <2>3. PICK h : h = Horizon(k)
    OBVIOUS
  <2>4. PICK i : i = Horizon(k)'
    OBVIOUS
  <2>5. PICK m : m = counter[k]
    OBVIOUS
  <2>6. PICK n : n = counter'[k]
    OBVIOUS
  <2>7. PICK f : f = passed
    OBVIOUS
  <2>8. PICK g : g = passed'
    OBVIOUS
  <2>9. /\ h \in 0..Window /\ m \in MeterRecord /\ f \in [1..Window -> Nat]
        /\ g = Shifted(Window, f) /\ b = 0
        /\ n = IF m.left <= 1 THEN [count |-> 0, left |-> 0]
               ELSE [count |-> m.count, left |-> m.left - 1]
    BY <1>1, <1>6, <1>7, <1>8, <2>1, <2>2, <2>3, <2>5, <2>6, <2>7, <2>8, MeterTypes
  <2>10. MeterSound(m, h, f, 0)
    BY <2>1, <2>3, <2>5, <2>7 DEF DoorInv, RotationInv, Metered
  <2>11. i \in 0..Window /\ i <= h + 1
    <3>1. CASE k = "new"
      <4>1. i = overlap' /\ h = overlap
        BY <2>3, <2>4, <3>1 DEF Horizon
      <4> QED
        BY <1>5, <4>1
    <3>2. CASE k # "new"
      <4>1. i = h
        BY <1>2, <2>3, <2>4, <3>2 DEF Horizon
      <4> QED
        BY <1>1, <2>9, <4>1
    <3> QED
      BY <3>1, <3>2
  <2>12. MeterSound(n, i, g, 0)
    BY <1>1, <2>9, <2>10, <2>11, MeterAged
  <2> QED
    BY <1>2, <2>2, <2>4, <2>6, <2>8, <2>9, <2>12, MeteredNext
<1>11. RotationInv'
  <2>1. \A c \in Calls : call'[c].key = 2 => call'[c].pc = watched' /\ stage'[call'[c].replica] = 1
    BY <1>2 DEF DoorInv, RotationInv
  <2>2. overlap' > 0 => \A r \in Replicas : stage'[r] >= 1
    BY <1>2, <1>4
  <2>3. (\E r \in Replicas : stage'[r] = 2) => overlap' = Window
    <3> SUFFICES ASSUME \E r \in Replicas : stage[r] = 2
                 PROVE  overlap' = Window
      BY <1>2
    <3>1. overlap = Window
      BY DEF DoorInv, RotationInv
    <3>2. \A r \in Replicas : stage[r] >= 1
      BY <1>1, <3>1 DEF DoorInv, RotationInv
    <3>3. overlap' = Least(Window, overlap + 1)
      BY <1>4, <3>2
    <3> QED
      BY <1>1, <3>1, <3>3 DEF Least
  <2> QED
    BY <1>10, <2>1, <2>2, <2>3 DEF RotationInv
<1>12. DoorTypeOK'
  <2>1. counter' \in [Key -> [count: 0..(Limit' + 1), left: 0..Window]]
    <3>1. counter' = [k \in Key |-> counter'[k]]
      BY DEF Tick
    <3>2. \A k \in Key : counter'[k] \in [count: 0..(Limit + 1), left: 0..Window]
      BY <1>8 DEF MeterRecord
    <3>3. Limit' = Limit
      BY <1>2 DEF Limit
    <3> QED
      BY <3>1, <3>2, <3>3
  <2>2. \A r \in Replicas :
          bulkhead'[r] = Cardinality({c \in Calls : /\ call'[c].pc # "idle" /\ call'[c].replica = r
                                                     /\ TakesSlot(call'[c].kind)})
    BY <1>1, <1>2 DEF DoorTypeOK
  <2> QED
    BY <1>1, <1>2, <1>5, <1>7, <2>1, <2>2 DEF DoorTypeOK
<1> QED
  BY <1>11, <1>12 DEF DoorInv

\* A replica is started with the keys of the next step, when it works on no call.
LEMMA RollSafe ==
  ASSUME DoorInv, NEW r \in Replicas, Roll(r)
  PROVE  DoorInv'
<1>1. DoorTypeOK /\ watched \in Scope /\ Window \in Nat /\ Window >= 1
  BY DoorAssumption DEF DoorInv, DoorTypeOK
<1>2. /\ watched' = watched /\ overlap' = overlap /\ bulkhead' = bulkhead /\ call' = call
      /\ counter' = counter /\ failures' = failures /\ passed' = passed
  BY DEF Roll
<1>3. overlap \in 0..Window /\ stage \in [Replicas -> 0..2]
  BY <1>1 DEF DoorTypeOK
<1>4. /\ \A s \in Replicas : stage'[s] = IF s = r THEN stage[r] + 1 ELSE stage[s]
      /\ stage' \in [Replicas -> 0..2]
      /\ stage[r] = 0 \/ (stage[r] = 1 /\ overlap = Window)
  BY <1>3 DEF Roll
<1>5. ASSUME NEW c \in Calls, call[c].key = 2
      PROVE  call[c].pc = watched /\ stage'[call[c].replica] = 1
  <2>1. call[c].pc = watched /\ stage[call[c].replica] = 1 /\ call[c].replica \in Replicas
    BY <1>1, <1>5 DEF DoorInv, RotationInv, DoorTypeOK
  <2>2. call[c].pc # "idle"
    BY <1>1, <2>1 DEF Scope
  <2>3. call[c].replica # r
    BY <2>2 DEF Roll
  <2> QED
    BY <1>4, <2>1, <2>3
<1>6. overlap > 0 => \A s \in Replicas : stage'[s] >= 1
  <2> SUFFICES ASSUME overlap > 0, NEW s \in Replicas
               PROVE  stage'[s] >= 1
    OBVIOUS
  <2>1. stage[s] >= 1 /\ stage[s] \in 0..2
    BY <1>3 DEF DoorInv, RotationInv
  <2> QED
    BY <1>4, <2>1
<1>7. (\E s \in Replicas : stage'[s] = 2) => overlap = Window
  <2> SUFFICES ASSUME NEW s \in Replicas, stage'[s] = 2
               PROVE  overlap = Window
    OBVIOUS
  <2>1. CASE s = r
    BY <1>4, <2>1
  <2>2. CASE s # r
    <3>1. stage[s] = 2
      BY <1>4, <2>2
    <3> QED
      BY <3>1 DEF DoorInv, RotationInv
  <2> QED
    BY <2>1, <2>2
<1>8. ASSUME NEW k \in Key
      PROVE  Metered(k)'
  <2>1. PICK b : b = Between(k)
    OBVIOUS
  <2>2. PICK h : h = Horizon(k)
    OBVIOUS
  <2>3. PICK i : i = Horizon(k)'
    OBVIOUS
  <2>4. PICK m : m = counter[k]
    OBVIOUS
  <2>5. PICK f : f = passed
    OBVIOUS
  <2>6. /\ b \in Nat /\ h \in 0..Window /\ m \in MeterRecord /\ f \in [1..Window -> Nat]
        /\ m = counter'[k] /\ f = passed' /\ b = Between(k)'
    BY <1>1, <1>2, <2>1, <2>2, <2>4, <2>5, MeterTypes DEF Between, Reserved
  <2>7. MeterSound(m, h, f, b)
    BY <2>1, <2>2, <2>4, <2>5 DEF DoorInv, RotationInv, Metered
  <2>8. i = h \/ i = 0
    <3>1. CASE k = "new"
      BY <1>2, <2>2, <2>3, <3>1 DEF Horizon
    <3>2. CASE k # "new" /\ \A s \in Replicas : stage'[s] <= 1
      <4>1. \A s \in Replicas : stage[s] <= 1
        <5> SUFFICES ASSUME NEW s \in Replicas
                     PROVE  stage[s] <= 1
          OBVIOUS
        <5>1. stage[r] <= 1
          BY <1>4
        <5>2. s # r => stage[s] <= 1
          BY <1>4, <3>2
        <5> QED
          BY <5>1, <5>2
      <4> QED
        BY <2>2, <2>3, <3>2, <4>1 DEF Horizon
    <3>3. CASE k # "new" /\ ~\A s \in Replicas : stage'[s] <= 1
      BY <2>3, <3>3 DEF Horizon
    <3> QED
      BY <3>1, <3>2, <3>3
  <2>9. MeterSound(m, i, f, b)
    <3>1. CASE i = h
      BY <2>7, <3>1
    <3>2. CASE i = 0
      <4>1. MeterSound(m, 0, f, b)
        BY <1>1, <2>6, <2>7, MeterBlind
      <4> QED
        BY <3>2, <4>1
    <3> QED
      BY <2>8, <3>1, <3>2
  <2> QED
    BY <1>2, <2>3, <2>6, <2>9, MeteredNext
<1>9. RotationInv'
  BY <1>2, <1>5, <1>6, <1>7, <1>8 DEF RotationInv
<1>10. DoorTypeOK'
  <2>1. Limit' = Limit
    BY <1>2 DEF Limit
  <2> QED
    BY <1>1, <1>2, <1>4, <2>1 DEF DoorTypeOK
<1> QED
  BY <1>9, <1>10 DEF DoorInv

-----------------------------------------------------------------------------
(* The theorems of the front door.                                         *)

\* Before the first call nothing is counted and every replica has the old key.
LEMMA DoorInitSafe ==
  ASSUME DoorInit
  PROVE  DoorInv
<1>1. watched \in Scope /\ Window \in Nat /\ Window >= 1 /\ MaximumConcurrent \in Nat /\ MaxAllowFailures \in Nat
  BY DoorAssumption DEF DoorInit
<1>2. Limit \in Nat /\ Limit >= 1
  BY <1>1, LimitPositive
<1>3. \A c \in Calls : call[c] = AtRest
  BY DEF DoorInit
<1>4. Reserved = {} /\ \A r : Working(r) = {}
  BY <1>3, RestIsCall DEF Reserved, Working
<1>5. DoorTypeOK
  <2>1. \A r \in Replicas :
          bulkhead[r] = Cardinality({c \in Calls : /\ call[c].pc # "idle" /\ call[c].replica = r
                                                    /\ TakesSlot(call[c].kind)})
    <3>1. \A r \in Replicas : bulkhead[r] = Cardinality(Working(r))
      BY <1>4, FS_EmptySet DEF DoorInit
    <3> QED
      BY <3>1 DEF Working
  <2>2. call \in [Calls -> CallRecord]
    BY RestIsCall DEF DoorInit
  <2>3. counter \in [Key -> [count: 0..(Limit + 1), left: 0..Window]]
    <3>1. 0 \in 0..(Limit + 1) /\ 0 \in 0..Window
      BY <1>1, <1>2
    <3> QED
      BY <3>1 DEF DoorInit, NoCounter
  <2>4. /\ stage \in [Replicas -> 0..2] /\ overlap \in 0..Window
        /\ bulkhead \in [Replicas -> 0..MaximumConcurrent] /\ failures \in 0..MaxAllowFailures
        /\ passed \in [1..Window -> Nat]
    BY <1>1 DEF DoorInit
  <2> QED
    BY <1>1, <2>1, <2>2, <2>3, <2>4 DEF DoorTypeOK, CallRecord
<1>6. ASSUME NEW n \in 0..Window
      PROVE  SumTo(passed, n) = 0
  <2> DEFINE Wrong == {i \in 0..Window : SumTo(passed, i) # 0}
  <2>1. Wrong = {}
    <3> SUFFICES ASSUME Wrong # {}
                 PROVE  FALSE
      OBVIOUS
    <3>1. Wrong \subseteq Nat
      BY <1>1
    <3>2. PICK i \in Wrong : \A l \in Wrong : i <= l
      <4> HIDE DEF Wrong
      <4> QED
        BY <3>1, LeastNumber
    <3>3. passed \in [1..Window -> Nat] /\ \A t \in 1..Window : passed[t] = 0
      BY DEF DoorInit
    <3>4. SumTo(passed, 0) = 0
      BY <1>1, <3>3, SumToIsSum
    <3>5. i \in 1..Window
      BY <1>1, <3>2, <3>4
    <3>6. i - 1 \in 0..Window /\ ~(i <= i - 1)
      BY <1>1, <3>5
    <3>7. SumTo(passed, i - 1) = 0
      BY <3>2, <3>6
    <3>8. SumTo(passed, i) = passed[i] + SumTo(passed, i - 1)
      BY <1>1, <3>3, <3>5, SumToIsSum
    <3> QED
      BY <3>2, <3>3, <3>5, <3>7, <3>8
  <2> QED
    BY <2>1
<1>7. ASSUME NEW k \in Key
      PROVE  Metered(k)
  <2>1. Cardinality(Reserved) = 0
    BY <1>4, FS_EmptySet
  <2>2. Between(k) = 0
    BY <2>1 DEF Between
  <2>3. counter[k].count = 0 /\ counter[k].left = 0
    BY DEF DoorInit, NoCounter
  <2>4. Horizon(k) \in 0..Window
    BY <1>5, MeterTypes
  <2>5. SumTo(passed, Horizon(k)) = 0
    BY <1>6, <2>4
  <2>6. passed[1] = 0
    BY <1>1 DEF DoorInit
  <2> QED
    BY <1>2, <2>2, <2>3, <2>5, <2>6 DEF Metered, MeterSound
<1>8. RotationInv
  <2>1. \A c \in Calls : call[c].key # 2
    BY <1>3, RestIsCall
  <2>2. ~(overlap > 0) /\ \A r \in Replicas : stage[r] # 2
    BY DEF DoorInit
  <2> QED
    BY <1>7, <2>1, <2>2 DEF RotationInv
<1> QED
  BY <1>5, <1>8 DEF DoorInv

\* Every step of the front door keeps the bulkhead exact and the meters sound.
LEMMA DoorStepSafe ==
  ASSUME DoorInv, [DoorNext]_doorVars
  PROVE  DoorInv'
<1>1. CASE UNCHANGED doorVars
  <2>1. /\ watched' = watched /\ stage' = stage /\ overlap' = overlap /\ bulkhead' = bulkhead
        /\ call' = call /\ counter' = counter /\ failures' = failures /\ passed' = passed
    BY <1>1 DEF doorVars
  <2>2. DoorTypeOK'
    BY <2>1 DEF DoorInv, DoorTypeOK, Limit
  <2>3. \A k \in Key : Metered(k)'
    BY <2>1, ZenonT(30) DEF DoorInv, RotationInv, Metered, MeterSound, Horizon, Between, Reserved, Limit
  <2>4. RotationInv'
    BY <2>1, <2>3 DEF DoorInv, RotationInv
  <2> QED
    BY <2>2, <2>4 DEF DoorInv
<1>2. CASE Tick
  BY <1>2, TickSafe
<1>3. CASE \E r \in Replicas : Roll(r)
  BY <1>3, RollSafe
<1>4. ASSUME NEW c \in Calls, NEW kind \in Kinds, NEW r \in Replicas, Arrive(c, kind, r)
      PROVE  DoorInv'
  BY <1>4, ArriveSafe
<1>5. ASSUME NEW c \in Calls, CallStep(c)
      PROVE  DoorInv'
  <2>1. DoorTypeOK /\ watched \in Scope /\ watched # "idle" /\ "idle" \notin Scope
    BY DEF DoorInv, DoorTypeOK, Scope
  <2>2. failures \in 0..MaxAllowFailures /\ MaxAllowFailures \in Nat
    BY <2>1, DoorAssumption DEF DoorTypeOK
  <2>3. CASE AllowNext(c)
    BY <2>3, ReserveSafe, PassSafe
  <2>4. CASE OverLimit(c)
    <3>1. /\ call[c].pc = watched /\ Charge(c) /\ Leaves(c) /\ failures' = failures
          /\ UNCHANGED <<settingVars, passed>>
      BY <2>4 DEF OverLimit
    <3> QED
      BY <2>1, <2>2, <3>1, LeavingSafe
  <2>5. CASE AllowFails(c)
    <3>1. /\ call[c].pc = watched /\ Leaves(c) /\ UNCHANGED <<settingVars, passed>>
          /\ counter' = counter \/ Charge(c)
          /\ failures' = failures + 1 /\ failures < MaxAllowFailures
      BY <2>5 DEF AllowFails
    <3>2. failures' \in 0..MaxAllowFailures
      BY <2>2, <3>1
    <3> QED
      BY <2>1, <3>1, <3>2, LeavingSafe
  <2>6. CASE PassOther(c)
    <3>1. PICK pc : pc = Onward(c)
      OBVIOUS
    <3>2. /\ pc \in {"auth", "serve"} \cup Scope
          /\ call[c].pc # "idle" /\ call[c].pc # watched
          /\ call' = [call EXCEPT ![c].pc = pc]
          /\ UNCHANGED <<settingVars, bulkhead, counter, failures, passed>>
      BY <2>1, <2>6, <3>1 DEF PassOther, Onward, Scope
    <3> QED
      BY <3>2, MovingOnSafe
  <2>7. CASE RefusedByOther(c)
    BY <2>1, <2>2, <2>7, LeavingSafe DEF RefusedByOther
  <2>8. CASE Authenticated(c)
    <3>1. PICK pc : pc = "user"
      OBVIOUS
    <3>2. /\ pc \in {"auth", "serve"} \cup Scope
          /\ call[c].pc # "idle" /\ call[c].pc # watched
          /\ call' = [call EXCEPT ![c].pc = pc]
          /\ UNCHANGED <<settingVars, bulkhead, counter, failures, passed>>
      BY <2>1, <2>8, <3>1 DEF Authenticated, Scope
    <3> QED
      BY <3>2, MovingOnSafe
  <2>9. CASE Unauthorized(c)
    BY <2>1, <2>2, <2>9, LeavingSafe DEF Unauthorized
  <2>10. CASE Serve(c)
    BY <2>1, <2>2, <2>10, LeavingSafe DEF Serve
  <2> QED
    BY <1>5, <2>3, <2>4, <2>5, <2>6, <2>7, <2>8, <2>9, <2>10 DEF CallStep
<1> QED
  BY <1>1, <1>2, <1>3, <1>4, <1>5 DEF DoorNext

\* The invariant of the front door holds in every reachable state.
THEOREM FrontDoorSafe == DoorSpec => []DoorInv
<1>1. DoorInit => DoorInv
  BY DoorInitSafe
<1>2. DoorInv /\ [DoorNext]_doorVars => DoorInv'
  BY DoorStepSafe
<1> QED
  BY <1>1, <1>2, PTL DEF DoorSpec

\* The keys of the replicas decide which of the two meters counts every call.
LEMMA RotationBounded ==
  ASSUME DoorInv
  PROVE  LimitSurvivesRotation
<1>1. DoorTypeOK /\ watched \in Scope /\ passed \in [1..Window -> Nat]
  BY DEF DoorInv, DoorTypeOK
<1>2. \E k \in Key : Horizon(k) = Window
  <2>1. CASE \A r \in Replicas : stage[r] <= 1
    BY <2>1 DEF Horizon, Key
  <2>2. CASE ~\A r \in Replicas : stage[r] <= 1
    <3>1. PICK r \in Replicas : ~(stage[r] <= 1)
      BY <2>2
    <3>2. stage[r] = 2
      <4>1. stage[r] \in 0..2
        BY <1>1 DEF DoorTypeOK
      <4> QED
        BY <3>1, <4>1
    <3>3. overlap = Window
      BY <3>2 DEF DoorInv, RotationInv
    <3> QED
      BY <3>3 DEF Horizon, Key
  <2> QED
    BY <2>1, <2>2
<1>3. PICK k \in Key : Horizon(k) = Window
  BY <1>2
<1>4. PICK m, b : m = counter[k] /\ b = Between(k)
  OBVIOUS
<1>5. m \in MeterRecord /\ b \in Nat
  BY <1>1, <1>4, MeterTypes
<1>6. MeterSound(m, Window, passed, b)
  BY <1>3, <1>4 DEF DoorInv, RotationInv, Metered
<1>7. FoldFunction(+, 0, passed) <= 2 * Limit - 1
  BY <1>1, <1>5, <1>6, MeterBounds
<1> QED
  BY <1>7 DEF LimitSurvivesRotation

\* The front door keeps its types, and the bulkhead counts exactly, whichever way
\* a call leaves the middleware.
THEOREM DoorTypeCorrect == DoorSpec => []DoorTypeOK
<1>1. DoorInv => DoorTypeOK
  BY DEF DoorInv
<1> QED
  BY <1>1, FrontDoorSafe, PTL

\* enforceRateLimit holds through a rotation of the abuse key, for any number of
\* calls and replicas, any limit and any length of its window.
THEOREM LimitSurvivesRotationSafe == DoorSpec => []LimitSurvivesRotation
<1>1. DoorInv => LimitSurvivesRotation
  BY RotationBounded
<1> QED
  BY <1>1, FrontDoorSafe, PTL

-----------------------------------------------------------------------------
(* The two instances side by side.                                         *)

\* Side by side, as the runs check them, startSearch and the middleware each
\* behave as their own specification says.
THEOREM EdgeIsBoth == EdgeSpec => Spec /\ DoorSpec
<1>1. EdgeInit => Init /\ DoorInit
  BY DEF EdgeInit
<1>2. ASSUME [KeyNext \/ DoorwayNext]_edgeVars
      PROVE  [Next]_vars /\ [DoorNext]_doorVars
  <2>1. CASE UNCHANGED edgeVars
    BY <2>1 DEF edgeVars
  <2>2. CASE KeyNext
    <3>1. UNCHANGED distributed /\ UNCHANGED doorVars
      BY <2>2 DEF KeyNext, AtKey
    <3>2. ASSUME NEW r \in Requests,
                 \/ AtKey(BeginInProcess(r)) \/ AtKey(GetRecord(r)) \/ AtKey(RepairFingerprint(r))
                 \/ AtKey(MarkFingerprint(r)) \/ AtKey(CompareFingerprint(r)) \/ AtKey(ClaimRecord(r))
                 \/ AtKey(ClaimRetried(r)) \/ AtKey(RereadRecord(r)) \/ AtKey(BeginFailed(r))
                 \/ AtKey(Recover(r)) \/ AtKey(Replay(r)) \/ AtKey(StartSearch(r))
                 \/ AtKey(StartRejected(r)) \/ AtKey(StartFailed(r)) \/ AtKey(SetOwner(r))
                 \/ AtKey(SetOwnerFailed(r)) \/ AtKey(UndoStart(r)) \/ AtKey(ForgetIdempotency(r))
                 \/ AtKey(CompleteIdempotency(r))
          PROVE  Next
      <4>1. RequestStep(r)
        BY <3>2 DEF AtKey, RequestStep
      <4> QED
        BY <3>1, <4>1 DEF Next
    <3>3. Next
      <4>1. CASE \E b \in Bodies : AtKey(DeleteSearch(b)) \/ AtKey(DeleteOwner(b)) \/ AtKey(UpstreamForgets(b))
        BY <3>1, <4>1 DEF AtKey, Next
      <4>2. CASE AtKey(ClaimExpires)
        BY <3>1, <4>2 DEF AtKey, Next
      <4>3. ASSUME NEW r \in Requests, NEW b \in Bodies, AtKey(Post(r, b))
            PROVE  Next
        BY <3>1, <4>3 DEF AtKey, Next
      <4> QED
        BY <2>2, <3>2, <4>1, <4>2, <4>3 DEF KeyNext, AtKey
    <3> QED
      BY <3>1, <3>3
  <2>3. CASE DoorwayNext
    <3>1. UNCHANGED vars
      BY <2>3 DEF DoorwayNext, AtDoor
    <3>2. DoorNext
      BY <2>3 DEF DoorwayNext, AtDoor, DoorNext, CallStep
    <3> QED
      BY <3>1, <3>2
  <2> QED
    BY <1>2, <2>1, <2>2, <2>3
<1> QED
  BY <1>1, <1>2, PTL DEF EdgeSpec, Spec, DoorSpec

\* The variables of both components keep their types in that composition: a
\* claim holds the token of its POST (BeginIdempotency), and the bulkhead counts
\* the calls it works on exactly (middleware).
THEOREM EdgeTypeCorrect == EdgeSpec => []EdgeTypeOK
<1>1. TypeOK /\ DoorTypeOK => EdgeTypeOK
  BY DEF EdgeTypeOK
<1> QED
  BY <1>1, EdgeIsBoth, IdempotencyTypeCorrect, DoorTypeCorrect, PTL

=============================================================================
