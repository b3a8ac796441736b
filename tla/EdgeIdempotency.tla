--------------------------- MODULE EdgeIdempotency ---------------------------
(***************************************************************************)
(* POST /api/v1/route-searches under one Idempotency-Key of one principal  *)
(* (edge-api server.go startSearch, recoverOperation, deleteSearch) over   *)
(* the idempotency record, its body fingerprint and the ownership map      *)
(* (state.go, in-process and Redis).                                       *)
(*                                                                         *)
(* The operation key sent to the orchestrator is a hash of this key and the*)
(* request body, so a body names the search it starts.  Redis BEGIN is a   *)
(* chain of single commands, and several edge replicas run it at once; the *)
(* in-process BEGIN is one critical section.  Any round trip may fail, with*)
(* or without its effect.  IDEMPOTENCY_TTL itself does not run out here:   *)
(* only the 30 second claim does.                                          *)
(***************************************************************************)
EXTENDS Naturals, FiniteSets

CONSTANTS
  Requests,     \* POSTs with this key, retries and duplicates included
  Bodies,       \* canonical request bodies
  Rejected,     \* those the orchestrator answers with 422
  NoBody,       \* no fingerprint stored
  Deployments,  \* the states in use: TRUE for redisState, FALSE for memoryState
  MaxFaults,    \* bound: failed round trips
  MaxExpiries   \* bound: pending claims that run out

ASSUME IdempotencyAssumption ==
  /\ Requests # {}
  /\ IsFiniteSet(Bodies) /\ Bodies # {}
  /\ Rejected \subseteq Bodies
  /\ NoBody \notin Bodies
  /\ Deployments \subseteq BOOLEAN
  /\ MaxFaults \in Nat
  /\ MaxExpiries \in Nat

VARIABLES
  distributed,  \* whether this deployment keeps its state in Redis
  record,       \* state ("none", "pending", "done"), body, token
  fingerprint,  \* the body hash kept beside the record
  upstream,     \* bodies whose search the orchestrator holds
  owned,        \* bodies whose search has an owner entry
  deleting,     \* bodies between the DELETE upstream and DeleteOwner
  deleted,      \* bodies the client has deleted (history)
  accepted,     \* bodies a POST was answered 202 for (history)
  request,      \* per POST: pc, body, token
  faults, expiries,
  freed         \* whether a FORGET has freed the key (history)

vars == <<distributed, record, fingerprint, upstream, owned, deleting, deleted, accepted, request,
          faults, expiries, freed>>
searchVars == <<upstream, owned, deleting, deleted>>

PC == {"new", "get", "repair", "mark", "compare", "claim", "reread", "recover", "replay",
       "start", "own", "undo", "forget", "complete", "done"}
Body  == CHOOSE b \in Bodies : TRUE
NoRecord == [state |-> "none", body |-> Body, token |-> CHOOSE r \in Requests : TRUE]

Init ==
  /\ distributed \in Deployments
  /\ record = NoRecord
  /\ fingerprint = NoBody
  /\ upstream = {}
  /\ owned = {}
  /\ deleting = {}
  /\ deleted = {}
  /\ accepted = {}
  /\ request = [r \in Requests |-> [pc |-> "new", body |-> Body, token |-> r]]
  /\ faults = 0
  /\ expiries = 0
  /\ freed = FALSE

Fault   == faults < MaxFaults /\ faults' = faults + 1
NoFault == UNCHANGED faults

\* A failed Redis round trip; the in-process store does not fail.
StateFault == distributed /\ Fault

At(r, pc)   == request[r].pc = pc
Goto(r, pc) == request' = [request EXCEPT ![r].pc = pc]

\* The handler returns; what it knew is gone.
Return(r) == request' = [request EXCEPT ![r] = [pc |-> "done", body |-> Body, token |-> r]]

\* An answer without a search: 409, 422 or 503.
Answer(r) == Return(r) /\ UNCHANGED accepted

AnswerAccepted(r) == Return(r) /\ accepted' = accepted \cup {request[r].body}

Claimed(r) == [state |-> "pending", body |-> request[r].body, token |-> r]

-----------------------------------------------------------------------------
(* BeginIdempotency.                                                       *)

Post(r, b) ==
  /\ At(r, "new")
  /\ request' = [request EXCEPT ![r].pc = "get", ![r].body = b]
  /\ UNCHANGED <<record, fingerprint, searchVars, accepted, faults, expiries, freed>>

\* What an existing record means for a POST (existingIdempotency): another
\* body is a conflict, a pending claim is joined under its own token.
Existing(r, pending, done) ==
  \/ /\ record.body # request[r].body
     /\ Answer(r)
  \/ /\ record.body = request[r].body
     /\ request' = IF record.state = "pending"
                   THEN [request EXCEPT ![r].pc = pending, ![r].token = record.token]
                   ELSE [request EXCEPT ![r].pc = done]
     /\ UNCHANGED accepted

FingerprintMatchesAny(r) == fingerprint # NoBody

FingerprintMatches(r) == fingerprint = request[r].body

\* memoryState: one critical section.
BeginInProcess(r) ==
  /\ ~distributed /\ At(r, "get")
  /\ IF record.state # "none"
     THEN /\ Existing(r, "recover", "replay")
          /\ fingerprint' = IF record.body = request[r].body THEN record.body ELSE fingerprint
          /\ UNCHANGED record
     ELSE IF fingerprint # NoBody /\ ~FingerprintMatches(r)
     THEN Answer(r) /\ UNCHANGED <<record, fingerprint>>
     ELSE /\ record' = Claimed(r)
          /\ fingerprint' = request[r].body
          /\ Goto(r, "start")
          /\ UNCHANGED accepted
  /\ UNCHANGED <<searchVars, faults, expiries, freed>>

\* redisState: GET record ...
GetRecord(r) ==
  /\ distributed /\ At(r, "get")
  /\ \/ record.state # "none" /\ Existing(r, "repair", "repair")
     \/ record.state = "none" /\ Goto(r, "mark") /\ UNCHANGED accepted
  /\ UNCHANGED <<record, fingerprint, searchVars, faults, expiries, freed>>

SetFingerprintIfAbsent(r) ==
  fingerprint' = IF fingerprint = NoBody THEN request[r].body ELSE fingerprint

\* ... SETNX fingerprint beside an existing record.  The answer is the record
\* as it was read: pending if this POST was given its token.
RepairFingerprint(r) ==
  /\ At(r, "repair")
  /\ SetFingerprintIfAbsent(r)
  /\ Goto(r, IF request[r].token # r THEN "recover" ELSE "replay")
  /\ UNCHANGED <<record, searchVars, accepted, faults, expiries, freed>>

\* ... SETNX fingerprint for a new key ...
MarkFingerprint(r) ==
  /\ At(r, "mark")
  /\ SetFingerprintIfAbsent(r)
  /\ Goto(r, IF fingerprint = NoBody THEN "claim" ELSE "compare")
  /\ UNCHANGED <<record, searchVars, accepted, faults, expiries, freed>>

CompareFingerprintRestarts(r) ==
  /\ At(r, "compare")
  /\ Goto(r, IF FingerprintMatches(r) THEN "claim" ELSE "get")
  /\ UNCHANGED <<record, fingerprint, searchVars, accepted, faults, expiries, freed>>

\* ... GET fingerprint; if it is gone by now BEGIN starts over ...
CompareFingerprint(r) ==
  /\ At(r, "compare")
  /\ \/ fingerprint = NoBody /\ Goto(r, "get") /\ UNCHANGED accepted
     \/ FingerprintMatches(r) /\ Goto(r, "claim") /\ UNCHANGED accepted
     \/ fingerprint # NoBody /\ ~FingerprintMatches(r) /\ Answer(r)
  /\ UNCHANGED <<record, fingerprint, searchVars, faults, expiries, freed>>

ClaimRecordOverwrites(r) ==
  /\ At(r, "claim")
  /\ record' = Claimed(r)
  /\ Goto(r, "start")
  /\ UNCHANGED <<fingerprint, searchVars, accepted, faults, expiries, freed>>

\* ... SETNX record, the arbiter between concurrent claims ...
ClaimRecord(r) ==
  /\ At(r, "claim")
  /\ \/ /\ record.state = "none"
        /\ record' = Claimed(r)
        /\ Goto(r, "start")
     \/ /\ record.state # "none"
        /\ Goto(r, "reread")
        /\ UNCHANGED record
  /\ UNCHANGED <<fingerprint, searchVars, accepted, faults, expiries, freed>>

\* The client library repeats a SETNX whose reply was lost: the claim is this
\* POST's own, yet it is told that it lost.
ClaimRetried(r) ==
  /\ At(r, "claim")
  /\ StateFault
  /\ record.state = "none"
  /\ record' = Claimed(r)
  /\ Goto(r, "reread")
  /\ UNCHANGED <<fingerprint, searchVars, accepted, expiries, freed>>

\* ... and GET record for the one that lost.
RereadRecord(r) ==
  /\ At(r, "reread")
  /\ \/ record.state # "none" /\ Existing(r, "recover", "replay")
     \/ record.state = "none" /\ Goto(r, "get") /\ UNCHANGED accepted
  /\ UNCHANGED <<record, fingerprint, searchVars, faults, expiries, freed>>

\* A Redis error ends the POST with 503; a SETNX may have been applied.
BeginFailed(r) ==
  /\ StateFault
  /\ request[r].pc \in {"get", "repair", "mark", "compare", "claim", "reread"}
  /\ Answer(r)
  /\ \/ UNCHANGED <<record, fingerprint>>
     \/ request[r].pc \in {"repair", "mark"} /\ SetFingerprintIfAbsent(r) /\ UNCHANGED record
     \/ At(r, "claim") /\ record.state = "none" /\ record' = Claimed(r) /\ UNCHANGED fingerprint
  /\ UNCHANGED <<searchVars, expiries, freed>>

-----------------------------------------------------------------------------
(* The orchestrator call and what follows it.                              *)

\* recoverOperation for a claim in progress: 409 unless the search is there.
Recover(r) ==
  /\ At(r, "recover")
  /\ \/ request[r].body \in upstream /\ Goto(r, "own") /\ UNCHANGED accepted /\ NoFault
     \/ request[r].body \notin upstream /\ Answer(r) /\ NoFault
     \/ Answer(r) /\ Fault
  /\ UNCHANGED <<record, fingerprint, searchVars, expiries, freed>>

\* A completed record: the current result is fetched, or 503.
Replay(r) ==
  /\ At(r, "replay")
  /\ \/ request[r].body \in upstream /\ AnswerAccepted(r) /\ NoFault
     \/ request[r].body \notin upstream /\ Answer(r) /\ NoFault
     \/ Answer(r) /\ Fault
  /\ UNCHANGED <<record, fingerprint, searchVars, expiries, freed>>

StartSearch(r) ==
  /\ At(r, "start")
  /\ request[r].body \notin Rejected
  /\ upstream' = upstream \cup {request[r].body}
  /\ Goto(r, "own")
  /\ UNCHANGED <<record, fingerprint, owned, deleting, deleted, accepted, faults, expiries, freed>>

\* 422: nothing was started, the key is free again.
StartRejected(r) ==
  /\ At(r, "start")
  /\ request[r].body \in Rejected
  /\ Goto(r, "forget")
  /\ UNCHANGED <<record, fingerprint, searchVars, accepted, faults, expiries, freed>>

\* An ambiguous commit: recoverOperation finds the search, or the POST ends
\* with 503 and the claim is kept.
StartFailed(r) ==
  /\ At(r, "start")
  /\ Fault
  /\ \/ /\ request[r].body \notin Rejected
        /\ upstream' = upstream \cup {request[r].body}
     \/ UNCHANGED upstream
  /\ \/ Answer(r)
     \/ request[r].body \in upstream' /\ Goto(r, "own") /\ UNCHANGED accepted
  /\ UNCHANGED <<record, fingerprint, owned, deleting, deleted, expiries, freed>>

SetOwnerSkipped(r) ==
  /\ At(r, "own")
  /\ Goto(r, "complete")
  /\ UNCHANGED <<record, fingerprint, searchVars, accepted, faults, expiries, freed>>

SetOwner(r) ==
  /\ At(r, "own")
  /\ owned' = owned \cup {request[r].body}
  /\ Goto(r, "complete")
  /\ UNCHANGED <<record, fingerprint, upstream, deleting, deleted, accepted, faults, expiries, freed>>

SetOwnerFailed(r) ==
  /\ At(r, "own")
  /\ StateFault
  /\ owned' \in {owned, owned \cup {request[r].body}}
  /\ Goto(r, "undo")
  /\ UNCHANGED <<record, fingerprint, upstream, deleting, deleted, accepted, expiries, freed>>

\* Without an owner the search is deleted; the key is freed if that worked.
UndoStart(r) ==
  /\ At(r, "undo")
  /\ \/ /\ upstream' = upstream \ {request[r].body}
        /\ Goto(r, "forget")
        /\ UNCHANGED accepted
        /\ NoFault
     \/ /\ upstream' \in {upstream, upstream \ {request[r].body}}
        /\ Answer(r)
        /\ Fault
  /\ UNCHANGED <<record, fingerprint, owned, deleting, deleted, expiries, freed>>

\* A claim can be completed or forgotten only under its own token.
HoldsClaim(r) == record.state = "pending" /\ record.token = request[r].token

ForgetIdempotency(r) ==
  /\ At(r, "forget")
  /\ \/ /\ NoFault
        /\ IF HoldsClaim(r) THEN record' = NoRecord /\ fingerprint' = NoBody /\ freed' = TRUE
                            ELSE UNCHANGED <<record, fingerprint, freed>>
     \/ StateFault /\ UNCHANGED <<record, fingerprint, freed>>
  /\ Answer(r)
  /\ UNCHANGED <<searchVars, expiries>>

\* Completion turns the claim into the answer of every later POST.
Completed(r) == [record EXCEPT !.state = "done"]

\* A failed completion is only logged: the answer is 202 either way.
CompleteIdempotency(r) ==
  /\ At(r, "complete")
  /\ \/ /\ NoFault
        /\ IF HoldsClaim(r) /\ record.body = request[r].body
           THEN record' = Completed(r) /\ fingerprint' = request[r].body
           ELSE UNCHANGED <<record, fingerprint>>
     \/ StateFault /\ UNCHANGED <<record, fingerprint>>
  /\ AnswerAccepted(r)
  /\ UNCHANGED <<searchVars, expiries, freed>>

-----------------------------------------------------------------------------
(* The client, the clock and the orchestrator's own losses.                *)

\* deleteSearch: the search first, its owner entry in a second step.  A lost
\* answer leaves the owner entry behind.
DeleteSearch(b) ==
  /\ b \in owned \cap upstream
  /\ upstream' = upstream \ {b}
  /\ \/ deleting' = deleting \cup {b} /\ NoFault
     \/ UNCHANGED deleting /\ Fault
  /\ deleted' = deleted \cup {b}
  /\ UNCHANGED <<record, fingerprint, owned, accepted, request, expiries, freed>>

DeleteOwner(b) ==
  /\ b \in deleting
  /\ deleting' = deleting \ {b}
  /\ \/ owned' = owned \ {b} /\ NoFault
     \/ UNCHANGED owned /\ StateFault
  /\ UNCHANGED <<record, fingerprint, upstream, deleted, accepted, request, expiries, freed>>

\* pendingIdempotencyTTL: the claim runs out, the fingerprint stays.
ClaimExpires ==
  /\ record.state = "pending"
  /\ expiries < MaxExpiries
  /\ expiries' = expiries + 1
  /\ record' = NoRecord
  /\ UNCHANGED <<fingerprint, searchVars, accepted, request, faults, freed>>

\* SEARCH_STATE_TTL or a restart of an in-process orchestrator.
UpstreamForgets(b) ==
  /\ b \in upstream
  /\ Fault
  /\ upstream' = upstream \ {b}
  /\ UNCHANGED <<record, fingerprint, owned, deleting, deleted, accepted, request, expiries, freed>>

RequestStep(r) ==
  \/ BeginInProcess(r) \/ GetRecord(r) \/ RepairFingerprint(r) \/ MarkFingerprint(r)
  \/ CompareFingerprint(r) \/ ClaimRecord(r) \/ ClaimRetried(r) \/ RereadRecord(r) \/ BeginFailed(r)
  \/ Recover(r) \/ Replay(r)
  \/ StartSearch(r) \/ StartRejected(r) \/ StartFailed(r)
  \/ SetOwner(r) \/ SetOwnerFailed(r) \/ UndoStart(r)
  \/ ForgetIdempotency(r) \/ CompleteIdempotency(r)

Next ==
  /\ \/ \E r \in Requests : RequestStep(r) \/ \E b \in Bodies : Post(r, b)
     \/ \E b \in Bodies : DeleteSearch(b) \/ DeleteOwner(b) \/ UpstreamForgets(b)
     \/ ClaimExpires
  /\ UNCHANGED distributed

Spec == Init /\ [][Next]_vars

\* Handlers run to their end; clients and expiry owe nothing.
FairSpec == Spec /\ \A r \in Requests : WF_vars(RequestStep(r) /\ UNCHANGED distributed)

-----------------------------------------------------------------------------
(* Properties.                                                             *)

\* What the variables of state.go and startSearch hold.
TypeOK ==
  /\ distributed \in Deployments
  /\ record \in [state: {"none", "pending", "done"}, body: Bodies, token: Requests]
  /\ fingerprint \in Bodies \cup {NoBody}
  /\ upstream \subseteq Bodies
  /\ owned \subseteq Bodies
  /\ deleting \subseteq Bodies
  /\ deleted \subseteq Bodies
  /\ accepted \subseteq Bodies
  /\ request \in [Requests -> [pc: PC, body: Bodies, token: Requests]]
  /\ faults \in 0..MaxFaults
  /\ expiries \in 0..MaxExpiries
  /\ freed \in BOOLEAN

\* THREAT_MODEL.md: a key reused with a changed body is rejected.  Whatever
\* retries, duplicates and expired claims interleave in BEGIN, COMPLETE and
\* FORGET, one key is accepted for one body only.
OneBodyPerKey == Cardinality(accepted) <= 1

\* The same in each of three situations, whatever else goes wrong.  As long as
\* no FORGET has freed the key, the fingerprint is there for good.  As long as
\* no round trip has failed and no claim has run out, the record decides.
\* In-process BEGIN, being one step, never separates the two.  (FORGET deletes
\* the fingerprint whosever it is, so a POST that found its own and claims late
\* may hold the record beside another body's fingerprint.)
OneBodyUnlessFreed ==
  ~freed \/ (faults = 0 /\ expiries = 0) \/ ~distributed => Cardinality(accepted) <= 1

\* A search the client was given, and has not deleted, is one it may read:
\* startSearch answers 202 only once the owner entry is stored, and a failed
\* duplicate does not take it away.
AcceptedIsOwned == \A b \in accepted \ deleted : b \in upstream => b \in owned

\* A completed record is final until its TTL: no stale claim holder overwrites
\* or forgets it, and no late BEGIN claims over it.
CompletionIsFinal == [][record.state = "done" => record' = record]_vars

\* Every POST is answered: the restarts of BEGIN do not chase each other for
\* ever.  There are finitely many POSTs, so in the end none is at work.
RequestsAnswered == <>[](\A r \in Requests : At(r, "new") \/ At(r, "done"))
=============================================================================
