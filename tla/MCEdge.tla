------------------------------- MODULE MCEdge -------------------------------
(***************************************************************************)
(* edge-api in two instances checked side by side: POSTs under one         *)
(* Idempotency-Key (EdgeIdempotency), or one client's calls at the front   *)
(* door (FrontDoor).  A behaviour is of one of them.                       *)
(***************************************************************************)
EXTENDS EdgeIdempotency, FrontDoor

\* A window admits one call.
DoorLimits == [s \in Scope |-> 1]

VARIABLE part  \* the instance this behaviour is of

edgeVars == <<part, vars, doorVars>>

AtKey(A)  == part = "key" /\ A /\ UNCHANGED <<part, distributed, doorVars>>
AtDoor(A) == part = "door" /\ A /\ UNCHANGED <<part, vars>>

\* Two limits are watched: the address's, before authentication, and that of
\* searches, last of the three.  The user's is the address's, after it.
EdgeInit ==
  /\ part \in {"key", "door"}
  /\ Init
  /\ DoorInit
  /\ part = "door" => distributed = CHOOSE d \in Deployments : TRUE
  /\ watched \in IF part = "door" THEN {"ip", "search"} ELSE {"ip"}

\* POSTs differ in nothing but their names, and so do the bodies that are not
\* rejected.  Of three POSTs one of two such bodies has at most one, and it may
\* be this body and this POST.
LoneBody == CHOOSE b \in Bodies \ Rejected : TRUE
LonePost == CHOOSE r \in Requests : TRUE

KeyNext ==
  \/ \E r \in Requests :
       \/ \E b \in Bodies : (b = LoneBody => r = LonePost) /\ AtKey(Post(r, b))
       \/ AtKey(BeginInProcess(r)) \/ AtKey(GetRecord(r)) \/ AtKey(RepairFingerprint(r))
       \/ AtKey(MarkFingerprint(r)) \/ AtKey(CompareFingerprint(r)) \/ AtKey(ClaimRecord(r))
       \/ AtKey(ClaimRetried(r)) \/ AtKey(RereadRecord(r)) \/ AtKey(BeginFailed(r))
       \/ AtKey(Recover(r)) \/ AtKey(Replay(r)) \/ AtKey(StartSearch(r))
       \/ AtKey(StartRejected(r)) \/ AtKey(StartFailed(r)) \/ AtKey(SetOwner(r))
       \/ AtKey(SetOwnerFailed(r)) \/ AtKey(UndoStart(r)) \/ AtKey(ForgetIdempotency(r))
       \/ AtKey(CompleteIdempotency(r))
  \/ \E b \in Bodies : \/ AtKey(DeleteSearch(b)) \/ AtKey(DeleteOwner(b))
                       \/ AtKey(UpstreamForgets(b))
  \/ AtKey(ClaimExpires)

DoorwayNext ==
  \/ AtDoor(Tick)
  \/ \E r \in Replicas : AtDoor(Roll(r))
  \/ \E c \in Calls :
       \/ \E kind \in Kinds, r \in Replicas : AtDoor(Arrive(c, kind, r))
       \/ AtDoor(AllowNext(c)) \/ AtDoor(OverLimit(c)) \/ AtDoor(AllowFails(c))
       \/ AtDoor(PassOther(c)) \/ AtDoor(RefusedByOther(c))
       \/ AtDoor(Authenticated(c)) \/ AtDoor(Unauthorized(c)) \/ AtDoor(Serve(c))

\* The fairness of the two specifications, each for its own behaviours.
EdgeFairness ==
  /\ \A r \in Requests : WF_edgeVars(AtKey(RequestStep(r)))
  /\ SF_edgeVars(AtDoor(Tick))
  /\ \A c \in Calls : WF_edgeVars(AtDoor(Decide(c)))

EdgeSpec == EdgeInit /\ [][KeyNext \/ DoorwayNext]_edgeVars /\ EdgeFairness

\* The variables of both components keep their types: among them a claimed
\* record holds the token of its claim (BeginIdempotency), and the bulkhead of
\* the middleware is exact.
EdgeTypeOK == TypeOK /\ DoorTypeOK
=============================================================================
