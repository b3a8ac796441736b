--------------------------- MODULE SearchResource ---------------------------
(***************************************************************************)
(* What docs/adr/ADR-006 and the orchestrator's API (server.go: start, get,*)
(* delete, events) promise of a search resource: it is accepted, closed    *)
(* once with an outcome that is published as its only terminal event, and  *)
(* may disappear (DELETE, TTL, loss of in-process state).  A closed search *)
(* never reopens and its outcome never changes.                            *)
(***************************************************************************)
EXTENDS Naturals

CONSTANTS Keys, Outcome

VARIABLES
  state,      \* per key: "absent", "open" or an outcome
  published   \* per key: how often its stream holds each terminal event

vars == <<state, published>>

Nothing == [o \in Outcome |-> 0]
Only(outcome) == [o \in Outcome |-> IF o = outcome THEN 1 ELSE 0]

Init ==
  /\ state = [k \in Keys |-> "absent"]
  /\ published = [k \in Keys |-> Nothing]

Accept(k) ==
  /\ state[k] = "absent"
  /\ state' = [state EXCEPT ![k] = "open"]
  /\ UNCHANGED published

Close(k, outcome) ==
  /\ state[k] = "open"
  /\ state' = [state EXCEPT ![k] = outcome]
  /\ published' = [published EXCEPT ![k] = Only(outcome)]

\* Some searches go, with their events: one by DELETE or TTL, all of them when
\* in-process state is lost.
Disappear(gone) ==
  /\ state' = [k \in Keys |-> IF k \in gone THEN "absent" ELSE state[k]]
  /\ published' = [k \in Keys |-> IF k \in gone THEN Nothing ELSE published[k]]

Next ==
  \/ \E k \in Keys : Accept(k) \/ \E outcome \in Outcome : Close(k, outcome)
  \/ \E gone \in SUBSET Keys : Disappear(gone)

Spec == Init /\ [][Next]_vars
=============================================================================
