-------------------------- MODULE MCSearchLifecycle --------------------------
(***************************************************************************)
(* Both stores in one instance: the in-process one with a key that is used *)
(* twice, the Redis one with a restart and two failed round trips.         *)
(***************************************************************************)
EXTENDS SearchLifecycle

Memory(reuse, old, stops) ==
  [durable |-> FALSE, perKey |-> reuse, stale |-> old, restarts |-> stops, faults |-> 0]

Redis(reuse, old, stops, failures) ==
  [durable |-> TRUE, perKey |-> reuse, stale |-> old, restarts |-> stops, faults |-> failures]

BothStores == {Memory(2, 0, 0), Memory(1, 1, 1), Redis(1, 1, 1, 2)}
InProcess  == {Memory(1, 0, 0)}
=============================================================================
