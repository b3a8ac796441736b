---------------------------- MODULE EventStream ----------------------------
(***************************************************************************)
(* How browsers follow one search: the event log of internal/searchstore,  *)
(* the polling SSE loop of the orchestrator (server.go events), the edge   *)
(* that proxies it under a bounded number of slots (edge-api server.go     *)
(* events, acquireSSE), and the follower in the browser, which reconnects  *)
(* with Last-Event-ID (sse.ts) and falls back to polling                   *)
(* (use-route-search.ts monitor, monitorWithPolling).                      *)
(*                                                                         *)
(* Events are numbered 1, 2, ... and written in that order, so what is     *)
(* under way on a stream is the interval between the number last received  *)
(* and the cursor of the loop.  All followers are one principal's.  The    *)
(* terminal event carries its result (engine.go finalize), so the fetch    *)
(* for one without a result never happens.                                 *)
(***************************************************************************)
EXTENDS Naturals, Sequences, FiniteSets

CONSTANTS
  Followers,        \* browser tabs on this search
  Durable,          \* TRUE: events pass through Redis scripts
  Batch,            \* maximumEventReplayBatch
  MaxAttempts,      \* connections streamSearchEvents tries (4 in the code)
  MaxPollFailures,  \* failed polls in a row that end monitorWithPolling (3)
  MaxStreams,       \* capacity of sseGlobal
  MaxPerPrincipal,  \* config.MaxSSEPerPrincipal
  MaxEvents,        \* bound: events of the search
  MaxFaults         \* bound: disturbances (broken streams, failed polls, deletions, departures)

ASSUME StreamAssumption ==
  /\ IsFiniteSet(Followers)
  /\ Durable \in BOOLEAN
  /\ Batch \in Nat \ {0}
  /\ MaxAttempts \in Nat \ {0}
  /\ MaxPollFailures \in Nat \ {0}
  /\ MaxStreams \in Nat \ {0}
  /\ MaxPerPrincipal \in Nat \ {0}
  /\ MaxEvents \in Nat /\ MaxEvents >= 2  \* the accepted event and the terminal one
  /\ MaxFaults \in Nat

VARIABLES
  log,        \* the stored events, as EventsAfter can or cannot decode them
  concluded,  \* the search is terminal, its last event the terminal one
  gone,       \* the record is deleted or expired
  stream,     \* per follower and attempt: pc, after (cursor of the loop), empty
              \* (its last read) and got (the event the browser has read up to)
  global,     \* tokens in sseGlobal
  owner,      \* sseByOwner of the principal
  follower,   \* per follower: mode, attempt, last (lastEventId), failures, and the
              \* events it was shown whole and cut in half (history)
  faults

vars == <<log, concluded, gone, stream, global, owner, follower, faults>>
recordVars == <<log, concluded, gone>>
slotVars   == <<global, owner>>

Streams == Followers \X (1..MaxAttempts)
Mode    == {"connect", "stream", "backoff", "poll", "ready", "error", "expired", "left"}
Loop    == {"events", "status", "eof"}
PC      == {"none", "global", "get", "closing", "release", "done"} \cup Loop

\* The scripts decode an event and encode it again.  cjson makes an object of
\* an empty array, and EventsAfter cannot decode that into a slice.
Stored(emptyArrays) == IF Durable /\ emptyArrays THEN "undecodable" ELSE "event"

\* A monitor that has not begun or is over: its local state is gone.
Idle(mode) == [mode |-> mode, attempt |-> 0, last |-> 0, failures |-> 0, shown |-> <<>>, half |-> {}]

\* SEARCH_ACCEPTED, with the empty lists of the accepted envelope, is appended
\* before the search ID is known to anyone, at best effort.
Init ==
  /\ log \in {<<>>, <<Stored(TRUE)>>}
  /\ concluded = FALSE
  /\ gone = FALSE
  /\ stream = [s \in Streams |-> [pc |-> "none", after |-> 0, got |-> 0, empty |-> FALSE]]
  /\ global = 0
  /\ owner = 0
  /\ follower = [c \in Followers |-> Idle("connect")]
  /\ faults = 0

\* A disturbance; the bound keeps them few.
Fault == faults < MaxFaults /\ faults' = faults + 1

-----------------------------------------------------------------------------
(* The search: its worker, DELETE and TTL.                                 *)

\* A progress event carries no lists.
AppendEvent ==
  /\ ~gone /\ ~concluded
  /\ Len(log) < MaxEvents - 1
  /\ log' = Append(log, Stored(FALSE))
  /\ UNCHANGED <<concluded, gone, stream, slotVars, follower, faults>>

\* Status and terminal event in one step; the result may have empty lists.
Finalize ==
  /\ ~gone /\ ~concluded
  /\ concluded' = TRUE
  /\ \E emptyArrays \in BOOLEAN : log' = Append(log, Stored(emptyArrays))
  /\ UNCHANGED <<gone, stream, slotVars, follower, faults>>

Vanish ==
  /\ ~gone
  /\ Fault
  /\ gone' = TRUE
  /\ UNCHANGED <<log, concluded, stream, slotVars, follower>>

-----------------------------------------------------------------------------
(* The follower's connection attempts.                                     *)

Current(c) == <<c, follower[c].attempt + 1>>

IsCurrent(s) == follower[s[1]].mode = "stream" /\ s = Current(s[1])

\* What an attempt that ended without the terminal event leaves: the attempt
\* counter is never reset, and the last one hands over to polling.
AfterAttempt(c) ==
  LET n == follower[c].attempt + 1 IN
  [follower[c] EXCEPT !.attempt = n, !.mode = IF n < MaxAttempts THEN "backoff" ELSE "poll"]

ResumeFromStart(c) == 0

\* Last-Event-ID of the next request.
Resume(c) == follower[c].last

\* acquireSSE, first half: a token of the global channel.
Connect(c) ==
  /\ follower[c].mode = "connect"
  /\ global < MaxStreams
  /\ global' = global + 1
  /\ stream' = [stream EXCEPT ![Current(c)] =
       [pc |-> "global", after |-> Resume(c), got |-> Resume(c), empty |-> FALSE]]
  /\ follower' = [follower EXCEPT ![c].mode = "stream"]
  /\ UNCHANGED <<recordVars, owner, faults>>

\* 503, no token left.
ConnectRefused(c) ==
  /\ follower[c].mode = "connect"
  /\ global >= MaxStreams
  /\ follower' = [follower EXCEPT ![c] = AfterAttempt(c)]
  /\ UNCHANGED <<recordVars, stream, slotVars, faults>>

BackoffOver(c) ==
  /\ follower[c].mode = "backoff"
  /\ follower' = [follower EXCEPT ![c].mode = "connect"]
  /\ UNCHANGED <<recordVars, stream, slotVars, faults>>

-----------------------------------------------------------------------------
(* One stream: edge handler and orchestrator loop.                         *)

Goto(s, pc) == stream' = [stream EXCEPT ![s].pc = pc]

\* The handlers of a stream return; cursor and buffers go with them.
Leaves(s, pc) == stream' = [stream EXCEPT ![s] = [pc |-> pc, after |-> 0, got |-> 0, empty |-> FALSE]]

PrincipalHasRoomOffByOne == owner <= MaxPerPrincipal

PrincipalHasRoom == owner < MaxPerPrincipal

\* acquireSSE, second half: the count of the principal.
AcquireOwner(s) ==
  /\ stream[s].pc = "global"
  /\ PrincipalHasRoom
  /\ owner' = owner + 1
  /\ Goto(s, "get")
  /\ UNCHANGED <<recordVars, global, follower, faults>>

RejectOwnerKeepsToken(s) ==
  /\ stream[s].pc = "global"
  /\ ~PrincipalHasRoom
  /\ Leaves(s, "done")
  /\ follower' = IF IsCurrent(s) THEN [follower EXCEPT ![s[1]] = AfterAttempt(s[1])] ELSE follower
  /\ UNCHANGED <<recordVars, slotVars, faults>>

\* 429, and the token goes back.
RejectOwner(s) ==
  /\ stream[s].pc = "global"
  /\ ~PrincipalHasRoom
  /\ global' = global - 1
  /\ Leaves(s, "done")
  /\ follower' = IF IsCurrent(s) THEN [follower EXCEPT ![s[1]] = AfterAttempt(s[1])] ELSE follower
  /\ UNCHANGED <<recordVars, owner, faults>>

Open(s) ==
  /\ stream[s].pc = "get"
  /\ ~gone
  /\ Goto(s, "events")
  /\ UNCHANGED <<recordVars, slotVars, follower, faults>>

\* 404, or 401 once the session is over: the follower does not try again.
OpenDenied(s) ==
  /\ stream[s].pc = "get"
  /\ IF gone THEN UNCHANGED faults ELSE Fault
  /\ Leaves(s, "closing")
  /\ follower' = IF IsCurrent(s) THEN [follower EXCEPT ![s[1]].mode = "poll"] ELSE follower
  /\ UNCHANGED <<recordVars, slotVars>>

\* The numbers EventsAfter returns for a cursor.
EventsAfter(after) == {i \in DOMAIN log : i > after /\ i <= after + Batch}

\* One read of the log; an error ends the loop, and so does a record that is
\* gone.
ReadEvents(s) ==
  LET events == EventsAfter(stream[s].after) IN
  /\ stream[s].pc = "events"
  /\ stream' = [stream EXCEPT ![s] =
       IF gone \/ \E i \in events : log[i] = "undecodable"
       THEN [@ EXCEPT !.pc = "eof"]
       ELSE [@ EXCEPT !.pc = "status", !.after = stream[s].after + Cardinality(events),
                        !.empty = (events = {})]]
  /\ UNCHANGED <<recordVars, slotVars, follower, faults>>

\* The status is read after the events: a search closed in between ends the
\* stream before its terminal event was read.
CheckStatus(s) ==
  /\ stream[s].pc = "status"
  /\ stream' = [stream EXCEPT ![s].empty = FALSE,
       ![s].pc = IF gone \/ (concluded /\ stream[s].empty) THEN "eof" ELSE "events"]
  /\ UNCHANGED <<recordVars, slotVars, follower, faults>>

\* The edge handler returns: lifetime, idle timeout, upstream broken off, or
\* its client gone.
Close(s) ==
  /\ stream[s].pc \in {"get"} \cup Loop
  /\ ~IsCurrent(s)
  /\ Leaves(s, "closing")
  /\ UNCHANGED <<recordVars, slotVars, follower, faults>>

ReleaseOwner(s) ==
  /\ stream[s].pc = "closing"
  /\ owner' = owner - 1
  /\ Goto(s, "release")
  /\ UNCHANGED <<recordVars, global, follower, faults>>

ReleaseGlobal(s) ==
  /\ stream[s].pc = "release"
  /\ global' = global - 1
  /\ Leaves(s, "done")
  /\ UNCHANGED <<recordVars, owner, follower, faults>>

-----------------------------------------------------------------------------
(* What the follower makes of a stream.                                    *)

Pending(c) == stream[Current(c)].got < stream[Current(c)].after

IsTerminal(i) == concluded /\ i = Len(log)

\* A whole event; the terminal one ends the monitor, with its result.
Receive(c) ==
  LET i == stream[Current(c)].got + 1 IN
  /\ follower[c].mode = "stream"
  /\ Pending(c)
  /\ follower' = [follower EXCEPT ![c] =
       IF IsTerminal(i) THEN Idle("ready")
                        ELSE [@ EXCEPT !.last = i, !.shown = Append(follower[c].shown, i)]]
  /\ stream' = [stream EXCEPT ![Current(c)].got = i]
  /\ UNCHANGED <<recordVars, slotVars, faults>>

\* The stream ended in order, without the terminal event.
Ended(c) ==
  /\ follower[c].mode = "stream"
  /\ stream[Current(c)].pc = "eof"
  /\ ~Pending(c)
  /\ follower' = [follower EXCEPT ![c] = AfterAttempt(c)]
  /\ Leaves(Current(c), "closing")
  /\ UNCHANGED <<recordVars, slotVars, faults>>

\* The edge stops in the middle of an event and ends the response in order:
\* finish flushes the half event, whose number counts and whose data does not
\* parse.
Truncate(c) ==
  LET i == stream[Current(c)].got + 1 IN
  /\ follower[c].mode = "stream"
  /\ Pending(c)
  /\ Fault
  /\ follower' = [follower EXCEPT ![c] = [AfterAttempt(c) EXCEPT !.last = i, !.half = follower[c].half \cup {i}]]
  /\ Leaves(Current(c), "closing")
  /\ UNCHANGED <<recordVars, slotVars>>

\* The connection fails, or the edge ends the response between two events:
\* lifetime, idle timeout, upstream broken off.  The handlers return later.
Disconnect(c) ==
  /\ follower[c].mode = "stream"
  /\ Fault
  /\ follower' = [follower EXCEPT ![c] = AfterAttempt(c)]
  /\ UNCHANGED <<recordVars, stream, slotVars>>

\* cancel, reset, a new search or an unmounted page abort the monitor.
Leave(c) ==
  /\ follower[c].mode \in {"connect", "stream", "backoff", "poll"}
  /\ follower' = [follower EXCEPT ![c] = Idle("left")]
  /\ Fault
  /\ UNCHANGED <<recordVars, stream, slotVars>>

-----------------------------------------------------------------------------
(* monitorWithPolling.                                                     *)

PollIgnoresOutcome(c) ==
  /\ follower[c].mode = "poll"
  /\ ~gone
  /\ follower' = [follower EXCEPT ![c].failures = 0]
  /\ UNCHANGED <<recordVars, stream, slotVars, faults>>

PollAnswered(c) ==
  /\ follower[c].mode = "poll"
  /\ ~gone
  /\ follower' = [follower EXCEPT ![c] = IF concluded THEN Idle("ready")
                                                    ELSE [@ EXCEPT !.failures = 0]]
  /\ UNCHANGED <<recordVars, stream, slotVars, faults>>

\* 404, or an answer that was lost; the limit counts failures in a row.
PollFailed(c) ==
  LET n == follower[c].failures + 1 IN
  /\ follower[c].mode = "poll"
  /\ IF gone THEN UNCHANGED faults ELSE Fault
  /\ follower' = [follower EXCEPT ![c] = IF n < MaxPollFailures THEN [@ EXCEPT !.failures = n]
                                                             ELSE Idle("error")]
  /\ UNCHANGED <<recordVars, stream, slotVars>>

\* searchDeadlineMs and 20 seconds have passed.
PollLate(c) ==
  /\ follower[c].mode = "poll"
  /\ follower' = [follower EXCEPT ![c] = Idle("expired")]
  /\ UNCHANGED <<recordVars, stream, slotVars, faults>>

-----------------------------------------------------------------------------

FollowerStep(c) ==
  \/ Connect(c) \/ ConnectRefused(c) \/ BackoffOver(c)
  \/ Receive(c) \/ Ended(c)
  \/ PollAnswered(c) \/ PollFailed(c)

StreamStep(s) ==
  \/ AcquireOwner(s) \/ RejectOwner(s)
  \/ Open(s) \/ OpenDenied(s) \/ ReadEvents(s) \/ CheckStatus(s)
  \/ Close(s) \/ ReleaseOwner(s) \/ ReleaseGlobal(s)

Next ==
  \/ AppendEvent \/ Finalize \/ Vanish
  \/ \E c \in Followers : \/ FollowerStep(c) \/ PollLate(c)
                          \/ Truncate(c) \/ Disconnect(c) \/ Leave(c)
  \/ \E s \in Streams : StreamStep(s)

Spec == Init /\ [][Next]_vars

\* Handlers and the page run, an abandoned stream is closed (its context, its
\* idle timeout or its lifetime), and the search is concluded in the end
\* (SearchLifecycle, EverySearchCloses).  Nobody has to reach the deadline.
Fairness ==
  /\ WF_vars(Finalize)
  /\ \A c \in Followers : WF_vars(FollowerStep(c))
  /\ \A s \in Streams : WF_vars(StreamStep(s))

FairSpec == Spec /\ Fairness

-----------------------------------------------------------------------------
(* Properties.                                                             *)

\* What the variables of log, streams, slots and followers hold; both slot
\* counters of acquireSSE stay within their limits.
TypeOK ==
  /\ log \in Seq({"event", "undecodable"})
  /\ Len(log) <= MaxEvents
  /\ concluded \in BOOLEAN
  /\ gone \in BOOLEAN
  /\ stream \in [Streams -> [pc: PC, after: 0..MaxEvents, got: 0..MaxEvents, empty: BOOLEAN]]
  /\ global \in 0..MaxStreams
  /\ owner \in 0..MaxPerPrincipal
  /\ follower \in [Followers -> [mode: Mode, attempt: 0..MaxAttempts, last: 0..MaxEvents,
                                 failures: 0..(MaxPollFailures - 1),
                                 shown: Seq(1..MaxEvents), half: SUBSET (1..MaxEvents)]]
  /\ faults \in 0..MaxFaults

\* acquireSSE and its release (edge-api server.go) count the open streams of
\* the edge and of the principal exactly, on every exit of events, while
\* abandoned and reconnected streams of one follower overlap.
SlotsExact ==
  /\ global = Cardinality({s \in Streams : stream[s].pc \notin {"none", "done"}})
  /\ owner = Cardinality({s \in Streams : stream[s].pc \in {"get", "closing"} \cup Loop})

\* ADR-006: ordered events and replay.  Across reconnections a follower is
\* shown every event once and in order; only one that a broken response cut
\* in half is passed over.
ShownOnceInOrder ==
  \A c \in Followers : LET shown == follower[c].shown IN
    /\ \A k \in 2..Len(shown) : shown[k - 1] < shown[k]
    /\ {shown[k] : k \in DOMAIN shown} \cup follower[c].half = 1..follower[c].last

\* Whatever streams break, are refused or close before their terminal event,
\* a follower that stays learns the outcome, over SSE or by polling.  Only a
\* record that is gone or the deadline ends it in an error.
FollowersLearnOutcome ==
  <>\A c \in Followers :
      \/ follower[c].mode \in {"ready", "left", "expired"}
      \/ follower[c].mode = "error" /\ gone

\* ARCHITECTURE.md: the missed events of a search are replayed.  With nothing
\* failing, a stream brings a follower at least one event of a search that has
\* some, before polling takes over.
StreamBringsEvents ==
  \A c \in Followers :
    follower[c].mode = "poll" /\ ~gone /\ log # <<>> => follower[c].shown # <<>>
=============================================================================
