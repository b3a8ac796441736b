---------------------------- MODULE RouteSearch ----------------------------
(***************************************************************************)
(* The search a page is showing: the hook useRouteSearch                   *)
(* (apps/web/src/lib/use-route-search.ts) with the cache of the last       *)
(* result (route-result-cache.ts) it keeps in localStorage.                *)
(*                                                                         *)
(* Each start runs as an asynchronous task of its own: the POST, which is  *)
(* not aborted, then the monitor, first over SSE (whose inside EventStream *)
(* is) and then by polling.  Tasks answer whenever they like, while users  *)
(* start, cancel, open a bookmark, reset or leave the page; the            *)
(* generation decides whose answers count.  Searches are numbered in the   *)
(* order they are started.  Progress and the selected candidate are left   *)
(* out, and so is the fetch after a terminal event without a result, which *)
(* the orchestrator does not send.                                         *)
(***************************************************************************)
EXTENDS Naturals

CONSTANTS
  MaxSearches,  \* bound: searches started
  MaxActs,      \* bound: bookmarks opened, resets and pages left
  MaxLosses     \* bound: requests and streams the network breaks

ASSUME RouteSearchAssumption ==
  /\ MaxSearches \in Nat \ {0}
  /\ MaxActs \in Nat
  /\ MaxLosses \in Nat

VARIABLES
  page,      \* RouteSearchState: phase, result and request (a search, Saved or
             \* None), error (the search it is about), transport
  refs,      \* generation, controller (the search whose signal is not aborted)
             \* and searchId
  task,      \* per search: pc and generation of its start
  server,    \* per search: what became of it at the edge
  delete,    \* per search: its DELETE, if one was sent
  cached,    \* result and request in localStorage
  asked,     \* what the user last asked to see (history)
  withdrawn, \* searches cancelled, and those of them with a known ID (history)
  acts, losses

hookVars == <<page, refs, task, server, delete, cached, asked, withdrawn, acts, losses>>

None     == 0
Searches == 1..MaxSearches
Saved    == MaxSearches + 1   \* a bookmarked analysis
Shown    == {None, Saved} \cup Searches
Active   == {"post", "stream", "poll"}
Phase    == {"idle", "submitting", "searching", "ready", "cancelled", "error"}

BlankPage == [phase |-> "idle", result |-> None, request |-> None, error |-> None,
              transport |-> "idle"]
NoRefs    == [generation |-> 0, controller |-> None, searchId |-> None]
NoCache   == [result |-> None, request |-> None]

HookInit ==
  /\ page = BlankPage
  /\ refs = NoRefs
  /\ task = [i \in Searches |-> [pc |-> "new", generation |-> 0]]
  /\ server = [i \in Searches |-> "none"]
  /\ delete = [i \in Searches |-> "none"]
  /\ cached = NoCache
  /\ asked = None
  /\ withdrawn = [all |-> {}, known |-> {}]
  /\ acts = 0
  /\ losses = 0

Busy == page.phase \in {"submitting", "searching"}
Aborted(i) == refs.controller # i

\* An answer nobody waits for any more.
StaleNever(i) == FALSE

Stale(i) == Aborted(i) \/ task[i].generation # refs.generation

PersistAlways ==
  cached' = IF page'.result # None
            THEN [result |-> page'.result, request |-> page'.request] ELSE cached

\* The effect that writes a terminal result to localStorage.
Persist ==
  cached' = IF page'.phase = "ready" /\ page'.result # None
            THEN [result |-> page'.result, request |-> page'.request] ELSE cached

Show(p) == page' = p /\ Persist

Act  == acts < MaxActs /\ acts' = acts + 1
Loss == losses < MaxLosses /\ losses' = losses + 1

Ends(i) == task' = [task EXCEPT ![i].pc = "done"]

-----------------------------------------------------------------------------
(* The user.                                                               *)

\* start: abort the previous controller, take the next generation, POST.
StartSearch(i) ==
  LET generation == refs.generation + 1 IN
  /\ task[i].pc = "new"
  /\ \A j \in 1..(i - 1) : task[j].pc # "new"
  /\ refs' = [generation |-> generation, controller |-> i, searchId |-> None]
  /\ Show([BlankPage EXCEPT !.phase = "submitting", !.request = i])
  /\ task' = [task EXCEPT ![i] = [pc |-> "post", generation |-> generation]]
  /\ server' = [server EXCEPT ![i] = "posted"]
  /\ asked' = i
  /\ UNCHANGED <<delete, withdrawn, acts, losses>>

CancelKeepsSignal ==
  /\ Busy
  /\ Show([page EXCEPT !.phase = "cancelled", !.transport = "idle"])
  /\ delete' = IF refs.searchId \in Searches THEN [delete EXCEPT ![refs.searchId] = "sent"] ELSE delete
  /\ UNCHANGED <<refs, task, server, asked, withdrawn, acts, losses>>

\* cancel, offered while the page is busy: the DELETE needs the ID, which is
\* known once the POST has been answered.
Cancel ==
  LET id == refs.searchId IN
  /\ Busy
  /\ refs' = [refs EXCEPT !.generation = @ + 1, !.controller = None]
  /\ Show([page EXCEPT !.phase = "cancelled", !.transport = "idle"])
  /\ delete' = IF id \in Searches THEN [delete EXCEPT ![id] = "sent"] ELSE delete
  /\ withdrawn' = [all   |-> withdrawn.all \cup {asked},
                   known |-> IF id \in Searches THEN withdrawn.known \cup {id} ELSE withdrawn.known]
  /\ UNCHANGED <<task, server, asked, acts, losses>>

\* restoreResult, for a bookmark or for the analysis a failed refresh replaced.
RestoreResult ==
  /\ Act
  /\ refs' = [generation |-> refs.generation + 1, controller |-> None, searchId |-> Saved]
  /\ Show([BlankPage EXCEPT !.phase = "ready", !.result = Saved])
  /\ asked' = Saved
  /\ UNCHANGED <<task, server, delete, withdrawn, losses>>

Reset ==
  /\ Act
  /\ refs' = [generation |-> refs.generation + 1, controller |-> None, searchId |-> None]
  /\ page' = BlankPage
  /\ cached' = NoCache
  /\ asked' = None
  /\ UNCHANGED <<task, server, delete, withdrawn, losses>>

\* The page is left and opened again: the old controller is aborted, old tasks
\* and DELETEs write to a component that is gone, and the cache is read.
Remount ==
  /\ Act
  /\ refs' = NoRefs
  /\ Show(IF cached.result = None THEN BlankPage
          ELSE [BlankPage EXCEPT !.phase = "ready", !.result = cached.result, !.request = cached.request])
  /\ task' = [i \in Searches |-> IF task[i].pc \in Active THEN [task[i] EXCEPT !.pc = "done"] ELSE task[i]]
  /\ delete' = [i \in Searches |-> CASE delete[i] = "sent" -> "unwatched"
                                     [] delete[i] = "applied" -> "done"
                                     [] OTHER -> delete[i]]
  /\ asked' = cached.result
  /\ UNCHANGED <<server, withdrawn, losses>>

-----------------------------------------------------------------------------
(* The edge, as far as the page can tell; its inside is SearchLifecycle.   *)

ServerAccepts(i) ==
  /\ server[i] = "posted"
  /\ server' = [server EXCEPT ![i] = "running"]
  /\ UNCHANGED <<page, refs, task, delete, cached, asked, withdrawn, acts, losses>>

ServerLoses(i) ==
  /\ server[i] = "posted"
  /\ Loss
  /\ server' = [server EXCEPT ![i] = "lost"]
  /\ UNCHANGED <<page, refs, task, delete, cached, asked, withdrawn, acts>>

ServerCloses(i) ==
  /\ server[i] = "running"
  /\ server' = [server EXCEPT ![i] = "closed"]
  /\ UNCHANGED <<page, refs, task, delete, cached, asked, withdrawn, acts, losses>>

ServerDeletes(i) ==
  /\ delete[i] \in {"sent", "unwatched"}
  /\ delete' = [delete EXCEPT ![i] = IF @ = "sent" THEN "applied" ELSE "done"]
  /\ server' = [server EXCEPT ![i] = "deleted"]
  /\ UNCHANGED <<page, refs, task, cached, asked, withdrawn, acts, losses>>

-----------------------------------------------------------------------------
(* The task of a start.                                                    *)

\* phaseForResult of a snapshot of search i: a closed one is ready or failed.
\* No service writes the statuses CANCELLED and EXPIRED, which it knows too.
PhaseNow(i) == IF server[i] = "closed" THEN {"ready", "error"} ELSE {"searching"}

Over(i) == server[i] = "closed"

\* The POST is answered.  The page is written anew, without its request.
PostAnswered(i) ==
  /\ task[i].pc = "post"
  /\ server[i] \in {"running", "closed"}
  /\ IF Stale(i)
     THEN Ends(i) /\ UNCHANGED <<page, refs, cached>>
     ELSE /\ refs' = [refs EXCEPT !.searchId = i]
          /\ \E phase \in PhaseNow(i) :
               Show([BlankPage EXCEPT !.phase = phase, !.result = i,
                                      !.transport = IF Over(i) THEN "idle" ELSE "sse"])
          /\ task' = [task EXCEPT ![i].pc = IF Over(i) THEN "done" ELSE "stream"]
  /\ UNCHANGED <<server, delete, asked, withdrawn, acts, losses>>

PostFailed(i) ==
  /\ task[i].pc = "post"
  /\ IF server[i] = "lost" THEN UNCHANGED losses ELSE server[i] # "posted" /\ Loss
  /\ IF Stale(i) THEN UNCHANGED <<page, cached>>
                 ELSE Show([BlankPage EXCEPT !.phase = "error", !.error = i])
  /\ Ends(i)
  /\ UNCHANGED <<refs, server, delete, asked, withdrawn, acts>>

\* One event; it carries the result so far.  A stale callback ends the stream.
StreamEvent(i) ==
  /\ task[i].pc = "stream"
  /\ IF Stale(i)
     THEN Ends(i) /\ UNCHANGED <<page, cached>>
     ELSE /\ \E phase \in PhaseNow(i) :
               Show([page EXCEPT !.phase = phase, !.result = i, !.transport = "sse"])
          /\ task' = [task EXCEPT ![i].pc = IF Over(i) THEN "done" ELSE "stream"]
  /\ UNCHANGED <<refs, server, delete, asked, withdrawn, acts, losses>>

\* The connection ends early: reconnect, or hand over to polling.
StreamBroken(i) ==
  /\ task[i].pc = "stream"
  /\ ~Stale(i)
  /\ Loss
  /\ \/ Show([page EXCEPT !.transport = "reconnecting"]) /\ UNCHANGED task
     \/ Show([page EXCEPT !.transport = "polling"]) /\ task' = [task EXCEPT ![i].pc = "poll"]
  /\ UNCHANGED <<refs, server, delete, asked, withdrawn, acts>>

PollResult(i) ==
  /\ task[i].pc = "poll"
  /\ ~Aborted(i)
  /\ IF Stale(i)
     THEN Ends(i) /\ UNCHANGED <<page, cached>>
     ELSE /\ \E phase \in PhaseNow(i) : Show([page EXCEPT !.phase = phase, !.result = i])
          /\ task' = [task EXCEPT ![i].pc = IF Over(i) THEN "done" ELSE "poll"]
  /\ UNCHANGED <<refs, server, delete, asked, withdrawn, acts, losses>>

PollGivesUpSilently(i) ==
  /\ task[i].pc = "poll"
  /\ ~Stale(i)
  /\ Ends(i)
  /\ UNCHANGED <<page, cached, refs, server, delete, asked, withdrawn, acts, losses>>

\* Three failed polls in a row, or the deadline and 20 seconds.
PollGivesUp(i) ==
  /\ task[i].pc = "poll"
  /\ ~Stale(i)
  /\ Show([page EXCEPT !.phase = "error", !.error = i, !.transport = "idle"])
  /\ Ends(i)
  /\ UNCHANGED <<refs, server, delete, asked, withdrawn, acts, losses>>

\* Fetch, stream and delay of an aborted signal reject, and monitor returns.
MonitorAborted(i) ==
  /\ task[i].pc \in {"stream", "poll"}
  /\ Aborted(i)
  /\ Ends(i)
  /\ UNCHANGED <<page, refs, server, delete, cached, asked, withdrawn, acts, losses>>

-----------------------------------------------------------------------------
(* The DELETE of a cancel.                                                 *)

DeleteAnswered(i) ==
  /\ delete[i] = "applied"
  /\ delete' = [delete EXCEPT ![i] = "done"]
  /\ UNCHANGED <<page, refs, task, server, cached, asked, withdrawn, acts, losses>>

\* Its error goes to the page, whatever that shows by now.
DeleteFailed(i) ==
  /\ delete[i] \in {"sent", "applied", "unwatched"}
  /\ Loss
  /\ delete' = [delete EXCEPT ![i] = "failed"]
  /\ IF delete[i] = "unwatched" THEN UNCHANGED <<page, cached>> ELSE Show([page EXCEPT !.error = i])
  /\ UNCHANGED <<refs, task, server, asked, withdrawn, acts>>

-----------------------------------------------------------------------------

TaskStep(i) == PostAnswered(i) \/ PostFailed(i) \/ StreamEvent(i) \/ PollResult(i) \/ MonitorAborted(i)

EdgeStep(i) == ServerAccepts(i) \/ ServerCloses(i) \/ ServerDeletes(i) \/ DeleteAnswered(i)

HookNext ==
  \/ Cancel \/ RestoreResult \/ Reset \/ Remount
  \/ \E i \in Searches :
       \/ StartSearch(i) \/ TaskStep(i) \/ EdgeStep(i)
       \/ ServerLoses(i) \/ StreamBroken(i) \/ PollGivesUp(i) \/ DeleteFailed(i)

HookSpec == HookInit /\ [][HookNext]_hookVars

\* Requests are answered or fail, events arrive, aborted calls return, and a
\* search is closed in the end (SearchLifecycle, EverySearchCloses).  Users
\* and the network's losses owe nothing.
HookFairSpec ==
  /\ HookSpec
  /\ \A i \in Searches : WF_hookVars(TaskStep(i)) /\ WF_hookVars(EdgeStep(i))

-----------------------------------------------------------------------------
(* Properties.                                                             *)

\* What the hook's state, its refs and the cache hold.
HookTypeOK ==
  /\ page \in [phase: Phase, result: Shown, request: {None} \cup Searches, error: {None} \cup Searches,
               transport: {"idle", "sse", "reconnecting", "polling"}]
  /\ refs \in [generation: Nat, controller: {None} \cup Searches, searchId: Shown]
  /\ task \in [Searches -> [pc: {"new", "done"} \cup Active, generation: Nat]]
  /\ server \in [Searches -> {"none", "posted", "lost", "running", "closed", "deleted"}]
  /\ delete \in [Searches -> {"none", "sent", "applied", "unwatched", "done", "failed"}]
  /\ cached \in [result: Shown, request: {None} \cup Searches]
  /\ asked \in Shown
  /\ withdrawn \in [all: SUBSET Searches, known: SUBSET Searches]
  /\ acts \in 0..MaxActs
  /\ losses \in 0..MaxLosses

\* Late answers of superseded, cancelled or abandoned searches (the checks
\* after every await) never reach the page: its result, its request and its
\* transport are those of what the user asked for last.  A busy page has the
\* live task of that search, in the present generation.  An error is that
\* search's too, except that the DELETE of an earlier, cancelled one may put
\* its own there (cancel's catch).
ShowsWhatWasAsked ==
  /\ page.result \in {None, asked}
  /\ page.request \in {None, asked}
  /\ page.transport # "idle" => refs.controller = asked
  /\ Busy => /\ asked \in Searches
             /\ refs.controller = asked
             /\ task[asked].pc \in Active
             /\ task[asked].generation = refs.generation
  /\ page.error \in {None, asked} \cup withdrawn.known
  /\ page.phase = "error" => page.error # None \/ Over(asked)

\* Only a completed analysis is kept for the next visit (the persist effect):
\* a partial result of a cancelled or failed search is never restored.
CachedIsComplete ==
  cached.result \in Searches => server[cached.result] = "closed"

\* A page is busy no longer than its search: the progress bar ends whatever
\* breaks, with a result, an error or by the user's hand.
BusyEnds == Busy ~> ~Busy

\* A late event or answer never takes a cancelled page back into the search:
\* only the user, by a start, a bookmark, a reset or a new visit, does.
CancelIsFinal ==
  [][page.phase = "cancelled" /\ page'.phase # "cancelled" => refs'.generation # refs.generation]_hookVars

\* apps/web/README.md: cancellation is propagated to edge-api.  With nothing
\* lost, a search the user cancelled does not run on.
CancellationPropagates ==
  \A i \in Searches : i \in withdrawn.all ~> server[i] = "deleted"
=============================================================================
