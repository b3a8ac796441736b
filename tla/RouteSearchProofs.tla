-------------------------- MODULE RouteSearchProofs --------------------------
(***************************************************************************)
(* Proofs about the page of one search (useRouteSearch), for any number of *)
(* searches, visits, bookmarks and network losses.                         *)
(*                                                                         *)
(* Whatever answers late, the page is kept right by one fact: the signal   *)
(* that is not aborted belongs to the search asked for last, in the        *)
(* present generation, and that search has not been withdrawn.  The steps  *)
(* fall into four classes, each with its lemma: the user acts, the edge    *)
(* moves on, a task nobody waits for ends, and the current task answers.   *)
(* The last section joins this invariant to that of the event stream, for  *)
(* the browser the runs check.                                             *)
(***************************************************************************)
EXTENDS MCBrowser, EventStreamProofs, TLAPS

PageState == [phase: Phase, result: Shown, request: {None} \cup Searches,
              error: {None} \cup Searches,
              transport: {"idle", "sse", "reconnecting", "polling"}]
RefsState == [generation: Nat, controller: {None} \cup Searches, searchId: Shown]
TaskState == [pc: {"new", "done"} \cup Active, generation: Nat]

\* The controller is that of the search asked for, whose answers count.
ControlInv ==
  /\ refs.controller # None => /\ refs.controller = asked
                               /\ task[asked].pc # "new"
                               /\ task[asked].generation = refs.generation
                               /\ delete[asked] = "none"
                               /\ task[asked].pc \in Active => Busy
  /\ refs.searchId \in {None, asked}

\* What each phase of the page has behind it.
PageInv ==
  /\ page.phase = "cancelled" => refs.controller = None /\ refs.generation > 0
  /\ page.phase = "ready" => /\ page.result # None
                             /\ cached.result = page.result
                             /\ cached.request = page.request
  /\ page.phase = "error" => asked \in Searches /\ delete[asked] = "none"

\* The search of a kept result is over for good.
CacheInv ==
  /\ cached.request \in {None, cached.result}
  /\ cached.result \in Searches => /\ server[cached.result] = "closed"
                                   /\ task[cached.result].pc = "done"
                                   /\ delete[cached.result] = "none"

\* Only a search with a known ID, cancelled by the user, is ever deleted.
DeleteInv == \A i \in Searches : delete[i] # "none" => i \in withdrawn.known /\ task[i].pc # "new"

Settled == ControlInv /\ PageInv /\ CacheInv /\ DeleteInv /\ ShowsWhatWasAsked

HookInv == HookTypeOK /\ Settled

\* The numbers that are no searches are none, and None is not Saved.
LEMMA ShownNumbers == None \notin Searches /\ Saved \notin Searches /\ Saved # None
BY RouteSearchAssumption DEF None, Searches, Saved

\* A blank page, no refs and an empty cache are a page, refs and a cache.
LEMMA HookInitial == HookInit => HookInv
<1>1. BlankPage \in PageState /\ NoRefs \in RefsState
      /\ NoCache \in [result: Shown, request: {None} \cup Searches]
  BY DEF BlankPage, NoRefs, NoCache, PageState, RefsState, Shown, Phase
<1>2. HookInit => HookTypeOK
  BY <1>1, RouteSearchAssumption DEF HookInit, HookTypeOK, PageState, RefsState, Shown, Active
<1>3. HookInit => Settled
  BY ShownNumbers, RouteSearchAssumption DEF HookInit, Settled, ControlInv, PageInv, CacheInv, DeleteInv,
     ShowsWhatWasAsked, BlankPage, NoRefs, NoCache, Busy, Over
<1> QED BY <1>2, <1>3 DEF HookInv

-----------------------------------------------------------------------------
(* The current task answers.                                               *)

\* What the page becomes when the task of search i, which is the current one,
\* goes on at p: its own search, over if the task is done, and busy if not.
Answers(i, p) ==
  /\ task[i].pc \in Active
  /\ ~Stale(i)
  /\ task' = [task EXCEPT ![i].pc = p]
  /\ p \in {"done"} \cup Active
  /\ page' \in PageState
  /\ Persist
  /\ page'.result \in {None, page.result, i}
  /\ page'.request \in {None, page.request}
  /\ page'.error \in {None, page.error, i}
  /\ page'.phase \in {"submitting", "searching", "ready", "error"}
  /\ page'.phase \in {"submitting", "searching"} <=> p \in Active
  /\ page'.phase = "ready" => Over(i) /\ page'.result = i
  /\ page'.phase = "error" => page'.error # None \/ Over(i)
  /\ refs' = refs \/ refs' = [refs EXCEPT !.searchId = i]
  /\ UNCHANGED <<server, delete, asked, withdrawn>>

\* An answer the current task shows keeps the page on what was asked.
LEMMA AnswersKeep ==
  ASSUME HookInv, NEW i \in Searches, NEW p, Answers(i, p), acts' \in 0..MaxActs, losses' \in 0..MaxLosses
  PROVE  HookInv' /\ page.phase # "cancelled"
<1> USE ShownNumbers
<1>1. /\ refs.controller = i /\ asked = i /\ delete[i] = "none" /\ i # None /\ i # Saved
      /\ task[i].generation = refs.generation
      /\ page.phase # "cancelled" /\ i \in Shown
  BY DEF HookInv, Settled, ControlInv, PageInv, Answers, Stale, Aborted, Shown
<1>2. /\ refs' \in RefsState /\ refs'.controller = i /\ refs'.generation = refs.generation
      /\ refs'.searchId \in {None, i}
  BY <1>1 DEF HookInv, HookTypeOK, Settled, ControlInv, Answers, RefsState
<1>3. /\ task' \in [Searches -> TaskState]
      /\ task'[i].pc = p /\ task'[i].generation = task[i].generation
      /\ \A j \in Searches : j # i => task'[j] = task[j]
  BY DEF HookInv, HookTypeOK, Answers, TaskState
<1>4. /\ page'.result \in {None, i} /\ page'.request \in {None, i}
      /\ page' \in PageState
  BY <1>1 DEF HookInv, Settled, ShowsWhatWasAsked, Answers
<1>5. \/ /\ page'.phase = "ready" /\ cached'.result = i
         /\ cached'.result = page'.result /\ cached'.request = page'.request
      \/ page'.phase # "ready" /\ cached' = cached
  BY <1>1, <1>4 DEF Answers, Persist
<1>6. cached' \in [result: Shown, request: {None} \cup Searches]
  BY <1>4 DEF HookInv, HookTypeOK, Answers, Persist, PageState
<1>7. HookTypeOK'
  BY <1>2, <1>3, <1>4, <1>6 DEF HookInv, HookTypeOK, Answers, PageState, RefsState, TaskState
<1>8. ControlInv'
  BY <1>1, <1>2, <1>3 DEF Answers, ControlInv, Busy, Active
<1>9. PageInv'
  BY <1>1, <1>2, <1>5 DEF Answers, PageInv
<1>10. CacheInv'
  <2>1. CASE page'.phase = "ready"
    <3>1. server'[i] = "closed" /\ p = "done"
      BY <2>1 DEF Answers, Over, Active
    <3> QED BY <2>1, <3>1, <1>1, <1>3, <1>4, <1>5 DEF Answers, CacheInv
  <2>2. CASE page'.phase # "ready"
    <3>1. cached.result # i
      BY <1>1 DEF HookInv, Settled, CacheInv, Answers, Active
    <3> QED BY <2>2, <3>1, <1>3, <1>5 DEF HookInv, Settled, CacheInv, Answers
  <2> QED BY <2>1, <2>2
<1>11. DeleteInv'
  BY <1>1, <1>3 DEF HookInv, Settled, DeleteInv, Answers
<1>12. ShowsWhatWasAsked'
  <2>1. page'.error \in {None, asked'} \cup withdrawn'.known
    BY <1>1 DEF HookInv, Settled, ShowsWhatWasAsked, Answers
  <2>2. page'.phase = "error" => page'.error # None \/ Over(asked)'
    BY <1>1 DEF Answers, Over
  <2>3. Busy' => asked' \in Searches /\ refs'.controller = asked' /\ task'[asked'].pc \in Active
                 /\ task'[asked'].generation = refs'.generation
    BY <1>1, <1>2, <1>3 DEF Answers, Busy
  <2>4. /\ page'.result \in {None, asked'} /\ page'.request \in {None, asked'}
        /\ refs'.controller = asked'
    BY <1>1, <1>2, <1>4 DEF Answers
  <2> QED BY <2>1, <2>2, <2>3, <2>4 DEF ShowsWhatWasAsked
<1> QED BY <1>1, <1>7, <1>8, <1>9, <1>10, <1>11, <1>12 DEF HookInv, Settled

\* The POST answered (current task), or failed, shows an answer of its search.
LEMMA PostIsAnswer ==
  ASSUME HookInv, NEW i \in Searches, PostAnswered(i) \/ PostFailed(i), ~Stale(i)
  PROVE  \E p \in {"done"} \cup Active : Answers(i, p)
<1> USE ShownNumbers
<1>1. i \in Shown /\ task[i].pc \in Active
  BY DEF PostAnswered, PostFailed, Active, Shown
<1>2. CASE PostAnswered(i)
  <2>1. PICK phase \in PhaseNow(i) :
          Show([BlankPage EXCEPT !.phase = phase, !.result = i,
                                 !.transport = IF Over(i) THEN "idle" ELSE "sse"])
    BY <1>2 DEF PostAnswered
  <2>2. PICK p \in {"done"} \cup Active : p = IF Over(i) THEN "done" ELSE "stream"
    BY DEF Active
  <2>3. PICK t \in {"idle", "sse"} : t = IF Over(i) THEN "idle" ELSE "sse"
    OBVIOUS
  <2>4. page' = [phase |-> phase, result |-> i, request |-> None, error |-> None, transport |-> t]
    <3>1. page' = [BlankPage EXCEPT !.phase = phase, !.result = i, !.transport = t]
      BY <2>1, <2>3 DEF Show
    <3> QED BY <3>1 DEF BlankPage
  <2>5. phase \in {"searching", "ready", "error"} /\ (phase = "searching" <=> ~Over(i))
    BY DEF PhaseNow, Over
  <2>6. page' \in PageState
    <3>1. phase \in Phase /\ t \in {"idle", "sse", "reconnecting", "polling"}
      BY <2>3, <2>5 DEF Phase
    <3> QED BY <1>1, <2>4, <3>1 DEF PageState
  <2>7. /\ task' = [task EXCEPT ![i].pc = p]
        /\ refs' = [refs EXCEPT !.searchId = i]
        /\ UNCHANGED <<server, delete, asked, withdrawn>>
    BY <1>2, <2>2 DEF PostAnswered
  <2>8. Persist
    BY <2>1 DEF Show
  <2>9. phase = "searching" <=> p \in Active
    BY <2>2, <2>5 DEF Active
  <2>10. Answers(i, p)
    BY <1>1, <2>2, <2>4, <2>5, <2>6, <2>7, <2>8, <2>9 DEF Answers
  <2> QED BY <2>2, <2>10
<1>3. CASE PostFailed(i)
  <2>1. page' = [phase |-> "error", result |-> None, request |-> None, error |-> i, transport |-> "idle"]
    BY <1>3 DEF PostFailed, Show, BlankPage
  <2>2. page' \in PageState
    BY <1>1, <2>1 DEF PageState, Phase, Shown
  <2>3. Persist /\ task' = [task EXCEPT ![i].pc = "done"] /\ UNCHANGED <<refs, server, delete, asked, withdrawn>>
    BY <1>3 DEF PostFailed, Show, Ends
  <2>4. Answers(i, "done")
    BY <1>1, <2>1, <2>2, <2>3 DEF Answers, Active
  <2> QED BY <2>4
<1> QED BY <1>2, <1>3

\* So does what the monitor of the current task makes of events, polls, broken
\* streams and the end of its patience.
LEMMA MonitorIsAnswer ==
  ASSUME HookInv, NEW i \in Searches,
         StreamEvent(i) \/ StreamBroken(i) \/ PollResult(i) \/ PollGivesUp(i), ~Stale(i)
  PROVE  \E p \in {"done"} \cup Active : Answers(i, p)
<1> USE ShownNumbers
<1>1. /\ i \in Shown /\ task[i].pc \in Active /\ page \in PageState
      /\ page.phase \in {"submitting", "searching"}
  <2>1. i \in Shown /\ task[i].pc \in Active /\ page \in PageState
    BY DEF StreamEvent, StreamBroken, PollResult, PollGivesUp, Active, Shown, HookInv, HookTypeOK, PageState
  <2>2. refs.controller = i /\ i # None
    BY DEF Stale, Aborted
  <2> QED BY <2>1, <2>2 DEF HookInv, Settled, ControlInv, Busy
<1>2. UNCHANGED <<refs, server, delete, asked, withdrawn>>
  BY DEF StreamEvent, StreamBroken, PollResult, PollGivesUp
<1>3. CASE StreamEvent(i) \/ PollResult(i)
  <2>1. PICK phase \in PhaseNow(i), t \in {"sse", page.transport} :
          page' = [page EXCEPT !.phase = phase, !.result = i, !.transport = t]
    <3>1. CASE StreamEvent(i)
      BY <3>1 DEF StreamEvent, Show
    <3>2. CASE PollResult(i)
      <4>1. PICK phase \in PhaseNow(i) : page' = [page EXCEPT !.phase = phase, !.result = i]
        BY <3>2 DEF PollResult, Show
      <4>2. page' = [page EXCEPT !.phase = phase, !.result = i, !.transport = page.transport]
        BY <1>1, <4>1 DEF PageState
      <4> QED BY <4>2
    <3> QED BY <1>3, <3>1, <3>2
  <2>2. PICK p \in {"done"} \cup Active : /\ p = "done" <=> Over(i)
                                          /\ task' = [task EXCEPT ![i].pc = p]
    BY <1>3 DEF StreamEvent, PollResult, Active
  <2>3. phase \in {"searching", "ready", "error"} /\ (phase = "searching" <=> ~Over(i))
    BY DEF PhaseNow, Over
  <2>4. page' = [phase |-> phase, result |-> i, request |-> page.request, error |-> page.error, transport |-> t]
    BY <1>1, <2>1 DEF PageState
  <2>5. page' \in PageState
    BY <1>1, <2>3, <2>4 DEF PageState, Phase
  <2>6. Persist
    BY <1>3 DEF StreamEvent, PollResult, Show
  <2>7. Answers(i, p)
    BY <1>1, <1>2, <2>2, <2>3, <2>4, <2>5, <2>6 DEF Answers, Active
  <2> QED BY <2>7
<1>4. CASE StreamBroken(i)
  <2>1. PICK p \in {"stream", "poll"}, t \in {"reconnecting", "polling"} :
          page' = [page EXCEPT !.transport = t] /\ task' = [task EXCEPT ![i].pc = p]
    <3>1. task' = [task EXCEPT ![i].pc = "poll"] \/ task' = [task EXCEPT ![i].pc = "stream"]
      BY <1>4 DEF StreamBroken, HookInv, HookTypeOK
    <3> QED BY <1>4, <3>1 DEF StreamBroken, Show
  <2>2. page' = [phase |-> page.phase, result |-> page.result, request |-> page.request,
                 error |-> page.error, transport |-> t]
    BY <1>1, <2>1 DEF PageState
  <2>3. page' \in PageState
    BY <1>1, <2>2 DEF PageState
  <2>4. Persist
    BY <1>4 DEF StreamBroken, Show
  <2>5. Answers(i, p)
    BY <1>1, <1>2, <1>4, <2>1, <2>2, <2>3, <2>4 DEF Answers, Active
  <2> QED BY <2>1, <2>5 DEF Active
<1>5. CASE PollGivesUp(i)
  <2>1. page' = [phase |-> "error", result |-> page.result, request |-> page.request,
                 error |-> i, transport |-> "idle"]
    BY <1>1, <1>5 DEF PollGivesUp, Show, PageState
  <2>2. page' \in PageState
    BY <1>1, <2>1 DEF PageState, Phase
  <2>3. Answers(i, "done")
    BY <1>1, <1>2, <1>5, <2>1, <2>2 DEF Answers, PollGivesUp, Show, Ends, Active
  <2> QED BY <2>3
<1> QED BY <1>3, <1>4, <1>5

-----------------------------------------------------------------------------
(* A task nobody waits for ends, and the edge moves on.                    *)

\* A late answer, of a search that was superseded, cancelled, reset or left,
\* ends its task and changes nothing else.
LEMMA StaleEndsQuietly ==
  ASSUME HookInv, NEW i \in Searches, task[i].pc \in Active, Stale(i), Ends(i),
         acts' \in 0..MaxActs, losses' \in 0..MaxLosses,
         UNCHANGED <<page, refs, server, delete, cached, asked, withdrawn>>
  PROVE  HookInv'
<1>1. /\ task' \in [Searches -> TaskState]
      /\ task'[i].pc = "done" /\ task'[i].generation = task[i].generation
      /\ \A j \in Searches : j # i => task'[j] = task[j]
  BY DEF HookInv, HookTypeOK, Ends, TaskState
<1>2. Busy => asked # i
  BY DEF HookInv, Settled, ShowsWhatWasAsked, Stale, Aborted
<1>3. HookTypeOK'
  BY <1>1 DEF HookInv, HookTypeOK, TaskState
<1>4. ControlInv'
  BY <1>1, ShownNumbers DEF HookInv, HookTypeOK, Settled, ControlInv, Busy, Active
<1>5. PageInv'
  BY DEF HookInv, Settled, PageInv
<1>6. CacheInv' /\ DeleteInv'
  BY <1>1 DEF HookInv, Settled, CacheInv, DeleteInv, Active
<1>7. ShowsWhatWasAsked'
  BY <1>1, <1>2 DEF HookInv, Settled, ShowsWhatWasAsked, Busy, Over
<1> QED BY <1>3, <1>4, <1>5, <1>6, <1>7 DEF HookInv, Settled

\* The edge takes, loses, closes or deletes a search, and answers the DELETE:
\* the page is as it was.
LEMMA EdgeKeeps ==
  ASSUME HookInv, NEW i \in Searches,
         EdgeStep(i) \/ ServerLoses(i)
  PROVE  HookInv'
<1>1. UNCHANGED <<page, refs, task, cached, asked, withdrawn, acts>>
  BY DEF EdgeStep, ServerAccepts, ServerLoses, ServerCloses, ServerDeletes, DeleteAnswered
<1>2. losses' \in 0..MaxLosses
  BY RouteSearchAssumption
  DEF HookInv, HookTypeOK, EdgeStep, ServerAccepts, ServerLoses, ServerCloses, ServerDeletes, DeleteAnswered, Loss
<1>3. PICK sv \in {"none", "posted", "lost", "running", "closed", "deleted"},
           dl \in {"none", "sent", "applied", "unwatched", "done", "failed"} :
        /\ server' = [server EXCEPT ![i] = sv]
        /\ delete' = [delete EXCEPT ![i] = dl]
        /\ dl = "none" <=> delete[i] = "none"
        /\ server[i] = "closed" => sv = "closed" \/ delete[i] # "none"
  <2>1. CASE ServerDeletes(i)
    <3>1. delete[i] = "sent" \/ delete[i] = "unwatched"
      BY <2>1 DEF ServerDeletes
    <3> QED BY <2>1, <3>1 DEF ServerDeletes, HookInv, HookTypeOK
  <2>2. CASE DeleteAnswered(i)
    BY <2>2 DEF DeleteAnswered, HookInv, HookTypeOK
  <2>3. CASE ServerAccepts(i) \/ ServerLoses(i) \/ ServerCloses(i)
    <3>1. delete' = [delete EXCEPT ![i] = delete[i]] /\ server[i] # "closed"
      BY <2>3 DEF ServerAccepts, ServerLoses, ServerCloses, HookInv, HookTypeOK
    <3>2. \E sv \in {"lost", "running", "closed"} : server' = [server EXCEPT ![i] = sv]
      BY <2>3 DEF ServerAccepts, ServerLoses, ServerCloses
    <3> QED BY <3>1, <3>2 DEF HookInv, HookTypeOK
  <2> QED BY <2>1, <2>2, <2>3 DEF EdgeStep
<1>4. \A j \in Searches : /\ delete'[j] = "none" <=> delete[j] = "none"
                          /\ server[j] = "closed" /\ delete[j] = "none" => server'[j] = "closed"
  BY <1>3 DEF HookInv, HookTypeOK
<1>5. HookTypeOK'
  BY <1>1, <1>2, <1>3 DEF HookInv, HookTypeOK
<1>6. ControlInv' /\ PageInv' /\ CacheInv' /\ DeleteInv'
  BY <1>1, <1>4, ShownNumbers
  DEF HookInv, HookTypeOK, Settled, ControlInv, PageInv, CacheInv, DeleteInv, Busy
<1>7. ShowsWhatWasAsked'
  <2>1. page'.phase = "error" => page'.error # None \/ Over(asked)'
    BY <1>1, <1>4 DEF HookInv, Settled, PageInv, ShowsWhatWasAsked, Over
  <2> QED BY <1>1, <2>1 DEF HookInv, Settled, ShowsWhatWasAsked, Busy
<1> QED BY <1>5, <1>6, <1>7 DEF HookInv, Settled

-----------------------------------------------------------------------------
(* The user acts.                                                          *)

\* start: the new search takes over, and nothing of the old one is shown.
LEMMA StartKeeps ==
  ASSUME HookInv, NEW i \in Searches, StartSearch(i)
  PROVE  HookInv'
<1> USE ShownNumbers
<1>1. /\ refs' = [generation |-> refs.generation + 1, controller |-> i, searchId |-> None]
      /\ page' = [phase |-> "submitting", result |-> None, request |-> i, error |-> None, transport |-> "idle"]
      /\ cached' = cached /\ asked' = i
      /\ task' = [task EXCEPT ![i] = [pc |-> "post", generation |-> refs.generation + 1]]
      /\ server' = [server EXCEPT ![i] = "posted"]
      /\ UNCHANGED <<delete, withdrawn, acts, losses>>
      /\ task[i].pc = "new"
  BY DEF StartSearch, Show, Persist, BlankPage
<1>2. delete[i] = "none" /\ cached.result # i
  BY <1>1 DEF HookInv, Settled, DeleteInv, CacheInv
<1>3. HookTypeOK'
  BY <1>1 DEF HookInv, HookTypeOK, Phase, Active, Shown
<1>4. task'[i] = [pc |-> "post", generation |-> refs.generation + 1]
      /\ \A j \in Searches : j # i => task'[j] = task[j] /\ server'[j] = server[j]
  BY <1>1 DEF HookInv, HookTypeOK
<1>5. ControlInv' /\ PageInv'
  BY <1>1, <1>2, <1>4 DEF ControlInv, PageInv, Busy
<1>6. CacheInv' /\ DeleteInv'
  BY <1>1, <1>2, <1>4 DEF HookInv, HookTypeOK, Settled, CacheInv, DeleteInv
<1>7. ShowsWhatWasAsked'
  BY <1>1, <1>4 DEF ShowsWhatWasAsked, Busy, Active
<1> QED BY <1>3, <1>5, <1>6, <1>7 DEF HookInv, Settled

\* cancel: the signal is aborted before the DELETE is sent.
LEMMA CancelKeeps == HookInv /\ Cancel => HookInv'
<1> USE ShownNumbers
<1> SUFFICES ASSUME HookInv, Cancel PROVE HookInv'
  OBVIOUS
<1>1. /\ page \in PageState /\ refs \in RefsState
      /\ asked \in Searches /\ task[asked].pc \in Active /\ refs.searchId \in {None, asked}
  BY DEF HookInv, HookTypeOK, Settled, ShowsWhatWasAsked, ControlInv, Cancel, PageState, RefsState
<1>2. /\ page' = [phase |-> "cancelled", result |-> page.result, request |-> page.request,
                  error |-> page.error, transport |-> "idle"]
      /\ refs' = [generation |-> refs.generation + 1, controller |-> None, searchId |-> refs.searchId]
      /\ UNCHANGED <<task, server, asked, acts, losses>>
  BY <1>1 DEF Cancel, Show, PageState, RefsState
<1>3. cached' = cached
  BY <1>2 DEF Cancel, Show, Persist
<1>4. PICK known \in SUBSET Searches :
        /\ withdrawn' = [all |-> withdrawn.all \cup {asked}, known |-> known]
        /\ withdrawn.known \subseteq known
        /\ refs.searchId \in Searches => refs.searchId \in known
  <2>1. withdrawn.known \in SUBSET Searches
    BY DEF HookInv, HookTypeOK
  <2>2. CASE refs.searchId \in Searches
    <3>1. /\ withdrawn' = [all |-> withdrawn.all \cup {asked}, known |-> withdrawn.known \cup {refs.searchId}]
          /\ withdrawn.known \cup {refs.searchId} \in SUBSET Searches
      BY <2>1, <2>2 DEF Cancel
    <3> QED BY <3>1
  <2>3. CASE refs.searchId \notin Searches
    <3>1. withdrawn' = [all |-> withdrawn.all \cup {asked}, known |-> withdrawn.known]
      BY <2>3 DEF Cancel
    <3> QED BY <2>1, <2>3, <3>1
  <2> QED BY <2>2, <2>3
<1>5. /\ delete' \in [Searches -> {"none", "sent", "applied", "unwatched", "done", "failed"}]
      /\ \A j \in Searches : delete'[j] # delete[j] => j = asked /\ j = refs.searchId
  BY <1>1 DEF Cancel, HookInv, HookTypeOK
<1>6. HookTypeOK'
  <2>1. page' \in PageState
    BY <1>1, <1>2 DEF PageState, Phase
  <2>2. refs' \in RefsState
    BY <1>1, <1>2 DEF RefsState
  <2>3. withdrawn' \in [all: SUBSET Searches, known: SUBSET Searches]
    BY <1>1, <1>4 DEF HookInv, HookTypeOK
  <2> QED BY <1>2, <1>3, <1>5, <2>1, <2>2, <2>3 DEF HookInv, HookTypeOK, PageState, RefsState
<1>7. ControlInv' /\ PageInv'
  BY <1>1, <1>2 DEF ControlInv, PageInv, RefsState
<1>8. CacheInv'
  BY <1>1, <1>2, <1>3, <1>5 DEF HookInv, Settled, CacheInv, Active
<1>9. DeleteInv'
  BY <1>1, <1>2, <1>4, <1>5 DEF HookInv, Settled, DeleteInv, Active
<1>10. ShowsWhatWasAsked'
  BY <1>2, <1>4 DEF HookInv, Settled, ShowsWhatWasAsked, Busy
<1> QED BY <1>6, <1>7, <1>8, <1>9, <1>10 DEF HookInv, Settled

\* A bookmark or a reset: nothing of a search is left on the page.
LEMMA RestoreKeeps ==
  ASSUME HookInv, RestoreResult \/ Reset
  PROVE  HookInv'
<1> USE ShownNumbers
<1>1. PICK shown \in {None, Saved}, phase \in {"idle", "ready"} :
        /\ refs' = [generation |-> refs.generation + 1, controller |-> None, searchId |-> shown]
        /\ page' = [phase |-> phase, result |-> shown, request |-> None, error |-> None, transport |-> "idle"]
        /\ cached' = [result |-> shown, request |-> None]
        /\ asked' = shown
        /\ phase = "ready" => shown # None
  <2>1. CASE RestoreResult
    <3>1. page' = [phase |-> "ready", result |-> Saved, request |-> None, error |-> None, transport |-> "idle"]
      BY <2>1 DEF RestoreResult, Show, BlankPage
    <3>2. Persist
      BY <2>1 DEF RestoreResult, Show
    <3>3. page'.phase = "ready" /\ page'.result = Saved /\ page'.request = None
      BY <3>1
    <3>4. cached' = [result |-> Saved, request |-> None]
      BY <3>2, <3>3 DEF Persist
    <3> QED BY <2>1, <3>1, <3>4 DEF RestoreResult
  <2>2. CASE Reset
    BY <2>2 DEF Reset, BlankPage, NoCache
  <2> QED BY <2>1, <2>2
<1>2. UNCHANGED <<task, server, delete, withdrawn, losses>> /\ acts' \in 0..MaxActs
  BY RouteSearchAssumption DEF RestoreResult, Reset, Act, HookInv, HookTypeOK
<1>3. HookTypeOK'
  BY <1>1, <1>2 DEF HookInv, HookTypeOK, Phase, Shown
<1>4. ControlInv' /\ PageInv' /\ ShowsWhatWasAsked'
  BY <1>1 DEF ControlInv, PageInv, ShowsWhatWasAsked, Busy
<1>5. CacheInv' /\ DeleteInv'
  BY <1>1, <1>2 DEF HookInv, Settled, CacheInv, DeleteInv
<1> QED BY <1>3, <1>4, <1>5 DEF HookInv, Settled

\* The page is opened again: it shows what the cache kept, which is complete.
LEMMA RemountKeeps == HookInv /\ Remount => HookInv'
<1> USE ShownNumbers
<1> SUFFICES ASSUME HookInv, Remount PROVE HookInv'
  OBVIOUS
<1>1. /\ cached \in [result: Shown, request: {None} \cup Searches]
      /\ cached.request \in {None, cached.result}
  BY DEF HookInv, HookTypeOK, Settled, CacheInv
<1>2. /\ \/ /\ cached.result = None
            /\ page' = [phase |-> "idle", result |-> None, request |-> None, error |-> None, transport |-> "idle"]
         \/ /\ cached.result # None
            /\ page' = [phase |-> "ready", result |-> cached.result, request |-> cached.request,
                        error |-> None, transport |-> "idle"]
      /\ Persist
  BY DEF Remount, Show, BlankPage
<1>3. cached' = cached
  BY <1>1, <1>2 DEF Persist
<1>4. /\ refs' = [generation |-> 0, controller |-> None, searchId |-> None]
      /\ asked' = cached.result
      /\ UNCHANGED <<server, withdrawn, losses>> /\ acts' \in 0..MaxActs
  BY RouteSearchAssumption DEF Remount, NoRefs, Act, HookInv, HookTypeOK
<1>5. /\ task' \in [Searches -> TaskState]
      /\ \A j \in Searches : /\ task[j].pc = "done" => task'[j].pc = "done"
                             /\ task[j].pc # "new" => task'[j].pc # "new"
  <2>1. task' = [j \in Searches |-> IF task[j].pc \in Active THEN [task[j] EXCEPT !.pc = "done"] ELSE task[j]]
    BY DEF Remount
  <2>2. task \in [Searches -> TaskState]
    BY DEF HookInv, HookTypeOK, TaskState
  <2>3. \A j \in Searches : /\ task'[j] \in TaskState
                            /\ task'[j].pc = task[j].pc \/ task'[j].pc = "done"
    BY <2>1, <2>2 DEF TaskState
  <2> QED BY <2>1, <2>3
<1>6. /\ delete' \in [Searches -> {"none", "sent", "applied", "unwatched", "done", "failed"}]
      /\ \A j \in Searches : delete'[j] = "none" <=> delete[j] = "none"
  <2>1. delete' = [j \in Searches |-> CASE delete[j] = "sent" -> "unwatched"
                                       [] delete[j] = "applied" -> "done"
                                       [] OTHER -> delete[j]]
    BY DEF Remount
  <2>2. \A j \in Searches : \/ delete[j] = "sent" /\ delete'[j] = "unwatched"
                            \/ delete[j] = "applied" /\ delete'[j] = "done"
                            \/ delete[j] \notin {"sent", "applied"} /\ delete'[j] = delete[j]
    BY <2>1
  <2> QED BY <2>1, <2>2 DEF HookInv, HookTypeOK
<1>7. HookTypeOK'
  <2>1. page' \in PageState
    BY <1>1, <1>2 DEF PageState, Phase, Shown
  <2>2. refs' \in RefsState /\ asked' \in Shown
    BY <1>1, <1>4 DEF RefsState, Shown
  <2> QED BY <1>3, <1>4, <1>5, <1>6, <2>1, <2>2 DEF HookInv, HookTypeOK, PageState, RefsState, TaskState
<1>8. ControlInv' /\ PageInv'
  BY <1>2, <1>3, <1>4 DEF ControlInv, PageInv
<1>9. CacheInv'
  BY <1>3, <1>4, <1>5, <1>6 DEF HookInv, Settled, CacheInv, Shown
<1>10. DeleteInv'
  BY <1>4, <1>5, <1>6 DEF HookInv, Settled, DeleteInv
<1>11. ShowsWhatWasAsked'
  BY <1>1, <1>2, <1>4 DEF ShowsWhatWasAsked, Busy
<1> QED BY <1>7, <1>8, <1>9, <1>10, <1>11 DEF HookInv, Settled

\* A DELETE that failed writes its error to the page, and nothing else.
LEMMA DeleteFailedKeeps ==
  ASSUME HookInv, NEW i \in Searches, DeleteFailed(i)
  PROVE  HookInv' /\ page'.phase = page.phase
<1> USE ShownNumbers
<1>1. /\ page \in PageState /\ delete[i] # "none" /\ i \in withdrawn.known
  BY DEF HookInv, HookTypeOK, Settled, DeleteInv, DeleteFailed, PageState
<1>2. PICK e \in {page.error, i} :
        page' = [phase |-> page.phase, result |-> page.result, request |-> page.request,
                 error |-> e, transport |-> page.transport]
  <2>1. page' = page \/ page' = [page EXCEPT !.error = i]
    BY DEF DeleteFailed, Show
  <2> QED BY <1>1, <2>1 DEF PageState
<1>3. cached' = cached
  <2>1. CASE UNCHANGED <<page, cached>>
    BY <2>1
  <2>2. CASE Persist
    <3>1. cached \in [result: Shown, request: {None} \cup Searches]
      BY DEF HookInv, HookTypeOK
    <3> QED BY <2>2, <3>1, <1>2 DEF Persist, HookInv, Settled, PageInv
  <2> QED BY <2>1, <2>2 DEF DeleteFailed, Show
<1>4. UNCHANGED <<refs, task, server, asked, withdrawn, acts>> /\ losses' \in 0..MaxLosses
  BY RouteSearchAssumption DEF DeleteFailed, Loss, HookInv, HookTypeOK
<1>5. /\ delete' \in [Searches -> {"none", "sent", "applied", "unwatched", "done", "failed"}]
      /\ \A j \in Searches : delete'[j] = "none" <=> delete[j] = "none"
  BY <1>1 DEF DeleteFailed, HookInv, HookTypeOK
<1>6. page' \in PageState
  BY <1>1, <1>2 DEF PageState
<1>7. HookTypeOK'
  BY <1>3, <1>4, <1>5, <1>6 DEF HookInv, HookTypeOK, PageState
<1>8. ControlInv' /\ PageInv' /\ CacheInv' /\ DeleteInv'
  BY <1>1, <1>2, <1>3, <1>4, <1>5
  DEF HookInv, HookTypeOK, Settled, ControlInv, PageInv, CacheInv, DeleteInv, Busy
<1>9. ShowsWhatWasAsked'
  BY <1>1, <1>2, <1>4 DEF HookInv, Settled, ShowsWhatWasAsked, Busy, Over
<1> QED BY <1>2, <1>7, <1>8, <1>9 DEF HookInv, Settled

-----------------------------------------------------------------------------
(* The results.                                                            *)

\* What a step other than one of the user may do: it keeps the invariant and
\* leaves a cancelled page cancelled.
LEMMA AnswersNeverRevive ==
  ASSUME HookInv, NEW i \in Searches,
         \/ TaskStep(i) \/ StreamBroken(i) \/ PollGivesUp(i)
         \/ EdgeStep(i) \/ ServerLoses(i) \/ DeleteFailed(i)
  PROVE  HookInv' /\ (page.phase = "cancelled" => page'.phase = "cancelled")
<1>1. /\ EdgeStep(i) \/ ServerLoses(i) => UNCHANGED page
      /\ EdgeStep(i) \/ ServerLoses(i) => HookInv'
  BY EdgeKeeps DEF EdgeStep, ServerAccepts, ServerLoses, ServerCloses, ServerDeletes, DeleteAnswered
<1>2. DeleteFailed(i) => HookInv' /\ page'.phase = page.phase
  BY DeleteFailedKeeps
<1>3. ASSUME TaskStep(i) \/ StreamBroken(i) \/ PollGivesUp(i)
      PROVE  HookInv' /\ (page.phase = "cancelled" => page'.phase = "cancelled")
  <2>1. acts' \in 0..MaxActs /\ losses' \in 0..MaxLosses
    <3>1. acts' = acts /\ (losses' = losses \/ Loss)
      BY <1>3 DEF TaskStep, PostAnswered, PostFailed, StreamEvent, PollResult, MonitorAborted,
                  StreamBroken, PollGivesUp
    <3> QED BY <3>1, RouteSearchAssumption DEF Loss, HookInv, HookTypeOK
  <2>2. CASE Stale(i)
    <3>1. task[i].pc \in Active
      BY <1>3 DEF TaskStep, PostAnswered, PostFailed, StreamEvent, PollResult, MonitorAborted,
                  StreamBroken, PollGivesUp, Active
    <3>2. Ends(i) /\ UNCHANGED <<page, refs, server, delete, cached, asked, withdrawn>>
      BY <1>3, <2>2 DEF TaskStep, PostAnswered, PostFailed, StreamEvent, PollResult, MonitorAborted,
                        StreamBroken, PollGivesUp
    <3> QED BY <2>1, <2>2, <3>1, <3>2, StaleEndsQuietly
  <2>3. CASE ~Stale(i)
    <3>1. ~MonitorAborted(i)
      BY <2>3 DEF MonitorAborted, Stale
    <3>2. PICK p \in {"done"} \cup Active : Answers(i, p)
      BY <1>3, <2>3, <3>1, PostIsAnswer, MonitorIsAnswer DEF TaskStep
    <3> QED BY <2>1, <3>2, AnswersKeep
  <2> QED BY <2>2, <2>3
<1> QED BY <1>1, <1>2, <1>3

\* Every step of the hook, and a cancelled page left only by a new generation.
LEMMA HookStep ==
  ASSUME HookInv, [HookNext]_hookVars
  PROVE  /\ HookInv'
         /\ page.phase = "cancelled" /\ page'.phase # "cancelled" => refs'.generation # refs.generation
<1>1. refs.generation \in Nat
  BY DEF HookInv, HookTypeOK
<1>2. CASE Cancel
  BY <1>1, <1>2, CancelKeeps DEF Cancel, Busy
<1>3. CASE RestoreResult \/ Reset
  BY <1>1, <1>3, RestoreKeeps DEF RestoreResult, Reset
<1>4. CASE Remount
  BY <1>1, <1>4, RemountKeeps DEF Remount, NoRefs, HookInv, Settled, PageInv
<1>5. ASSUME NEW i \in Searches, StartSearch(i)
      PROVE  HookInv' /\ refs'.generation # refs.generation
  <2>1. refs'.generation = refs.generation + 1
    BY <1>5 DEF StartSearch
  <2> QED BY <1>1, <1>5, <2>1, StartKeeps
<1>6. ASSUME NEW i \in Searches,
             \/ TaskStep(i) \/ StreamBroken(i) \/ PollGivesUp(i)
             \/ EdgeStep(i) \/ ServerLoses(i) \/ DeleteFailed(i)
      PROVE  HookInv' /\ (page.phase = "cancelled" => page'.phase = "cancelled")
  BY <1>6, AnswersNeverRevive
<1>7. CASE UNCHANGED hookVars
  <2>1. HookTypeOK'
    BY <1>7 DEF hookVars, HookInv, HookTypeOK
  <2>2. Settled'
    BY <1>7 DEF hookVars, HookInv, Settled, ControlInv, PageInv, CacheInv, DeleteInv,
                ShowsWhatWasAsked, Busy, Over
  <2> QED BY <1>7, <2>1, <2>2 DEF hookVars, HookInv
<1> QED BY <1>2, <1>3, <1>4, <1>5, <1>6, <1>7 DEF HookNext

\* The invariant of useRouteSearch holds in every reachable state.
THEOREM HookInvariant == HookSpec => []HookInv
<1>1. HookInv /\ [HookNext]_hookVars => HookInv'
  BY HookStep
<1> QED BY HookInitial, <1>1, PTL DEF HookSpec

\* The state, the refs and the cache of the hook keep their types.
THEOREM HookTypeCorrect == HookSpec => []HookTypeOK
<1>1. HookInv => HookTypeOK
  BY DEF HookInv
<1> QED BY HookInvariant, <1>1, PTL

\* However late the POSTs, events, polls and DELETEs of earlier searches are
\* answered, the page shows what the user asked for last (the generation
\* checks after every await of useRouteSearch).
THEOREM ShowsWhatWasAskedSafe == HookSpec => []ShowsWhatWasAsked
<1>1. HookInv => ShowsWhatWasAsked
  BY DEF HookInv, Settled
<1> QED BY HookInvariant, <1>1, PTL

\* Only a completed analysis is ever in localStorage (the persist effect).
THEOREM CachedIsCompleteSafe == HookSpec => []CachedIsComplete
<1>1. HookInv => CachedIsComplete
  BY DEF HookInv, Settled, CacheInv, CachedIsComplete
<1> QED BY HookInvariant, <1>1, PTL

\* No late event or answer revives a cancelled page (cancel aborts the signal
\* and takes a new generation before anything else).
THEOREM CancelIsFinalSafe == HookSpec => CancelIsFinal
<1>1. HookInv /\ [HookNext]_hookVars =>
        [page.phase = "cancelled" /\ page'.phase # "cancelled" => refs'.generation # refs.generation]_hookVars
  BY HookStep
<1> QED BY HookInvariant, <1>1, PTL DEF HookSpec, CancelIsFinal

-----------------------------------------------------------------------------
(* The browser: the followers of one search, or the page of several.       *)

\* A step of a browser is one of its tab's monitor, or of its page.
LEMMA BrowserStep ==
  [StreamNext \/ PageNext]_browserVars => [Next]_vars /\ [HookNext]_hookVars
<1> SUFFICES ASSUME [StreamNext \/ PageNext]_browserVars
             PROVE  [Next]_vars /\ [HookNext]_hookVars
  OBVIOUS
<1>1. CASE UNCHANGED browserVars
  BY <1>1 DEF browserVars
<1>2. CASE StreamNext
  <2>1. UNCHANGED hookVars
    BY <1>2 DEF StreamNext, OnStream
  <2>2. \/ AppendEvent \/ Finalize \/ Vanish
        \/ \E c \in Followers :
             \/ Connect(c) \/ ConnectRefused(c) \/ BackoffOver(c)
             \/ Receive(c) \/ Ended(c) \/ Truncate(c) \/ Disconnect(c) \/ Leave(c)
             \/ PollAnswered(c) \/ PollFailed(c) \/ PollLate(c)
        \/ \E s \in Streams :
             \/ AcquireOwner(s) \/ RejectOwner(s) \/ Open(s) \/ OpenDenied(s)
             \/ ReadEvents(s) \/ CheckStatus(s) \/ Close(s)
             \/ ReleaseOwner(s) \/ ReleaseGlobal(s)
    BY <1>2 DEF StreamNext, OnStream
  <2>3. ASSUME NEW c \in Followers,
               \/ Connect(c) \/ ConnectRefused(c) \/ BackoffOver(c)
               \/ Receive(c) \/ Ended(c) \/ Truncate(c) \/ Disconnect(c) \/ Leave(c)
               \/ PollAnswered(c) \/ PollFailed(c) \/ PollLate(c)
        PROVE  Next
    BY <2>3 DEF FollowerStep, Next
  <2>4. ASSUME NEW s \in Streams,
               \/ AcquireOwner(s) \/ RejectOwner(s) \/ Open(s) \/ OpenDenied(s)
               \/ ReadEvents(s) \/ CheckStatus(s) \/ Close(s)
               \/ ReleaseOwner(s) \/ ReleaseGlobal(s)
        PROVE  Next
    BY <2>4 DEF StreamStep, Next
  <2>5. Next
    BY <2>2, <2>3, <2>4 DEF Next
  <2> QED
    BY <2>1, <2>5
<1>3. CASE PageNext
  <2>1. UNCHANGED vars
    BY <1>3 DEF PageNext, OnPage
  <2>2. \/ Cancel \/ RestoreResult \/ Reset \/ Remount
        \/ \E i \in Searches :
             \/ StartSearch(i) \/ PostAnswered(i) \/ PostFailed(i)
             \/ StreamEvent(i) \/ StreamBroken(i)
             \/ PollResult(i) \/ PollGivesUp(i) \/ MonitorAborted(i)
             \/ ServerAccepts(i) \/ ServerLoses(i) \/ ServerCloses(i) \/ ServerDeletes(i)
             \/ DeleteAnswered(i) \/ DeleteFailed(i)
    BY <1>3 DEF PageNext, OnPage
  <2>3. ASSUME NEW i \in Searches,
               \/ StartSearch(i) \/ PostAnswered(i) \/ PostFailed(i)
               \/ StreamEvent(i) \/ StreamBroken(i)
               \/ PollResult(i) \/ PollGivesUp(i) \/ MonitorAborted(i)
               \/ ServerAccepts(i) \/ ServerLoses(i) \/ ServerCloses(i) \/ ServerDeletes(i)
               \/ DeleteAnswered(i) \/ DeleteFailed(i)
        PROVE  HookNext
    BY <2>3 DEF TaskStep, EdgeStep, HookNext
  <2>4. HookNext
    BY <2>2, <2>3 DEF HookNext
  <2> QED
    BY <2>1, <2>4
<1> QED
  BY <1>1, <1>2, <1>3

\* A search nobody follows satisfies what the monitors rely on.
LEMMA NobodyFollows == NoFollowers => StreamInv
<1> SUFFICES ASSUME NoFollowers PROVE StreamInv
  OBVIOUS
<1>1. LogInv
  <2>1. log \in Seq({"event", "undecodable"}) /\ Len(log) = 0
    BY DEF NoFollowers
  <2>2. MaxEvents \in Nat /\ MaxEvents >= 2
    BY StreamAssumption
  <2>3. Len(log) <= MaxEvents /\ Len(log) < MaxEvents
    BY <2>1, <2>2
  <2> QED BY <2>1, <2>3 DEF NoFollowers, LogInv
<1>2. SlotInv
  <2>1. stream \in [Streams -> StreamRecord]
    BY StreamAssumption DEF NoFollowers, StreamRecord, PC
  <2>2. \A s \in Streams : stream[s].pc = "none" /\ stream[s].after = 0 /\ stream[s].got = 0
    BY DEF NoFollowers
  <2>3. /\ {s \in Streams : stream[s].pc \notin {"none", "done"}} = {}
        /\ {s \in Streams : stream[s].pc \in {"get", "closing"} \cup Loop} = {}
    BY <2>2 DEF Loop
  <2>4. SlotsExact
    BY <2>3, FS_EmptySet DEF NoFollowers, SlotsExact
  <2>5. \A s \in Streams : stream[s].after <= Len(log)
    BY <2>2 DEF NoFollowers
  <2> QED BY <2>1, <2>2, <2>4, <2>5, StreamAssumption DEF NoFollowers, SlotInv
<1>3. FollowerInv
  <2>1. PICK f : f = Idle("left")
    OBVIOUS
  <2>2. f \in FollowerRecord /\ InOrder(f) /\ f.last = 0 /\ f.mode = "left"
    <3>1. f = [mode |-> "left", attempt |-> 0, last |-> 0, failures |-> 0, shown |-> <<>>, half |-> {}]
      BY <2>1 DEF Idle
    <3>2. f \in FollowerRecord
      <4>1. <<>> \in Seq(1..MaxEvents) /\ 0 \in 0..(MaxPollFailures - 1) /\ 0 \in 0..MaxEvents /\ 0 \in 0..MaxAttempts
        BY StreamAssumption
      <4> QED BY <3>1, <4>1 DEF FollowerRecord, Mode
    <3>3. InOrder(f)
      BY <3>1 DEF InOrder
    <3> QED BY <3>1, <3>2, <3>3
  <2>3. follower = [c \in Followers |-> f]
    BY <2>1 DEF NoFollowers
  <2>4. \A c \in Followers : Placed(c, f)
    BY <2>2 DEF Placed
  <2>5. f.last <= Len(log)
    BY <2>2 DEF NoFollowers
  <2> QED BY <2>2, <2>3, <2>4, <2>5 DEF FollowerInv
<1> QED BY <1>1, <1>2, <1>3, StreamAssumption DEF NoFollowers, StreamInv

\* Side by side with the streams, as the runs check it, the page (useRouteSearch)
\* behaves as RouteSearch says, so that what is proved of the hook holds there.
THEOREM BrowserIsPage == BrowserSpec => HookSpec
<1>1. BrowserInit => HookInit
  BY DEF BrowserInit
<1>2. [StreamNext \/ PageNext]_browserVars => [HookNext]_hookVars
  BY BrowserStep
<1> QED
  BY <1>1, <1>2, PTL DEF BrowserSpec, HookSpec

\* The invariant of the streams (streamSearchEvents, acquireSSE) holds in that
\* composition, in behaviours without followers too.
THEOREM BrowserStreamsSound == BrowserSpec => []StreamInv
<1>1. BrowserInit => StreamInv
  BY StreamStarts, NobodyFollows DEF BrowserInit
<1>2. StreamInv /\ [StreamNext \/ PageNext]_browserVars => StreamInv'
  BY BrowserStep, StreamContinues
<1> QED
  BY <1>1, <1>2, PTL DEF BrowserSpec

\* The variables of both components keep their types in that composition, and
\* streams stay within the slots there are (acquireSSE).
THEOREM BrowserTypeCorrect == BrowserSpec => []BrowserTypeOK
<1>1. StreamInv => TypeOK
  BY DEF StreamInv, LogInv, SlotInv, FollowerInv, StreamRecord, FollowerRecord, TypeOK
<1>2. HookInv => HookTypeOK
  BY DEF HookInv
<1>3. TypeOK /\ HookTypeOK => BrowserTypeOK
  BY DEF BrowserTypeOK
<1> QED
  BY <1>1, <1>2, <1>3, BrowserIsPage, BrowserStreamsSound, HookInvariant, PTL
=============================================================================
