----------------------------- MODULE MCBrowser -----------------------------
(***************************************************************************)
(* What a browser does with its searches, in two instances checked side by *)
(* side: several tabs follow one search (EventStream), or one page goes    *)
(* through several searches (RouteSearch).  A behaviour is of one of them. *)
(***************************************************************************)
EXTENDS EventStream, RouteSearch

VARIABLE view  \* the instance this behaviour is of

browserVars == <<view, vars, hookVars>>

OnStream(A) == view = "stream" /\ A /\ UNCHANGED <<view, hookVars>>
OnPage(A)   == view = "page" /\ A /\ UNCHANGED <<view, vars>>

\* A search without followers, for the behaviours of one page.
NoFollowers ==
  /\ log = <<>>
  /\ concluded = FALSE /\ gone = FALSE
  /\ stream = [s \in Streams |-> [pc |-> "none", after |-> 0, got |-> 0, empty |-> FALSE]]
  /\ global = 0 /\ owner = 0
  /\ follower = [c \in Followers |-> Idle("left")]
  /\ faults = 0

BrowserInit ==
  /\ HookInit
  /\ \/ view = "stream" /\ Init
     \/ view = "page" /\ NoFollowers

StreamNext ==
  \/ OnStream(AppendEvent) \/ OnStream(Finalize) \/ OnStream(Vanish)
  \/ \E c \in Followers :
       \/ OnStream(Connect(c)) \/ OnStream(ConnectRefused(c)) \/ OnStream(BackoffOver(c))
       \/ OnStream(Receive(c)) \/ OnStream(Ended(c)) \/ OnStream(Truncate(c))
       \/ OnStream(Disconnect(c)) \/ OnStream(Leave(c))
       \/ OnStream(PollAnswered(c)) \/ OnStream(PollFailed(c)) \/ OnStream(PollLate(c))
  \/ \E s \in Streams :
       \/ OnStream(AcquireOwner(s)) \/ OnStream(RejectOwner(s))
       \/ OnStream(Open(s)) \/ OnStream(OpenDenied(s))
       \/ OnStream(ReadEvents(s)) \/ OnStream(CheckStatus(s)) \/ OnStream(Close(s))
       \/ OnStream(ReleaseOwner(s)) \/ OnStream(ReleaseGlobal(s))

PageNext ==
  \/ OnPage(Cancel) \/ OnPage(RestoreResult) \/ OnPage(Reset) \/ OnPage(Remount)
  \/ \E i \in Searches :
       \/ OnPage(StartSearch(i))
       \/ OnPage(PostAnswered(i)) \/ OnPage(PostFailed(i))
       \/ OnPage(StreamEvent(i)) \/ OnPage(StreamBroken(i))
       \/ OnPage(PollResult(i)) \/ OnPage(PollGivesUp(i)) \/ OnPage(MonitorAborted(i))
       \/ OnPage(ServerAccepts(i)) \/ OnPage(ServerLoses(i))
       \/ OnPage(ServerCloses(i)) \/ OnPage(ServerDeletes(i))
       \/ OnPage(DeleteAnswered(i)) \/ OnPage(DeleteFailed(i))

\* The fairness of the two specifications, each for its own behaviours.
BrowserFairness ==
  /\ WF_browserVars(OnStream(Finalize))
  /\ \A c \in Followers : WF_browserVars(OnStream(FollowerStep(c)))
  /\ \A s \in Streams : WF_browserVars(OnStream(StreamStep(s)))
  /\ \A i \in Searches : /\ WF_browserVars(OnPage(TaskStep(i)))
                         /\ WF_browserVars(OnPage(EdgeStep(i)))

BrowserSpec == BrowserInit /\ [][StreamNext \/ PageNext]_browserVars /\ BrowserFairness

\* The variables of both components keep their types; streams stay within the
\* slots there are in all and for the principal (acquireSSE).
BrowserTypeOK == TypeOK /\ HookTypeOK
=============================================================================
