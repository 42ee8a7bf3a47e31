--------------------------- MODULE DiscoveryLifecycle ---------------------------
(***************************************************************************)
(* A discovery session and the app that owns it: the UI thread drains the  *)
(* inbox, notices the producer's ending, replaces the session on refresh   *)
(* and takes it down when it leaves (src/discovery/session.rs,             *)
(* src/ui/app.rs, src/lib.rs), while the workers of DiscoveryWorker run.   *)
(***************************************************************************)
EXTENDS DiscoveryWorker

CONSTANTS
  MAX_EVENTS_PER_TICK  \* MAX_DISCOVERY_EVENTS_PER_TICK, events drained per tick

ASSUME LifecycleAssumption == MAX_EVENTS_PER_TICK \in Nat \ {0}

VARIABLES
  session,  \* the session the app owns
  state,    \* its SessionState; a failure is told apart by kind and cause
  ui,       \* what the UI thread is doing
  budget,   \* events it may still drain this tick
  list      \* the events behind the app's records, oldest first

appVars == <<adapter, session, state, ui, budget, list>>
vars == <<workerVars, appVars>>

FailedState == {"FailedStartup", "FailedCancelled", "FailedOverloaded", "FailedUnexpected"}
SessionState == {"Listening", "Complete"} \cup FailedState

\* "joining" waits in refresh_services for the old worker, "dropping" in
\* drop(app) for the last one; "gone" has exited or replaced the process.
UiPc == {"draining", "input", "joining", "dropping", "gone"}

\* An event as the app has it: which session sent it, and its number there.
Shown == Sessions \X Nat

TypeOK ==
  /\ WorkerTypeOK
  /\ session \in Sessions
  /\ state \in SessionState
  /\ ui \in UiPc
  /\ budget \in 0 .. MAX_EVENTS_PER_TICK
  /\ list \in Seq(Shown)

Init ==
  /\ WorkerInit
  /\ session = 1
  /\ state = "Listening"
  /\ ui = "draining"
  /\ budget = MAX_EVENTS_PER_TICK
  /\ list = <<>>

-----------------------------------------------------------------------------
(* session.rs poll, called by App::drain_discovery.                        *)

\* How session.rs words the published outcome of the producer.
Ending(outcome) ==
  CASE outcome = "Complete"            -> "Complete"
    [] outcome = "Startup"             -> "FailedStartup"
    [] outcome = "Cancelled"           -> "FailedCancelled"
    [] outcome = "Overloaded"          -> "FailedOverloaded"
    [] outcome \in {"Stopped", "none"} -> "FailedUnexpected"

DrainEvent ==
  /\ ui = "draining"
  /\ budget > 0
  /\ inbox[session] # <<>>
  /\ list' = Append(list, <<session, Head(inbox[session])>>)
  /\ inbox' = [inbox EXCEPT ![session] = Tail(@)]
  /\ budget' = budget - 1
  /\ UNCHANGED <<worker, browsers, published, receiver, cancelled, overload, ended, slot,
                 session, state, ui>>

\* Mutated form: a disconnect is mistaken for a quiet network.
DrainIdleForever ==
  /\ ui = "draining"
  /\ budget = 0 \/ inbox[session] = <<>>
  /\ ui' = "input"
  /\ UNCHANGED <<workerVars, session, state, budget, list>>

\* The tick's budget is spent, the inbox is empty but connected, or the ending
\* has been reported before.
DrainIdle ==
  /\ ui = "draining"
  /\ \/ budget = 0
     \/ inbox[session] = <<>> /\ (Connected(session) \/ state # "Listening")
  /\ ui' = "input"
  /\ UNCHANGED <<workerVars, session, state, budget, list>>

\* Mutated form: the ending is believed as soon as an outcome is published.
DrainEndedEarly ==
  /\ ui = "draining"
  /\ budget > 0
  /\ slot[session] # "none"
  /\ state = "Listening"
  /\ state' = Ending(slot[session])
  /\ list' = IF state' \in FailedState THEN <<>> ELSE list
  /\ ui' = "input"
  /\ UNCHANGED <<workerVars, session, budget>>

\* Mutated form: apply_session_end keeps the records of a failed session.
DrainEndedKeepingRecords ==
  /\ ui = "draining"
  /\ budget > 0
  /\ inbox[session] = <<>> /\ ~Connected(session)
  /\ state = "Listening"
  /\ state' = Ending(slot[session])
  /\ ui' = "input"
  /\ UNCHANGED <<workerVars, session, budget, list>>

\* The disconnect is seen only once the inbox is empty; apply_session_end then
\* keeps a finished sample list and clears a failed one.
DrainEnded ==
  /\ ui = "draining"
  /\ budget > 0
  /\ inbox[session] = <<>> /\ ~Connected(session)
  /\ state = "Listening"
  /\ state' = Ending(slot[session])
  /\ list' = IF state' \in FailedState THEN <<>> ELSE list
  /\ ui' = "input"
  /\ UNCHANGED <<workerVars, session, budget>>

-----------------------------------------------------------------------------
(* App::run: a tick handles input, or times out waiting for it.            *)

NextTick ==
  /\ ui = "input"
  /\ ui' = "draining"
  /\ budget' = MAX_EVENTS_PER_TICK
  /\ UNCHANGED <<workerVars, session, state, list>>

\* refresh_services calls session.shutdown(): cancel, then join.
Refresh ==
  /\ ui = "input"
  /\ session < MaxSessions
  /\ cancelled' = [cancelled EXCEPT ![session] = TRUE]
  /\ ui' = "joining"
  /\ UNCHANGED <<worker, browsers, published, inbox, receiver, overload, ended, slot,
                 session, state, budget, list>>

\* What Replace does once its guard holds: the factory starts a session and the
\* old one is dropped with its receiver and records.
StartReplacement ==
  /\ session' = session + 1
  /\ worker' = [worker EXCEPT ![session + 1] = "building"]
  /\ receiver' = [receiver EXCEPT ![session] = FALSE, ![session + 1] = TRUE]
  /\ state' = "Listening"
  /\ ui' = "input"
  /\ UNCHANGED <<browsers, published, inbox, cancelled, overload, ended, slot, budget>>

\* Mutated form: the replacement starts without waiting for the old worker.
ReplaceWithoutJoin ==
  /\ ui = "joining"
  /\ list' = <<>>
  /\ StartReplacement

\* Mutated form: the old session's records stay in the list.
ReplaceKeepingRecords ==
  /\ ui = "joining"
  /\ ~Alive(session)
  /\ UNCHANGED list
  /\ StartReplacement

\* The join has returned: the rest of refresh_services.
Replace ==
  /\ ui = "joining"
  /\ ~Alive(session)
  /\ list' = <<>>
  /\ StartReplacement

\* run returns (quit, or a command to hand off to) and drop(app) drops the
\* session: first its receiver, then its worker, which cancels.
Leave ==
  /\ ui = "input"
  /\ receiver' = [receiver EXCEPT ![session] = FALSE]
  /\ cancelled' = [cancelled EXCEPT ![session] = TRUE]
  /\ ui' = "dropping"
  /\ UNCHANGED <<worker, browsers, published, inbox, overload, ended, slot,
                 session, state, budget, list>>

\* Mutated form: the app is dropped without joining its worker.
HandOffWithoutJoin ==
  /\ ui = "dropping"
  /\ ui' = "gone"
  /\ UNCHANGED <<workerVars, session, state, budget, list>>

\* The join has returned: run_invocation may exec, or return.
HandOff ==
  /\ ui = "dropping"
  /\ ~Alive(session)
  /\ ui' = "gone"
  /\ UNCHANGED <<workerVars, session, state, budget, list>>

\* The process is over.
Terminated == ui = "gone" /\ UNCHANGED vars

AppNext ==
  /\ UNCHANGED adapter
  /\ \/ DrainEvent \/ DrainIdle \/ DrainEnded \/ NextTick
     \/ Refresh \/ Replace \/ Leave \/ HandOff

Next ==
  \/ AppNext
  \/ \E s \in Sessions : WorkerNext(s) /\ UNCHANGED appVars
  \/ Terminated

-----------------------------------------------------------------------------
(* Fairness.  The UI thread never blocks on the user (event::poll times    *)
(* out), threads are scheduled, and select! picks randomly among the ready *)
(* branches, so a cancelled token is seen.  Nothing is assumed of the      *)
(* user, of the network, or of an adapter ending by itself.                *)

Scaffold(s) ==
  RuntimeFails(s) \/ RuntimeBuilt(s) \/ PublishOutcome(s) \/ DropKeepalive(s) \/ ThreadExits(s)

\* The native library answers a request to start browsing, one way or the other.
NativeStart(s) ==
  \/ adapter = "mdns" /\ (MdnsBrowseFails(s) \/ MdnsBrowseStarts(s))
  \/ /\ adapter = "zeroconf"
     /\ \/ ZeroconfNoneStarted(s) \/ ZeroconfAnnounce(s)
        \/ \E t \in Types : ZeroconfTypeStarts(s, t) \/ ZeroconfTypeFails(s, t)

\* What a loop does once its token is cancelled, and the fake loop's own pace.
Yield(s) ==
  \/ adapter = "mdns" /\ MdnsCancelled(s)
  \/ adapter = "zeroconf" /\ ZeroconfJoined(s)
  \/ /\ adapter = "fake"
     /\ FakeAnnounce(s) \/ FakeSample(s) \/ FakeCancelled(s) \/ FakePauseEnds(s) \/ FakeComplete(s)

FairnessButNativeStart ==
  /\ WF_vars((DrainEvent \/ DrainIdle \/ DrainEnded) /\ UNCHANGED adapter)
  /\ WF_vars(NextTick /\ UNCHANGED adapter)
  /\ WF_vars(Replace /\ UNCHANGED adapter)
  /\ WF_vars(HandOff /\ UNCHANGED adapter)
  /\ \A s \in Sessions :
       /\ WF_vars(Scaffold(s) /\ UNCHANGED appVars)
       /\ WF_vars(Yield(s) /\ UNCHANGED appVars)
       /\ \A t \in Types : WF_vars(BrowseOneCancelled(s, t) /\ UNCHANGED appVars)

Spec == Init /\ [][Next]_vars

FairSpec ==
  /\ Spec
  /\ FairnessButNativeStart
  /\ \A s \in Sessions : WF_vars(NativeStart(s) /\ UNCHANGED appVars)

\* The same system when the native library may never answer.
SpecNativeMayHang == Spec /\ FairnessButNativeStart

-----------------------------------------------------------------------------
(* Safety.                                                                 *)

Over == state # "Listening"

\* While a session has not overloaded, everything its adapter published is in
\* the list or still in the inbox, in order and once: no event is lost to the
\* ending, to a refresh, or to the drain budget (session.rs poll,
\* inbox.rs send, App::drain_discovery).
DeliveryIsLossless ==
  overload[session] = "none" /\ receiver[session] /\ state \notin FailedState =>
    /\ Len(list) + Len(inbox[session]) = published[session]
    /\ \A i \in DOMAIN list : list[i] = <<session, i>>
    /\ \A i \in DOMAIN inbox[session] : inbox[session][i] = Len(list) + i

\* The ending shown is the one that happened: a session that is over has been
\* drained and disconnected, and its state is what its loop returned, an
\* overload overriding that; only a worker that died without an account is
\* "unexpected" for want of one (worker.rs spawn, session.rs ending).
EndingIsExplained ==
  Over =>
    /\ inbox[session] = <<>>
    /\ ~Connected(session)
    /\ ended[session] = "none" => state = "FailedUnexpected"
    /\ ended[session] # "none" =>
         state = Ending(IF overload[session] # "none" THEN "Overloaded" ELSE ended[session])

\* A session that refused an event, or could not track one, is cancelled at
\* once, and when it ends it leaves no records behind, whichever of its tasks
\* was refused and whatever the others went on to publish (inbox.rs overload).
OverloadFailsClosed ==
  overload[session] # "none" =>
    /\ cancelled[session]
    /\ Over => list = <<>> /\ state \in {"FailedOverloaded", "FailedUnexpected"}

\* Two browsers never feed the link at once (App::refresh_services).
OneProducer == \A s, r \in Sessions : Alive(s) /\ Alive(r) => s = r

\* The process is replaced, or exits, only when no worker thread is left
\* (lib.rs run_invocation drops the app before exec).
HandOffAfterJoin == ui = "gone" => \A s \in Sessions : ~Alive(s)

\* "discovery was stopped" is never shown: a token is cancelled by an overload,
\* which overrides it, or by a shutdown, after which the session is not polled.
CancelledEndingUnseen == state # "FailedCancelled"

\* What the app's state says of the feed.
FeedStatus ==
  IF ui \in {"dropping", "gone"} THEN "closed"
  ELSE IF state \in FailedState THEN "failed"
  ELSE IF state = "Complete" THEN "complete" ELSE "live"

\* The list a person sees obeys the abstract feed: the refinement mapping hides
\* the workers, the inboxes and the join.
Feed == INSTANCE DiscoveryFeed WITH
  feed <- session,
  lossy <- overload[session] # "none",
  status <- FeedStatus,
  list <- list

ImplementsFeed == Feed!FeedSpec

-----------------------------------------------------------------------------
(* The inductive invariant behind the safety properties.                   *)

\* What a worker publishes: the loop's ending, or the overload behind it.
Account(s) == IF overload[s] # "none" THEN "Overloaded" ELSE ended[s]

\* Sessions are used one after the other, and each joined before the next.
SessionsInTurn ==
  \A s \in Sessions :
    /\ s < session => worker[s] = "exited"
    /\ s > session =>
         /\ worker[s] = "unborn" /\ ~receiver[s] /\ ~cancelled[s]
         /\ overload[s] = "none" /\ inbox[s] = <<>> /\ published[s] = 0
    /\ s = session => worker[s] # "unborn"

\* Tasks live inside their loop, and an outcome is published once, after it.
WorkerInOrder ==
  \A s \in Sessions :
    /\ Running(s) # {} => adapter = "zeroconf" /\ worker[s] \in {"starting", "browsing"}
    /\ worker[s] \in {"unborn", "building", "starting", "browsing", "pausing"} =>
         ended[s] = "none" /\ slot[s] = "none"
    /\ worker[s] = "returned" => ended[s] # "none" /\ slot[s] = "none"
    /\ worker[s] \in {"published", "closing"} => ended[s] # "none" /\ slot[s] = Account(s)
    /\ worker[s] = "exited" => slot[s] = IF ended[s] = "none" THEN "none" ELSE Account(s)

\* Who cancels: an overload, or a shutdown, after which nothing is polled.
CancelHasCause ==
  /\ \A s \in Sessions :
       /\ overload[s] # "none" => cancelled[s]
       /\ ended[s] = "Cancelled" => cancelled[s]
  /\ cancelled[session] => overload[session] # "none" \/ ui \in {"joining", "dropping", "gone"}

\* What an ending leaves: the session is drained, its state says how it ended.
EndingApplied ==
  /\ Over =>
       /\ inbox[session] = <<>>
       /\ ~Connected(session)
       /\ state = Ending(slot[session])
  /\ state \in FailedState => list = <<>>
  /\ ui \notin {"dropping", "gone"} => receiver[session]
  /\ ui = "gone" => ~Alive(session)

\* A join under way leaves room for the replacement.
JoinInBounds == ui = "joining" => session < MaxSessions

IInv ==
  /\ TypeOK
  /\ JoinInBounds
  /\ SessionsInTurn
  /\ WorkerInOrder
  /\ CancelHasCause
  /\ EndingApplied
  /\ CancelledEndingUnseen

-----------------------------------------------------------------------------
(* Liveness.                                                               *)

\* A join returns: refresh and leaving are never stuck behind a worker, even
\* one whose inbox is full and no longer drained (inbox.rs, worker.rs shutdown).
ShutdownReturns == ui \in {"joining", "dropping"} ~> ui \notin {"joining", "dropping"}

\* The same promise, as worker.rs words it of shutdown: "Every browse loop
\* selects on the token, so the join is bounded rather than waiting out a browse."
JoinIsBounded == ui \in {"joining", "dropping"} ~> ui \notin {"joining", "dropping"}

\* A producer that is gone is noticed, unless the user replaces it or leaves.
EndingIsNoticed ==
  \A s \in Sessions :
    (session = s /\ ~Alive(s)) ~> (Over \/ session # s \/ ui = "gone")

\* A session that overloaded does not go on showing a list with holes in it:
\* it ends, unless the user replaces it or leaves first.
OverloadIsReported ==
  \A s \in Sessions :
    (session = s /\ overload[s] # "none") ~> (Over \/ session # s \/ ui = "gone")

=============================================================================
