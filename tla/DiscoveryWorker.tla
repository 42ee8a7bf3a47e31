---------------------------- MODULE DiscoveryWorker ----------------------------
(***************************************************************************)
(* The producing half of discovery: the worker thread that a session owns, *)
(* the bounded inbox it publishes into, and the browse loops of the three  *)
(* adapters (src/discovery/{worker,inbox,mdns,zeroconf,fake}.rs).          *)
(*                                                                         *)
(* An event is represented by its number in its session's stream: what the *)
(* loops do with it never depends on its content.  MdnsDiscovery models    *)
(* the content of the mdns loop, RecordStore what the app does with it.    *)
(***************************************************************************)
EXTENDS Naturals, Sequences, FiniteSets

CONSTANTS
  Adapters,        \* the backends a command line may choose between
  Types,           \* service types the zeroconf adapter browses in parallel
  EVENT_CAPACITY,  \* slots of the inbox
  MaxSessions,     \* bound: sessions ever started
  MaxEvents        \* bound: events one session publishes; the fake stream's length

ASSUME WorkerAssumption ==
  /\ Adapters \subseteq {"mdns", "zeroconf", "fake"}
  /\ EVENT_CAPACITY \in Nat \ {0}
  /\ MaxSessions \in Nat \ {0}
  /\ MaxEvents \in Nat \ {0}

Sessions == 1 .. MaxSessions

VARIABLES
  adapter,    \* the backend this process browses with, in every session
  worker,     \* where each session's worker thread is
  browsers,   \* what has become of each zeroconf browse_one task
  published,  \* events handed to EventSender::send so far
  inbox,      \* accepted events the session has not polled yet
  receiver,   \* is the receiving end still alive?
  cancelled,  \* the session's CancellationToken
  overload,   \* InboxControl's overload_reason
  ended,      \* the worker's local account of how the loop ended
  slot        \* the outcome published for the session to read

workerVars == <<worker, browsers, published, inbox, receiver, cancelled,
                overload, ended, slot>>

Outcome == {"Startup", "Stopped", "Overloaded", "Complete", "Cancelled"}

\* "browsing" is a browse loop at its select; "pausing" the fake loop at its
\* own; "returned" a loop that is over while keepalive still holds the channel.
WorkerPc == {"unborn", "building", "starting", "browsing", "pausing",
             "returned", "published", "closing", "exited"}

BrowserState == {"untried", "failed", "running", "done"}

WorkerTypeOK ==
  /\ adapter \in Adapters
  /\ worker \in [Sessions -> WorkerPc]
  /\ browsers \in [Sessions -> [Types -> BrowserState]]
  /\ published \in [Sessions -> Nat]
  /\ inbox \in [Sessions -> Seq(Nat)]
  /\ receiver \in [Sessions -> BOOLEAN]
  /\ cancelled \in [Sessions -> BOOLEAN]
  /\ overload \in [Sessions -> {"none", "inbox", "tracker"}]
  /\ ended \in [Sessions -> Outcome \cup {"none"}]
  /\ slot \in [Sessions -> Outcome \cup {"none"}]

\* Session 1 is started by run_invocation before the app exists.
WorkerInit ==
  /\ adapter \in Adapters
  /\ worker = [s \in Sessions |-> IF s = 1 THEN "building" ELSE "unborn"]
  /\ browsers = [s \in Sessions |-> [t \in Types |-> "untried"]]
  /\ published = [s \in Sessions |-> 0]
  /\ inbox = [s \in Sessions |-> <<>>]
  /\ receiver = [s \in Sessions |-> s = 1]
  /\ cancelled = [s \in Sessions |-> FALSE]
  /\ overload = [s \in Sessions |-> "none"]
  /\ ended = [s \in Sessions |-> "none"]
  /\ slot = [s \in Sessions |-> "none"]

\* The thread exists and has not finished: what a join waits for.
Alive(s) == worker[s] \notin {"unborn", "exited"}

\* Some sender of the channel is left: the loop's tx or the thread's keepalive.
Connected(s) == Alive(s) /\ worker[s] # "closing"

-----------------------------------------------------------------------------
(* inbox.rs: publishing never blocks.                                      *)

\* Mutated form: the session is not cancelled when it overloads.
OverloadWithoutCancel(s, why) ==
  /\ overload' = [overload EXCEPT ![s] = IF @ = "none" THEN why ELSE @]
  /\ UNCHANGED cancelled

\* The first reason wins; the token is cancelled either way.  The two effects
\* are one step: the reason is read only once the loop and its tasks are over.
Overload(s, why) ==
  /\ overload' = [overload EXCEPT ![s] = IF @ = "none" THEN why ELSE @]
  /\ cancelled' = [cancelled EXCEPT ![s] = TRUE]

\* Bounds what the loops publish on their own; startup Status events are few.
More(s) == published[s] < MaxEvents

\* Mutated form: a full inbox makes room by forgetting its oldest event.
SendDroppingOldest(s) ==
  /\ published' = [published EXCEPT ![s] = @ + 1]
  /\ receiver[s]
  /\ inbox' = [inbox EXCEPT ![s] =
                 Append(IF Len(@) < EVENT_CAPACITY THEN @ ELSE Tail(@), published[s] + 1)]
  /\ UNCHANGED <<overload, cancelled>>

SendOk(s) ==
  /\ published' = [published EXCEPT ![s] = @ + 1]
  /\ receiver[s]
  /\ Len(inbox[s]) < EVENT_CAPACITY
  /\ inbox' = [inbox EXCEPT ![s] = Append(@, published[s] + 1)]
  /\ UNCHANGED <<overload, cancelled>>

SendErr(s) ==
  /\ published' = [published EXCEPT ![s] = @ + 1]
  /\ UNCHANGED inbox
  /\ \/ receiver[s] /\ Len(inbox[s]) >= EVENT_CAPACITY /\ Overload(s, "inbox")
     \/ ~receiver[s] /\ UNCHANGED <<overload, cancelled>>

-----------------------------------------------------------------------------
(* worker.rs: the thread around a browse loop.                             *)

Goto(s, pc) == worker' = [worker EXCEPT ![s] = pc]

Return(s, outcome) ==
  /\ Goto(s, "returned")
  /\ ended' = [ended EXCEPT ![s] = outcome]

inboxVars == <<published, inbox, overload, cancelled>>
restVars  == <<receiver, slot>>

RuntimeFails(s) ==
  /\ worker[s] = "building"
  /\ Return(s, "Startup")
  /\ UNCHANGED <<browsers, inboxVars, restVars>>

RuntimeBuilt(s) ==
  /\ worker[s] = "building"
  /\ Goto(s, "starting")
  /\ UNCHANGED <<browsers, ended, inboxVars, restVars>>

\* Mutated form: the loop's own account is published even after an overload.
PublishLoopAccount(s) ==
  /\ worker[s] = "returned"
  /\ slot' = [slot EXCEPT ![s] = ended[s]]
  /\ Goto(s, "published")
  /\ UNCHANGED <<browsers, ended, inboxVars, receiver>>

\* Mutated form: the channel closes before the outcome is published.
PublishAfterClose(s) ==
  /\ \/ worker[s] = "returned" /\ Goto(s, "closing") /\ UNCHANGED slot
     \/ /\ worker[s] = "closing"
        /\ slot' = [slot EXCEPT ![s] = ended[s]]
        /\ Goto(s, "exited")
  /\ UNCHANGED <<browsers, ended, inboxVars, receiver>>

\* An overload overrides whatever the loop thought it was ending for.
PublishOutcome(s) ==
  /\ worker[s] = "returned"
  /\ slot' = [slot EXCEPT ![s] = IF overload[s] # "none" THEN "Overloaded" ELSE ended[s]]
  /\ Goto(s, "published")
  /\ UNCHANGED <<browsers, ended, inboxVars, receiver>>

DropKeepalive(s) ==
  /\ worker[s] = "published"
  /\ Goto(s, "closing")
  /\ UNCHANGED <<browsers, ended, inboxVars, restVars>>

ThreadExits(s) ==
  /\ worker[s] = "closing"
  /\ Goto(s, "exited")
  /\ UNCHANGED <<browsers, ended, inboxVars, restVars>>

\* The thread unwinds inside the browse loop: both senders go, and no outcome
\* is published.  The runtime goes with it, and with the runtime its tasks.
WorkerPanics(s) ==
  /\ worker[s] \in {"building", "starting", "browsing", "pausing"}
  /\ Goto(s, "exited")
  /\ browsers' = [browsers EXCEPT ![s] = [t \in Types |-> "done"]]
  /\ UNCHANGED <<ended, inboxVars, restVars>>

-----------------------------------------------------------------------------
(* mdns.rs browse_loop: one task that selects on the token, the browser    *)
(* and its probes.  Starting the native browse is awaited outside the      *)
(* select.                                                                 *)

MdnsBrowseFails(s) ==
  /\ worker[s] = "starting"
  /\ Return(s, "Startup")
  /\ UNCHANGED <<browsers, inboxVars, restVars>>

\* The announcing Status is sent with its result ignored.
MdnsBrowseStarts(s) ==
  /\ worker[s] = "starting"
  /\ SendOk(s) \/ SendErr(s)
  /\ Goto(s, "browsing")
  /\ UNCHANGED <<browsers, ended, restVars>>

MdnsCancelled(s) ==
  /\ worker[s] = "browsing"
  /\ cancelled[s]
  /\ Return(s, "Cancelled")
  /\ UNCHANGED <<browsers, inboxVars, restVars>>

\* A browse event, or a probe result worth an event: a failed send stops it.
MdnsEvent(s) ==
  /\ worker[s] = "browsing"
  /\ More(s)
  /\ \/ SendOk(s) /\ UNCHANGED <<worker, ended>>
     \/ SendErr(s) /\ Return(s, "Stopped")
  /\ UNCHANGED <<browsers, restVars>>

\* A browse error becomes a Status whose send result is ignored.
MdnsError(s) ==
  /\ worker[s] = "browsing"
  /\ More(s)
  /\ SendOk(s) \/ SendErr(s)
  /\ UNCHANGED <<worker, browsers, ended, restVars>>

\* The liveness tracker has no room for one more occurrence.
MdnsUntrackable(s) ==
  /\ worker[s] = "browsing"
  /\ Overload(s, "tracker")
  /\ Return(s, "Overloaded")
  /\ UNCHANGED <<browsers, published, inbox, restVars>>

MdnsSourceEnds(s) ==
  /\ worker[s] = "browsing"
  /\ Return(s, "Stopped")
  /\ UNCHANGED <<browsers, inboxVars, restVars>>

MdnsLoop(s) ==
  \/ MdnsBrowseFails(s) \/ MdnsBrowseStarts(s) \/ MdnsCancelled(s)
  \/ MdnsEvent(s) \/ MdnsError(s) \/ MdnsUntrackable(s) \/ MdnsSourceEnds(s)

-----------------------------------------------------------------------------
(* zeroconf.rs: browse_loop starts one browse_one task per service type,   *)
(* then awaits them all; the tasks run on the runtime's other threads.     *)

Become(s, t, b) == browsers' = [browsers EXCEPT ![s][t] = b]

Untried(s) == {t \in Types : browsers[s][t] = "untried"}
Running(s) == {t \in Types : browsers[s][t] = "running"}

ZeroconfTypeStarts(s, t) ==
  /\ worker[s] = "starting"
  /\ browsers[s][t] = "untried"
  /\ Become(s, t, "running")
  /\ UNCHANGED <<worker, ended, inboxVars, restVars>>

ZeroconfTypeFails(s, t) ==
  /\ worker[s] = "starting"
  /\ browsers[s][t] = "untried"
  /\ SendOk(s) \/ SendErr(s)
  /\ Become(s, t, "failed")
  /\ UNCHANGED <<worker, ended, restVars>>

\* Not one type could be browsed: the adapter never started.
ZeroconfNoneStarted(s) ==
  /\ worker[s] = "starting"
  /\ \A t \in Types : browsers[s][t] = "failed"
  /\ Return(s, "Startup")
  /\ UNCHANGED <<browsers, inboxVars, restVars>>

ZeroconfAnnounce(s) ==
  /\ worker[s] = "starting"
  /\ Untried(s) = {}
  /\ \E t \in Types : browsers[s][t] # "failed"
  /\ SendOk(s) \/ SendErr(s)
  /\ Goto(s, "browsing")
  /\ UNCHANGED <<browsers, ended, restVars>>

ZeroconfJoined(s) ==
  /\ worker[s] = "browsing"
  /\ Running(s) = {}
  /\ Return(s, IF cancelled[s] THEN "Cancelled" ELSE "Stopped")
  /\ UNCHANGED <<browsers, inboxVars, restVars>>

\* Mutated form: a task that waits for room in the inbox is deaf to its token.
BrowseOneWaitingForRoom(s, t) ==
  /\ browsers[s][t] = "running"
  /\ cancelled[s]
  /\ Len(inbox[s]) < EVENT_CAPACITY \/ ~receiver[s]
  /\ Become(s, t, "done")
  /\ UNCHANGED <<worker, ended, inboxVars, restVars>>

BrowseOneCancelled(s, t) ==
  /\ browsers[s][t] = "running"
  /\ cancelled[s]
  /\ Become(s, t, "done")
  /\ UNCHANGED <<worker, ended, inboxVars, restVars>>

BrowseOneEvent(s, t) ==
  /\ browsers[s][t] = "running"
  /\ More(s)
  /\ \/ SendOk(s) /\ UNCHANGED browsers
     \/ SendErr(s) /\ Become(s, t, "done")
  /\ UNCHANGED <<worker, ended, restVars>>

BrowseOneError(s, t) ==
  /\ browsers[s][t] = "running"
  /\ More(s)
  /\ SendOk(s) \/ SendErr(s)
  /\ UNCHANGED <<worker, browsers, ended, restVars>>

\* Its browser's stream ends, or the task panics (the join error is ignored).
BrowseOneEnds(s, t) ==
  /\ browsers[s][t] = "running"
  /\ Become(s, t, "done")
  /\ UNCHANGED <<worker, ended, inboxVars, restVars>>

ZeroconfLoop(s) ==
  \/ ZeroconfNoneStarted(s) \/ ZeroconfAnnounce(s) \/ ZeroconfJoined(s)
  \/ \E t \in Types :
       \/ ZeroconfTypeStarts(s, t) \/ ZeroconfTypeFails(s, t)
       \/ BrowseOneCancelled(s, t) \/ BrowseOneEvent(s, t)
       \/ BrowseOneError(s, t) \/ BrowseOneEnds(s, t)

-----------------------------------------------------------------------------
(* fake.rs sample_loop: a finite stream, MaxEvents long, status included.  *)

FakeAnnounce(s) ==
  /\ worker[s] = "starting"
  /\ \/ SendOk(s) /\ Goto(s, "browsing") /\ UNCHANGED ended
     \/ SendErr(s) /\ Return(s, "Stopped")
  /\ UNCHANGED <<browsers, restVars>>

FakeSample(s) ==
  /\ worker[s] = "browsing"
  /\ More(s)
  /\ \/ SendOk(s) /\ Goto(s, "pausing") /\ UNCHANGED ended
     \/ SendErr(s) /\ Return(s, "Stopped")
  /\ UNCHANGED <<browsers, restVars>>

FakeCancelled(s) ==
  /\ worker[s] = "pausing"
  /\ cancelled[s]
  /\ Return(s, "Cancelled")
  /\ UNCHANGED <<browsers, inboxVars, restVars>>

\* The pause may end although the token is cancelled: select picks either.
FakePauseEnds(s) ==
  /\ worker[s] = "pausing"
  /\ Goto(s, "browsing")
  /\ UNCHANGED <<browsers, ended, inboxVars, restVars>>

FakeComplete(s) ==
  /\ worker[s] = "browsing"
  /\ published[s] = MaxEvents
  /\ Return(s, "Complete")
  /\ UNCHANGED <<browsers, inboxVars, restVars>>

FakeLoop(s) ==
  FakeAnnounce(s) \/ FakeSample(s) \/ FakeCancelled(s) \/ FakePauseEnds(s) \/ FakeComplete(s)

-----------------------------------------------------------------------------
BrowseLoop(s) ==
  \/ adapter = "mdns" /\ MdnsLoop(s)
  \/ adapter = "zeroconf" /\ ZeroconfLoop(s)
  \/ adapter = "fake" /\ FakeLoop(s)

WorkerNext(s) ==
  \/ RuntimeFails(s) \/ RuntimeBuilt(s) \/ BrowseLoop(s) \/ WorkerPanics(s)
  \/ PublishOutcome(s) \/ DropKeepalive(s) \/ ThreadExits(s)

=============================================================================
