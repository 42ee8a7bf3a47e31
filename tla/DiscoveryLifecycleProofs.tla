----------------------- MODULE DiscoveryLifecycleProofs -----------------------
(***************************************************************************)
(* Proofs about DiscoveryLifecycle, for every adapter, every number of     *)
(* service types, sessions and events, and every capacity.                 *)
(***************************************************************************)
EXTENDS DiscoveryLifecycle, TLAPS

USE WorkerAssumption, LifecycleAssumption

-----------------------------------------------------------------------------
(* Type correctness.                                                       *)

\* A send, accepted or refused, keeps the types of what it writes.
LEMMA SendType ==
  ASSUME TypeOK, NEW s \in Sessions, SendOk(s) \/ SendErr(s)
  PROVE  /\ published' \in [Sessions -> Nat]
         /\ inbox' \in [Sessions -> Seq(Nat)]
         /\ overload' \in [Sessions -> {"none", "inbox", "tracker"}]
         /\ cancelled' \in [Sessions -> BOOLEAN]
  <1>1. published[s] + 1 \in Nat
    BY DEF TypeOK, WorkerTypeOK
  <1>2. published' \in [Sessions -> Nat]
    BY <1>1 DEF TypeOK, WorkerTypeOK, SendOk, SendErr
  <1>3. CASE SendOk(s)
    <2>1. Append(inbox[s], published[s] + 1) \in Seq(Nat)
      BY <1>1 DEF TypeOK, WorkerTypeOK
    <2>2. QED
      BY <1>2, <1>3, <2>1 DEF TypeOK, WorkerTypeOK, SendOk
  <1>4. CASE SendErr(s)
    BY <1>2, <1>4 DEF TypeOK, WorkerTypeOK, SendErr, Overload
  <1>5. QED
    BY <1>3, <1>4

\* So does moving a browse_one task on.
LEMMA BecomeType ==
  ASSUME TypeOK, NEW s \in Sessions, NEW t \in Types, NEW b \in BrowserState, Become(s, t, b)
  PROVE  /\ browsers' \in [Sessions -> [Types -> BrowserState]]
         /\ \A r \in Sessions : r # s => browsers'[r] = browsers[r]
         /\ \A u \in Types : browsers'[s][u] = IF u = t THEN b ELSE browsers[s][u]
  <1>1. browsers \in [Sessions -> [Types -> BrowserState]]
    BY DEF TypeOK, WorkerTypeOK
  <1>2. DEFINE row == [browsers[s] EXCEPT ![t] = b]
  <1>3. row \in [Types -> BrowserState] /\ \A u \in Types : row[u] = IF u = t THEN b ELSE browsers[s][u]
    BY <1>1
  <1>4. browsers' = [browsers EXCEPT ![s] = row]
    BY DEF Become
  <1>. HIDE DEF row
  <1>5. QED
    BY <1>1, <1>3, <1>4

\* So does every step of a worker thread.
LEMMA WorkerType ==
  ASSUME TypeOK, NEW s \in Sessions, WorkerNext(s), UNCHANGED appVars
  PROVE  TypeOK'
  <1>. USE DEF TypeOK, WorkerTypeOK, WorkerPc, BrowserState, Outcome, appVars,
               inboxVars, restVars, Goto, Return
  <1>1. CASE RuntimeFails(s)
    BY <1>1 DEF RuntimeFails
  <1>2. CASE RuntimeBuilt(s)
    BY <1>2 DEF RuntimeBuilt
  <1>3. CASE WorkerPanics(s)
    BY <1>3 DEF WorkerPanics
  <1>4. CASE PublishOutcome(s)
    BY <1>4 DEF PublishOutcome
  <1>5. CASE DropKeepalive(s)
    BY <1>5 DEF DropKeepalive
  <1>6. CASE ThreadExits(s)
    BY <1>6 DEF ThreadExits
  <1>7. CASE MdnsLoop(s)
    <2>1. CASE MdnsBrowseStarts(s) \/ MdnsEvent(s) \/ MdnsError(s)
      BY <2>1, SendType DEF MdnsBrowseStarts, MdnsEvent, MdnsError
    <2>2. CASE MdnsUntrackable(s)
      BY <2>2 DEF MdnsUntrackable, Overload
    <2>3. CASE MdnsBrowseFails(s) \/ MdnsCancelled(s) \/ MdnsSourceEnds(s)
      BY <2>3 DEF MdnsBrowseFails, MdnsCancelled, MdnsSourceEnds
    <2>4. QED
      BY <1>7, <2>1, <2>2, <2>3 DEF MdnsLoop
  <1>8. CASE ZeroconfLoop(s)
    <2>1. CASE ZeroconfNoneStarted(s) \/ ZeroconfJoined(s)
      BY <2>1 DEF ZeroconfNoneStarted, ZeroconfJoined
    <2>2. CASE ZeroconfAnnounce(s)
      BY <2>2, SendType DEF ZeroconfAnnounce
    <2>3. ASSUME NEW t \in Types,
                 \/ ZeroconfTypeStarts(s, t) \/ BrowseOneCancelled(s, t)
                 \/ BrowseOneEnds(s, t)
          PROVE  TypeOK'
      BY <2>3, BecomeType DEF ZeroconfTypeStarts, BrowseOneCancelled, BrowseOneEnds
    <2>4. ASSUME NEW t \in Types,
                 \/ ZeroconfTypeFails(s, t) \/ BrowseOneEvent(s, t) \/ BrowseOneError(s, t)
          PROVE  TypeOK'
      BY <2>4, SendType, BecomeType DEF ZeroconfTypeFails, BrowseOneEvent, BrowseOneError
    <2>5. QED
      BY <1>8, <2>1, <2>2, <2>3, <2>4 DEF ZeroconfLoop
  <1>9. CASE FakeLoop(s)
    <2>1. CASE FakeAnnounce(s) \/ FakeSample(s)
      BY <2>1, SendType DEF FakeAnnounce, FakeSample
    <2>2. CASE FakeCancelled(s) \/ FakePauseEnds(s) \/ FakeComplete(s)
      BY <2>2 DEF FakeCancelled, FakePauseEnds, FakeComplete
    <2>3. QED
      BY <1>9, <2>1, <2>2 DEF FakeLoop
  <1>10. QED
    BY <1>1, <1>2, <1>3, <1>4, <1>5, <1>6, <1>7, <1>8, <1>9 DEF WorkerNext, BrowseLoop

\* So does every step of the app.
LEMMA AppType ==
  ASSUME TypeOK, JoinInBounds, AppNext
  PROVE  TypeOK'
  <1>. USE DEF TypeOK, WorkerTypeOK, workerVars, UiPc, SessionState, FailedState
  <1>0. adapter' = adapter
    BY DEF AppNext
  <1>. USE <1>0
  <1>1. CASE DrainEvent
    <2>1. Head(inbox[session]) \in Nat /\ Tail(inbox[session]) \in Seq(Nat)
      BY <1>1 DEF DrainEvent
    <2>2. list' \in Seq(Shown)
      BY <1>1, <2>1 DEF DrainEvent, Shown
    <2>3. inbox' \in [Sessions -> Seq(Nat)]
      BY <1>1, <2>1 DEF DrainEvent
    <2>4. budget' \in 0 .. MAX_EVENTS_PER_TICK
      BY <1>1 DEF DrainEvent
    <2>5. QED
      BY <1>1, <2>2, <2>3, <2>4 DEF DrainEvent
  <1>2. CASE DrainIdle \/ NextTick \/ HandOff
    BY <1>2 DEF DrainIdle, NextTick, HandOff
  <1>3. CASE DrainEnded
    <2>1. slot[session] \in Outcome \cup {"none"}
      OBVIOUS
    <2>2. state' \in SessionState
      BY <1>3, <2>1 DEF DrainEnded, Ending, Outcome
    <2>3. list' \in Seq(Shown)
      BY <1>3 DEF DrainEnded
    <2>4. QED
      BY <1>3, <2>2, <2>3 DEF DrainEnded
  <1>4. CASE Refresh \/ Leave
    BY <1>4 DEF Refresh, Leave
  <1>5. CASE Replace
    <2>1. session + 1 \in Sessions
      BY <1>5 DEF Replace, JoinInBounds, Sessions
    <2>2. worker' \in [Sessions -> WorkerPc] /\ receiver' \in [Sessions -> BOOLEAN]
      BY <1>5, <2>1 DEF Replace, StartReplacement, WorkerPc
    <2>3. session' \in Sessions /\ state' \in SessionState /\ ui' \in UiPc /\ list' \in Seq(Shown)
      BY <1>5, <2>1 DEF Replace, StartReplacement
    <2>4. QED
      BY <1>5, <2>2, <2>3 DEF Replace, StartReplacement
  <1>6. QED
    BY <1>1, <1>2, <1>3, <1>4, <1>5 DEF AppNext

-----------------------------------------------------------------------------
(* The inductive invariant.                                                *)

\* Only the session the app owns has a worker that can move.
LEMMA OnlyTheCurrentMoves ==
  ASSUME IInv, NEW s \in Sessions, WorkerNext(s)
  PROVE  s = session /\ Alive(s)
  <1>1. worker[s] \notin {"unborn", "exited"}
    <2>1. ASSUME Running(s) = {} PROVE \A t \in Types : browsers[s][t] # "running"
      BY <2>1 DEF Running
    <2>2. Running(s) # {} => worker[s] \in {"starting", "browsing"}
      BY DEF IInv, WorkerInOrder
    <2>3. CASE \E t \in Types : BrowseOneCancelled(s, t) \/ BrowseOneEvent(s, t)
                               \/ BrowseOneError(s, t) \/ BrowseOneEnds(s, t)
      BY <2>1, <2>2, <2>3 DEF BrowseOneCancelled, BrowseOneEvent, BrowseOneError, BrowseOneEnds
    <2>4. CASE MdnsLoop(s)
      BY <2>4 DEF MdnsLoop, MdnsBrowseFails, MdnsBrowseStarts, MdnsCancelled, MdnsEvent,
                  MdnsError, MdnsUntrackable, MdnsSourceEnds
    <2>5. CASE FakeLoop(s)
      BY <2>5 DEF FakeLoop, FakeAnnounce, FakeSample, FakeCancelled, FakePauseEnds, FakeComplete
    <2>6. CASE \/ ZeroconfNoneStarted(s) \/ ZeroconfAnnounce(s) \/ ZeroconfJoined(s)
               \/ \E t \in Types : ZeroconfTypeStarts(s, t) \/ ZeroconfTypeFails(s, t)
      BY <2>6 DEF ZeroconfNoneStarted, ZeroconfAnnounce, ZeroconfJoined,
                  ZeroconfTypeStarts, ZeroconfTypeFails
    <2>7. CASE RuntimeFails(s) \/ RuntimeBuilt(s) \/ WorkerPanics(s)
               \/ PublishOutcome(s) \/ DropKeepalive(s) \/ ThreadExits(s)
      BY <2>7 DEF RuntimeFails, RuntimeBuilt, WorkerPanics, PublishOutcome,
                  DropKeepalive, ThreadExits
    <2>8. QED
      BY <2>3, <2>4, <2>5, <2>6, <2>7 DEF WorkerNext, BrowseLoop, ZeroconfLoop
  <1>2. s = session
    BY <1>1 DEF IInv, SessionsInTurn, TypeOK, Sessions
  <1>3. QED
    BY <1>1, <1>2 DEF Alive

-----------------------------------------------------------------------------
(* A step of one worker, seen from its session.                            *)

\* A step of session s leaves the other sessions' workers alone.
OthersStay(s) ==
  \A r \in Sessions \ {s} :
    /\ worker'[r] = worker[r] /\ browsers'[r] = browsers[r] /\ published'[r] = published[r]
    /\ inbox'[r] = inbox[r] /\ cancelled'[r] = cancelled[r] /\ overload'[r] = overload[r]
    /\ ended'[r] = ended[r] /\ slot'[r] = slot[r]

\* Overloads stay, and they and only they cancel a session from inside.
Marks(s) ==
  /\ overload[s] # "none" => overload'[s] = overload[s]
  /\ cancelled[s] => cancelled'[s]
  /\ overload'[s] # overload[s] => cancelled'[s]
  /\ cancelled'[s] # cancelled[s] => overload'[s] # "none"

LoopPc == {"building", "starting", "browsing", "pausing"}

\* A loop goes on, returns or unwinds; what it returned is published, and the
\* channel is closed after that.
Path(s) ==
  \/ /\ worker[s] \in LoopPc /\ worker'[s] \in LoopPc \cup {"exited"}
     /\ ended'[s] = ended[s] /\ slot'[s] = slot[s]
  \/ /\ worker[s] \in LoopPc /\ worker'[s] = "returned"
     /\ ended'[s] \in Outcome /\ slot'[s] = slot[s]
     /\ ended'[s] = "Cancelled" => cancelled'[s]
  \/ /\ \/ worker[s] = "returned" /\ worker'[s] = "published" /\ slot'[s] = Account(s)
        \/ worker[s] = "published" /\ worker'[s] = "closing" /\ slot'[s] = slot[s]
        \/ worker[s] = "closing" /\ worker'[s] = "exited" /\ slot'[s] = slot[s]
     /\ ended'[s] = ended[s] /\ overload'[s] = overload[s] /\ inbox'[s] = inbox[s]

\* The tasks of a session never outlive its loop.
TasksInside(s) == Running(s)' # {} => adapter = "zeroconf" /\ worker'[s] \in {"starting", "browsing"}

WorkerEffect(s) ==
  OthersStay(s) /\ receiver' = receiver /\ Marks(s) /\ Path(s) /\ TasksInside(s)

\* A send touches its own session only, and marks it if it overloads.
LEMMA SendEffect ==
  ASSUME TypeOK, NEW s \in Sessions, SendOk(s) \/ SendErr(s)
  PROVE  /\ \A r \in Sessions \ {s} :
              /\ published'[r] = published[r] /\ inbox'[r] = inbox[r]
              /\ cancelled'[r] = cancelled[r] /\ overload'[r] = overload[r]
         /\ Marks(s)
  BY DEF TypeOK, WorkerTypeOK, SendOk, SendErr, Overload, Marks

\* A loop that has not finished may run tasks only if it is zeroconf's.
LEMMA RunningWhere ==
  ASSUME IInv, NEW s \in Sessions
  PROVE  /\ \A t \in Types : browsers[s][t] = "running" =>
                adapter = "zeroconf" /\ worker[s] \in {"starting", "browsing"}
         /\ browsers' = browsers /\ worker'[s] \in {"starting", "browsing"} => TasksInside(s)
         /\ browsers' = browsers /\ (adapter # "zeroconf" \/ worker[s] \notin {"starting", "browsing"})
              => TasksInside(s)
  BY DEF IInv, WorkerInOrder, Running, TasksInside

\* So does every step of a worker thread have the effect described.
LEMMA WorkerStep ==
  ASSUME IInv, NEW s \in Sessions, WorkerNext(s)
  PROVE  WorkerEffect(s)
  <1>. USE DEF inboxVars, restVars, Goto, Return
  <1>1. TypeOK
    BY DEF IInv
  <1>2. worker \in [Sessions -> WorkerPc] /\ browsers \in [Sessions -> [Types -> BrowserState]]
        /\ ended \in [Sessions -> Outcome \cup {"none"}] /\ slot \in [Sessions -> Outcome \cup {"none"}]
        /\ cancelled \in [Sessions -> BOOLEAN]
        /\ overload \in [Sessions -> {"none", "inbox", "tracker"}]
    BY <1>1 DEF TypeOK, WorkerTypeOK
  <1>3. CASE RuntimeFails(s) \/ RuntimeBuilt(s)
    BY <1>2, <1>3, RunningWhere DEF RuntimeFails, RuntimeBuilt, WorkerEffect, OthersStay, Marks,
                                   Path, LoopPc, Outcome
  <1>4. CASE WorkerPanics(s)
    <2>1. browsers'[s] = [t \in Types |-> "done"]
      BY <1>2, <1>4 DEF WorkerPanics
    <2>2. TasksInside(s)
      BY <2>1 DEF TasksInside, Running
    <2>3. QED
      BY <1>2, <1>4, <2>2 DEF WorkerPanics, WorkerEffect, OthersStay, Marks, Path, LoopPc
  <1>5. CASE PublishOutcome(s) \/ DropKeepalive(s) \/ ThreadExits(s)
    BY <1>2, <1>5, RunningWhere DEF PublishOutcome, DropKeepalive, ThreadExits, WorkerEffect,
                                   OthersStay, Marks, Path, Account
  <1>6. CASE adapter = "mdns" /\ MdnsLoop(s)
    <2>1. CASE MdnsBrowseStarts(s) \/ MdnsEvent(s) \/ MdnsError(s)
      BY <1>1, <1>2, <1>6, <2>1, SendEffect, RunningWhere
         DEF MdnsBrowseStarts, MdnsEvent, MdnsError, WorkerEffect, OthersStay, Path, LoopPc, Outcome
    <2>2. CASE MdnsUntrackable(s)
      BY <1>2, <1>6, <2>2, RunningWhere
         DEF MdnsUntrackable, Overload, WorkerEffect, OthersStay, Marks, Path, LoopPc, Outcome
    <2>3. CASE MdnsBrowseFails(s) \/ MdnsCancelled(s) \/ MdnsSourceEnds(s)
      BY <1>2, <1>6, <2>3, RunningWhere
         DEF MdnsBrowseFails, MdnsCancelled, MdnsSourceEnds, WorkerEffect, OthersStay, Marks,
             Path, LoopPc, Outcome
    <2>4. QED
      BY <1>6, <2>1, <2>2, <2>3 DEF MdnsLoop
  <1>7. CASE adapter = "zeroconf" /\ ZeroconfLoop(s)
    <2>1. CASE ZeroconfNoneStarted(s) \/ ZeroconfJoined(s)
      <3>1. Running(s) = {} /\ browsers' = browsers
        BY <2>1 DEF ZeroconfNoneStarted, ZeroconfJoined, Running
      <3>2. TasksInside(s)
        BY <3>1 DEF Running, TasksInside
      <3>3. QED
        BY <1>2, <2>1, <3>2 DEF ZeroconfNoneStarted, ZeroconfJoined, WorkerEffect, OthersStay,
                                Marks, Path, LoopPc, Outcome
    <2>2. CASE ZeroconfAnnounce(s)
      BY <1>1, <1>2, <2>2, SendEffect, RunningWhere
         DEF ZeroconfAnnounce, WorkerEffect, OthersStay, Path, LoopPc
    <2>3. ASSUME NEW t \in Types, ZeroconfTypeStarts(s, t) \/ ZeroconfTypeFails(s, t)
          PROVE  WorkerEffect(s)
      <3>1. PICK b \in BrowserState : Become(s, t, b)
        BY <2>3 DEF ZeroconfTypeStarts, ZeroconfTypeFails, BrowserState
      <3>2. \A r \in Sessions \ {s} : browsers'[r] = browsers[r]
        BY <1>1, <3>1, BecomeType
      <3>3. TasksInside(s)
        BY <1>2, <1>7, <2>3 DEF TasksInside, ZeroconfTypeStarts, ZeroconfTypeFails
      <3>4. CASE ZeroconfTypeStarts(s, t)
        BY <1>2, <3>2, <3>3, <3>4
           DEF ZeroconfTypeStarts, WorkerEffect, OthersStay, Marks, Path, LoopPc
      <3>5. CASE ZeroconfTypeFails(s, t)
        BY <1>1, <1>2, <3>2, <3>3, <3>5, SendEffect
           DEF ZeroconfTypeFails, WorkerEffect, OthersStay, Path, LoopPc
      <3>6. QED
        BY <2>3, <3>4, <3>5
    <2>4. ASSUME NEW t \in Types,
                 \/ BrowseOneCancelled(s, t) \/ BrowseOneEvent(s, t)
                 \/ BrowseOneError(s, t) \/ BrowseOneEnds(s, t)
          PROVE  WorkerEffect(s)
      <3>1. worker[s] \in {"starting", "browsing"} /\ worker' = worker /\ ended' = ended
            /\ slot' = slot /\ receiver' = receiver
        BY <2>4, RunningWhere
           DEF BrowseOneCancelled, BrowseOneEvent, BrowseOneError, BrowseOneEnds
      <3>2. TasksInside(s)
        BY <1>7, <3>1 DEF TasksInside
      <3>3. \A r \in Sessions \ {s} : browsers'[r] = browsers[r]
        BY <1>1, <2>4, BecomeType
           DEF BrowseOneCancelled, BrowseOneEvent, BrowseOneError, BrowseOneEnds, BrowserState
      <3>4. CASE BrowseOneCancelled(s, t) \/ BrowseOneEnds(s, t)
        BY <3>1, <3>2, <3>3, <3>4
           DEF BrowseOneCancelled, BrowseOneEnds, WorkerEffect, OthersStay, Marks, Path, LoopPc
      <3>5. CASE BrowseOneEvent(s, t) \/ BrowseOneError(s, t)
        BY <1>1, <3>1, <3>2, <3>3, <3>5, SendEffect
           DEF BrowseOneEvent, BrowseOneError, WorkerEffect, OthersStay, Path, LoopPc
      <3>6. QED
        BY <2>4, <3>4, <3>5
    <2>5. QED
      BY <1>7, <2>1, <2>2, <2>3, <2>4 DEF ZeroconfLoop
  <1>8. CASE adapter = "fake" /\ FakeLoop(s)
    <2>1. CASE FakeAnnounce(s) \/ FakeSample(s)
      BY <1>1, <1>2, <1>8, <2>1, SendEffect, RunningWhere
         DEF FakeAnnounce, FakeSample, WorkerEffect, OthersStay, Path, LoopPc, Outcome
    <2>2. CASE FakeCancelled(s) \/ FakePauseEnds(s) \/ FakeComplete(s)
      BY <1>2, <1>8, <2>2, RunningWhere
         DEF FakeCancelled, FakePauseEnds, FakeComplete, WorkerEffect, OthersStay, Marks,
             Path, LoopPc, Outcome
    <2>3. QED
      BY <1>8, <2>1, <2>2 DEF FakeLoop
  <1>9. QED
    BY <1>3, <1>4, <1>5, <1>6, <1>7, <1>8 DEF WorkerNext, BrowseLoop

-----------------------------------------------------------------------------
(* The invariant is kept.                                                  *)

LEMMA InvInit == Init => IInv
  <1>. SUFFICES ASSUME Init PROVE IInv
    OBVIOUS
  <1>1. TypeOK
    BY DEF Init, WorkerInit, TypeOK, WorkerTypeOK, Sessions, WorkerPc, BrowserState,
           Outcome, SessionState, UiPc
  <1>2. SessionsInTurn
    <2>1. session = 1 /\ \A s \in Sessions : s \in Nat /\ s >= 1
      BY DEF Init, Sessions
    <2>2. \A s \in Sessions : s # 1 =>
            /\ worker[s] = "unborn" /\ ~receiver[s] /\ ~cancelled[s]
            /\ overload[s] = "none" /\ inbox[s] = <<>> /\ published[s] = 0
      BY DEF Init, WorkerInit
    <2>3. \A s \in Sessions : s = 1 => worker[s] = "building"
      BY DEF Init, WorkerInit
    <2>4. QED
      BY <2>1, <2>2, <2>3 DEF SessionsInTurn
  <1>3. WorkerInOrder
    <2>1. \A s \in Sessions : Running(s) = {}
      BY DEF Init, WorkerInit, Running
    <2>2. QED
      BY <2>1 DEF Init, WorkerInit, WorkerInOrder
  <1>4. CancelHasCause
    BY DEF Init, WorkerInit, CancelHasCause, Sessions
  <1>5. EndingApplied
    <2>1. session \in Sessions /\ session = 1
      BY <1>1 DEF Init, TypeOK
    <2>2. receiver[session]
      BY <2>1, Zenon DEF Init, WorkerInit
    <2>3. QED
      BY <2>2 DEF Init, EndingApplied, Over, FailedState
  <1>6. JoinInBounds /\ CancelledEndingUnseen
    BY DEF Init, JoinInBounds, CancelledEndingUnseen
  <1>7. QED
    BY <1>1, <1>2, <1>3, <1>4, <1>5, <1>6 DEF IInv

LEMMA InvWorker ==
  ASSUME IInv, NEW s \in Sessions, WorkerNext(s), UNCHANGED appVars
  PROVE  IInv'
  <1>1. TypeOK /\ TypeOK'
    BY WorkerType DEF IInv
  <1>2. s = session /\ Alive(s) /\ session' = session /\ adapter' = adapter
    BY OnlyTheCurrentMoves DEF appVars
  <1>3. WorkerEffect(s)
    BY WorkerStep
  <1>4. SessionsInTurn'
    BY <1>2, <1>3 DEF IInv, SessionsInTurn, WorkerEffect, OthersStay, Path, LoopPc, Sessions,
                      TypeOK, Outcome
  <1>5. WorkerInOrder'
    BY <1>2, <1>3 DEF IInv, WorkerInOrder, WorkerEffect, OthersStay, Path, LoopPc, Running,
                      TasksInside, Account, Outcome
  <1>6. CancelHasCause'
    <2>1. \A r \in Sessions : (overload[r] # "none" => cancelled[r])'
      BY <1>3 DEF IInv, CancelHasCause, WorkerEffect, OthersStay, Marks
    <2>2. \A r \in Sessions : (ended[r] = "Cancelled" => cancelled[r])'
      <3>1. \A r \in Sessions : cancelled[r] => cancelled'[r]
        BY <1>3 DEF WorkerEffect, OthersStay, Marks
      <3>2. \A r \in Sessions : ended'[r] = ended[r] \/ (ended'[r] = "Cancelled" => cancelled'[r])
        BY <1>3 DEF WorkerEffect, OthersStay, Path
      <3>3. QED
        BY <3>1, <3>2 DEF IInv, CancelHasCause
    <2>3. ASSUME cancelled'[s] PROVE overload'[s] # "none" \/ ui \in {"joining", "dropping", "gone"}
      <3>1. CASE cancelled[s]
        BY <1>2, <1>3, <3>1 DEF IInv, CancelHasCause, WorkerEffect, Marks
      <3>2. CASE ~cancelled[s]
        BY <1>3, <2>3, <3>2 DEF WorkerEffect, Marks
      <3>3. QED
        BY <3>1, <3>2
    <2>4. QED
      BY <1>2, <2>1, <2>2, <2>3 DEF CancelHasCause, appVars
  <1>7. EndingApplied'
    <2>1. Over' = Over /\ state' = state /\ list' = list /\ ui' = ui /\ receiver' = receiver
      BY <1>3 DEF appVars, Over, WorkerEffect
    <2>2. ui # "gone"
      BY <1>2 DEF IInv, EndingApplied
    <2>3. ASSUME Over PROVE (inbox[session] = <<>> /\ ~Connected(session) /\ state = Ending(slot[session]))'
      <3>1. worker[session] = "closing"
        BY <1>2, <2>3 DEF IInv, EndingApplied, Connected
      <3>2. worker'[session] = "exited" /\ inbox'[session] = inbox[session]
            /\ slot'[session] = slot[session]
        BY <1>2, <1>3, <3>1 DEF WorkerEffect, Path, LoopPc
      <3>3. QED
        BY <1>2, <2>1, <2>3, <3>2 DEF IInv, EndingApplied, Connected, Alive, Ending
    <2>4. QED
      BY <1>2, <2>1, <2>2, <2>3 DEF IInv, EndingApplied
  <1>8. JoinInBounds' /\ CancelledEndingUnseen'
    BY DEF IInv, appVars, JoinInBounds, CancelledEndingUnseen
  <1>9. QED
    BY <1>1, <1>4, <1>5, <1>6, <1>7, <1>8 DEF IInv

LEMMA InvApp ==
  ASSUME IInv, AppNext
  PROVE  IInv'
  <1>1. TypeOK /\ JoinInBounds /\ TypeOK' /\ adapter' = adapter
    BY AppType DEF IInv, AppNext
  <1>. USE <1>1
  <1>2. CASE DrainEvent
    <2>1. \A r \in Sessions : r # session => inbox'[r] = inbox[r]
      BY <1>2 DEF DrainEvent, TypeOK, WorkerTypeOK
    <2>2. state = "Listening"
      BY <1>2 DEF DrainEvent, IInv, EndingApplied, Over
    <2>3. SessionsInTurn'
      BY <1>2, <2>1 DEF DrainEvent, IInv, SessionsInTurn, TypeOK, Sessions
    <2>4. WorkerInOrder' /\ CancelHasCause' /\ JoinInBounds' /\ CancelledEndingUnseen'
      BY <1>2 DEF DrainEvent, IInv, WorkerInOrder, CancelHasCause, JoinInBounds,
                  CancelledEndingUnseen, Running, Account
    <2>5. EndingApplied'
      BY <1>2, <2>2 DEF DrainEvent, IInv, EndingApplied, Over, FailedState
    <2>6. QED
      BY <2>3, <2>4, <2>5 DEF IInv
  <1>3. CASE DrainEnded
    <2>1. SessionsInTurn' /\ WorkerInOrder' /\ JoinInBounds' /\ CancelHasCause'
      BY <1>3 DEF DrainEnded, workerVars, IInv, SessionsInTurn, WorkerInOrder, JoinInBounds,
                  CancelHasCause, Running, Account
    <2>2. worker[session] = "exited" \/ worker[session] = "closing"
      BY <1>3 DEF DrainEnded, IInv, SessionsInTurn, Connected, Alive, TypeOK
    <2>3. slot[session] # "Cancelled"
      <3>1. slot[session] = "Cancelled" => overload[session] = "none" /\ ended[session] = "Cancelled"
        BY <2>2 DEF IInv, WorkerInOrder, Account, TypeOK
      <3>2. ended[session] = "Cancelled" => cancelled[session]
        BY DEF IInv, CancelHasCause, TypeOK
      <3>3. QED
        BY <1>3, <3>1, <3>2 DEF DrainEnded, IInv, CancelHasCause
    <2>4. slot[session] \in {"Startup", "Stopped", "Overloaded", "Complete", "none"}
      BY <2>3 DEF TypeOK, WorkerTypeOK, Outcome
    <2>5. CancelledEndingUnseen'
      BY <1>3, <2>4 DEF DrainEnded, Ending, CancelledEndingUnseen
    <2>6. EndingApplied'
      BY <1>3 DEF DrainEnded, workerVars, IInv, EndingApplied, Over, Ending, Connected, Alive,
                  FailedState
    <2>7. QED
      BY <2>1, <2>5, <2>6 DEF IInv
  <1>4. CASE DrainIdle \/ NextTick
    <2>1. SessionsInTurn' /\ WorkerInOrder' /\ CancelHasCause'
      BY <1>4 DEF DrainIdle, NextTick, workerVars, IInv, SessionsInTurn, WorkerInOrder,
                  CancelHasCause, Running, Account
    <2>2. JoinInBounds' /\ CancelledEndingUnseen'
      BY <1>4 DEF DrainIdle, NextTick, IInv, JoinInBounds, CancelledEndingUnseen
    <2>3. EndingApplied'
      BY <1>4 DEF DrainIdle, NextTick, workerVars, IInv, EndingApplied, Over, Ending, Connected,
                  Alive, FailedState
    <2>4. QED
      BY <2>1, <2>2, <2>3 DEF IInv
  <1>5. CASE HandOff
    <2>1. SessionsInTurn' /\ WorkerInOrder' /\ CancelHasCause'
      BY <1>5 DEF HandOff, workerVars, IInv, SessionsInTurn, WorkerInOrder, CancelHasCause,
                  Running, Account
    <2>2. JoinInBounds' /\ CancelledEndingUnseen'
      BY <1>5 DEF HandOff, IInv, JoinInBounds, CancelledEndingUnseen
    <2>3. EndingApplied'
      BY <1>5 DEF HandOff, workerVars, IInv, EndingApplied, Over, Ending, Connected, Alive,
                  FailedState
    <2>4. QED
      BY <2>1, <2>2, <2>3 DEF IInv
  <1>6. CASE Refresh \/ Leave
    <2>1. \A r \in Sessions : cancelled[r] => cancelled'[r]
      BY <1>6 DEF Refresh, Leave, TypeOK, WorkerTypeOK
    <2>2. \A r \in Sessions : r # session => cancelled'[r] = cancelled[r] /\ (~receiver[r] => ~receiver'[r])
      BY <1>6 DEF Refresh, Leave, TypeOK, WorkerTypeOK
    <2>3. SessionsInTurn'
      BY <1>6, <2>2 DEF Refresh, Leave, IInv, SessionsInTurn, TypeOK, Sessions
    <2>4. WorkerInOrder'
      BY <1>6 DEF Refresh, Leave, IInv, WorkerInOrder, Running, Account
    <2>5. CancelHasCause'
      BY <1>6, <2>1 DEF Refresh, Leave, IInv, CancelHasCause
    <2>6. JoinInBounds' /\ CancelledEndingUnseen'
      BY <1>6 DEF Refresh, Leave, IInv, JoinInBounds, CancelledEndingUnseen
    <2>7. EndingApplied'
      BY <1>6 DEF Refresh, Leave, IInv, EndingApplied, Over, Ending, Connected, Alive, FailedState
    <2>8. QED
      BY <2>3, <2>4, <2>5, <2>6, <2>7 DEF IInv
  <1>7. CASE Replace
    <2>1. session + 1 \in Sessions /\ session' = session + 1
      BY <1>7 DEF Replace, StartReplacement, JoinInBounds, TypeOK, Sessions
    <2>2. worker[session] = "exited"
      BY <1>7 DEF Replace, Alive, IInv, SessionsInTurn, TypeOK
    <2>3. worker'[session + 1] = "building" /\ \A r \in Sessions : r # session + 1 => worker'[r] = worker[r]
      BY <1>7, <2>1 DEF Replace, StartReplacement, TypeOK, WorkerTypeOK
    <2>4. receiver'[session + 1] /\ \A r \in Sessions : r > session + 1 => receiver'[r] = receiver[r]
      <3>1. receiver \in [Sessions -> BOOLEAN]
            /\ receiver' = [receiver EXCEPT ![session] = FALSE, ![session + 1] = TRUE]
        BY <1>7 DEF Replace, StartReplacement, TypeOK, WorkerTypeOK
      <3>2. receiver'[session + 1]
        BY <2>1, <3>1, Zenon
      <3>3. \A r \in Sessions : r # session /\ r # session + 1 => receiver'[r] = receiver[r]
        BY <3>1
      <3>4. \A r \in Sessions : r > session + 1 => r # session /\ r # session + 1
        BY DEF TypeOK, Sessions
      <3>5. QED
        BY <3>2, <3>3, <3>4
    <2>5. worker[session + 1] = "unborn" /\ ~cancelled[session + 1] /\ overload[session + 1] = "none"
          /\ inbox[session + 1] = <<>>
      BY <2>1 DEF IInv, SessionsInTurn, TypeOK, Sessions
    <2>6. SessionsInTurn'
      <3>1. \A r \in Sessions : r < session + 1 => r <= session /\ r # session + 1
        BY DEF TypeOK, Sessions
      <3>2. \A r \in Sessions : r <= session => worker[r] = "exited"
        BY <2>2 DEF IInv, SessionsInTurn, TypeOK, Sessions
      <3>3. \A r \in Sessions : r > session + 1 => r > session /\ r # session + 1
        BY DEF TypeOK, Sessions
      <3>4. cancelled' = cancelled /\ overload' = overload /\ inbox' = inbox /\ published' = published
        BY <1>7 DEF Replace, StartReplacement
      <3>5. QED
        BY <2>1, <2>3, <2>4, <3>1, <3>2, <3>3, <3>4 DEF IInv, SessionsInTurn
    <2>7. WorkerInOrder'
      <3>1. ended[session + 1] = "none" /\ slot[session + 1] = "none"
            /\ \A t \in Types : browsers[session + 1][t] # "running"
        BY <2>1, <2>5, RunningWhere DEF IInv, WorkerInOrder
      <3>2. browsers' = browsers /\ ended' = ended /\ slot' = slot /\ overload' = overload
        BY <1>7 DEF Replace, StartReplacement
      <3>3. QED
        BY <2>3, <3>1, <3>2 DEF IInv, WorkerInOrder, Running, Account
    <2>8. CancelHasCause'
      BY <1>7, <2>1, <2>5 DEF Replace, StartReplacement, IInv, CancelHasCause
    <2>9. JoinInBounds' /\ CancelledEndingUnseen'
      BY <1>7 DEF Replace, StartReplacement, JoinInBounds, CancelledEndingUnseen
    <2>10. EndingApplied'
      <3>1. state' = "Listening" /\ ui' = "input" /\ list' = <<>>
        BY <1>7 DEF Replace, StartReplacement
      <3>2. QED
        BY <2>1, <2>4, <3>1 DEF EndingApplied, Over, FailedState
    <2>11. QED
      BY <2>6, <2>7, <2>8, <2>9, <2>10 DEF IInv
  <1>8. QED
    BY <1>2, <1>3, <1>4, <1>5, <1>6, <1>7 DEF AppNext

\* The strengthened invariant is inductive, so it holds throughout.
THEOREM Inductive == Spec => []IInv
  <1>1. IInv /\ [Next]_vars => IInv'
    <2>. SUFFICES ASSUME IInv, [Next]_vars PROVE IInv'
      OBVIOUS
    <2>1. CASE AppNext
      BY <2>1, InvApp
    <2>2. ASSUME NEW s \in Sessions, WorkerNext(s) /\ UNCHANGED appVars PROVE IInv'
      BY <2>2, InvWorker
    <2>3. CASE Terminated \/ UNCHANGED vars
      BY <2>3 DEF Terminated, vars, workerVars, appVars, IInv, TypeOK, WorkerTypeOK, JoinInBounds,
                  SessionsInTurn, WorkerInOrder, CancelHasCause, EndingApplied, CancelledEndingUnseen,
                  Running, Account, Over, Connected, Alive
    <2>4. QED
      BY <2>1, <2>2, <2>3 DEF Next
  <1>2. QED
    BY InvInit, <1>1, PTL DEF Spec

-----------------------------------------------------------------------------
(* What follows from it.                                                   *)

\* Every variable keeps its type, whatever the adapter does and the user asks.
THEOREM TypeCorrect == Spec => []TypeOK
  <1>1. IInv => TypeOK
    BY DEF IInv
  <1>2. QED
    BY Inductive, <1>1, PTL

\* At no time are two worker threads alive: refresh joins the old producer
\* before it starts the new one (App::refresh_services).
THEOREM OneProducerHolds == Spec => []OneProducer
  <1>1. IInv => OneProducer
    BY DEF IInv, SessionsInTurn, OneProducer, Alive, TypeOK, Sessions
  <1>2. QED
    BY Inductive, <1>1, PTL

\* The process is replaced, or exits, with no worker thread left
\* (run_invocation drops the app before exec).
THEOREM HandOffAfterJoinHolds == Spec => []HandOffAfterJoin
  <1>1. IInv => HandOffAfterJoin
    BY DEF IInv, SessionsInTurn, EndingApplied, HandOffAfterJoin, Alive, TypeOK, Sessions
  <1>2. QED
    BY Inductive, <1>1, PTL

\* The ending the app shows is the one that happened, with nothing left to
\* drain (spawn, session.rs poll and ending).
THEOREM EndingIsExplainedHolds == Spec => []EndingIsExplained
  <1>1. ASSUME IInv, Over PROVE EndingIsExplained
    <2>1. inbox[session] = <<>> /\ ~Connected(session) /\ state = Ending(slot[session])
      BY <1>1 DEF IInv, EndingApplied
    <2>2. worker[session] \in {"closing", "exited"}
      BY <1>1, <2>1 DEF Connected, Alive, IInv, SessionsInTurn, TypeOK
    <2>3. slot[session] = IF ended[session] = "none" THEN "none" ELSE Account(session)
      BY <1>1, <2>2 DEF IInv, WorkerInOrder, TypeOK
    <2>4. QED
      BY <2>1, <2>3 DEF EndingIsExplained, Ending, Account
  <1>2. IInv => EndingIsExplained
    BY <1>1 DEF EndingIsExplained
  <1>3. QED
    BY Inductive, <1>2, PTL

\* An overloaded session is cancelled, and once it is over it shows no records,
\* for every number of concurrent browse tasks (inbox.rs overload).
THEOREM OverloadFailsClosedHolds == Spec => []OverloadFailsClosed
  <1>1. IInv => EndingIsExplained
    <2>1. ASSUME IInv, Over PROVE slot[session] = IF ended[session] = "none" THEN "none" ELSE Account(session)
      BY <2>1 DEF IInv, EndingApplied, Connected, Alive, SessionsInTurn, WorkerInOrder, TypeOK
    <2>2. QED
      BY <2>1 DEF IInv, EndingApplied, EndingIsExplained, Ending, Account
  <1>2. IInv => OverloadFailsClosed
    <2>. SUFFICES ASSUME IInv, overload[session] # "none" PROVE OverloadFailsClosed
      BY DEF OverloadFailsClosed
    <2>1. cancelled[session]
      BY DEF IInv, CancelHasCause, TypeOK
    <2>2. Over => state \in {"FailedOverloaded", "FailedUnexpected"}
      BY <1>1 DEF EndingIsExplained, Ending
    <2>3. Over => list = <<>>
      BY <2>2 DEF IInv, EndingApplied, FailedState
    <2>4. QED
      BY <2>1, <2>2, <2>3 DEF OverloadFailsClosed
  <1>3. QED
    BY Inductive, <1>2, PTL

\* A cancelled ending is never shown: whoever cancels overrides it or stops
\* polling (CancellationToken in session.rs, inbox.rs).
THEOREM CancelledEndingUnseenHolds == Spec => []CancelledEndingUnseen
  <1>1. IInv => CancelledEndingUnseen
    BY DEF IInv
  <1>2. QED
    BY Inductive, <1>1, PTL

-----------------------------------------------------------------------------
(* Delivery.                                                               *)

\* Nothing but a send touches a session's inbox or its count of events.
LEMMA OnlySends ==
  ASSUME NEW s \in Sessions, WorkerNext(s)
  PROVE  (published' = published /\ inbox' = inbox) \/ SendOk(s) \/ SendErr(s)
  <1>. USE DEF inboxVars
  <1>1. CASE MdnsLoop(s)
    BY <1>1 DEF MdnsLoop, MdnsBrowseFails, MdnsBrowseStarts, MdnsCancelled, MdnsEvent,
                MdnsError, MdnsUntrackable, MdnsSourceEnds
  <1>2. CASE FakeLoop(s)
    BY <1>2 DEF FakeLoop, FakeAnnounce, FakeSample, FakeCancelled, FakePauseEnds, FakeComplete
  <1>3. CASE ZeroconfLoop(s)
    BY <1>3 DEF ZeroconfLoop, ZeroconfNoneStarted, ZeroconfAnnounce, ZeroconfJoined,
                ZeroconfTypeStarts, ZeroconfTypeFails, BrowseOneCancelled, BrowseOneEvent,
                BrowseOneError, BrowseOneEnds
  <1>4. CASE \/ RuntimeFails(s) \/ RuntimeBuilt(s) \/ WorkerPanics(s)
             \/ PublishOutcome(s) \/ DropKeepalive(s) \/ ThreadExits(s)
    BY <1>4 DEF RuntimeFails, RuntimeBuilt, WorkerPanics, PublishOutcome, DropKeepalive, ThreadExits
  <1>5. QED
    BY <1>1, <1>2, <1>3, <1>4 DEF WorkerNext, BrowseLoop

\* What is listed and what waits are the session's events in order, none missing.
InOrder ==
  /\ Len(list) + Len(inbox[session]) = published[session]
  /\ \A i \in DOMAIN list : list[i] = <<session, i>>
  /\ \A i \in DOMAIN inbox[session] : inbox[session][i] = Len(list) + i

Lossless == overload[session] = "none" /\ receiver[session] /\ state \notin FailedState

LEMMA DeliveryWorker ==
  ASSUME IInv, DeliveryIsLossless, NEW s \in Sessions, WorkerNext(s), UNCHANGED appVars
  PROVE  DeliveryIsLossless'
  <1>1. TypeOK
    BY DEF IInv
  <1>2. s = session /\ WorkerEffect(s) /\ session' = session /\ list' = list /\ state' = state
    BY OnlyTheCurrentMoves, WorkerStep DEF appVars
  <1>. SUFFICES ASSUME Lossless' PROVE InOrder'
    BY DEF DeliveryIsLossless, Lossless, InOrder
  <1>3. Lossless
    BY <1>2 DEF Lossless, WorkerEffect, Marks
  <1>4. InOrder
    BY <1>3 DEF DeliveryIsLossless, Lossless, InOrder
  <1>5. CASE published' = published /\ inbox' = inbox
    BY <1>2, <1>4, <1>5 DEF InOrder
  <1>6. CASE SendOk(s)
    <2>1. /\ inbox[s] \in Seq(Nat) /\ published[s] \in Nat /\ list \in Seq(Shown)
          /\ inbox'[s] = Append(inbox[s], published[s] + 1)
          /\ published'[s] = published[s] + 1
      BY <1>1, <1>6 DEF SendOk, TypeOK, WorkerTypeOK
    <2>2. Len(inbox'[s]) = Len(inbox[s]) + 1
      BY <2>1
    <2>3. \A i \in DOMAIN inbox'[s] : inbox'[s][i] = Len(list) + i
      <3>1. published[s] + 1 = Len(list) + (Len(inbox[s]) + 1)
        BY <1>2, <1>4, <2>1 DEF InOrder
      <3>2. \A i \in DOMAIN inbox'[s] :
              \/ i \in DOMAIN inbox[s] /\ inbox'[s][i] = inbox[s][i]
              \/ i = Len(inbox[s]) + 1 /\ inbox'[s][i] = published[s] + 1
        BY <2>1
      <3>3. QED
        BY <1>2, <1>4, <3>1, <3>2 DEF InOrder
    <2>4. QED
      BY <1>2, <1>4, <2>1, <2>2, <2>3 DEF InOrder
  <1>7. CASE SendErr(s)
    BY <1>1, <1>2, <1>7 DEF SendErr, Overload, Lossless, TypeOK, WorkerTypeOK, WorkerEffect
  <1>8. QED
    BY OnlySends, <1>5, <1>6, <1>7

LEMMA DeliveryApp ==
  ASSUME IInv, DeliveryIsLossless, AppNext
  PROVE  DeliveryIsLossless'
  <1>1. TypeOK
    BY DEF IInv
  <1>. SUFFICES ASSUME Lossless' PROVE InOrder'
    BY DEF DeliveryIsLossless, Lossless, InOrder
  <1>2. CASE DrainEvent
    <2>1. InOrder
      BY <1>2 DEF DrainEvent, DeliveryIsLossless, Lossless, InOrder
    <2>2. /\ inbox[session] \in Seq(Nat) /\ inbox[session] # <<>> /\ list \in Seq(Shown)
          /\ list' = Append(list, <<session, Head(inbox[session])>>)
          /\ inbox'[session] = Tail(inbox[session])
          /\ published' = published /\ session' = session
      BY <1>1, <1>2 DEF DrainEvent, TypeOK, WorkerTypeOK
    <2>3. Head(inbox[session]) = Len(list) + 1
      BY <2>1, <2>2 DEF InOrder
    <2>4. Len(list') = Len(list) + 1 /\ Len(inbox'[session]) = Len(inbox[session]) - 1
      BY <2>2
    <2>5. \A i \in DOMAIN list' : list'[i] = <<session, i>>
      BY <2>1, <2>2, <2>3 DEF InOrder
    <2>6. \A i \in DOMAIN inbox'[session] : inbox'[session][i] = Len(list') + i
      <3>. DEFINE q == inbox[session]
      <3>1. \A i \in DOMAIN Tail(q) : i \in Nat /\ i + 1 \in DOMAIN q /\ Tail(q)[i] = q[i + 1]
        BY <2>2
      <3>2. \A i \in DOMAIN q : q[i] = Len(list) + i
        BY <2>1 DEF InOrder
      <3>3. Len(list) \in Nat
        BY <2>2
      <3>. HIDE DEF q
      <3>4. \A i \in DOMAIN Tail(q) : Tail(q)[i] = (Len(list) + 1) + i
        BY <3>1, <3>2, <3>3
      <3>5. QED
        BY <2>2, <2>4, <3>4 DEF q
    <2>7. Len(list') + Len(inbox'[session]) = published[session]
      <3>1. Len(list) \in Nat /\ Len(inbox[session]) \in Nat /\ published[session] \in Nat
        BY <1>1, <2>2 DEF TypeOK, WorkerTypeOK
      <3>2. Len(list) + Len(inbox[session]) = published[session]
        BY <2>1 DEF InOrder
      <3>. DEFINE m == Len(list)
                  n == Len(inbox[session])
      <3>3. m \in Nat /\ n \in Nat /\ m + n = published[session]
        BY <3>1, <3>2
      <3>4. Len(list') = m + 1 /\ Len(inbox'[session]) = n - 1
        BY <2>4
      <3>. HIDE DEF m, n
      <3>5. QED
        BY <3>1, <3>3, <3>4
    <2>8. QED
      <3>1. published'[session'] = published[session] /\ inbox'[session'] = inbox'[session]
            /\ session' = session
        BY <2>2
      <3>2. QED
        BY <3>1, <2>5, <2>6, <2>7, Zenon DEF InOrder
  <1>3. CASE DrainEnded
    <2>1. InOrder
      BY <1>3 DEF DrainEnded, workerVars, DeliveryIsLossless, Lossless, InOrder, FailedState
    <2>2. QED
      BY <1>3, <2>1 DEF DrainEnded, workerVars, Lossless, InOrder
  <1>4. CASE DrainIdle \/ NextTick \/ HandOff \/ Refresh
    <2>1. InOrder
      BY <1>4 DEF DrainIdle, NextTick, HandOff, Refresh, workerVars, DeliveryIsLossless, Lossless,
                  InOrder
    <2>2. QED
      BY <1>4, <2>1 DEF DrainIdle, NextTick, HandOff, Refresh, workerVars, InOrder
  <1>5. CASE Leave
    BY <1>1, <1>5 DEF Leave, Lossless, TypeOK, WorkerTypeOK
  <1>6. CASE Replace
    <2>1. session' = session + 1 /\ session + 1 \in Sessions /\ session + 1 > session
      BY <1>1, <1>6 DEF Replace, StartReplacement, IInv, JoinInBounds, TypeOK, Sessions
    <2>2. inbox[session + 1] = <<>> /\ published[session + 1] = 0
      BY <2>1 DEF IInv, SessionsInTurn
    <2>3. QED
      BY <1>6, <2>1, <2>2 DEF Replace, StartReplacement, InOrder
  <1>7. QED
    BY <1>2, <1>3, <1>4, <1>5, <1>6 DEF AppNext

\* While a session has refused nothing and is not over, no event of it is lost,
\* repeated or reordered on its way to the list (inbox.rs send, session.rs poll,
\* App::drain_discovery).
THEOREM DeliveryHolds == Spec => []DeliveryIsLossless
  <1>1. Init => DeliveryIsLossless
    <2>. SUFFICES ASSUME Init PROVE InOrder
      BY DEF DeliveryIsLossless, InOrder
    <2>1. session = 1 /\ session \in Sessions
      BY DEF Init, Sessions
    <2>2. inbox[session] = <<>> /\ published[session] = 0 /\ list = <<>>
      BY <2>1 DEF Init, WorkerInit
    <2>3. QED
      BY <2>2 DEF InOrder
  <1>2. IInv /\ DeliveryIsLossless /\ [Next]_vars => DeliveryIsLossless'
    <2>. SUFFICES ASSUME IInv, DeliveryIsLossless, [Next]_vars PROVE DeliveryIsLossless'
      OBVIOUS
    <2>1. CASE AppNext
      BY <2>1, DeliveryApp
    <2>2. ASSUME NEW s \in Sessions, WorkerNext(s) /\ UNCHANGED appVars PROVE DeliveryIsLossless'
      BY <2>2, DeliveryWorker
    <2>3. CASE Terminated \/ UNCHANGED vars
      BY <2>3 DEF Terminated, vars, workerVars, appVars, DeliveryIsLossless
    <2>4. QED
      BY <2>1, <2>2, <2>3 DEF Next
  <1>3. QED
    BY Inductive, <1>1, <1>2, PTL DEF Spec

-----------------------------------------------------------------------------
(* The refinement of DiscoveryFeed.                                        *)

\* What is listed and what waits is in the order of its numbers, whatever has
\* been refused in between.
Ascending ==
  receiver[session] =>
    /\ \A i \in DOMAIN inbox[session] : inbox[session][i] <= published[session]
    /\ \A i, j \in DOMAIN inbox[session] : i < j => inbox[session][i] < inbox[session][j]
    /\ \A i \in DOMAIN list : list[i][2] <= published[session]
    /\ \A i \in DOMAIN list, j \in DOMAIN inbox[session] : list[i][2] < inbox[session][j]

LEMMA AscendingWorker ==
  ASSUME IInv, Ascending, NEW s \in Sessions, WorkerNext(s), UNCHANGED appVars
  PROVE  Ascending'
  <1>1. TypeOK
    BY DEF IInv
  <1>2. s = session /\ receiver' = receiver /\ session' = session /\ list' = list
    BY OnlyTheCurrentMoves, WorkerStep DEF appVars, WorkerEffect
  <1>. SUFFICES ASSUME receiver[session] PROVE Ascending'
    BY <1>2 DEF Ascending
  <1>. DEFINE q == inbox[session]
              n == published[session]
              q2 == inbox'[session]
              n2 == published'[session]
  <1>3. q \in Seq(Nat) /\ n \in Nat /\ list \in Seq(Shown)
    BY <1>1 DEF TypeOK, WorkerTypeOK
  <1>4. /\ \A i \in DOMAIN q : q[i] <= n
        /\ \A i, j \in DOMAIN q : i < j => q[i] < q[j]
        /\ \A i \in DOMAIN list : list[i][2] <= n
        /\ \A i \in DOMAIN list, j \in DOMAIN q : list[i][2] < q[j]
    BY DEF Ascending
  <1>5. (q2 = q /\ n2 = n) \/ (q2 = q /\ n2 = n + 1) \/ (q2 = Append(q, n + 1) /\ n2 = n + 1)
    BY <1>1, <1>2, OnlySends DEF SendOk, SendErr, TypeOK, WorkerTypeOK
  <1>6. \A i \in DOMAIN list : list[i][2] \in Nat
    BY <1>3 DEF Shown
  <1>7. /\ Ascending' <=>
             /\ \A i \in DOMAIN q2 : q2[i] <= n2
             /\ \A i, j \in DOMAIN q2 : i < j => q2[i] < q2[j]
             /\ \A i \in DOMAIN list : list[i][2] <= n2
             /\ \A i \in DOMAIN list, j \in DOMAIN q2 : list[i][2] < q2[j]
    BY <1>2 DEF Ascending
  <1>. HIDE DEF q, n, q2, n2
  <1>8. CASE q2 = q
    BY <1>3, <1>4, <1>5, <1>6, <1>7, <1>8
  <1>9. CASE q2 = Append(q, n + 1) /\ n2 = n + 1
    <2>1. \A i \in DOMAIN q2 : \/ i \in DOMAIN q /\ q2[i] = q[i] /\ q[i] \in Nat
                               \/ i = Len(q) + 1 /\ q2[i] = n + 1
      BY <1>3, <1>9
    <2>2. \A i \in DOMAIN q : i \in Nat /\ i <= Len(q)
      BY <1>3
    <2>3. \A i \in DOMAIN q2 : q2[i] <= n2
      BY <1>3, <1>4, <1>9, <2>1
    <2>4. \A i, j \in DOMAIN q2 : i < j => q2[i] < q2[j]
      BY <1>3, <1>4, <1>9, <2>1, <2>2
    <2>5. \A i \in DOMAIN list : list[i][2] <= n2
      BY <1>3, <1>4, <1>6, <1>9
    <2>6. \A i \in DOMAIN list, j \in DOMAIN q2 : list[i][2] < q2[j]
      BY <1>3, <1>4, <1>6, <1>9, <2>1
    <2>7. QED
      BY <1>7, <2>3, <2>4, <2>5, <2>6
  <1>10. QED
    BY <1>5, <1>8, <1>9

LEMMA AscendingApp ==
  ASSUME IInv, Ascending, AppNext
  PROVE  Ascending'
  <1>1. TypeOK
    BY DEF IInv
  <1>2. CASE DrainEvent
    <2>. DEFINE q == inbox[session]
                n == published[session]
    <2>1. /\ q \in Seq(Nat) /\ q # <<>> /\ n \in Nat /\ list \in Seq(Shown)
          /\ list' = Append(list, <<session, Head(q)>>) /\ inbox'[session] = Tail(q)
          /\ UNCHANGED <<receiver, published, session>>
      BY <1>1, <1>2 DEF DrainEvent, TypeOK, WorkerTypeOK
    <2>. SUFFICES ASSUME receiver[session] PROVE Ascending'
      BY <2>1 DEF Ascending
    <2>2. /\ \A i \in DOMAIN q : q[i] <= n
          /\ \A i, j \in DOMAIN q : i < j => q[i] < q[j]
          /\ \A i \in DOMAIN list : list[i][2] <= n
          /\ \A i \in DOMAIN list, j \in DOMAIN q : list[i][2] < q[j]
      BY DEF Ascending
    <2>3. /\ 1 \in DOMAIN q /\ Head(q) = q[1]
          /\ \A i \in DOMAIN Tail(q) : i \in Nat /\ i >= 1 /\ i + 1 \in DOMAIN q /\ Tail(q)[i] = q[i + 1]
      BY <2>1
    <2>4. \A i \in DOMAIN list' : \/ i \in DOMAIN list /\ list'[i] = list[i]
                                  \/ list'[i] = <<session, q[1]>>
      BY <2>1, <2>3
    <2>5. /\ Ascending' <=>
               /\ \A i \in DOMAIN Tail(q) : Tail(q)[i] <= n
               /\ \A i, j \in DOMAIN Tail(q) : i < j => Tail(q)[i] < Tail(q)[j]
               /\ \A i \in DOMAIN list' : list'[i][2] <= n
               /\ \A i \in DOMAIN list', j \in DOMAIN Tail(q) : list'[i][2] < Tail(q)[j]
      BY <2>1 DEF Ascending
    <2>. HIDE DEF q, n
    <2>6. /\ \A i \in DOMAIN Tail(q) : Tail(q)[i] <= n
          /\ \A i, j \in DOMAIN Tail(q) : i < j => Tail(q)[i] < Tail(q)[j]
      BY <2>2, <2>3
    <2>7. /\ \A i \in DOMAIN list' : list'[i][2] <= n
          /\ \A i \in DOMAIN list', j \in DOMAIN Tail(q) : list'[i][2] < Tail(q)[j]
      BY <2>2, <2>3, <2>4
    <2>8. QED
      BY <2>5, <2>6, <2>7
  <1>3. CASE DrainIdle \/ DrainEnded \/ NextTick \/ HandOff \/ Refresh
    BY <1>3 DEF DrainIdle, DrainEnded, NextTick, HandOff, Refresh, workerVars, Ascending
  <1>4. CASE Leave
    BY <1>1, <1>4 DEF Leave, Ascending, TypeOK, WorkerTypeOK
  <1>5. CASE Replace
    <2>1. session' = session + 1 /\ session + 1 \in Sessions /\ session + 1 > session
      BY <1>1, <1>5 DEF Replace, StartReplacement, IInv, JoinInBounds, TypeOK, Sessions
    <2>2. inbox[session + 1] = <<>>
      BY <2>1 DEF IInv, SessionsInTurn
    <2>3. QED
      BY <1>5, <2>1, <2>2 DEF Replace, StartReplacement, Ascending
  <1>6. QED
    BY <1>2, <1>3, <1>4, <1>5 DEF AppNext

LEMMA AscendingHolds == Spec => []Ascending
  <1>1. Init => Ascending
    BY DEF Init, WorkerInit, Ascending, Sessions
  <1>2. IInv /\ Ascending /\ [Next]_vars => Ascending'
    <2>. SUFFICES ASSUME IInv, Ascending, [Next]_vars PROVE Ascending'
      OBVIOUS
    <2>1. CASE AppNext
      BY <2>1, AscendingApp
    <2>2. ASSUME NEW s \in Sessions, WorkerNext(s) /\ UNCHANGED appVars PROVE Ascending'
      BY <2>2, AscendingWorker
    <2>3. CASE Terminated \/ UNCHANGED vars
      BY <2>3 DEF Terminated, vars, workerVars, appVars, Ascending
    <2>4. QED
      BY <2>1, <2>2, <2>3 DEF Next
  <1>3. QED
    BY Inductive, <1>1, <1>2, PTL DEF Spec

\* A worker is to the feed, at most, the loss of something.
LEMMA WorkerRefines ==
  ASSUME IInv, NEW s \in Sessions, WorkerNext(s), UNCHANGED appVars
  PROVE  [Feed!FeedNext]_(Feed!feedVars)
  <1>1. TypeOK
    BY DEF IInv
  <1>2. s = session /\ Alive(s) /\ WorkerEffect(s)
    BY OnlyTheCurrentMoves, WorkerStep
  <1>3. UNCHANGED <<session, state, ui, list>> /\ FeedStatus' = FeedStatus
    BY DEF appVars, FeedStatus
  <1>4. CASE overload'[session] = overload[session]
    BY <1>3, <1>4 DEF Feed!feedVars
  <1>5. CASE overload'[session] # overload[session]
    <2>1. overload'[session] # "none"
      BY <1>2, <1>5 DEF WorkerEffect, Marks
    <2>2. worker[session] # "closing"
      BY <1>2, <1>5 DEF WorkerEffect, Path, LoopPc
    <2>3. Connected(session)
      BY <1>2, <2>2 DEF Connected
    <2>4. state = "Listening"
      BY <2>3 DEF IInv, EndingApplied, Over
    <2>5. FeedStatus \in {"live", "closed"}
      BY <2>4 DEF FeedStatus, FailedState
    <2>6. Feed!Lose
      BY <1>3, <2>1, <2>5 DEF Feed!Lose
    <2>7. QED
      BY <2>6 DEF Feed!FeedNext
  <1>6. QED
    BY <1>4, <1>5

LEMMA AppRefines ==
  ASSUME IInv, DeliveryIsLossless, Ascending, AppNext
  PROVE  [Feed!FeedNext]_(Feed!feedVars)
  <1>1. TypeOK
    BY DEF IInv
  <1>2. CASE DrainEvent
    <2>. DEFINE q == inbox[session]
    <2>1. /\ q \in Seq(Nat) /\ q # <<>> /\ list \in Seq(Shown) /\ 1 \in DOMAIN q /\ Head(q) = q[1]
          /\ list' = Append(list, <<session, q[1]>>)
          /\ UNCHANGED <<session, state, ui, overload>>
      BY <1>1, <1>2 DEF DrainEvent, TypeOK, WorkerTypeOK
    <2>2. state = "Listening" /\ receiver[session] /\ ui = "draining"
      BY <1>2, <2>1 DEF DrainEvent, IInv, EndingApplied, Over
    <2>3. FeedStatus = "live" /\ FeedStatus' = FeedStatus
      BY <2>1, <2>2 DEF FeedStatus, FailedState
    <2>4. overload[session] = "none" => q[1] = Len(list) + 1
      BY <2>1, <2>2 DEF DeliveryIsLossless, FailedState
    <2>5. \A i \in DOMAIN list : list[i][2] < q[1]
      BY <2>1, <2>2 DEF Ascending
    <2>. HIDE DEF q
    <2>6. list' # <<>> /\ list'[Len(list')] = <<session, q[1]>>
      BY <2>1
    <2>7. list'[Len(list')][2] = q[1]
      BY <2>6
    <2>8. Feed!Show
      BY <2>1, <2>3, <2>4, <2>5, <2>6, <2>7 DEF Feed!Show
    <2>9. QED
      BY <2>8 DEF Feed!FeedNext
  <1>3. CASE DrainEnded
    <2>1. /\ state = "Listening" /\ ui = "draining" /\ ui' = "input" /\ state' = Ending(slot[session])
          /\ list' = IF state' \in FailedState THEN <<>> ELSE list
          /\ UNCHANGED <<session, overload>>
      BY <1>3 DEF DrainEnded, workerVars
    <2>2. FeedStatus = "live"
      BY <2>1 DEF FeedStatus, FailedState
    <2>3. CASE state' \in FailedState
      <3>1. FeedStatus' = "failed" /\ list' = <<>>
        BY <2>1, <2>3 DEF FeedStatus, FailedState
      <3>2. Feed!Fail
        BY <2>1, <2>2, <3>1 DEF Feed!Fail
      <3>3. QED
        BY <3>2 DEF Feed!FeedNext
    <2>4. CASE state' \notin FailedState
      <3>1. slot[session] \in Outcome \cup {"none"}
        BY <1>1 DEF TypeOK, WorkerTypeOK
      <3>2. slot[session] = "Complete" /\ state' = "Complete"
        BY <2>1, <2>4, <3>1 DEF Ending, FailedState, Outcome
      <3>3. worker[session] \in {"closing", "exited"}
        BY <1>1, <1>3 DEF DrainEnded, Connected, Alive, IInv, SessionsInTurn, TypeOK
      <3>4. slot[session] = Account(session)
        BY <1>1, <3>2, <3>3 DEF IInv, WorkerInOrder, TypeOK
      <3>5. overload[session] = "none"
        BY <3>2, <3>4 DEF Account
      <3>6. FeedStatus' = "complete" /\ list' = list
        BY <2>1, <3>2 DEF FeedStatus, FailedState
      <3>7. Feed!Complete
        BY <2>1, <2>2, <3>5, <3>6 DEF Feed!Complete
      <3>8. QED
        BY <3>7 DEF Feed!FeedNext
    <2>5. QED
      BY <2>3, <2>4
  <1>4. CASE DrainIdle \/ NextTick \/ Refresh \/ HandOff
    <2>1. UNCHANGED <<session, state, list, overload>>
      BY <1>4 DEF DrainIdle, NextTick, Refresh, HandOff, workerVars
    <2>2. FeedStatus' = FeedStatus
      BY <1>4, <2>1 DEF DrainIdle, NextTick, Refresh, HandOff, FeedStatus, FailedState
    <2>3. QED
      BY <2>1, <2>2 DEF Feed!feedVars
  <1>5. CASE Leave
    <2>1. UNCHANGED <<session, list, overload>> /\ FeedStatus' = "closed"
      BY <1>5 DEF Leave, FeedStatus
    <2>2. Feed!Close
      BY <2>1 DEF Feed!Close
    <2>3. QED
      BY <2>2 DEF Feed!FeedNext
  <1>6. CASE Replace
    <2>1. /\ session' = session + 1 /\ session + 1 \in Sessions /\ session + 1 > session
          /\ overload' = overload /\ list' = <<>> /\ state' = "Listening" /\ ui' = "input" /\ ui = "joining"
      BY <1>1, <1>6 DEF Replace, StartReplacement, IInv, JoinInBounds, TypeOK, Sessions
    <2>2. overload[session + 1] = "none"
      BY <2>1 DEF IInv, SessionsInTurn
    <2>3. FeedStatus # "closed" /\ FeedStatus' = "live"
      BY <2>1 DEF FeedStatus, FailedState
    <2>4. Feed!Restart
      BY <2>1, <2>2, <2>3 DEF Feed!Restart
    <2>5. QED
      BY <2>4 DEF Feed!FeedNext
  <1>7. QED
    BY <1>2, <1>3, <1>4, <1>5, <1>6 DEF AppNext

\* The workers, the inbox, the session and the app together implement the feed
\* that discovery promises, for every adapter and every interleaving.
THEOREM ImplementsFeedHolds == Spec => ImplementsFeed
  <1>1. Init => Feed!FeedInit
    BY DEF Init, WorkerInit, FeedStatus, FailedState, Sessions, Feed!FeedInit
  <1>2. IInv /\ DeliveryIsLossless /\ Ascending /\ [Next]_vars => [Feed!FeedNext]_(Feed!feedVars)
    <2>. SUFFICES ASSUME IInv, DeliveryIsLossless, Ascending, [Next]_vars
                  PROVE  [Feed!FeedNext]_(Feed!feedVars)
      OBVIOUS
    <2>1. CASE AppNext
      BY <2>1, AppRefines
    <2>2. ASSUME NEW s \in Sessions, WorkerNext(s) /\ UNCHANGED appVars PROVE [Feed!FeedNext]_(Feed!feedVars)
      BY <2>2, WorkerRefines
    <2>3. CASE Terminated \/ UNCHANGED vars
      BY <2>3 DEF Terminated, vars, workerVars, appVars, FeedStatus, Feed!feedVars
    <2>4. QED
      BY <2>1, <2>2, <2>3 DEF Next
  <1>3. QED
    BY Inductive, DeliveryHolds, AscendingHolds, <1>1, <1>2, PTL DEF Spec, ImplementsFeed, Feed!FeedSpec

=============================================================================
