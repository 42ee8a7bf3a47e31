------------------------------ MODULE AdapterProofs ------------------------------
(***************************************************************************)
(* Proofs about the two adapters that listen to a network.                 *)
(*                                                                         *)
(* MdnsDiscovery: for any registrations, interfaces and endpoints, any     *)
(* threshold, ceiling and capacity, and any number of probes at a time and *)
(* of turns of the network.  ZeroconfDiscovery: for any registrations and  *)
(* occurrences, any ceiling, any capacity and any number of reports.       *)
(***************************************************************************)
EXTENDS MdnsDiscovery, ZeroconfDiscovery, RecordStoreProofs

USE MdnsAssumption, ZeroconfAssumption

\* A network that names interfaces in all of its announcements or in none: what
\* MixedNetworks break (RemovalIsRemembered) no proof can keep.
Pure == \A N \in Networks : (\A k \in N : Named(k)) \/ (\A k \in N : ~Named(k))

-----------------------------------------------------------------------------
(* Types, and how the failures that are counted relate to those there were. *)

\* What is reported removed has failed just enough, what is alive has not, and
\* no failure but one that was already under way is counted unseen.
FailuresCounted ==
  \A k \in Keys :
    /\ missed[k] <= failures[k] /\ failures[k] <= missed[k] + 1
    /\ k \in stale => failures[k] <= missed[k]
    /\ k \in tracked \ removed => failures[k] < PROBE_FAILURE_THRESHOLD
    /\ k \in removed => failures[k] = PROBE_FAILURE_THRESHOLD
    /\ k \notin tracked => failures[k] = 0

\* MdnsTypeOK without the bound on missed, which FailuresCounted gives.
TrackerTypes ==
  /\ keys \in Networks
  /\ tracked \subseteq keys
  /\ failures \in [Keys -> Nat]
  /\ removed \subseteq tracked
  /\ waiting \subseteq keys
  /\ active \subseteq keys
  /\ up \subseteq keys
  /\ news \in 0 .. MaxNews
  /\ stale \subseteq active
  /\ missed \in [Keys -> Nat]

TrackerInv == TrackerTypes /\ FailuresCounted

LEMMA KeysOfNetwork == TrackerTypes => keys \subseteq Keys
  BY DEF TrackerTypes, MdnsAssumption

LEMMA TrackerInit == MdnsInit => TrackerInv
  BY DEF MdnsInit, TrackerInv, TrackerTypes, FailuresCounted, MdnsAssumption

LEMMA ProbeKeeps ==
  ASSUME TrackerInv, NEW k \in keys, ProbeAnswered(k) \/ ProbeFailed(k)
  PROVE  TrackerInv'
  <1>. USE DEF TrackerInv
  <1>1. k \in Keys
    BY KeysOfNetwork
  <1>2. /\ waiting' \subseteq keys /\ active' \subseteq keys /\ stale' = stale \ {k}
        /\ stale' \subseteq active'
        /\ UNCHANGED <<keys, up, news>>
    BY DEF ProbeAnswered, ProbeFailed, ProbeDone, Fill, TrackerTypes, networkVars
  <1>3. CASE ProbeAnswered(k)
    <2>1. /\ tracked' = tracked /\ removed' = removed \ {k}
          /\ failures' = [failures EXCEPT ![k] = 0]
          /\ missed' = [missed EXCEPT ![k] = 0]
      BY <1>3 DEF ProbeAnswered, record_success
    <2>2. QED
      BY <1>1, <1>2, <2>1 DEF TrackerTypes, FailuresCounted, MdnsAssumption
  <1>4. CASE ProbeFailed(k)
    <2>1. CASE k \in tracked \ removed
      <3>1. /\ tracked' = tracked
            /\ failures' = [failures EXCEPT ![k] = @ + 1]
            /\ removed' = IF failures[k] + 1 >= PROBE_FAILURE_THRESHOLD THEN removed \cup {k} ELSE removed
            /\ missed' = [missed EXCEPT ![k] = IF k \in stale THEN @ ELSE @ + 1]
        BY <1>4, <2>1 DEF ProbeFailed, record_failure
      <3>2. TrackerTypes'
        BY <1>1, <1>2, <2>1, <3>1 DEF TrackerTypes
      <3>3. FailuresCounted'
        <4>1. /\ PROBE_FAILURE_THRESHOLD \in Nat \ {0}
              /\ failures \in [Keys -> Nat] /\ missed \in [Keys -> Nat]
              /\ stale' = stale \ {k}
          BY <1>2 DEF TrackerTypes, MdnsAssumption
        <4>2. \A j \in Keys : j # k => failures'[j] = failures[j] /\ missed'[j] = missed[j]
          BY <3>1, <4>1
        <4>3. failures'[k] = failures[k] + 1 /\ missed'[k] = IF k \in stale THEN missed[k] ELSE missed[k] + 1
          BY <1>1, <3>1, <4>1
        <4>4. failures[k] < PROBE_FAILURE_THRESHOLD /\ missed[k] <= failures[k] /\ failures[k] <= missed[k] + 1
              /\ (k \in stale => failures[k] <= missed[k])
          BY <1>1, <2>1 DEF FailuresCounted
        <4>5. failures[k] \in Nat /\ missed[k] \in Nat
          BY <1>1, <4>1
        <4> QED BY <1>1, <2>1, <3>1, <4>1, <4>2, <4>3, <4>4, <4>5 DEF FailuresCounted
      <3>4. QED
        BY <3>2, <3>3
    <2>2. CASE k \notin tracked \ removed
      <3>1. /\ UNCHANGED <<tracked, failures, removed>>
            /\ missed' = missed
        BY <1>4, <2>2 DEF ProbeFailed, record_failure, TrackerTypes
      <3>2. QED
        BY <1>1, <1>2, <3>1 DEF TrackerTypes, FailuresCounted
    <2>3. QED
      BY <2>1, <2>2
  <1>5. QED
    BY <1>3, <1>4

LEMMA NewsKeeps ==
  ASSUME TrackerInv, NEW k \in keys, Found(k) \/ Removed(k)
  PROVE  TrackerInv'
  <1>. USE DEF TrackerInv
  <1>1. k \in Keys
    BY KeysOfNetwork
  <1>2. /\ news' \in 0 .. MaxNews
        /\ UNCHANGED <<waiting, active, keys, up>>
    BY DEF Found, Removed, News, probeVars, TrackerTypes, MdnsAssumption
  <1>3. ASSUME Found(k) PROVE TrackerInv'
    <2>1. /\ tracked' = tracked \cup {k} /\ removed' = removed \ {k}
          /\ failures' = [failures EXCEPT ![k] = 0]
          /\ stale' = stale \cup (active \cap {k})
          /\ missed' = [l \in Keys |-> IF l \in {k} THEN 0 ELSE missed[l]]
      BY <1>3 DEF Found, note_found, Heard
    <2>2. QED
      BY <1>1, <1>2, <2>1 DEF TrackerTypes, FailuresCounted, MdnsAssumption
  <1>4. ASSUME Removed(k) PROVE TrackerInv'
    <2>1. /\ tracked' = tracked \ Gone(k) /\ removed' = removed \ Gone(k)
          /\ failures' = [l \in Keys |-> IF l \in Gone(k) THEN 0 ELSE failures[l]]
          /\ stale' = stale \cup (active \cap Gone(k))
          /\ missed' = [l \in Keys |-> IF l \in Gone(k) THEN 0 ELSE missed[l]]
      BY <1>4 DEF Removed, Forget, Heard
    <2>2. QED
      BY <1>1, <1>2, <2>1 DEF TrackerTypes, FailuresCounted
  <1>5. QED
    BY <1>3, <1>4

LEMMA TrackerNext == TrackerInv /\ [MdnsNext]_vars => TrackerInv'
  <1>. SUFFICES ASSUME TrackerInv, [MdnsNext]_vars PROVE TrackerInv'
    OBVIOUS
  <1>1. ASSUME NEW k \in keys, ProbeAnswered(k) \/ ProbeFailed(k) \/ Found(k) \/ Removed(k)
        PROVE  TrackerInv'
    BY <1>1, ProbeKeeps, NewsKeeps
  <1>2. CASE ProbeTick
    BY <1>2 DEF ProbeTick, Fill, trackerVars, networkVars, historyVars, TrackerInv, TrackerTypes, FailuresCounted
  <1>3. ASSUME NEW k \in keys, Turn(k) PROVE TrackerInv'
    BY <1>3 DEF Turn, trackerVars, probeVars, historyVars, TrackerInv, TrackerTypes, FailuresCounted, MdnsAssumption
  <1>4. ASSUME NEW k \in keys, FoundUntrackable(k) PROVE TrackerInv'
    BY <1>4 DEF FoundUntrackable, News, trackerVars, probeVars, historyVars, TrackerInv, TrackerTypes,
                FailuresCounted, MdnsAssumption
  <1>5. CASE SourceEnds \/ AppStep \/ UNCHANGED vars
    BY <1>5 DEF SourceEnds, AppStep, vars, trackerVars, probeVars, networkVars, historyVars,
                TrackerInv, TrackerTypes, FailuresCounted
  <1>6. QED
    BY <1>1, <1>2, <1>3, <1>4, <1>5 DEF MdnsNext, Ended

\* A service is declared dead by probes of its own silence: all the failures
\* that count, but for one probe that may have been under way, were begun since
\* it was last heard of (record_failure, note_found).
THEOREM DeathIsWitnessedHolds == MdnsSpec => []DeathIsWitnessed
  <1>1. TrackerInv => DeathIsWitnessed
    <2>. SUFFICES ASSUME TrackerInv, NEW k \in removed
                  PROVE  missed[k] >= PROBE_FAILURE_THRESHOLD - 1
      BY DEF DeathIsWitnessed
    <2>1. k \in Keys
      BY KeysOfNetwork DEF TrackerInv, TrackerTypes
    <2>2. QED
      BY <2>1 DEF TrackerInv, TrackerTypes, FailuresCounted, MdnsAssumption
  <1>2. QED
    BY TrackerInit, TrackerNext, <1>1, PTL DEF MdnsSpec

-----------------------------------------------------------------------------
(* The list and the tracker.                                               *)

LEMMA IdsAreIds ==
  ASSUME NEW k \in Keys
  PROVE  /\ Ids(k) \subseteq EntryId
         /\ \A id \in Ids(k) : id[1] = k[1]
         /\ k[1] \in Registrations
  BY DEF Ids, Named, EntryId, MdnsAssumption

\* In a pure network what is sent about one key is about no other.
LEMMA KeysApart ==
  ASSUME Pure, TrackerTypes, NEW k \in keys, NEW l \in keys, k # l, NEW id \in Ids(k), NEW j \in Ids(l)
  PROVE  /\ j # id
         /\ ~Drops(UpsertEvent(id), j)
         /\ ~Drops(removal_event(k), j)
  <1>1. k \in Keys /\ l \in Keys /\ keys \in Networks
    BY KeysOfNetwork DEF TrackerTypes
  <1>2. CASE Named(k) /\ Named(l)
    <2>1. id = k /\ j = l /\ removal_event(k) = RemoveEvent(k)
      BY <1>2 DEF Ids, removal_event
    <2>2. l[2] \in Interfaces \cup {NoInterface}
      BY <1>1 DEF MdnsAssumption
    <2>3. ~is_pending(j)
      BY <1>2, <2>1, <2>2, RecordAssumption DEF Named, is_pending, MdnsAssumption, RecordAssumption
    <2>4. QED
      BY <2>1, <2>3, WhatDrops
  <1>3. CASE ~Named(k) /\ ~Named(l)
    <2>1. k[1] # l[1]
      BY <1>1, <1>3 DEF Named, MdnsAssumption
    <2>2. id[1] = k[1] /\ j[1] = l[1] /\ removal_event(k) = RemoveRegistrationEvent(k[1])
      BY <1>1, <1>3, IdsAreIds DEF removal_event
    <2>3. QED
      BY <2>1, <2>2, WhatDrops
  <1>4. QED
    BY <1>1, <1>2, <1>3 DEF Pure

\* What is sent when a key is gone takes all of its records.
LEMMA RemovalDrops ==
  ASSUME NEW k \in Keys, NEW j \in Ids(k)
  PROVE  Drops(removal_event(k), j) /\ removal_event(k) # UpsertEvent(j)
  <1>1. CASE Named(k)
    BY <1>1, WhatDrops DEF Ids, removal_event, RemoveEvent, UpsertEvent
  <1>2. CASE ~Named(k)
    BY <1>2, IdsAreIds, WhatDrops DEF removal_event, RemoveRegistrationEvent, UpsertEvent
  <1>3. QED
    BY <1>1, <1>2

MdnsInv == StreamTypeOK /\ RecordInv /\ RefusalIsRemembered /\ TrackerInv /\ ListFollowsTracker

\* A step that tells the app of one key: what it sends of it is what the
\* tracker has come to believe of it.
LEMMA TellingKeeps ==
  ASSUME Pure, MdnsInv, TrackerInv', loop = "browsing", keys' = keys, UNCHANGED <<recordVars, refused>>,
         NEW k \in keys, NEW event \in Event, Send(event),
         \/ \E id \in Ids(k) : event = UpsertEvent(id) /\ k \in tracked' \ removed'
         \/ event = removal_event(k) /\ k \notin tracked' \ removed',
         \A l \in keys : l # k => (l \in tracked' \ removed' <=> l \in tracked \ removed)
  PROVE  MdnsInv'
  <1>. USE DEF MdnsInv
  <1>1. /\ inbox' \in Seq(Event) /\ loop' \in {"browsing", "over"}
        /\ loop' = "browsing" => inbox' = Append(inbox, event)
    BY SendTypes
  <1>2. RecordInv' /\ RefusalIsRemembered' /\ StreamTypeOK'
    BY <1>1 DEF recordVars, RecordInv, RecordTypeOK, WithinLimit, RefusalIsRemembered, StreamTypeOK
  <1>3. ListFollowsTracker'
    <2>. SUFFICES ASSUME loop' = "browsing", ~refused', NEW l \in keys
                  PROVE  (l \in tracked' \ removed') <=> (\E j \in Ids(l) : Lists(j)')
      BY DEF ListFollowsTracker
    <2>1. k \in Keys /\ l \in Keys /\ TrackerTypes
      BY KeysOfNetwork DEF TrackerInv
    <2>2. ASSUME NEW j \in Ids(l)
          PROVE  Lists(j)' <=> event = UpsertEvent(j) \/ (Lists(j) /\ ~Drops(event, j))
      BY <1>1, <2>1, <2>2, IdsAreIds, SentIsListed DEF recordVars
    <2>3. CASE l = k
      <3>1. ASSUME NEW id \in Ids(k), event = UpsertEvent(id) PROVE Lists(id)'
        BY <2>2, <2>3, <3>1
      <3>2. ASSUME event = removal_event(k), NEW j \in Ids(k) PROVE ~Lists(j)'
        BY <2>1, <2>2, <2>3, <3>2, RemovalDrops
      <3>3. QED
        BY <2>3, <3>1, <3>2
    <2>4. CASE l # k
      <3>1. ASSUME NEW j \in Ids(l) PROVE Lists(j)' <=> Lists(j)
        <4>1. ASSUME NEW id \in Ids(k), event = UpsertEvent(id)
              PROVE  event # UpsertEvent(j) /\ ~Drops(event, j)
          BY <2>1, <2>4, <3>1, <4>1, KeysApart DEF UpsertEvent
        <4>2. ASSUME event = removal_event(k)
              PROVE  event # UpsertEvent(j) /\ ~Drops(event, j)
          <5>1. \E id \in Ids(k) : TRUE
            <6>1. k \in Ids(k) \/ <<k[1], Pending>> \in Ids(k)
              BY DEF Ids
            <6>2. QED
              BY <6>1
          <5>2. ~Drops(event, j)
            BY <2>1, <2>4, <3>1, <4>2, <5>1, KeysApart
          <5>3. event # UpsertEvent(j)
            BY <4>2 DEF removal_event, RemoveEvent, RemoveRegistrationEvent, UpsertEvent
          <5>4. QED
            BY <5>2, <5>3
        <4>3. QED
          BY <2>2, <3>1, <4>1, <4>2
      <3>2. QED
        BY <2>4, <3>1 DEF ListFollowsTracker
    <2>5. QED
      BY <2>3, <2>4
  <1>4. QED
    BY <1>2, <1>3

\* A step that tells nothing and changes no belief.
LEMMA QuietKeeps ==
  ASSUME MdnsInv, TrackerInv', keys' = keys, UNCHANGED <<recordVars, inbox, loop, refused>>,
         tracked' \ removed' = tracked \ removed
  PROVE  MdnsInv'
  BY DEF MdnsInv, recordVars, RecordInv, RecordTypeOK, WithinLimit, RefusalIsRemembered,
         StreamTypeOK, ListFollowsTracker, Lists, KeptFrom

\* The loop is over: nothing is promised of the list until there is another.
LEMMA OverKeeps ==
  ASSUME MdnsInv, TrackerInv', UNCHANGED <<recordVars, inbox, refused>>, loop' = "over"
  PROVE  MdnsInv'
  BY DEF MdnsInv, recordVars, RecordInv, RecordTypeOK, WithinLimit, RefusalIsRemembered,
         StreamTypeOK, ListFollowsTracker

LEMMA EventsOfKeys ==
  ASSUME NEW k \in Keys
  PROVE  removal_event(k) \in Event /\ \A id \in Ids(k) : UpsertEvent(id) \in Event
  <1>1. Named(k) => k \in EntryId
    BY IdsAreIds DEF Ids
  <1>2. QED
    BY <1>1, IdsAreIds, EventTypes DEF removal_event

LEMMA MdnsInvInit == MdnsInit => MdnsInv
  <1>. SUFFICES ASSUME MdnsInit PROVE MdnsInv
    OBVIOUS
  <1>1. RecordInv /\ TrackerInv
    BY RecordInvInit, TrackerInit DEF MdnsInit, StreamInit
  <1>2. RecordTypeOK /\ inbox = <<>> /\ loop = "browsing" /\ refused = FALSE /\ record_limit_reached = FALSE
        /\ records = {} /\ tracked = {}
    BY <1>1 DEF RecordInv, MdnsInit, StreamInit, RecordInit
  <1>3. StreamTypeOK /\ RefusalIsRemembered
    BY <1>2, EmptySeq DEF StreamTypeOK, RefusalIsRemembered
  <1>4. ListFollowsTracker
    BY <1>2 DEF ListFollowsTracker, Lists
  <1>5. QED
    BY <1>1, <1>3, <1>4 DEF MdnsInv

LEMMA MdnsInvNext == Pure /\ MdnsInv /\ [MdnsNext]_vars => MdnsInv'
  <1>. SUFFICES ASSUME Pure, MdnsInv, [MdnsNext]_vars PROVE MdnsInv'
    OBVIOUS
  <1>1. TrackerInv' /\ TrackerInv
    BY TrackerNext DEF MdnsInv
  <1>2. keys \subseteq Keys
    BY <1>1, KeysOfNetwork DEF TrackerInv
  <1>3. ASSUME NEW k \in keys, Found(k) PROVE MdnsInv'
    <2>1. PICK id \in Ids(k) : Send(UpsertEvent(id))
      BY <1>3 DEF Found
    <2>2. /\ loop = "browsing" /\ keys' = keys /\ UNCHANGED <<recordVars, refused>>
          /\ tracked' = tracked \cup {k} /\ removed' = removed \ {k}
      BY <1>3 DEF Found, News, note_found
    <2>3. QED
      BY <1>1, <1>2, <2>1, <2>2, EventsOfKeys, TellingKeeps
  <1>4. ASSUME NEW k \in keys, Removed(k) PROVE MdnsInv'
    <2>1. /\ loop = "browsing" /\ keys' = keys /\ UNCHANGED <<recordVars, refused>>
          /\ tracked' = tracked \ Gone(k) /\ removed' = removed \ Gone(k) /\ Send(removal_event(k))
      BY <1>4 DEF Removed, News, Forget
    <2>2. k \in Gone(k) /\ \A l \in keys : l # k => l \notin Gone(k)
      BY <1>1, <1>2 DEF Gone, Named, Pure, TrackerInv, TrackerTypes, MdnsAssumption
    <2>3. QED
      BY <1>1, <1>2, <2>1, <2>2, EventsOfKeys, TellingKeeps
  <1>5. ASSUME NEW k \in keys, ProbeAnswered(k) PROVE MdnsInv'
    <2>1. /\ loop = "browsing" /\ keys' = keys /\ UNCHANGED <<recordVars, refused>>
          /\ tracked' = tracked /\ removed' = removed \ {k}
      BY <1>5 DEF ProbeAnswered, ProbeDone, record_success, networkVars
    <2>2. CASE k \in removed
      <3>1. PICK id \in Ids(k) : Send(UpsertEvent(id))
        BY <1>5, <2>2 DEF ProbeAnswered, record_success
      <3>2. k \in tracked
        BY <1>1, <2>2 DEF TrackerInv, TrackerTypes
      <3>3. QED
        BY <1>1, <1>2, <2>1, <3>1, <3>2, EventsOfKeys, TellingKeeps
    <2>3. CASE k \notin removed
      BY <1>1, <1>5, <2>1, <2>3, QuietKeeps DEF ProbeAnswered, record_success, Quiet
    <2>4. QED
      BY <2>2, <2>3
  <1>6. ASSUME NEW k \in keys, ProbeFailed(k) PROVE MdnsInv'
    <2>1. loop = "browsing" /\ keys' = keys /\ UNCHANGED <<recordVars, refused>> /\ tracked' = tracked
      BY <1>6 DEF ProbeFailed, ProbeDone, record_failure, networkVars
    <2>2. CASE k \in tracked \ removed /\ failures[k] + 1 >= PROBE_FAILURE_THRESHOLD
      <3>1. removed' = removed \cup {k} /\ Send(removal_event(k))
        BY <1>6, <2>2 DEF ProbeFailed, record_failure
      <3>2. QED
        BY <1>1, <1>2, <2>1, <3>1, EventsOfKeys, TellingKeeps
    <2>3. CASE ~(k \in tracked \ removed /\ failures[k] + 1 >= PROBE_FAILURE_THRESHOLD)
      <3>1. removed' = removed /\ UNCHANGED <<inbox, loop>>
        BY <1>6, <2>3 DEF ProbeFailed, record_failure, Quiet
      <3>2. QED
        BY <1>1, <2>1, <3>1, QuietKeeps
    <2>4. QED
      BY <2>2, <2>3
  <1>7. CASE ProbeTick \/ UNCHANGED vars \/ \E k \in keys : Turn(k)
    BY <1>1, <1>7, QuietKeeps
       DEF ProbeTick, Turn, vars, streamVars, recordVars, trackerVars, networkVars
  <1>8. ASSUME SourceEnds \/ \E k \in keys : FoundUntrackable(k) PROVE MdnsInv'
    BY <1>1, <1>8, OverKeeps DEF SourceEnds, LoopEnds, FoundUntrackable, News
  <1>9. CASE AppStep
    <2>1. StreamTypeOK' /\ RecordInv' /\ RefusalIsRemembered'
      BY <1>9, StreamSteps DEF AppStep, MdnsInv
    <2>2. ListFollowsTracker'
      <3>. SUFFICES ASSUME loop' = "browsing", ~refused', NEW k \in keys
                    PROVE  (k \in tracked' \ removed') <=> (\E id \in Ids(k) : Lists(id)')
        BY <1>9 DEF ListFollowsTracker, AppStep, networkVars
      <3>1. Drain /\ ~record_limit_reached' /\ loop = "browsing" /\ ~refused
        BY <1>9, <2>1 DEF AppStep, Drain, DrainEnd, RefusalIsRemembered, MdnsInv, StreamTypeOK
      <3>2. ASSUME NEW id \in Ids(k) PROVE Lists(id)' <=> Lists(id)
        BY <1>2, <3>1, <3>2, IdsAreIds, AppliedIsListed DEF MdnsInv
      <3>3. QED
        BY <1>9, <3>1, <3>2 DEF AppStep, ListFollowsTracker, MdnsInv, trackerVars
    <2>3. QED
      BY <1>1, <2>1, <2>2 DEF MdnsInv
  <1>10. QED
    BY <1>3, <1>4, <1>5, <1>6, <1>7, <1>8, <1>9 DEF MdnsNext, Ended

\* Until the app hits its ceiling, the list is what the tracker believes in as
\* soon as the app has drained what is in flight, when a network names the
\* interfaces of all its announcements or of none (LivenessTracker, emit_event,
\* apply_probe_results).
THEOREM ListFollowsTrackerHolds ==
  ASSUME Pure
  PROVE  MdnsSpec => []ListFollowsTracker
  <1>1. MdnsInv /\ [MdnsNext]_vars => MdnsInv'
    BY MdnsInvNext
  <1>2. MdnsInv => ListFollowsTracker
    BY DEF MdnsInv
  <1>3. QED
    BY MdnsInvInit, <1>1, <1>2, PTL DEF MdnsSpec

-----------------------------------------------------------------------------
(* Types of the whole, and the records, in any network.                    *)

StreamInv == StreamTypeOK /\ RecordInv /\ RefusalIsRemembered /\ TrackerInv

LEMMA StreamInvInit == MdnsInit => StreamInv
  BY MdnsInvInit DEF MdnsInv, StreamInv

LEMMA StreamInvNext == StreamInv /\ [MdnsNext]_vars => StreamInv' /\ [RecordNext]_recordVars
  <1>. SUFFICES ASSUME StreamInv, [MdnsNext]_vars PROVE StreamInv' /\ [RecordNext]_recordVars
    OBVIOUS
  <1>1. TrackerInv' /\ keys \subseteq Keys
    BY TrackerNext, KeysOfNetwork DEF StreamInv, TrackerInv
  <1>2. CASE AppStep
    BY <1>1, <1>2, StreamSteps, DrainIsRecordNext DEF AppStep, StreamInv
  <1>3. ASSUME UNCHANGED <<recordVars, refused>>, loop' \in {"browsing", "over", loop}, inbox' \in Seq(Event),
               loop' = "browsing" => loop = "browsing"
        PROVE  StreamInv' /\ [RecordNext]_recordVars
    BY <1>1, <1>3 DEF StreamInv, StreamTypeOK, recordVars, RecordInv, RecordTypeOK, WithinLimit,
                      RefusalIsRemembered
  <1>4. ASSUME NEW k \in keys, Found(k) \/ Removed(k) PROVE StreamInv' /\ [RecordNext]_recordVars
    <2>1. loop = "browsing" /\ UNCHANGED <<recordVars, refused>>
      BY <1>4 DEF Found, Removed, News
    <2>2. PICK event \in Event : Send(event)
      BY <1>1, <1>4, EventsOfKeys DEF Found, Removed
    <2>3. QED
      BY <1>3, <2>1, <2>2, SendTypes DEF StreamInv
  <1>5. ASSUME NEW k \in keys, ProbeAnswered(k) \/ ProbeFailed(k)
        PROVE  StreamInv' /\ [RecordNext]_recordVars
    <2>1. loop = "browsing" /\ UNCHANGED <<recordVars, refused>>
      BY <1>5 DEF ProbeAnswered, ProbeFailed, ProbeDone
    <2>2. Quiet \/ \E event \in Event : Send(event)
      BY <1>1, <1>5, EventsOfKeys DEF ProbeAnswered, ProbeFailed, record_success, record_failure
    <2>3. QED
      BY <1>3, <2>1, <2>2, SendTypes DEF StreamInv, StreamTypeOK, Quiet
  <1>6. CASE \/ ProbeTick \/ SourceEnds \/ UNCHANGED vars
             \/ \E k \in keys : Turn(k) \/ FoundUntrackable(k)
    BY <1>3, <1>6 DEF ProbeTick, SourceEnds, LoopEnds, vars, streamVars, Turn, FoundUntrackable, News,
                      StreamInv, StreamTypeOK
  <1>7. QED
    BY <1>2, <1>4, <1>5, <1>6 DEF MdnsNext, Ended

\* Type correctness of the tracker, the probes, the inbox and the records.
THEOREM MdnsTypeCorrect == MdnsSpec => []MdnsTypeOK
  <1>1. StreamInv => MdnsTypeOK
    <2>. SUFFICES ASSUME StreamInv PROVE MdnsTypeOK
      OBVIOUS
    <2>1. /\ failures \in [Keys -> 0 .. PROBE_FAILURE_THRESHOLD]
          /\ missed \in [Keys -> 0 .. PROBE_FAILURE_THRESHOLD]
      <3>1. ASSUME NEW k \in Keys
            PROVE  failures[k] \in 0 .. PROBE_FAILURE_THRESHOLD /\ missed[k] \in 0 .. PROBE_FAILURE_THRESHOLD
        BY DEF StreamInv, TrackerInv, TrackerTypes, FailuresCounted, MdnsAssumption
      <3>2. QED
        BY <3>1 DEF StreamInv, TrackerInv, TrackerTypes
    <2>2. QED
      BY <2>1 DEF StreamInv, TrackerInv, TrackerTypes, MdnsTypeOK
  <1>2. QED
    BY StreamInvInit, StreamInvNext, <1>1, PTL DEF MdnsSpec

\* The adapter and the app together do to the records what RecordStore allows
\* and nothing else, so that what is proved of it holds of them, in every
\* network (App::drain_discovery).
THEOREM MdnsImplementsRecords == MdnsSpec => RecordSpec
  <1>1. MdnsInit => RecordInit
    BY DEF MdnsInit, StreamInit
  <1>2. QED
    BY StreamInvInit, StreamInvNext, <1>1, PTL DEF MdnsSpec, RecordSpec

-----------------------------------------------------------------------------
(* The two ceilings, the tracker's and the app's.                          *)

AllNamed == \A k \in keys : Named(k)

\* What the app will list after each of the events in flight: B[n] after the
\* first n of them.  After the last it is what the tracker believes in.
Foreseen(B) ==
  /\ B \in [0 .. Len(inbox) -> SUBSET keys]
  /\ B[0] = records
  /\ \A n \in 1 .. Len(inbox) : \E k \in keys :
       \/ inbox[n] = UpsertEvent(k) /\ B[n] = B[n - 1] \cup {k}
       \/ inbox[n] = RemoveEvent(k) /\ B[n] = B[n - 1] \ {k}
  /\ \A n \in 0 .. Len(inbox) : Cardinality(B[n]) <= MAX_DISCOVERED_OCCURRENCES
  /\ loop = "browsing" => B[Len(inbox)] = tracked \ removed

CapInv ==
  /\ Cardinality(tracked) <= MAX_DISCOVERED_OCCURRENCES
  /\ AllNamed => ~record_limit_reached /\ \E B : Foreseen(B)

LEMMA SentIsForeseen ==
  ASSUME NEW B, Foreseen(B), inbox \in Seq(Event), keys' = keys, records' = records,
         NEW event, inbox' = Append(inbox, event), NEW k \in keys, NEW X \in SUBSET keys,
         \/ event = UpsertEvent(k) /\ X = B[Len(inbox)] \cup {k}
         \/ event = RemoveEvent(k) /\ X = B[Len(inbox)] \ {k},
         Cardinality(X) <= MAX_DISCOVERED_OCCURRENCES,
         loop' = "browsing" => X = tracked' \ removed'
  PROVE  \E C : Foreseen(C)'
  <1>. DEFINE m == Len(inbox)
              C == [n \in 0 .. m + 1 |-> IF n = m + 1 THEN X ELSE B[n]]
  <1>1. /\ m \in Nat /\ Len(inbox') = m + 1 /\ inbox'[m + 1] = event
        /\ \A n \in 1 .. m : inbox'[n] = inbox[n]
    OBVIOUS
  <1>2. /\ B \in [0 .. m -> SUBSET keys] /\ B[0] = records
        /\ \A n \in 1 .. m : \E l \in keys :
             \/ inbox[n] = UpsertEvent(l) /\ B[n] = B[n - 1] \cup {l}
             \/ inbox[n] = RemoveEvent(l) /\ B[n] = B[n - 1] \ {l}
        /\ \A n \in 0 .. m : Cardinality(B[n]) <= MAX_DISCOVERED_OCCURRENCES
    BY DEF Foreseen
  <1>3. \/ event = UpsertEvent(k) /\ X = B[m] \cup {k}
        \/ event = RemoveEvent(k) /\ X = B[m] \ {k}
    OBVIOUS
  <1>. HIDE DEF m
  <1>4. \A n \in 0 .. m + 1 : n = m + 1 \/ (n \in 0 .. m /\ n # m + 1)
    BY <1>1
  <1>5. C[m + 1] = X /\ C[m] = B[m] /\ C[0] = B[0] /\ \A n \in 0 .. m : C[n] = B[n]
    BY <1>1
  <1>6. C \in [0 .. m + 1 -> SUBSET keys]
    BY <1>2, <1>4
  <1>. HIDE DEF C
  <1>7. \A n \in 0 .. m + 1 : Cardinality(C[n]) <= MAX_DISCOVERED_OCCURRENCES
    BY <1>2, <1>4, <1>5
  <1>8. ASSUME NEW n \in 1 .. m + 1
        PROVE  \E l \in keys : \/ inbox'[n] = UpsertEvent(l) /\ C[n] = C[n - 1] \cup {l}
                               \/ inbox'[n] = RemoveEvent(l) /\ C[n] = C[n - 1] \ {l}
    <2>1. CASE n = m + 1
      <3>1. n - 1 = m
        BY <1>1, <2>1
      <3>2. QED
        BY <1>1, <1>3, <1>5, <2>1, <3>1
    <2>2. CASE n # m + 1
      <3>1. n \in 1 .. m /\ n \in 0 .. m /\ n - 1 \in 0 .. m
        BY <1>1, <2>2
      <3>2. QED
        BY <1>1, <1>2, <1>5, <3>1
    <2>3. QED
      BY <2>1, <2>2
  <1>9. PICK D : D = C
    OBVIOUS
  <1>10. Foreseen(D)'
    <2>1. D \in [0 .. Len(inbox') -> SUBSET keys']
      BY <1>1, <1>6, <1>9
    <2>2. D[0] = records'
      BY <1>2, <1>5, <1>9
    <2>3. \A n \in 1 .. Len(inbox') : \E l \in keys' :
            \/ inbox'[n] = UpsertEvent(l) /\ D[n] = D[n - 1] \cup {l}
            \/ inbox'[n] = RemoveEvent(l) /\ D[n] = D[n - 1] \ {l}
      BY <1>1, <1>8, <1>9
    <2>4. \A n \in 0 .. Len(inbox') : Cardinality(D[n]) <= MAX_DISCOVERED_OCCURRENCES
      BY <1>1, <1>7, <1>9
    <2>5. loop' = "browsing" => D[Len(inbox')] = tracked' \ removed'
      BY <1>1, <1>5, <1>9
    <2>6. QED
      BY <2>1, <2>2, <2>3, <2>4, <2>5 DEF Foreseen, UpsertEvent, RemoveEvent
  <1>11. QED
    BY <1>10

\* An event that has been foreseen to fit does.
LEMMA DrainedAsForeseen ==
  ASSUME StreamTypeOK, AllNamed, keys \subseteq Keys, IsFiniteSet(keys), NEW B, Foreseen(B), Drain,
         ~record_limit_reached, UNCHANGED <<keys, tracked, removed>>
  PROVE  ~record_limit_reached' /\ \E C : Foreseen(C)'
  <1>. DEFINE m == Len(inbox)
              C == [n \in 0 .. m - 1 |-> B[n + 1]]
  <1>1. /\ m \in Nat /\ m >= 1 /\ Len(inbox') = m - 1 /\ Head(inbox) = inbox[1]
        /\ \A n \in 1 .. m - 1 : inbox'[n] = inbox[n + 1]
    <2>1. inbox \in Seq(Event) /\ inbox # <<>> /\ inbox' = Tail(inbox)
      BY DEF StreamTypeOK, Drain
    <2>2. QED
      BY <2>1, HeadTailProperties
  <1>2. /\ B \in [0 .. m -> SUBSET keys] /\ B[0] = records
        /\ \A n \in 1 .. m : \E l \in keys :
             \/ inbox[n] = UpsertEvent(l) /\ B[n] = B[n - 1] \cup {l}
             \/ inbox[n] = RemoveEvent(l) /\ B[n] = B[n - 1] \ {l}
        /\ \A n \in 0 .. m : Cardinality(B[n]) <= MAX_DISCOVERED_OCCURRENCES
        /\ loop = "browsing" => B[m] = tracked \ removed
    BY DEF Foreseen
  <1>3. Apply(inbox[1]) /\ loop' = loop
    BY <1>1 DEF Drain
  <1>. HIDE DEF m
  <1>4. 1 \in 1 .. m /\ 1 \in 0 .. m /\ 1 - 1 = 0 /\ m - 1 + 1 = m /\ m - 1 \in 0 .. m - 1 /\ 0 \in 0 .. m - 1
    BY <1>1
  <1>5. PICK k \in keys : \/ inbox[1] = UpsertEvent(k) /\ B[1] = records \cup {k}
                          \/ inbox[1] = RemoveEvent(k) /\ B[1] = records \ {k}
    BY <1>2, <1>4
  <1>6. ~record_limit_reached' /\ records' = B[1]
    <2>1. CASE inbox[1] = UpsertEvent(k) /\ B[1] = records \cup {k}
      <3>1. Upsert(k)
        BY <1>3, <2>1, WhatApplies
      <3>2. \A l \in keys : ~is_pending(l)
        BY RecordAssumption DEF AllNamed, Named, is_pending, MdnsAssumption
      <3>3. ~is_pending(k) /\ pending(k) \notin records
        BY <1>2, <1>4, <3>2 DEF is_pending, pending
      <3>4. ~Refuses(k)
        <4>. SUFFICES ASSUME k \notin records, Full PROVE FALSE
          BY DEF Refuses, grows
        <4>1. IsFiniteSet(records)
          BY DEF StreamTypeOK, RecordTypeOK
        <4>2. Cardinality(records) \in Nat /\ Cardinality(B[1]) = Cardinality(records) + 1
          BY <2>1, <4>1, FS_AddElement, FS_CardinalityType
        <4>3. Cardinality(B[1]) <= MAX_DISCOVERED_OCCURRENCES
          BY <1>2, <1>4
        <4>4. QED
          BY <4>2, <4>3, RecordAssumption DEF Full
      <3>5. QED
        BY <2>1, <3>1, <3>3, <3>4 DEF Upsert, With
    <2>2. CASE inbox[1] = RemoveEvent(k) /\ B[1] = records \ {k}
      BY <1>3, <2>2, WhatApplies DEF Remove, reopen_record_capacity
    <2>3. QED
      BY <1>5, <2>1, <2>2
  <1>7. C \in [0 .. m - 1 -> SUBSET keys]
    BY <1>1, <1>2
  <1>8. C[0] = B[1] /\ C[m - 1] = B[m] /\ \A n \in 0 .. m - 1 : C[n] = B[n + 1]
    BY <1>4
  <1>. HIDE DEF C
  <1>9. \A n \in 0 .. m - 1 : n + 1 \in 0 .. m
    BY <1>1
  <1>10. ASSUME NEW n \in 1 .. m - 1
         PROVE  \E l \in keys : \/ inbox'[n] = UpsertEvent(l) /\ C[n] = C[n - 1] \cup {l}
                                \/ inbox'[n] = RemoveEvent(l) /\ C[n] = C[n - 1] \ {l}
    <2>1. n + 1 \in 1 .. m /\ n \in 0 .. m - 1 /\ n - 1 \in 0 .. m - 1 /\ n + 1 - 1 = n /\ n - 1 + 1 = n
      BY <1>1
    <2>2. C[n] = B[n + 1] /\ C[n - 1] = B[n] /\ inbox'[n] = inbox[n + 1]
      BY <1>1, <1>8, <2>1
    <2>3. \E l \in keys : \/ inbox[n + 1] = UpsertEvent(l) /\ B[n + 1] = B[n] \cup {l}
                          \/ inbox[n + 1] = RemoveEvent(l) /\ B[n + 1] = B[n] \ {l}
      BY <1>2, <2>1
    <2>4. QED
      BY <2>2, <2>3
  <1>11. PICK D : D = C
    OBVIOUS
  <1>12. Foreseen(D)'
    <2>1. D \in [0 .. Len(inbox') -> SUBSET keys'] /\ D[0] = records'
      BY <1>1, <1>6, <1>7, <1>8, <1>11
    <2>2. \A n \in 1 .. Len(inbox') : \E l \in keys' :
            \/ inbox'[n] = UpsertEvent(l) /\ D[n] = D[n - 1] \cup {l}
            \/ inbox'[n] = RemoveEvent(l) /\ D[n] = D[n - 1] \ {l}
      BY <1>1, <1>10, <1>11
    <2>3. \A n \in 0 .. Len(inbox') : Cardinality(D[n]) <= MAX_DISCOVERED_OCCURRENCES
      BY <1>1, <1>2, <1>8, <1>9, <1>11
    <2>4. loop' = "browsing" => D[Len(inbox')] = tracked' \ removed'
      BY <1>1, <1>2, <1>3, <1>8, <1>11
    <2>5. QED
      BY <2>1, <2>2, <2>3, <2>4 DEF Foreseen, UpsertEvent, RemoveEvent
  <1>13. QED
    BY <1>6, <1>12

\* What was foreseen stays so while nothing is sent and no belief changes, or
\* once the loop is over.
LEMMA StillForeseen ==
  ASSUME NEW B, Foreseen(B), UNCHANGED <<records, inbox, keys>>,
         loop' = "over" \/ (loop' = loop /\ tracked' \ removed' = tracked \ removed)
  PROVE  Foreseen(B)'
  BY DEF Foreseen, UpsertEvent, RemoveEvent

LEMMA TellingIsForeseen ==
  ASSUME StreamTypeOK, NEW B, Foreseen(B), loop = "browsing", keys' = keys, records' = records,
         tracked' \subseteq keys, IsFiniteSet(tracked'), Cardinality(tracked') <= MAX_DISCOVERED_OCCURRENCES,
         NEW k \in keys, NEW event, Send(event),
         \/ event = UpsertEvent(k) /\ tracked' \ removed' = (tracked \ removed) \cup {k}
         \/ event = RemoveEvent(k) /\ tracked' \ removed' = (tracked \ removed) \ {k}
  PROVE  \E C : Foreseen(C)'
  <1>1. PICK X : X = tracked' \ removed'
    OBVIOUS
  <1>2. X \in SUBSET keys /\ Cardinality(X) <= MAX_DISCOVERED_OCCURRENCES
    <2>1. Cardinality(X) <= Cardinality(tracked') /\ Cardinality(X) \in Nat /\ Cardinality(tracked') \in Nat
      BY <1>1, FS_Subset, FS_CardinalityType
    <2>2. QED
      BY <1>1, <2>1, RecordAssumption
  <1>3. B[Len(inbox)] = tracked \ removed
    BY DEF Foreseen
  <1>4. \/ event = UpsertEvent(k) /\ X = B[Len(inbox)] \cup {k}
        \/ event = RemoveEvent(k) /\ X = B[Len(inbox)] \ {k}
    BY <1>1, <1>3
  <1>5. CASE inbox' = Append(inbox, event)
    <2>1. inbox \in Seq(Event)
      BY DEF StreamTypeOK
    <2>2. QED
      BY <1>1, <1>2, <1>4, <1>5, <2>1, SentIsForeseen
  <1>6. CASE loop' = "over" /\ UNCHANGED inbox
    BY <1>6, StillForeseen
  <1>7. QED
    BY <1>5, <1>6 DEF Send

LEMMA CapInvInit == MdnsInit => CapInv
  <1>. SUFFICES ASSUME MdnsInit PROVE CapInv
    OBVIOUS
  <1>1. /\ tracked = {} /\ removed = {} /\ records = {} /\ inbox = <<>> /\ ~record_limit_reached
        /\ Cardinality({}) = 0 /\ 0 <= MAX_DISCOVERED_OCCURRENCES
    BY FS_EmptySet, RecordAssumption DEF MdnsInit, StreamInit, RecordInit
  <1>2. PICK B : B = [n \in 0 .. 0 |-> {}]
    OBVIOUS
  <1>3. Len(inbox) = 0
    BY <1>1
  <1>4. B \in [0 .. 0 -> SUBSET keys] /\ B[0] = {} /\ \A n \in 0 .. 0 : B[n] = {}
    BY <1>2
  <1>5. Foreseen(B)
    BY <1>1, <1>3, <1>4 DEF Foreseen
  <1>6. QED
    BY <1>1, <1>5 DEF CapInv

LEMMA CapInvNext == StreamInv /\ CapInv /\ [MdnsNext]_vars => CapInv'
  <1>. SUFFICES ASSUME StreamInv, CapInv, [MdnsNext]_vars PROVE CapInv'
    OBVIOUS
  <1>1. /\ StreamTypeOK /\ TrackerInv /\ TrackerInv' /\ keys \subseteq Keys /\ IsFiniteSet(keys)
        /\ tracked \subseteq keys /\ removed \subseteq tracked
    BY TrackerNext, KeysOfNetwork, FS_Subset DEF StreamInv, TrackerInv, TrackerTypes, MdnsAssumption
  <1>2. keys' = keys
    BY DEF MdnsNext, vars, ProbeTick, SourceEnds, AppStep, Ended, ProbeAnswered, ProbeFailed, ProbeDone,
           Found, FoundUntrackable, Removed, News, Turn, networkVars
  <1>3. tracked' \subseteq keys /\ IsFiniteSet(tracked') /\ IsFiniteSet(tracked)
    BY <1>1, <1>2, FS_Subset DEF TrackerInv, TrackerTypes
  <1>4. \/ tracked' \subseteq tracked
        \/ \E k \in keys : tracked' = tracked \cup {k} /\ Trackable(k)
    BY DEF MdnsNext, vars, ProbeTick, SourceEnds, AppStep, Ended, ProbeAnswered, record_success, ProbeFailed,
           record_failure, Found, note_found, FoundUntrackable, Removed, Forget, Turn, trackerVars
  <1>5. Cardinality(tracked') <= MAX_DISCOVERED_OCCURRENCES
    <2>1. Cardinality(tracked) \in Nat /\ Cardinality(tracked') \in Nat
          /\ Cardinality(tracked) <= MAX_DISCOVERED_OCCURRENCES
      BY <1>3, FS_CardinalityType DEF CapInv
    <2>2. CASE tracked' \subseteq tracked
      <3>1. Cardinality(tracked') <= Cardinality(tracked)
        BY <1>3, <2>2, FS_Subset
      <3>2. QED
        BY <2>1, <3>1, RecordAssumption
    <2>3. ASSUME NEW k \in keys, tracked' = tracked \cup {k}, Trackable(k)
          PROVE  Cardinality(tracked') <= MAX_DISCOVERED_OCCURRENCES
      <3>1. CASE k \in tracked
        <4>1. tracked' = tracked
          BY <2>3, <3>1
        <4>2. QED
          BY <2>1, <4>1
      <3>2. CASE k \notin tracked
        <4>1. Cardinality(tracked') = Cardinality(tracked) + 1
          BY <1>3, <2>3, <3>2, FS_AddElement
        <4>2. QED
          BY <2>1, <2>3, <3>2, <4>1, RecordAssumption DEF Trackable
      <3>3. QED
        BY <3>1, <3>2
    <2>4. QED
      BY <1>4, <2>2, <2>3
  <1>6. SUFFICES ASSUME AllNamed PROVE ~record_limit_reached' /\ \E C : Foreseen(C)'
    BY <1>2, <1>5 DEF CapInv, AllNamed
  <1>7. PICK B : Foreseen(B)
    BY <1>6 DEF CapInv
  <1>8. ~record_limit_reached
    BY <1>6 DEF CapInv
  <1>9. \A k \in keys : Named(k) /\ Ids(k) = {k} /\ removal_event(k) = RemoveEvent(k) /\ Gone(k) = {k}
    BY <1>6 DEF AllNamed, Ids, removal_event, Gone
  <1>10. ASSUME NEW k \in keys, Found(k) PROVE ~record_limit_reached' /\ \E C : Foreseen(C)'
    <2>1. Send(UpsertEvent(k)) /\ loop = "browsing" /\ records' = records
          /\ record_limit_reached' = record_limit_reached
      BY <1>9, <1>10 DEF Found, News, recordVars
    <2>2. tracked' \ removed' = (tracked \ removed) \cup {k}
      BY <1>10 DEF Found, note_found
    <2>3. QED
      BY <1>1, <1>2, <1>3, <1>5, <1>7, <1>8, <2>1, <2>2, TellingIsForeseen
  <1>11. ASSUME NEW k \in keys, Removed(k) PROVE ~record_limit_reached' /\ \E C : Foreseen(C)'
    <2>1. Send(RemoveEvent(k)) /\ loop = "browsing" /\ records' = records
          /\ record_limit_reached' = record_limit_reached
      BY <1>9, <1>11 DEF Removed, News, recordVars
    <2>2. tracked' \ removed' = (tracked \ removed) \ {k}
      BY <1>9, <1>11 DEF Removed, Forget
    <2>3. QED
      BY <1>1, <1>2, <1>3, <1>5, <1>7, <1>8, <2>1, <2>2, TellingIsForeseen
  <1>12. ASSUME NEW k \in keys, ProbeAnswered(k) PROVE ~record_limit_reached' /\ \E C : Foreseen(C)'
    <2>1. /\ loop = "browsing" /\ records' = records /\ record_limit_reached' = record_limit_reached
          /\ tracked' = tracked /\ removed' = removed \ {k}
      BY <1>12 DEF ProbeAnswered, ProbeDone, record_success, recordVars
    <2>2. CASE k \in removed
      <3>1. Send(UpsertEvent(k))
        BY <1>9, <1>12, <2>2 DEF ProbeAnswered, record_success
      <3>2. tracked' \ removed' = (tracked \ removed) \cup {k}
        BY <1>1, <2>1, <2>2
      <3>3. QED
        BY <1>1, <1>2, <1>3, <1>5, <1>7, <1>8, <2>1, <3>1, <3>2, TellingIsForeseen
    <2>3. CASE k \notin removed
      <3>1. inbox' = inbox /\ loop' = loop /\ tracked' \ removed' = tracked \ removed
        BY <1>12, <2>1, <2>3 DEF ProbeAnswered, record_success, Quiet
      <3>2. QED
        BY <1>2, <1>7, <1>8, <2>1, <3>1, StillForeseen
    <2>4. QED
      BY <2>2, <2>3
  <1>13. ASSUME NEW k \in keys, ProbeFailed(k) PROVE ~record_limit_reached' /\ \E C : Foreseen(C)'
    <2>1. /\ loop = "browsing" /\ records' = records /\ record_limit_reached' = record_limit_reached
          /\ tracked' = tracked
      BY <1>13 DEF ProbeFailed, ProbeDone, record_failure, recordVars
    <2>2. CASE removed' = removed \cup {k} /\ Send(RemoveEvent(k))
      <3>1. tracked' \ removed' = (tracked \ removed) \ {k}
        BY <2>1, <2>2
      <3>2. QED
        BY <1>1, <1>2, <1>3, <1>5, <1>7, <1>8, <2>1, <2>2, <3>1, TellingIsForeseen
    <2>3. CASE removed' = removed /\ Quiet
      BY <1>2, <1>7, <1>8, <2>1, <2>3, StillForeseen DEF Quiet
    <2>4. QED
      BY <1>9, <1>13, <2>2, <2>3 DEF ProbeFailed, record_failure
  <1>14. CASE AppStep
    <2>1. UNCHANGED <<tracked, removed>>
      BY <1>14 DEF AppStep, trackerVars
    <2>2. CASE Drain
      BY <1>1, <1>2, <1>6, <1>7, <1>8, <2>1, <2>2, DrainedAsForeseen
    <2>3. CASE DrainEnd
      <3>1. /\ records' = {} /\ ~record_limit_reached' /\ inbox' = <<>> /\ loop' = "ended"
        BY <2>3 DEF DrainEnd, Cleared
      <3>2. PICK C : C = [n \in 0 .. 0 |-> {}]
        OBVIOUS
      <3>3. Len(inbox') = 0 /\ Cardinality({}) = 0 /\ 0 <= MAX_DISCOVERED_OCCURRENCES
        BY <3>1, FS_EmptySet, RecordAssumption
      <3>4. C \in [0 .. 0 -> SUBSET keys'] /\ C[0] = {} /\ \A n \in 0 .. 0 : C[n] = {}
        BY <3>2
      <3>5. Foreseen(C)'
        BY <3>1, <3>3, <3>4 DEF Foreseen
      <3>6. QED
        BY <3>1, <3>5
    <2>4. QED
      BY <1>14, <2>2, <2>3 DEF AppStep
  <1>15. CASE \/ ProbeTick \/ SourceEnds \/ UNCHANGED vars
              \/ \E k \in keys : Turn(k) \/ FoundUntrackable(k)
    <2>1. /\ records' = records /\ record_limit_reached' = record_limit_reached /\ inbox' = inbox
          /\ loop' = "over" \/ (loop' = loop /\ tracked' \ removed' = tracked \ removed)
      BY <1>15 DEF ProbeTick, SourceEnds, LoopEnds, vars, streamVars, Turn, FoundUntrackable, News,
                   recordVars, trackerVars
    <2>2. QED
      BY <1>2, <1>7, <1>8, <2>1, StillForeseen
  <1>16. QED
    BY <1>10, <1>11, <1>12, <1>13, <1>14, <1>15 DEF MdnsNext, Ended

\* The tracker reaches its ceiling first: in a network that names the interfaces
\* of its announcements the app never ignores an occurrence, whatever is in
\* flight (LivenessTracker::limit, App's ceiling).
THEOREM CapNeverReachedHolds == MdnsSpec => []CapNeverReached
  <1>1. CapInv => CapNeverReached
    BY DEF CapInv, CapNeverReached, AllNamed
  <1>2. QED
    BY StreamInvInit, StreamInvNext, CapInvInit, CapInvNext, <1>1, PTL DEF MdnsSpec

-----------------------------------------------------------------------------
(* The zeroconf adapter.                                                   *)

\* Whatever is listed once the inbox is drained has been reported, and the
\* other way round; that a ceiling was hit is remembered, or a drain could
\* break the agreement unseen.  The notice of it follows the flag.
ZeroconfInv ==
  ZeroconfTypeOK /\ RecordInv /\ RefusalIsRemembered /\ ListFollowsReports /\ CapNoticeIsTrue

LEMMA ZeroconfInvInit == ZeroconfInit => ZeroconfInv
  <1>. SUFFICES ASSUME ZeroconfInit PROVE ZeroconfInv
    OBVIOUS
  <1>1. RecordInv
    BY RecordInvInit DEF ZeroconfInit, StreamInit
  <1>2. ZeroconfTypeOK /\ RefusalIsRemembered
    <2>1. RecordTypeOK /\ inbox \in Seq(Event) /\ live \subseteq EntryId /\ reports \in 0 .. MaxReports
      BY <1>1, EmptySeq DEF RecordInv, ZeroconfInit, StreamInit
    <2>2. loop = "browsing" /\ refused = FALSE /\ record_limit_reached = FALSE
      BY DEF ZeroconfInit, StreamInit, RecordInit
    <2>3. StatusTypeOK
      BY DEF ZeroconfInit, StatusInit, StatusTypeOK
    <2>4. QED
      BY <2>1, <2>2, <2>3 DEF ZeroconfTypeOK, StreamTypeOK, RefusalIsRemembered
  <1>3. ListFollowsReports
    BY DEF ListFollowsReports, Lists, ZeroconfInit, StreamInit, RecordInit
  <1>4. CapNoticeIsTrue
    BY DEF CapNoticeIsTrue, ZeroconfInit, StreamInit, RecordInit, StatusInit
  <1>5. QED
    BY <1>1, <1>2, <1>3, <1>4 DEF ZeroconfInv

\* What the drain says of an event tells how the flag is.
LEMMA SaidOfFlag ==
  ASSUME RecordTypeOK, StatusTypeOK, CapNoticeIsTrue, NEW event \in Event, Apply(event)
  PROVE  /\ Said(event) \in AppSays \cup {"start", "adapter", "capped", "reopened", "ended", "refreshing"}
         /\ Said(event) = "capped" => record_limit_reached'
         /\ record_limit_reached' => Said(event) \in AppSays \cup {"capped"}
  <1>. DEFINE Goal == /\ Said(event) = "capped" => record_limit_reached'
                      /\ record_limit_reached' => Said(event) \in AppSays \cup {"capped"}
  <1>1. Said(event) \in {"capped", "reopened", "adapter", status}
    BY DEF Said
  <1>2. ASSUME NEW x \in EntryId, event = UpsertEvent(x) PROVE Goal
    <2>1. event.kind = "Upsert" /\ event.id = x /\ Upsert(x)
      BY <1>2, WhatApplies DEF UpsertEvent
    <2>2. CASE Refuses(x)
      <3>1. record_limit_reached'
        BY <2>1, <2>2 DEF Upsert
      <3>2. Said(event) = "capped"
        BY <2>1, <2>2, <3>1 DEF Said, Lifts
      <3>3. QED
        BY <3>1, <3>2
    <2>3. CASE ~Refuses(x)
      <3>1. record_limit_reached' = record_limit_reached
        BY <2>1, <2>3 DEF Upsert
      <3>2. Said(event) = status
        BY <2>1, <2>3, <3>1 DEF Said, Lifts
      <3>3. QED
        BY <3>1, <3>2 DEF CapNoticeIsTrue
    <2>4. QED
      BY <2>2, <2>3
  <1>3. ASSUME event.kind \in {"Remove", "RemoveRegistration"}, reopen_record_capacity PROVE Goal
    <2>1. CASE Lifts
      <3>1. Said(event) = "reopened" /\ ~record_limit_reached'
        BY <1>3, <2>1 DEF Said, Lifts
      <3>2. QED
        BY <3>1
    <2>2. CASE ~Lifts
      <3>1. Said(event) = status
        BY <1>3, <2>2 DEF Said
      <3>2. record_limit_reached' = record_limit_reached
        BY <1>3, <2>2 DEF Lifts, reopen_record_capacity, RecordTypeOK
      <3>3. QED
        BY <3>1, <3>2 DEF CapNoticeIsTrue
    <2>3. QED
      BY <2>1, <2>2
  <1>4. ASSUME event = StatusEvent PROVE Goal
    <2>1. event.kind = "Status" /\ record_limit_reached' = record_limit_reached
      BY <1>4, WhatApplies DEF StatusEvent, recordVars
    <2>2. Said(event) = IF record_limit_reached THEN status ELSE "adapter"
      BY <2>1 DEF Said, Lifts
    <2>3. QED
      BY <2>1, <2>2 DEF CapNoticeIsTrue
  <1>5. Goal
    <2>1. ASSUME NEW x \in EntryId, event = RemoveEvent(x) PROVE Goal
      BY <1>3, <2>1, WhatApplies DEF RemoveEvent, Remove
    <2>2. ASSUME NEW r \in Registrations, event = RemoveRegistrationEvent(r) PROVE Goal
      BY <1>3, <2>2, WhatApplies DEF RemoveRegistrationEvent, RemoveRegistration
    <2>3. QED
      BY <1>2, <1>4, <2>1, <2>2, EventKinds
  <1>6. QED
    BY <1>1, <1>5 DEF StatusTypeOK

\* Every writer of the status line leaves the notice true.
LEMMA WritersKeep ==
  ASSUME StreamTypeOK, StatusTypeOK, CapNoticeIsTrue,
         \/ DrainOne \/ DrainEnding \/ DrainRecomputes
         \/ OpenPicker \/ ClosePicker \/ KeySays \/ Reload \/ RefreshServices
  PROVE  StatusTypeOK' /\ CapNoticeIsTrue'
  <1>1. CASE DrainOne
    <2>1. Head(inbox) \in Event /\ Apply(Head(inbox)) /\ RecordTypeOK
      BY <1>1, HeadTailProperties DEF DrainOne, Drain, StreamTypeOK
    <2>2. status' = Said(Head(inbox)) /\ picker' = picker /\ changed' \in BOOLEAN
      BY <1>1 DEF DrainOne, Changes, StatusTypeOK
    <2>3. QED
      BY <2>1, <2>2, SaidOfFlag DEF StatusTypeOK, CapNoticeIsTrue
  <1>2. CASE DrainEnding \/ RefreshServices
    BY <1>2 DEF DrainEnding, DrainEnd, RefreshServices, Restart, Cleared, StatusTypeOK, CapNoticeIsTrue
  <1>3. CASE DrainRecomputes
    BY <1>3 DEF DrainRecomputes, streamVars, recordVars, StatusTypeOK, CapNoticeIsTrue, AppSays
  <1>4. CASE OpenPicker \/ ClosePicker \/ KeySays \/ Reload
    <2>1. record_limit_reached' = record_limit_reached /\ changed' = changed
      BY <1>4 DEF OpenPicker, ClosePicker, KeySays, Reload, streamVars, recordVars
    <2>2. picker' \in BOOLEAN
      BY <1>4 DEF OpenPicker, ClosePicker, KeySays, Reload, StatusTypeOK
    <2>3. status' = status \/ status' \in {"key", "reload"}
      BY <1>4 DEF OpenPicker, ClosePicker, KeySays, Reload
    <2>4. QED
      BY <2>1, <2>2, <2>3 DEF StatusTypeOK, CapNoticeIsTrue, AppSays
  <1>5. QED
    BY <1>1, <1>2, <1>3, <1>4

LEMMA NothingSaid ==
  ASSUME StatusTypeOK, CapNoticeIsTrue, UNCHANGED <<recordVars, statusVars>>
  PROVE  StatusTypeOK' /\ CapNoticeIsTrue'
  BY DEF recordVars, statusVars, StatusTypeOK, CapNoticeIsTrue

\* A report: the event that is sent does to the list what the report does to
\* what is live.
LEMMA ReportKeeps ==
  ASSUME ZeroconfInv, Reporting, NEW event \in Event, Send(event), live' \subseteq EntryId,
         \A id \in EntryId : id \in live' <=> event = UpsertEvent(id) \/ (id \in live /\ ~Drops(event, id))
  PROVE  ZeroconfInv'
  <1>1. /\ inbox' \in Seq(Event) /\ loop' \in {"browsing", "over"}
        /\ loop' = "browsing" => inbox' = Append(inbox, event)
    BY SendTypes DEF ZeroconfInv, ZeroconfTypeOK, Reporting
  <1>2. RecordInv' /\ RefusalIsRemembered'
    BY <1>1 DEF ZeroconfInv, Reporting, recordVars, RecordInv, RecordTypeOK, WithinLimit,
                RefusalIsRemembered
  <1>3. ZeroconfTypeOK' /\ CapNoticeIsTrue'
    BY <1>1, <1>2, NothingSaid DEF ZeroconfInv, Reporting, ZeroconfTypeOK, StreamTypeOK, RecordInv
  <1>4. ListFollowsReports'
    <2>. SUFFICES ASSUME loop' = "browsing", ~refused', NEW id \in EntryId
                  PROVE  id \in live' <=> Lists(id)'
      BY DEF ListFollowsReports
    <2>1. Lists(id)' <=> event = UpsertEvent(id) \/ (Lists(id) /\ ~Drops(event, id))
      BY <1>1, SentIsListed DEF ZeroconfInv, ZeroconfTypeOK, Reporting, recordVars
    <2>2. id \in live <=> Lists(id)
      BY DEF ZeroconfInv, ListFollowsReports, Reporting
    <2>3. QED
      BY <2>1, <2>2
  <1>5. QED
    BY <1>2, <1>3, <1>4 DEF ZeroconfInv

LEMMA ZeroconfInvNext == ZeroconfInv /\ [ZeroconfNext]_zeroconfVars => ZeroconfInv'
  <1>. SUFFICES ASSUME ZeroconfInv, [ZeroconfNext]_zeroconfVars PROVE ZeroconfInv'
    OBVIOUS
  <1>. USE DEF ZeroconfInv
  <1>1. ASSUME NEW x \in EntryId, Add(x) PROVE ZeroconfInv'
    <2>1. UpsertEvent(x) \in Event
      BY EventTypes
    <2>2. live' = With(live, x) /\ live \subseteq EntryId
      BY <1>1 DEF Add, ZeroconfTypeOK
    <2>3. ASSUME NEW id \in EntryId
          PROVE  id \in live' <=> UpsertEvent(x) = UpsertEvent(id) \/ (id \in live /\ ~Drops(UpsertEvent(x), id))
      <3>1. UpsertEvent(x) = UpsertEvent(id) <=> x = id
        BY DEF UpsertEvent
      <3>2. Drops(UpsertEvent(x), id) <=> (~is_pending(x) /\ id = pending(x))
        BY WhatDrops, Superseded
      <3>3. x = id => ~Drops(UpsertEvent(x), id)
        BY WhatDrops
      <3>4. QED
        BY <2>2, <3>1, <3>2, <3>3 DEF With
    <2>4. live' \subseteq EntryId
      BY <2>2 DEF With
    <2>5. QED
      BY <1>1, <2>1, <2>3, <2>4, ReportKeeps DEF Add
  <1>2. ASSUME NEW r \in Registrations, RemoveAll(r) PROVE ZeroconfInv'
    <2>1. RemoveRegistrationEvent(r) \in Event
      BY EventTypes
    <2>2. live' = Without(live, r) /\ live \subseteq EntryId
      BY <1>2 DEF RemoveAll, ZeroconfTypeOK
    <2>3. \A id : RemoveRegistrationEvent(r) # UpsertEvent(id)
      BY DEF RemoveRegistrationEvent, UpsertEvent
    <2>4. QED
      BY <1>2, <2>1, <2>2, <2>3, WhatDrops, ReportKeeps DEF RemoveAll, Without
  <1>3. CASE Complain
    <2>1. \A id : StatusEvent # UpsertEvent(id)
      BY DEF StatusEvent, UpsertEvent
    <2>2. QED
      BY <1>3, <2>1, EventTypes, WhatDrops, ReportKeeps DEF Complain, ZeroconfTypeOK
  <1>4. ASSUME Drain \/ DrainEnd, UNCHANGED <<live, reports>>, StatusTypeOK', CapNoticeIsTrue'
        PROVE  ZeroconfInv'
    <2>1. StreamTypeOK' /\ RecordInv' /\ RefusalIsRemembered'
      BY <1>4, StreamSteps DEF ZeroconfTypeOK
    <2>2. ListFollowsReports'
      <3>. SUFFICES ASSUME loop' = "browsing", ~refused', NEW id \in EntryId
                    PROVE  id \in live' <=> Lists(id)'
        BY DEF ListFollowsReports
      <3>1. Drain /\ ~record_limit_reached' /\ loop = "browsing" /\ ~refused
        BY <1>4, <2>1 DEF Drain, DrainEnd, RefusalIsRemembered, ZeroconfTypeOK, StreamTypeOK
      <3>2. Lists(id)' <=> Lists(id)
        BY <3>1, AppliedIsListed DEF ZeroconfTypeOK
      <3>3. QED
        BY <1>4, <3>1, <3>2 DEF ListFollowsReports
    <2>3. QED
      BY <1>4, <2>1, <2>2 DEF ZeroconfTypeOK
  <1>5. ASSUME UNCHANGED <<streamVars, live, reports>>, StatusTypeOK', CapNoticeIsTrue'
        PROVE  ZeroconfInv'
    BY <1>5 DEF streamVars, recordVars, ZeroconfTypeOK, StreamTypeOK, RecordInv, RecordTypeOK,
                WithinLimit, RefusalIsRemembered, ListFollowsReports, Lists, KeptFrom
  <1>6. CASE AppDrains \/ UserActs
    <2>1. StatusTypeOK' /\ CapNoticeIsTrue'
      BY <1>6, WritersKeep DEF AppDrains, UserActs, ZeroconfTypeOK
    <2>2. CASE AppDrains
      BY <1>4, <1>5, <2>1, <2>2 DEF AppDrains, DrainOne, DrainEnding, DrainRecomputes
    <2>3. CASE UserActs
      BY <1>5, <2>1, <2>3 DEF UserActs, OpenPicker, ClosePicker, KeySays, Reload
    <2>4. QED
      BY <1>6, <2>2, <2>3
  <1>7. CASE BrowsersEnd
    <2>1. StatusTypeOK' /\ CapNoticeIsTrue'
      BY <1>7, NothingSaid DEF BrowsersEnd, LoopEnds, ZeroconfTypeOK
    <2>2. QED
      BY <1>7, <2>1 DEF BrowsersEnd, LoopEnds, recordVars, ZeroconfTypeOK, StreamTypeOK, RecordInv,
                        RecordTypeOK, WithinLimit, RefusalIsRemembered, ListFollowsReports
  <1>8. CASE Refresh
    <2>1. StreamTypeOK' /\ RecordInv' /\ RefusalIsRemembered'
      BY <1>8, StreamSteps DEF Refresh, RefreshServices, ZeroconfTypeOK
    <2>2. StatusTypeOK' /\ CapNoticeIsTrue'
      BY <1>8, WritersKeep DEF Refresh, ZeroconfTypeOK
    <2>3. ListFollowsReports'
      BY <1>8 DEF Refresh, RefreshServices, Restart, Cleared, ListFollowsReports, Lists
    <2>4. QED
      BY <1>8, <2>1, <2>2, <2>3 DEF Refresh, ZeroconfTypeOK
  <1>9. CASE UNCHANGED zeroconfVars
    <2>1. StatusTypeOK' /\ CapNoticeIsTrue'
      BY <1>9, NothingSaid DEF zeroconfVars, streamVars, ZeroconfTypeOK
    <2>2. QED
      BY <1>5, <1>9, <2>1 DEF zeroconfVars
  <1>10. QED
    BY <1>1, <1>2, <1>3, <1>6, <1>7, <1>8, <1>9 DEF ZeroconfNext

LEMMA ZeroconfInductive == ZeroconfSpec => []ZeroconfInv
  BY ZeroconfInvInit, ZeroconfInvNext, PTL DEF ZeroconfSpec

\* Until the ceiling is hit, the list is what the browsers reported as soon as
\* the app has drained what is in flight (to_discovery_event,
\* App::drain_discovery).
THEOREM ListFollowsReportsHolds == ZeroconfSpec => []ListFollowsReports
  <1>1. ZeroconfInv => ListFollowsReports
    BY DEF ZeroconfInv
  <1>2. QED
    BY ZeroconfInductive, <1>1, PTL

\* The notice that the list is capped is shown only while it is so, and nothing
\* that comes from discovery is said over it while it is (App::drain_discovery,
\* App::record_limit_reached).
THEOREM CapNoticeIsTrueHolds == ZeroconfSpec => []CapNoticeIsTrue
  <1>1. ZeroconfInv => CapNoticeIsTrue
    BY DEF ZeroconfInv
  <1>2. QED
    BY ZeroconfInductive, <1>1, PTL

\* The adapter and the app together do to the records what RecordStore allows
\* and nothing else, so that what is proved of it holds of them.
THEOREM ZeroconfImplementsRecords == ZeroconfSpec => RecordSpec
  <1>1. ZeroconfInit => RecordInit
    BY DEF ZeroconfInit, StreamInit
  <1>2. ZeroconfInv /\ [ZeroconfNext]_zeroconfVars => [RecordNext]_recordVars
    <2>. SUFFICES ASSUME ZeroconfInv, [ZeroconfNext]_zeroconfVars PROVE [RecordNext]_recordVars
      OBVIOUS
    <2>1. CASE DrainOne \/ DrainEnding \/ RefreshServices
      BY <2>1, DrainIsRecordNext DEF DrainOne, DrainEnding, RefreshServices, ZeroconfInv, ZeroconfTypeOK
    <2>2. CASE DrainRecomputes \/ UserActs \/ Complain \/ BrowsersEnd \/ UNCHANGED zeroconfVars
      BY <2>2 DEF DrainRecomputes, UserActs, OpenPicker, ClosePicker, KeySays, Reload, Complain, Reporting,
                  BrowsersEnd, LoopEnds, zeroconfVars, streamVars
    <2>3. ASSUME NEW x \in EntryId, Add(x) PROVE UNCHANGED recordVars
      BY <2>3 DEF Add, Reporting
    <2>4. ASSUME NEW r \in Registrations, RemoveAll(r) PROVE UNCHANGED recordVars
      BY <2>4 DEF RemoveAll, Reporting
    <2>5. QED
      BY <2>1, <2>2, <2>3, <2>4 DEF ZeroconfNext, AppDrains, Refresh
  <1>3. QED
    BY ZeroconfInductive, <1>1, <1>2, PTL DEF ZeroconfSpec, RecordSpec
=============================================================================
