----------------------------- MODULE MdnsDiscovery -----------------------------
(***************************************************************************)
(* The mdns adapter with its liveness tracker and probes                   *)
(* (src/discovery/mdns.rs), publishing through the inbox into the app's    *)
(* records (RecordStore).  The browser reports occurrences as they appear  *)
(* and say goodbye; one that dies silently is found out by probing.        *)
(*                                                                         *)
(* Status events, cancellation and the worker around the loop are in       *)
(* DiscoveryLifecycle.                                                     *)
(***************************************************************************)
EXTENDS EventStream

CONSTANTS
  Interfaces,               \* interface indices: what names an occurrence
  NoInterface,              \* an announcement that names none
  Keys,                     \* ServiceKeys
  Networks,                 \* the sets of them one network may hold
  PROBE_FAILURE_THRESHOLD,
  MAX_CONCURRENT_PROBES,
  MaxNews                   \* bound: what the network does

ASSUME MdnsAssumption ==
  /\ Interfaces \subseteq Occurrences
  /\ NoInterface \notin Occurrences
  /\ Keys \subseteq Registrations \X (Interfaces \cup {NoInterface})
  /\ IsFiniteSet(Keys)
  /\ Networks \subseteq SUBSET Keys
  /\ PROBE_FAILURE_THRESHOLD \in Nat \ {0}
  /\ MAX_CONCURRENT_PROBES \in Nat \ {0}
  /\ MaxNews \in Nat

VARIABLES
  tracked,   \* the keys of LivenessTracker::services
  failures,  \* consecutive failed probes of each tracked key
  removed,   \* the tracked keys reported removed
  waiting,   \* pending_probes: keys still to be probed in this cycle
  active,    \* active_probes: keys being resolved
  keys,      \* the network: the occurrences the browser may report
  up,        \* those of them that would answer a probe
  news,      \* how much the network has done
  stale,     \* history: probes begun before their key was last heard of
  missed     \* history: failed probes begun since a key was last confirmed

trackerVars == <<tracked, failures, removed>>
probeVars == <<waiting, active>>
networkVars == <<keys, up, news>>
historyVars == <<stale, missed>>
vars == <<streamVars, trackerVars, probeVars, networkVars, historyVars>>

MdnsTypeOK ==
  /\ StreamTypeOK
  /\ keys \in Networks
  /\ tracked \subseteq keys
  /\ failures \in [Keys -> 0 .. PROBE_FAILURE_THRESHOLD]
  /\ removed \subseteq tracked
  /\ waiting \subseteq keys
  /\ active \subseteq keys
  /\ up \subseteq keys
  /\ news \in 0 .. MaxNews
  /\ stale \subseteq active
  /\ missed \in [Keys -> 0 .. PROBE_FAILURE_THRESHOLD]

MdnsInit ==
  /\ StreamInit
  /\ tracked = {}
  /\ failures = [k \in Keys |-> 0]
  /\ removed = {}
  /\ waiting = {}
  /\ active = {}
  /\ keys \in Networks
  /\ up = {}
  /\ news = 0
  /\ stale = {}
  /\ missed = [k \in Keys |-> 0]

-----------------------------------------------------------------------------
(* What the loop sends.                                                    *)

Named(k) == k[2] # NoInterface

\* The ids an announcement of k can resolve to: the interface names it, or
\* failing that its endpoint, or it is a placeholder.
Ids(k) == IF Named(k) THEN {k}
          ELSE {<<k[1], o>> : o \in (Occurrences \ Interfaces) \cup {Pending}}

removal_event(k) ==
  IF Named(k) THEN RemoveEvent(k)
  ELSE RemoveRegistrationEvent(k[1])

Quiet == UNCHANGED <<inbox, loop>>

-----------------------------------------------------------------------------
(* LivenessTracker.                                                        *)

\* Mutated form: a service announced again keeps its failed probes.
NoteFoundKeepingFailures(k) ==
  /\ tracked' = tracked \cup {k}
  /\ removed' = removed \ {k}
  /\ UNCHANGED failures

note_found(k) ==
  /\ tracked' = tracked \cup {k}
  /\ failures' = [failures EXCEPT ![k] = 0]
  /\ removed' = removed \ {k}

\* Mutated form: the ceiling is passed by one.
RoomForOneMore(k) == k \in tracked \/ Cardinality(tracked) <= MAX_DISCOVERED_OCCURRENCES

\* note_found refuses a new key at the limit.
Trackable(k) == k \in tracked \/ Cardinality(tracked) < MAX_DISCOVERED_OCCURRENCES

\* note_removed and note_registration_removed; failures of a key that is not
\* tracked are kept at 0, as a fresh TrackedService has them.
Forget(gone) ==
  /\ tracked' = tracked \ gone
  /\ removed' = removed \ gone
  /\ failures' = [k \in Keys |-> IF k \in gone THEN 0 ELSE failures[k]]

\* Mutated form: a service that answers again is not announced again.
RecordSuccessQuietly(k) ==
  /\ failures' = [failures EXCEPT ![k] = 0]
  /\ removed' = removed \ {k}
  /\ UNCHANGED tracked
  /\ Quiet

\* Mutated form: only the failures of a service that answers are forgotten.
RecordSuccessForgotten(k) ==
  /\ failures' = [failures EXCEPT ![k] = 0]
  /\ UNCHANGED <<tracked, removed>>
  /\ Quiet

\* A success re-announces a service reported removed; a key forgotten while it
\* was being probed changes nothing.
record_success(k) ==
  /\ failures' = [failures EXCEPT ![k] = 0]
  /\ removed' = removed \ {k}
  /\ UNCHANGED tracked
  /\ IF k \in removed THEN \E id \in Ids(k) : Send(UpsertEvent(id)) ELSE Quiet

\* Mutated form: a service is declared dead without anybody being told.
RecordFailureQuietly(k) ==
  /\ UNCHANGED tracked
  /\ IF k \in tracked \ removed
     THEN /\ failures' = [failures EXCEPT ![k] = @ + 1]
          /\ removed' = IF failures[k] + 1 >= PROBE_FAILURE_THRESHOLD THEN removed \cup {k} ELSE removed
     ELSE UNCHANGED <<failures, removed>>
  /\ Quiet

record_failure(k) ==
  /\ UNCHANGED tracked
  /\ IF k \in tracked \ removed
     THEN /\ failures' = [failures EXCEPT ![k] = @ + 1]
          /\ IF failures[k] + 1 >= PROBE_FAILURE_THRESHOLD
             THEN removed' = removed \cup {k} /\ Send(removal_event(k))
             ELSE UNCHANGED removed /\ Quiet
     ELSE UNCHANGED <<failures, removed>> /\ Quiet

-----------------------------------------------------------------------------
(* The browse loop.                                                        *)

\* fill_probe_slots: start as many waiting probes as there are free slots.
Fill(queue, busy) ==
  \E more \in SUBSET queue :
    /\ \/ more = queue
       \/ Cardinality(busy \cup more) = MAX_CONCURRENT_PROBES
    /\ Cardinality(busy \cup more) <= MAX_CONCURRENT_PROBES
    /\ waiting' = queue \ more
    /\ active' = busy \cup more

\* A cycle starts only once the one before it has drained.
ProbeTick ==
  /\ loop = "browsing"
  /\ active = {} /\ waiting = {}
  /\ Fill(tracked, {})
  /\ UNCHANGED <<recordVars, trackerVars, loop, inbox, refused, networkVars, historyVars>>

ProbeDone(k) ==
  /\ loop = "browsing"
  /\ k \in active
  /\ Fill(waiting, active \ {k})
  /\ stale' = stale \ {k}
  /\ UNCHANGED <<recordVars, refused, networkVars>>

ProbeAnswered(k) ==
  /\ k \in up
  /\ ProbeDone(k)
  /\ record_success(k)
  /\ missed' = [missed EXCEPT ![k] = 0]

ProbeFailed(k) ==
  /\ k \notin up
  /\ ProbeDone(k)
  /\ record_failure(k)
  /\ missed' = [missed EXCEPT ![k] = IF k \in (tracked \ removed) \ stale THEN @ + 1 ELSE @]

\* What is being resolved when news of it arrives was asked before the news.
Heard(ks) ==
  /\ stale' = stale \cup (active \cap ks)
  /\ missed' = [k \in Keys |-> IF k \in ks THEN 0 ELSE missed[k]]

News ==
  /\ loop = "browsing"
  /\ news < MaxNews
  /\ news' = news + 1
  /\ UNCHANGED <<recordVars, refused, probeVars, keys, up>>

Found(k) ==
  /\ News
  /\ Trackable(k)
  /\ note_found(k)
  /\ \E id \in Ids(k) : Send(UpsertEvent(id))
  /\ Heard({k})

\* One occurrence more than the tracker holds ends the session.
FoundUntrackable(k) ==
  /\ News
  /\ ~Trackable(k)
  /\ loop' = "over"
  /\ UNCHANGED <<trackerVars, inbox, historyVars>>

Gone(k) == IF Named(k) THEN {k} ELSE {l \in Keys : l[1] = k[1]}

\* A goodbye, or the expiry of the browser's cache; it need not name an interface.
Removed(k) ==
  /\ News
  /\ Forget(Gone(k))
  /\ Send(removal_event(k))
  /\ Heard(Gone(k))

SourceEnds ==
  /\ LoopEnds
  /\ UNCHANGED <<trackerVars, probeVars, networkVars, historyVars>>

\* The network: an occurrence comes or goes without a word.
Turn(k) ==
  /\ loop = "browsing"
  /\ news < MaxNews
  /\ news' = news + 1
  /\ up' = IF k \in up THEN up \ {k} ELSE up \cup {k}
  /\ UNCHANGED <<recordVars, trackerVars, probeVars, loop, inbox, refused, keys, historyVars>>

\* The app lives on without the session, until the user asks for another.
Ended == loop = "ended" /\ UNCHANGED vars

AppStep ==
  /\ Drain \/ DrainEnd
  /\ UNCHANGED <<trackerVars, probeVars, networkVars, historyVars>>

MdnsNext ==
  \/ ProbeTick \/ SourceEnds \/ AppStep \/ Ended
  \/ \E k \in keys :
       \/ ProbeAnswered(k) \/ ProbeFailed(k)
       \/ Found(k) \/ FoundUntrackable(k) \/ Removed(k) \/ Turn(k)

MdnsSpec == MdnsInit /\ [][MdnsNext]_vars

\* The timer ticks, every resolve ends within its timeout, and the app drains;
\* nothing is asked of the network.
MdnsFairSpec ==
  /\ MdnsSpec
  /\ WF_vars(ProbeTick)
  /\ \A k \in Keys : WF_vars(ProbeAnswered(k) \/ ProbeFailed(k))
  /\ WF_vars(AppStep)

-----------------------------------------------------------------------------
(* Safety.                                                                 *)

\* Until the app hits its ceiling, the list is what the tracker believes in as
\* soon as the app has drained what is in flight: nothing tracked and alive is
\* missing, nothing forgotten or declared dead is left.  An occurrence without an
\* interface is known by its registration (LivenessTracker, emit_event,
\* apply_probe_results).
ListFollowsTracker ==
  loop = "browsing" /\ ~refused =>
    \A k \in keys : (k \in tracked \ removed) <=> (\E id \in Ids(k) : Lists(id))

\* mdns.rs says of `removed`: "Whether a `Remove` has been emitted for this
\* service. It stays tracked so a service that was merely unreachable can be
\* re-announced when a probe succeeds again".
\* So one that is tracked and not `removed` has had none since it was announced.
RemovalIsRemembered ==
  loop = "browsing" => \A k \in tracked \ removed : Named(k) => Lists(k)

\* The tracker reaches its ceiling first: while interfaces name occurrences,
\* the app never has to ignore one (LivenessTracker::limit, App's ceiling).
CapNeverReached == (\A k \in keys : Named(k)) => ~record_limit_reached

\* A service is declared dead by probes of its own silence: all of the failures
\* that count, but for one probe that may have been under way when it was last
\* heard of, were begun after that (record_failure, note_found).
DeathIsWitnessed == \A k \in removed : missed[k] >= PROBE_FAILURE_THRESHOLD - 1

-----------------------------------------------------------------------------
(* Liveness.                                                               *)

Listed(k) == \E id \in Ids(k) : id \in records

\* A service that dies silently does not stay listed.
SilentDeathIsNoticed ==
  \A k \in Keys : (k \in keys \ up /\ Listed(k)) ~> (k \in up \/ ~Listed(k))

\* A service declared dead that answers again is listed again.
ReturnIsNoticed ==
  \A k \in Keys :
    (k \in removed /\ k \in up) ~>
      (k \notin up \/ Listed(k) \/ k \notin tracked \/ refused \/ loop # "browsing")

=============================================================================
