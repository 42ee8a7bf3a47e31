--------------------------- MODULE ZeroconfDiscovery ---------------------------
(***************************************************************************)
(* The zeroconf adapter's events (src/discovery/zeroconf.rs) and the app's *)
(* records.  The adapter keeps no tracker: what its browsers report is     *)
(* passed on once, and a removal names only a registration.                *)
(***************************************************************************)
EXTENDS StatusLine

CONSTANTS
  MaxReports  \* bound: what the browsers report

ASSUME ZeroconfAssumption == MaxReports \in Nat

VARIABLES
  live,    \* history: the occurrences reported and not reported gone
  reports  \* how much has been reported

zeroconfVars == <<streamVars, statusVars, live, reports>>

ZeroconfTypeOK ==
  /\ StreamTypeOK
  /\ StatusTypeOK
  /\ live \subseteq EntryId
  /\ reports \in 0 .. MaxReports

ZeroconfInit ==
  /\ StreamInit
  /\ StatusInit
  /\ live = {}
  /\ reports = 0

Reporting ==
  /\ loop = "browsing"
  /\ reports < MaxReports
  /\ reports' = reports + 1
  /\ UNCHANGED <<recordVars, refused, statusVars>>

\* to_discovery_event of BrowserEvent::Add, sent by browse_one.
Add(id) ==
  /\ Reporting
  /\ live' = With(live, id)
  /\ Send(UpsertEvent(id))

\* Mutated form: a removal is taken to be about one occurrence.
RemoveOne(r) ==
  /\ Reporting
  /\ live' = Without(live, r)
  /\ \E id \in EntryId : id[1] = r /\ Send(RemoveEvent(id))

\* to_discovery_event of BrowserEvent::Remove.
RemoveAll(r) ==
  /\ Reporting
  /\ live' = Without(live, r)
  /\ Send(RemoveRegistrationEvent(r))

\* A browser that fails to report something becomes a status line.
Complain ==
  /\ Reporting
  /\ Send(StatusEvent)
  /\ UNCHANGED live

AppDrains ==
  /\ DrainOne \/ DrainEnding \/ DrainRecomputes
  /\ UNCHANGED <<live, reports>>

UserActs ==
  /\ OpenPicker \/ ClosePicker \/ KeySays \/ Reload
  /\ UNCHANGED <<live, reports>>

BrowsersEnd == LoopEnds /\ UNCHANGED <<statusVars, live, reports>>

\* The user asks for a new session, which reports what it finds afresh.
Refresh ==
  /\ RefreshServices
  /\ live' = {}
  /\ UNCHANGED reports

ZeroconfNext ==
  \/ \E id \in EntryId : Add(id)
  \/ \E r \in Registrations : RemoveAll(r)
  \/ Complain \/ AppDrains \/ UserActs \/ BrowsersEnd \/ Refresh

ZeroconfSpec == ZeroconfInit /\ [][ZeroconfNext]_zeroconfVars

-----------------------------------------------------------------------------
\* Until the ceiling is hit, the list is what the browsers reported as soon as the app
\* has drained what is in flight: placeholders give way to what they stood for,
\* and a removal takes every occurrence of its registration and no other.
ListFollowsReports ==
  loop = "browsing" /\ ~refused => \A id \in EntryId : id \in live <=> Lists(id)

\* ADR 0005: "Overload never silently presents an incomplete list as the
\* complete network." So a list that is not marked as capped is complete once
\* drained.
NeverSilentlyIncomplete ==
  loop = "browsing" /\ inbox = <<>> /\ ~record_limit_reached => live \subseteq records

=============================================================================
