------------------------------ MODULE RecordStore ------------------------------
(***************************************************************************)
(* The app's records: what App::drain_discovery does with each discovery   *)
(* event, and the ceiling on occurrences (src/ui/app.rs).  A record is     *)
(* represented by its EntryId: a registration, and what tells one          *)
(* occurrence of it apart from another (src/discovery/entry.rs).  What the *)
(* status line says of the ceiling is in StatusLine.                       *)
(***************************************************************************)
EXTENDS Naturals, FiniteSets

CONSTANTS
  Registrations,
  Occurrences,                \* the interfaces and endpoints that name occurrences
  Pending,                    \* what stands for "no occurrence resolved yet"
  MAX_DISCOVERED_OCCURRENCES  \* the ceiling

ASSUME RecordAssumption ==
  /\ Pending \notin Occurrences
  /\ MAX_DISCOVERED_OCCURRENCES \in Nat \ {0}

EntryId == Registrations \X (Occurrences \cup {Pending})

is_pending(id) == id[2] = Pending
pending(id) == <<id[1], Pending>>

VARIABLES
  records,               \* the ids of App::records
  record_limit_reached   \* is the app refusing new occurrences?

recordVars == <<records, record_limit_reached>>

RecordTypeOK ==
  /\ records \subseteq EntryId
  /\ IsFiniteSet(records)
  /\ record_limit_reached \in BOOLEAN

RecordInit ==
  /\ records = {}
  /\ record_limit_reached = FALSE

-----------------------------------------------------------------------------
\* Would accepting this upsert make the list longer?
grows(id) ==
  /\ id \notin records
  /\ is_pending(id) \/ pending(id) \notin records

Full == Cardinality(records) >= MAX_DISCOVERED_OCCURRENCES

Refuses(id) == grows(id) /\ Full

\* The records once an accepted upsert has superseded a placeholder.
With(S, id) == (IF is_pending(id) THEN S ELSE S \ {pending(id)}) \cup {id}

Without(S, r) == {id \in S : id[1] # r}

\* Mutated form: an upsert of a listed registration is never refused.
UpsertSiblings(id) ==
  IF Refuses(id) /\ \A known \in records : known[1] # id[1]
  THEN record_limit_reached' = TRUE /\ UNCHANGED records
  ELSE records' = With(records, id) /\ UNCHANGED record_limit_reached

Upsert(id) ==
  IF Refuses(id)
  THEN record_limit_reached' = TRUE /\ UNCHANGED records
  ELSE records' = With(records, id) /\ UNCHANGED record_limit_reached

\* Mutated form: the flag is cleared by any removal, also one that frees nothing.
ReopenAlways == record_limit_reached' = FALSE

reopen_record_capacity ==
  record_limit_reached' =
    (record_limit_reached /\ ~(Cardinality(records') < MAX_DISCOVERED_OCCURRENCES))

Remove(id) ==
  /\ records' = records \ {id}
  /\ reopen_record_capacity

RemoveRegistration(r) ==
  /\ records' = Without(records, r)
  /\ reopen_record_capacity

\* apply_session_end, refresh_services
Cleared ==
  /\ records' = {}
  /\ record_limit_reached' = FALSE

RecordNext ==
  \/ \E id \in EntryId : Upsert(id) \/ Remove(id)
  \/ \E r \in Registrations : RemoveRegistration(r)
  \/ Cleared

RecordSpec == RecordInit /\ [][RecordNext]_recordVars

-----------------------------------------------------------------------------
\* The list never outgrows its ceiling, whichever mix of placeholders, real
\* occurrences and removals arrives (App::drain_discovery, Upsert).
WithinLimit == Cardinality(records) <= MAX_DISCOVERED_OCCURRENCES

\* "Capacity is available again" is said only when it is: no removal lifts the
\* refusal unless it leaves room (App::reopen_record_capacity).
ReopensOnlyWithRoom ==
  [][record_limit_reached /\ ~record_limit_reached' =>
       Cardinality(records') < MAX_DISCOVERED_OCCURRENCES]_recordVars

=============================================================================
