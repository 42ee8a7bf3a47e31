------------------------------ MODULE EventStream ------------------------------
(***************************************************************************)
(* Discovery events with their content, on their way from a browse loop    *)
(* through the inbox to the app's records.  Cancellation and the worker    *)
(* around the loop are in DiscoveryLifecycle.                              *)
(***************************************************************************)
EXTENDS RecordStore, Sequences

CONSTANTS
  EVENT_CAPACITY  \* slots of the inbox

ASSUME StreamAssumption == EVENT_CAPACITY \in Nat \ {0}

VARIABLES
  inbox,   \* events sent and not yet applied
  loop,    \* "browsing"; "over"; "ended" once the app has been told
  refused  \* history: has the app ignored an occurrence of this session?

streamVars == <<recordVars, inbox, loop, refused>>

Event ==
  [kind : {"Upsert", "Remove"}, id : EntryId] \cup
  [kind : {"RemoveRegistration"}, registration : Registrations] \cup
  [kind : {"Status"}]

StreamTypeOK ==
  /\ RecordTypeOK
  /\ inbox \in Seq(Event)
  /\ loop \in {"browsing", "over", "ended"}
  /\ refused \in BOOLEAN

StreamInit ==
  /\ RecordInit
  /\ inbox = <<>>
  /\ loop = "browsing"
  /\ refused = FALSE

UpsertEvent(id) == [kind |-> "Upsert", id |-> id]

RemoveEvent(id) == [kind |-> "Remove", id |-> id]

RemoveRegistrationEvent(r) == [kind |-> "RemoveRegistration", registration |-> r]

StatusEvent == [kind |-> "Status"]

HasRoom == Len(inbox) < EVENT_CAPACITY

\* A send that fails ends the loop, and with it the session.
Send(event) ==
  IF HasRoom THEN inbox' = Append(inbox, event) /\ UNCHANGED loop
  ELSE loop' = "over" /\ UNCHANGED inbox

LoopEnds ==
  /\ loop = "browsing"
  /\ loop' = "over"
  /\ UNCHANGED <<recordVars, inbox, refused>>

-----------------------------------------------------------------------------
(* App::drain_discovery.                                                   *)

Apply(event) ==
  CASE event.kind = "Upsert"             -> Upsert(event.id)
    [] event.kind = "Remove"             -> Remove(event.id)
    [] event.kind = "RemoveRegistration" -> RemoveRegistration(event.registration)
    [] event.kind = "Status"             -> UNCHANGED recordVars

Drain ==
  /\ inbox # <<>>
  /\ Apply(Head(inbox))
  /\ inbox' = Tail(inbox)
  /\ refused' = (refused \/ record_limit_reached')
  /\ UNCHANGED loop

\* The loops modelled with this stream only ever fail.
DrainEnd ==
  /\ inbox = <<>>
  /\ loop = "over"
  /\ loop' = "ended"
  /\ Cleared
  /\ UNCHANGED <<inbox, refused>>

\* refresh_services: the records go, and with the old session what it had sent.
Restart ==
  /\ Cleared
  /\ inbox' = <<>>
  /\ loop' = "browsing"
  /\ refused' = FALSE

-----------------------------------------------------------------------------
\* Does applying the event take the record off the list?
Drops(event, id) ==
  CASE event.kind = "Status"             -> FALSE
    [] event.kind = "Upsert"             -> is_pending(id) /\ event.id # id /\ event.id[1] = id[1]
    [] event.kind = "Remove"             -> event.id = id
    [] event.kind = "RemoveRegistration" -> event.registration = id[1]

KeptFrom(i, id) == \A j \in DOMAIN inbox : j >= i => ~Drops(inbox[j], id)

\* Will the record be listed once the app has drained what is in flight?
Lists(id) ==
  \/ id \in records /\ KeptFrom(1, id)
  \/ \E i \in DOMAIN inbox : inbox[i] = UpsertEvent(id) /\ KeptFrom(i, id)

=============================================================================
