------------------------------- MODULE StatusLine -------------------------------
(***************************************************************************)
(* The status line and its writers: the drain, whose end may close an open *)
(* picker, and, between two drains, the user, a reload and a refresh       *)
(* (src/ui/app.rs).  What is drawn is what the last writer left.           *)
(***************************************************************************)
EXTENDS EventStream

VARIABLES
  status,   \* the status line, by who wrote it last
  changed,  \* has this drain changed the records?
  picker    \* is an action, instance or service picker open?

statusVars == <<status, changed, picker>>

\* What the app says of itself, and not of what it discovers.
AppSays == {"picker", "key", "reload"}

StatusTypeOK ==
  /\ status \in AppSays \cup 
       {"start", "adapter", "capped", "reopened", "ended", "refreshing"}
  /\ changed \in BOOLEAN
  /\ picker \in BOOLEAN

\* App::new; note_skipped_configs may have spoken since.
StatusInit ==
  /\ status = "start"
  /\ changed = FALSE
  /\ picker = FALSE

-----------------------------------------------------------------------------
(* drain_discovery.                                                        *)

Lifts == record_limit_reached /\ ~record_limit_reached'

\* Mutated form: an adapter's line is shown whether or not the list is capped.
SaidAlways(event) ==
  CASE event.kind = "Upsert" /\ Refuses(event.id)  -> "capped"
    [] Lifts                                       -> "reopened"
    [] event.kind = "Status"                       -> "adapter"
    [] OTHER                                       -> status

\* The status line once an event has been applied.
Said(event) ==
  CASE event.kind = "Upsert" /\ Refuses(event.id)         -> "capped"
    [] Lifts                                              -> "reopened"
    [] event.kind = "Status" /\ ~record_limit_reached     -> "adapter"
    [] OTHER                                              -> status

\* An accepted upsert counts as a change also when it lists nothing new.
Changes(event) ==
  \/ event.kind = "Upsert" /\ ~Refuses(event.id)
  \/ records' # records

DrainOne ==
  /\ Drain
  /\ status' = Said(Head(inbox))
  /\ changed' = (changed \/ Changes(Head(inbox)))
  /\ UNCHANGED picker

\* The pickers are closed first, so the recompute that ends the drain says
\* nothing over the cause.
DrainEnding ==
  /\ DrainEnd
  /\ status' = "ended"
  /\ changed' = FALSE
  /\ picker' = FALSE

\* recompute_visible, and under it abandon_picker when a picker has lost what it
\* was opened on or what was chosen in it.  Which it is is in BrowseModel: here
\* the picker may stay or go, and goes when nothing is listed.
DrainRecomputes ==
  /\ changed
  /\ changed' = FALSE
  /\ \/ /\ picker => records # {}
        /\ UNCHANGED <<status, picker>>
     \/ /\ picker
        /\ picker' = FALSE
        /\ status' = "picker"
  /\ UNCHANGED streamVars

-----------------------------------------------------------------------------
(* Between two drains, on the same thread.                                 *)

OpenPicker ==
  /\ ~changed /\ ~picker /\ records # {}
  /\ picker' = TRUE
  /\ UNCHANGED <<streamVars, status, changed>>

ClosePicker ==
  /\ ~changed /\ picker
  /\ picker' = FALSE
  /\ UNCHANGED <<streamVars, status, changed>>

\* A launch, a failure, the host filter, or nothing to act on: none leaves a
\* picker open.
KeySays ==
  /\ ~changed
  /\ status' = "key"
  /\ picker' = FALSE
  /\ UNCHANGED <<streamVars, changed>>

\* reload_config closes the pickers when it has loaded.
Reload ==
  /\ ~changed
  /\ status' = "reload"
  /\ picker' \in {FALSE, picker}
  /\ UNCHANGED <<streamVars, changed>>

\* A key of the browse mode, where no picker is open.
RefreshServices ==
  /\ ~changed /\ ~picker
  /\ Restart
  /\ status' = "refreshing"
  /\ UNCHANGED <<changed, picker>>

-----------------------------------------------------------------------------
\* The notice that the list is capped is true whenever it is shown, and while
\* occurrences are being refused nothing that comes from discovery is said over
\* it: no line of the adapter, no removal that frees nothing, no news of room or
\* of an end.  What the app says of a picker, a key or a reload does replace it,
\* although the flag stays (App::record_limit_reached).
CapNoticeIsTrue ==
  /\ status = "capped" => record_limit_reached
  /\ record_limit_reached => status \in AppSays \cup {"capped"}

=============================================================================
