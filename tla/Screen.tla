------------------------------- MODULE Screen -------------------------------
(***************************************************************************)
(* What a frame says (src/ui/render.rs): the bars, the list, the details   *)
(* and the pop-up, as pure functions of the app.  Colours, words and       *)
(* columns are left out, and so are the hints, which are in KeyDispatch.   *)
(*                                                                         *)
(* app has the fields of App that are drawn: session, filter, tab_counts,  *)
(* discovered_types, rows, command_groups, selected, details_scroll, modal *)
(* and layout.                                                             *)
(***************************************************************************)
EXTENDS BrowseProjection

W == INSTANCE Viewport

\* The items in a window around the selected one (counted from 1).
Shown(items, height, selected) ==
  LET window == W!containing(Len(items), height, selected - 1)
  IN SubSeq(items, window.offset + 1, window.offset + window.len)

\* Only what moves on the screen claims that the list may still change.
Activity(session) == [state |-> session, animated |-> session = "Listening"]

render_top_bar(app) ==
  [activity |-> Activity(app.session), active |-> app.filter.grouping, counts |-> app.tab_counts]

render_filter_bar(app) ==
  [searching |-> app.modal.mode = "Search", query |-> app.filter.query,
   types |-> type_counts(app.filter, app.discovered_types), host |-> app.filter.host]

-----------------------------------------------------------------------------
(* The list.                                                               *)

services_of(group) == {entry.service : entry \in ToSet(group)}
hosts_of(group) == {entry.host : entry \in ToSet(group)} \ {NoHost}
types_of(group) == {entry.type : entry \in ToSet(group)}

\* A service has one type and one host to name; the others count their children.
service_row(row, mode) ==
  [id |-> row.id, occurrences |-> Len(row.instances), matches |-> Len(row.matches),
   about |-> CASE mode = "service" -> <<types_of(row.instances), row.host>>
               [] mode = "host" -> <<Cardinality(services_of(row.instances)), types_of(row.instances)>>
               [] mode = "type" -> <<Cardinality(services_of(row.instances)), Cardinality(hosts_of(row.instances))>>]

\* What describes a command in its own row, and what describes it among the actions
\* of a service: the rule's words and the action's, the other way round.
First(words) == LET said == SelectSeq(words, LAMBDA w : w # "") IN SubSeq(said, 1, W!Least(1, Len(said)))
command_description(command) == First(<<command.words.rule, command.words.action>>)
action_description(command) == First(<<command.words.action, command.words.rule>>)

command_row(group) ==
  [id |-> group.command.name, services |-> Len(group.services),
   about |-> command_description(group.command)]

\* Why the list is empty: the filters first, then discovery, as the top bar has it.
session_lines(app) == <<Activity(app.session).state>>

EmptyList(app) ==
  IF is_active(app.filter, app.discovered_types) THEN <<"filtered">> ELSE session_lines(app)

render_list_panel(app, lines, empty) ==
  LET height == app.layout.height
      window == W!containing(Len(lines), height, app.selected - 1)
  IN [lines |-> Shown(lines, height, app.selected),
      selected |-> app.selected,
      title |-> W!list_title(Len(lines), app.selected - 1, height),
      scrollbar |-> W!render_scrollbar(Len(lines), height, window.offset),
      empty |-> IF lines = <<>> THEN empty ELSE <<>>]

render_services(app) ==
  render_list_panel(app, [i \in DOMAIN app.rows |-> service_row(app.rows[i], app.filter.grouping)],
                    EmptyList(app))

render_commands(app) ==
  render_list_panel(app, [i \in DOMAIN app.command_groups |-> command_row(app.command_groups[i])],
                    <<"no commands">>)

-----------------------------------------------------------------------------
(* The details of what is selected.                                        *)

\* The services of a row, each with its occurrences, and with its host unless
\* that is the row.
push_child_service_rows(group, endpoint) ==
  {[service |-> service,
    occurrences |-> Cardinality({i \in DOMAIN group : group[i].service = service}),
    host |-> IF endpoint = "PortOnly" THEN {}
             ELSE hosts_of(SelectSeq(group, LAMBDA entry : entry.service = service))] : service \in services_of(group)}

\* TXT data is in RowDetails.
push_logical_service_rows(group) ==
  [type |-> group[1].type, host |-> group[1].host, occurrences |-> ToSet(group)]

push_host_rows(group) ==
  [host |-> group[1].host, seen |-> Len(group), services |-> push_child_service_rows(group, "PortOnly")]

push_service_type_rows(group) ==
  [type |-> group[1].type, hosts |-> Cardinality(hosts_of(group)), seen |-> Len(group),
   services |-> push_child_service_rows(group, "HostAndPort")]

needs_selection(match) == Len(match.targets) > 1

action_row(match) == <<match.command.name, match.command.forks, action_description(match.command)>>

push_action_rows(matches) == [i \in DOMAIN matches |-> action_row(matches[i])]

detail_rows(row, mode) ==
  [id |-> row.id,
   facts |-> CASE mode = "service" -> push_logical_service_rows(row.instances)
               [] mode = "host"    -> push_host_rows(row.instances)
               [] mode = "type"    -> push_service_type_rows(row.instances),
   actions |-> push_action_rows(row.matches)]

host_text(group) == hosts_of(group.instances)

command_detail_rows(group) ==
  [id |-> group.command.name,
   mode |-> group.command.forks, about |-> command_description(group.command),
   services |-> [i \in DOMAIN group.services |-> <<group.services[i].id, host_text(group.services[i])>>]]

\* The rows of what is selected, if anything is.
DetailsContent(app) ==
  LET at == app.selected
  IN IF app.filter.grouping = "command"
     THEN IF at \in DOMAIN app.command_groups THEN <<command_detail_rows(app.command_groups[at])>> ELSE <<>>
     ELSE IF at \in DOMAIN app.rows THEN <<detail_rows(app.rows[at], app.filter.grouping)>> ELSE <<>>

\* The window that the scroll keys are held to, and its scrollbar: one line in view,
\* and as many more as one may scroll.
render_detail_rows(app, rows) ==
  LET window == W!window_at(app.layout.max_scroll + 1, 1, app.details_scroll)
  IN [of |-> rows, from |-> window.offset, scrollbar |-> W!render_scrollbar(window.total, 1, window.offset)]

\* With nothing selected there is nothing to scroll in, whatever the place was.
render_details(app) ==
  LET rows == DetailsContent(app)
  IN IF rows = <<>> THEN [of |-> <<"no service selected">>] ELSE render_detail_rows(app, rows)

render_command_details(app) ==
  LET rows == DetailsContent(app)
  IN IF rows = <<>> THEN [of |-> <<"no command selected">>] ELSE render_detail_rows(app, rows)

-----------------------------------------------------------------------------
(* The pop-ups: windows onto what there is to choose from.                 *)

render_picker(app, lines) ==
  <<[index |-> app.modal.index,
     about |-> W!render_popup(W!containing(Len(lines), app.layout.height, app.modal.index - 1)),
     lines |-> Shown(lines, app.layout.height, app.modal.index)]>>

render_type_filter(app) ==
  LET types == app.discovered_types
  IN render_picker(app, [i \in DOMAIN types |-> <<types[i], is_enabled(app.filter, types[i][2])>>])

render_action_picker(app) ==
  LET matches == app.modal.matches
  IN render_picker(app, [i \in DOMAIN matches |-> <<matches[i].command.name, needs_selection(matches[i])>>])

render_instance_picker(app) == render_picker(app, app.modal.action.targets)

render_service_picker(app) ==
  LET services == IF app.selected \in DOMAIN app.command_groups
                  THEN app.command_groups[app.selected].services ELSE <<>>
  IN render_picker(app, [i \in DOMAIN services |-> <<services[i].id, host_text(services[i])>>])

PopUp(app) ==
  CASE app.modal.mode = "TypeFilter"     -> render_type_filter(app)
    [] app.modal.mode = "ActionPicker"   -> render_action_picker(app)
    [] app.modal.mode = "InstancePicker" -> render_instance_picker(app)
    [] app.modal.mode = "ServicePicker"  -> render_service_picker(app)
    [] OTHER -> <<>>

render(app) ==
  [top |-> render_top_bar(app),
   filters |-> render_filter_bar(app),
   list |-> IF app.filter.grouping = "command" THEN render_commands(app) ELSE render_services(app),
   details |-> IF app.filter.grouping = "command" THEN render_command_details(app) ELSE render_details(app),
   mode |-> app.modal.mode,
   popup |-> PopUp(app)]

\* Nothing is on the screen that counts.
NoFrame == [mode |-> "none"]
=============================================================================
