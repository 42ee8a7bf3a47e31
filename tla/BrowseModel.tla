------------------------------- MODULE BrowseModel -------------------------------
(***************************************************************************)
(* The browse state of the app (src/ui/app.rs): rows, cursor, details and  *)
(* modals, while discovery and reloads change the records and rules under  *)
(* them, and the event loop that drains, draws and handles bursts of input.*)
(*                                                                         *)
(* Indices count from 1.  The lines of the details and of the help are     *)
(* abstracted: details_scroll is 0 at the top and 1 anywhere below it.     *)
(* How one drain changes the records is in RecordStore.                    *)
(***************************************************************************)
EXTENDS Screen

CONSTANTS
  Letters,                    \* what may be typed into the search
  Sizes,                      \* rows of the list, and how far the details may scroll
  NoArgv,
  MAX_INPUT_EVENTS_PER_TICK,
  MaxQuery                    \* bound: letters in the query

ASSUME BrowseAssumption ==
  /\ NoArgv \notin UNION {ToSet(Candidates(c, e)) : c \in UNION {ToSet(g) : g \in Engines}, e \in Entry}
  /\ \A g \in Engines : \A i, j \in DOMAIN g : g[i].name = g[j].name => i = j
  /\ Sizes \subseteq Nat \X (0 .. 1)
  /\ MAX_INPUT_EVENTS_PER_TICK \in Nat \ {0}
  /\ MaxQuery \in Nat

VARIABLES
  session,            \* whether discovery is listening, complete or failed
  records,            \* the entries discovery stands behind
  filter,             \* what the list is narrowed to, and the active tab
  engine,             \* the commands in force
  discovered_types,   \* the rows of the type filter
  tab_counts,         \* the rows each tab has
  rows,               \* the rows of a browse tab with their matches
  command_groups,     \* the rows of the command tab
  selected,           \* the cursor in the active list
  details_scroll,
  modal,              \* the open interaction and its data (of the type filter, type_filter_index)
  layout,             \* the list of the last frame, and its bounds
  drawn,              \* history: what the last frame said, until something changes
  dirty,              \* must a frame be drawn?
  phase,              \* where the event loop is
  handled,            \* input events handled in this tick
  ran                 \* history: the argv this step ran

dataVars == <<session, records, filter, engine>>
rowVars == <<discovered_types, tab_counts, rows, command_groups>>
listVars == <<rowVars, selected, details_scroll>>
frameVars == <<layout, drawn, dirty>>
loopVars == <<frameVars, phase, handled>>
vars == <<dataVars, listVars, modal, loopVars, ran>>

RecordSets == {S \in SUBSET Entry : \A a, b \in S : a.id = b.id => a = b}

PICKERS == {"ActionPicker", "InstancePicker", "ServicePicker"}
PLAIN == {"Browse", "Search", "TypeFilter", "Help"}

Plain(mode) == [mode |-> mode]

RowAnchor(id) == [kind |-> "row", row |-> id]
ServiceAnchor(command, id) == [kind |-> "service", command |-> command.name, service |-> id]

\* A pop-up is given as many rows as the list.
LayoutOf(shown, index, size) ==
  [shown |-> shown, height |-> size[1], max_scroll |-> size[2],
   offset |-> W!containing(Len(shown), size[1], index - 1).offset]

NoLayout == LayoutOf(<<>>, 1, <<0, 0>>)

\* What a frame is drawn from.
AppAt(scroll, bounds) ==
       [session |-> session, filter |-> filter, tab_counts |-> tab_counts,
        discovered_types |-> discovered_types, rows |-> rows, command_groups |-> command_groups,
        selected |-> selected, details_scroll |-> scroll, modal |-> modal, layout |-> bounds]

App == AppAt(details_scroll, layout)

\* A layout that will be replaced before it is used again is not remembered.
MustDraw ==
  /\ dirty' = TRUE
  /\ drawn' = NoFrame
  /\ layout' = NoLayout

BrowseInit ==
  /\ session = "Listening"
  /\ records = {}
  /\ filter = [query |-> <<>>, disabled |-> {}, host |-> NoHost, grouping |-> TABS[1]]
  /\ engine \in Engines
  /\ discovered_types = observe_types[{}]
  /\ tab_counts = TabCounts(engine, {})
  /\ rows = Rows[engine][{}][TABS[1]]
  /\ command_groups = <<>>
  /\ selected = 1
  /\ details_scroll = 0
  /\ modal = Plain("Browse")
  /\ layout = NoLayout
  /\ drawn = NoFrame
  /\ dirty = TRUE
  /\ phase = "reload"
  /\ handled = 0
  /\ ran = NoArgv

-----------------------------------------------------------------------------
(* Indices and identities.                                                 *)

Smaller(a, b) == IF a < b THEN a ELSE b
Larger(a, b) == IF a > b THEN a ELSE b

move_index(index, len, delta) ==
  IF len = 0 THEN 1 ELSE Larger(1, Smaller(index + delta, len))

clamp(index, len) == IF len = 0 THEN 1 ELSE Smaller(index, len)

\* What identifies a row or a service, and a match or a group of a command.
row_id(row) == row.id
command_name(group) == group.command.name

ids(items) == [i \in DOMAIN items |-> row_id(items[i])]
names(items) == [i \in DOMAIN items |-> command_name(items[i])]

\* The key at the index, if there is one.
At(keys, index) == IF index \in DOMAIN keys THEN {keys[index]} ELSE {}

\* Whether a wanted key is still there, and where; keys are unique.
Present(keys, wanted) == \E i \in DOMAIN keys : keys[i] \in wanted
Position(keys, wanted) == CHOOSE i \in DOMAIN keys : keys[i] \in wanted

\* Mutated form: the cursor stays where it is in the list.
find_by_position(keys, wanted, index) == clamp(index, Len(keys))

\* The cursor follows the item it was on, or else stays inside the list.
find_selection(keys, wanted, index) ==
  IF Present(keys, wanted) THEN Position(keys, wanted) ELSE clamp(index, Len(keys))

IsCommandTab == filter.grouping = "command"

\* The ids of the active list.
ActiveIds ==
  IF IsCommandTab THEN names(command_groups) ELSE ids(rows)

-----------------------------------------------------------------------------
(* Keeping open pickers on what was chosen.                                *)

\* The item of that key, if it is still there.
Found(items, keys, key) ==
  IF Present(keys, {key}) THEN {items[Position(keys, {key})]} ELSE {}

resolve_anchor(anchor, new_rows, new_groups, rules) ==
  LET row == Found(new_rows, ids(new_rows), anchor.row)
      group == Found(new_groups, names(new_groups), anchor.command)
      services == UNION {Found(g.services, ids(g.services), anchor.service) : g \in group}
      now == matches_group[rules][(CHOOSE s \in services : TRUE).instances]
  IN IF anchor.kind = "row"
     THEN IF row = {} THEN <<>> ELSE (CHOOSE r \in row : TRUE).matches
     ELSE IF services = {} THEN <<>>
          ELSE ItemsAt(now, {i \in DOMAIN now : command_name(now[i]) = anchor.command})

\* Mutated form: an open picker keeps what it listed when it was opened.
KeepListed(open, new_rows, new_groups, rules) ==
  IF open.mode \in {"ActionPicker", "InstancePicker"} /\ resolve_anchor(open.anchor, new_rows, new_groups, rules) = <<>>
  THEN Plain("Browse") ELSE open

\* Mutated form: a picker closes when what it lists changes.
CloseOnChange(open, new_rows, new_groups, rules) ==
  LET live == resolve_anchor(open.anchor, new_rows, new_groups, rules)
  IN CASE open.mode = "ActionPicker" -> IF live = open.matches THEN open ELSE Plain("Browse")
       [] open.mode = "InstancePicker" ->
            IF open.action \in ToSet(live) THEN open ELSE Plain("Browse")
       [] OTHER -> open

\* Mutated form: an open picker keeps its index into what it lists now.
KeepIndex(open, new_rows, new_groups, rules) ==
  LET live == resolve_anchor(open.anchor, new_rows, new_groups, rules)
      named == {match \in ToSet(live) : match.command.name = open.action.command.name}
  IN CASE open.mode = "ActionPicker" ->
            IF open.index \in DOMAIN live THEN [open EXCEPT !.matches = live] ELSE Plain("Browse")
       [] open.mode = "InstancePicker" ->
            IF \E match \in named : open.index \in DOMAIN match.targets
            THEN [open EXCEPT !.action = CHOOSE match \in named : TRUE] ELSE Plain("Browse")
       [] OTHER -> open

\* An open picker lists what matches now, on the choice it was on, or closes.
reconcile_action_pickers(open, new_rows, new_groups, rules) ==
  LET live == resolve_anchor(open.anchor, new_rows, new_groups, rules)
      chosen == At(names(open.matches), open.index)
      name == {command_name(open.action)}
      action == live[Position(names(live), name)]
      target == At(open.action.targets, open.index)
  IN CASE open.mode = "ActionPicker" ->
            IF Present(names(live), chosen)
            THEN [mode |-> "ActionPicker", anchor |-> open.anchor, matches |-> live,
                  index |-> Position(names(live), chosen)]
            ELSE Plain("Browse")
       [] open.mode = "InstancePicker" ->
            IF Present(names(live), name) /\ Present(action.targets, target)
            THEN [mode |-> "InstancePicker", anchor |-> open.anchor, action |-> action,
                  index |-> Position(action.targets, target)]
            ELSE Plain("Browse")
       [] OTHER -> open

\* The same for the picker of the services of the selected command.
reconcile_service_picker(open, at, new_groups, now) ==
  LET services == ids(new_groups[now].services)
      chosen == At(ids(command_groups[at].services), open.index)
  IN IF open.mode # "ServicePicker" THEN open
     ELSE IF at \in DOMAIN command_groups /\ now \in DOMAIN new_groups /\ Present(services, chosen)
          THEN [mode |-> "ServicePicker", index |-> Position(services, chosen)]
          ELSE Plain("Browse")

-----------------------------------------------------------------------------
(* recompute_visible, for the new records, filter and engine.              *)

\* Mutated form: the scroll is kept whatever the details are of.
keep_scroll(before, after, scroll) == scroll

refocus_details(before, after, scroll) == IF after = before THEN scroll ELSE 0

RecomputeRows(at, scroll, open) ==
  LET new == Rows[engine'][FilteredEntries(filter', records')][filter'.grouping]
      previous == At(ids(rows), at)
      now == find_selection(ids(new), previous, at)
  IN /\ rows' = new
     /\ command_groups' = <<>>
     /\ selected' = now
     /\ details_scroll' = refocus_details(previous, At(ids(new), now), scroll)
     /\ modal' = reconcile_action_pickers(open, new, <<>>, engine')

RecomputeCommandGroups(at, scroll, open) ==
  LET new == CommandRows[engine'][FilteredEntries(filter', records')]
      previous == At(names(command_groups), at)
      now == find_selection(names(new), previous, at)
  IN /\ rows' = <<>>
     /\ command_groups' = new
     /\ selected' = now
     /\ details_scroll' = refocus_details(previous, At(names(new), now), scroll)
     /\ modal' = reconcile_action_pickers(
                   reconcile_service_picker(open, at, new, now), <<>>, new, engine')

recompute_visible(at, scroll, open) ==
  /\ discovered_types' = observe_types[records']
  /\ tab_counts' = TabCounts(engine', FilteredEntries(filter', records'))
  /\ IF filter'.grouping = "command"
     THEN RecomputeCommandGroups(at, scroll, open)
     ELSE RecomputeRows(at, scroll, open)

Recomputed == recompute_visible(selected, details_scroll, modal)

ClosedPickers == IF modal.mode \in PICKERS THEN Plain("Browse") ELSE modal

-----------------------------------------------------------------------------
(* The tick: poll_reload, drain_discovery, then a frame if anything changed. *)

\* A rule set that does not load as a whole leaves the one in force.
PollReload ==
  /\ phase = "reload"
  /\ phase' = "drain"
  /\ UNCHANGED <<session, records, filter, handled>>
  /\ \/ /\ engine' \in Engines
        /\ recompute_visible(selected, details_scroll, ClosedPickers)
        /\ MustDraw
     \/ /\ UNCHANGED <<engine, listVars, modal>>
        /\ MustDraw \/ UNCHANGED frameVars

\* Mutated form: only what changes the records is drawn.
drain_records ==
  /\ phase = "drain"
  /\ phase' = "draw"
  /\ UNCHANGED <<filter, engine, handled>>
  /\ \/ UNCHANGED <<session, records, listVars, modal, frameVars>>
     \/ /\ session' \in {"Listening", "Failed"}
        /\ records' \in IF session' = "Failed" THEN {{}} ELSE RecordSets
        /\ recompute_visible(selected, details_scroll, IF session' = "Failed" THEN ClosedPickers ELSE modal)
        /\ IF records' # records THEN MustDraw ELSE UNCHANGED frameVars

\* Nothing; events of a session that listens, with whatever they leave of the
\* records; its end; or its failure, which clears them.  An end that comes in
\* one drain with events is two drains here.
drain_discovery ==
  /\ phase = "drain"
  /\ phase' = "draw"
  /\ UNCHANGED <<filter, engine, handled>>
  /\ \/ UNCHANGED <<session, records, listVars, modal, frameVars>>
     \/ /\ session = "Listening"
        /\ MustDraw
        /\ \/ /\ UNCHANGED session
              /\ records' \in RecordSets
              /\ Recomputed
           \/ /\ session' = "Complete"
              /\ UNCHANGED <<records, listVars, modal>>
           \/ /\ session' = "Failed"
              /\ records' = {}
              /\ recompute_visible(selected, details_scroll, ClosedPickers)

Draw ==
  /\ phase = "draw"
  /\ phase' = "input"
  /\ dirty' = FALSE
  /\ IF dirty
     THEN \E size \in Sizes :
            /\ layout' = LayoutOf(ActiveIds, selected, size)
            /\ details_scroll' = Smaller(details_scroll, size[2])
            /\ drawn' = render(AppAt(details_scroll', layout'))
     ELSE UNCHANGED <<layout, details_scroll, drawn>>
  /\ UNCHANGED <<dataVars, rowVars, selected, modal, handled>>

\* No more input is waiting, or as much was handled as one tick may.
InputEnds ==
  /\ phase = "input"
  /\ phase' = "reload"
  /\ handled' = 0
  /\ IF dirty THEN MustDraw ELSE UNCHANGED frameVars
  /\ UNCHANGED <<dataVars, listVars, modal>>

-----------------------------------------------------------------------------
(* Input events.                                                           *)

Input(mode) ==
  /\ phase = "input"
  /\ handled < MAX_INPUT_EVENTS_PER_TICK
  /\ modal.mode = mode
  /\ handled' = handled + 1
  /\ dirty' = TRUE
  /\ drawn' = NoFrame
  /\ layout' = IF handled' < MAX_INPUT_EVENTS_PER_TICK THEN layout ELSE NoLayout

Quit ==
  /\ phase = "input"
  /\ handled < MAX_INPUT_EVENTS_PER_TICK
  /\ phase' = "left"
  /\ UNCHANGED <<dataVars, listVars, modal, frameVars, handled>>

move_selection(delta) ==
  /\ selected' = move_index(selected, Len(ActiveIds), delta)
  /\ details_scroll' = 0

scroll_details_by(delta) ==
  /\ details_scroll' = Larger(0, Smaller(details_scroll + delta, layout.max_scroll))
  /\ UNCHANGED selected

\* Keys and the wheel over the list or over the details.
Navigate ==
  /\ \E mode \in {"Browse", "Search"} : Input(mode)
  /\ \E delta \in {-1, 1} : move_selection(delta) \/ scroll_details_by(delta)
  /\ UNCHANGED <<dataVars, rowVars, modal, phase>>

\* A click on the y-th row of the list, as the layout has it.
Click(y) ==
  /\ \E mode \in {"Browse", "Search"} : Input(mode)
  /\ \E index \in W!list_row_at(W!containing(Len(layout.shown), layout.height, selected - 1), 0, y) :
       selected' = index + 1
  /\ details_scroll' = 0
  /\ UNCHANGED <<dataVars, rowVars, modal, phase>>

Open(mode) ==
  /\ Input("Browse")
  /\ modal' = IF mode = "TypeFilter" THEN [mode |-> mode, index |-> 1] ELSE Plain(mode)
  /\ UNCHANGED <<dataVars, listVars, phase>>

return_to_browse ==
  /\ \E mode \in (PLAIN \ {"Browse"}) \cup PICKERS : Input(mode)
  /\ modal' = Plain("Browse")
  /\ UNCHANGED <<dataVars, listVars, phase>>

Refilter(new) ==
  /\ filter' = new
  /\ UNCHANGED <<session, records, engine, phase>>

\* A letter in Browse opens the search with it.
TypeLetter(letter) ==
  /\ Len(filter.query) < MaxQuery
  /\ \E mode \in {"Browse", "Search"} : Input(mode)
  /\ Refilter([filter EXCEPT !.query = Append(@, letter)])
  /\ recompute_visible(selected, details_scroll, Plain("Search"))

ShortenQuery ==
  /\ Input("Search")
  /\ \E query \in {<<>>} \cup {Front(q) : q \in {filter.query} \ {<<>>}} :
       Refilter([filter EXCEPT !.query = query])
  /\ Recomputed

MoveTypeFilter(delta) ==
  /\ Input("TypeFilter")
  /\ modal' = [modal EXCEPT !.index = move_index(@, Len(discovered_types), delta)]
  /\ UNCHANGED <<dataVars, listVars, phase>>

ToggleType ==
  /\ Input("TypeFilter")
  /\ modal.index \in DOMAIN discovered_types
  /\ LET type == discovered_types[modal.index][2]
     IN Refilter([filter EXCEPT !.disabled =
                    IF type \in @ THEN @ \ {type} ELSE @ \cup {type}])
  /\ Recomputed

\* Mutated form: the list of the other tab is not computed.
cycle_tab_in_place(delta) ==
  LET tab == CHOOSE i \in DOMAIN TABS : TABS[i] = filter.grouping
  IN /\ Input("Browse")
     /\ Refilter([filter EXCEPT !.grouping = TABS[((tab - 1 + delta) % 4) + 1]])
     /\ UNCHANGED <<listVars, modal>>

cycle_tab(delta) ==
  LET tab == CHOOSE i \in DOMAIN TABS : TABS[i] = filter.grouping
  IN /\ Input("Browse")
     /\ Refilter([filter EXCEPT !.grouping = TABS[((tab - 1 + delta) % 4) + 1]])
     /\ recompute_visible(1, 0, modal)

toggle_same_host_filter ==
  /\ Input("Browse")
  /\ \/ /\ filter.host # NoHost
        /\ Refilter([filter EXCEPT !.host = NoHost])
     \/ /\ filter.host = NoHost
        /\ selected \in DOMAIN rows
        /\ rows[selected].host \notin {NoHost, "varies"}
        /\ Refilter([filter EXCEPT !.host = rows[selected].host])
  /\ Recomputed

\* The replacement of the session is in DiscoveryLifecycle.
refresh_services ==
  /\ Input("Browse")
  /\ session' = "Listening"
  /\ records' = {}
  /\ UNCHANGED <<filter, engine, phase>>
  /\ recompute_visible(1, 0, ClosedPickers)

-----------------------------------------------------------------------------
(* Keys that may run a command.                                            *)

\* It is forked, handed off, or cannot be run.
execute_action(command, target) ==
  \/ /\ command.forks
     /\ ran' = target
     /\ modal' = Plain("Browse")
     /\ UNCHANGED phase
  \/ /\ ~command.forks
     /\ ran' = target
     /\ phase' = "left"
     /\ UNCHANGED modal
  \/ /\ ran' = NoArgv
     /\ modal' = Plain("Browse")
     /\ UNCHANGED phase

show(picker) ==
  /\ modal' = picker
  /\ ran' = NoArgv
  /\ UNCHANGED phase

\* Mutated form: nobody is asked which target is meant.
choose_first(match, anchor) == execute_action(match.command, match.targets[1])

choose_action(match, anchor) ==
  IF Len(match.targets) > 1
  THEN show([mode |-> "InstancePicker", anchor |-> anchor, action |-> match, index |-> 1])
  ELSE execute_action(match.command, match.targets[1])

run_command_on(command, service) ==
  LET result == matches_group[engine][service.instances]
      found == Found(result, names(result), command.name)
  IN \/ found = {} /\ show(Plain("Browse"))
     \/ \E match \in found : choose_action(match, ServiceAnchor(command, service.id))

invoke_row(row) ==
  CASE Len(row.matches) = 0 -> show(modal)
    [] Len(row.matches) = 1 -> choose_action(row.matches[1], RowAnchor(row.id))
    [] OTHER -> show([mode |-> "ActionPicker", anchor |-> RowAnchor(row.id),
                       matches |-> row.matches, index |-> 1])

invoke_command(group) ==
  CASE Len(group.services) = 0 -> show(modal)
    [] Len(group.services) = 1 -> run_command_on(group.command, group.services[1])
    [] OTHER -> show([mode |-> "ServicePicker", index |-> 1])

Unmoved == UNCHANGED <<dataVars, listVars>>

invoke_selected ==
  /\ Input("Browse")
  /\ Unmoved
  /\ \/ IsCommandTab /\ selected \in DOMAIN command_groups /\ invoke_command(command_groups[selected])
     \/ ~IsCommandTab /\ selected \in DOMAIN rows /\ invoke_row(rows[selected])

PickerList ==
  CASE modal.mode = "ActionPicker"   -> modal.matches
    [] modal.mode = "InstancePicker" -> modal.action.targets
    [] modal.mode = "ServicePicker"  -> command_groups[selected].services

MovePicker(delta) ==
  /\ \E mode \in PICKERS : Input(mode)
  /\ modal' = [modal EXCEPT !.index = move_index(@, Len(PickerList), delta)]
  /\ UNCHANGED phase
  /\ Unmoved

PickerSelect ==
  /\ \E mode \in PICKERS : Input(mode)
  /\ Unmoved
  /\ CASE modal.mode = "ActionPicker"   -> choose_action(PickerList[modal.index], modal.anchor)
       [] modal.mode = "InstancePicker" -> execute_action(modal.action.command, PickerList[modal.index])
       [] modal.mode = "ServicePicker"  ->
            run_command_on(command_groups[selected].command, PickerList[modal.index])

Tick == PollReload \/ drain_discovery \/ Draw \/ InputEnds

QuietKey ==
  \/ Navigate \/ ShortenQuery \/ ToggleType \/ toggle_same_host_filter
  \/ refresh_services \/ return_to_browse \/ Quit
  \/ \E y \in 1 .. layout.height : Click(y)
  \/ \E mode \in PLAIN \ {"Browse"} : Open(mode)
  \/ \E letter \in Letters : TypeLetter(letter)
  \/ \E delta \in {-1, 1} : MoveTypeFilter(delta) \/ cycle_tab(delta) \/ MovePicker(delta)

\* The app has handed off or quit.
Left == phase = "left" /\ UNCHANGED vars

BrowseNext ==
  \/ (Tick \/ QuietKey) /\ ran' = NoArgv
  \/ invoke_selected \/ PickerSelect
  \/ Left

BrowseSpec == BrowseInit /\ [][BrowseNext]_vars

-----------------------------------------------------------------------------
(* Safety.                                                                 *)

\* What the lists cache is what the records, the filter and the rules in force
\* say now, in whichever tab (App::rows, command_groups, tab_counts and the
\* discovered types of the filter).
ListsAreCurrent ==
  LET entries == FilteredEntries(filter, records)
  IN /\ discovered_types = observe_types[records]
     /\ tab_counts = TabCounts(engine, entries)
     /\ IF IsCommandTab
        THEN rows = <<>> /\ command_groups = CommandRows[engine][entries]
        ELSE rows = Rows[engine][entries][filter.grouping] /\ command_groups = <<>>

\* An open picker points at something, and lists what its anchor matches now,
\* never what was true when it was opened (PickerAnchor, reconcile_action_pickers).
PickersAreLive ==
  /\ modal.mode \in PICKERS => modal.index \in DOMAIN PickerList
  /\ modal.mode \in {"ActionPicker", "InstancePicker"} =>
       LET live == resolve_anchor(modal.anchor, rows, command_groups, engine)
       IN IF modal.mode = "ActionPicker" THEN modal.matches = live
          ELSE modal.action \in ToSet(live)

\* What the pending Enter of an open picker is about.
Chosen ==
  CASE modal.mode = "ActionPicker"   -> <<modal.anchor, command_name(PickerList[modal.index])>>
    [] modal.mode = "InstancePicker" -> <<command_name(modal.action), PickerList[modal.index]>>
    [] modal.mode = "ServicePicker"  -> <<ActiveIds[selected], row_id(PickerList[modal.index])>>
    [] OTHER -> NoArgv

\* Nothing that discovery or a reload does hands a pending Enter to another
\* command, target or service: the picker stays on its choice or closes.
NeverRetargets ==
  [][(phase \in {"reload", "drain"} /\ modal'.mode = modal.mode) => Chosen' = Chosen]_vars

\* Only what some entry still listed can be run by a rule in force is run, and
\* a choice between several targets was the user's.
RunsOnlyTheLive ==
  [][ran' # NoArgv =>
       /\ \E entry \in FilteredEntries(filter, records), command \in ToSet(engine) :
            ran' \in ToSet(Candidates(command, entry))
       /\ modal.mode # "InstancePicker" /\ ~IsCommandTab =>
            \E match \in ToSet(rows[selected].matches) : match.targets = <<ran'>>]_vars

\* The cursor stays on its row through everything discovery, a reload or a
\* change of the filter does to the list, unless that row goes (find_selection).
CursorFollowsRow ==
  [][((phase # "input" \/ filter' # filter) /\ filter'.grouping = filter.grouping
      /\ selected \in DOMAIN ActiveIds /\ ActiveIds[selected] \in ToSet(ActiveIds'))
       => ActiveIds'[selected'] = ActiveIds[selected]]_vars

\* A place in the details belongs to the row it was scrolled in
\* (refocus_details, move_selection, select_tab).
ScrollBelongsToRow ==
  [][At(ActiveIds', selected') # At(ActiveIds, selected)
       => details_scroll' = 0]_vars

\* What the frame says is so: no change of the records, the session, the rules,
\* the filter or a pop-up is left undrawn when the app waits (App::run, dirty).
DrawnIsSo == phase = "input" /\ handled = 0 => drawn = render(App)

\* Its tabs count what they list (render_top_bar: "a count can never contradict
\* the list behind its tab"), and what is selected in the list is in sight.
FrameIsCurrent ==
  /\ DrawnIsSo
  /\ drawn # NoFrame =>
       /\ \A i \in DOMAIN TABS : TABS[i] = drawn.top.active =>
            IF drawn.list.title = <<>> THEN drawn.top.counts[i] = 0 \/ layout.height = 0
            ELSE drawn.top.counts[i] = drawn.list.title[3]
       /\ selected \in DOMAIN ActiveIds /\ layout.height > 0 =>
            \E line \in ToSet(drawn.list.lines) : {line.id} = At(ActiveIds, drawn.list.selected)

\* What discovery does elsewhere leaves an open picker open: it closes only
\* when what was chosen in it is gone (reconcile_action_pickers).
PickerOutlivesTheRest ==
  [][(phase = "drain" /\ modal.mode \in {"ActionPicker", "InstancePicker"} /\ modal' = Plain("Browse"))
       => \A match \in ToSet(resolve_anchor(modal.anchor, rows', command_groups', engine')) :
            IF modal.mode = "ActionPicker"
            THEN command_name(match) # command_name(PickerList[modal.index])
            ELSE command_name(match) = command_name(modal.action)
                   => PickerList[modal.index] \notin ToSet(match.targets)]_vars

\* layout.rs says of list_window: "Both the renderer's row slice and the click
\* hit test below come from this, so a click lands on the row the user sees by
\* construction."
ClickHitsWhatIsSeen ==
  [][\A y \in 1 .. layout.height :
       Click(y) /\ ActiveIds = layout.shown => At(ActiveIds', selected') = {layout.shown[layout.offset + y]}]_vars

=============================================================================
