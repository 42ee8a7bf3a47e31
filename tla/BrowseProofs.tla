------------------------------ MODULE BrowseProofs ------------------------------
(***************************************************************************)
(* Proofs about BrowseModel, for every set of entries, rules, letters and  *)
(* terminals: the lists are those of the records, the frame is that of the *)
(* app, the place in the details is that of the row, and the cursor and    *)
(* the open pickers stay on what was chosen.                               *)
(***************************************************************************)
EXTENDS BrowseModel, SequenceProofs

-----------------------------------------------------------------------------
(* Every step rebuilds the lists or leaves them and what they are made of. *)

Rebuilt == \E at, scroll, open : recompute_visible(at, scroll, open)

Kept == UNCHANGED <<records, filter, engine, rowVars>>

LEMMA KeyShape ==
  ASSUME QuietKey PROVE Rebuilt \/ Kept
<1> USE DEF Rebuilt, Kept, rowVars, listVars, dataVars, Recomputed, Refilter
<1>1. CASE Navigate BY <1>1 DEF Navigate
<1>2. CASE ShortenQuery BY <1>2 DEF ShortenQuery
<1>3. CASE ToggleType BY <1>3 DEF ToggleType
<1>4. CASE toggle_same_host_filter BY <1>4 DEF toggle_same_host_filter
<1>5. CASE refresh_services BY <1>5 DEF refresh_services
<1>6. CASE return_to_browse BY <1>6 DEF return_to_browse
<1>7. CASE Quit BY <1>7 DEF Quit
<1>8. CASE \E y \in 1 .. layout.height : Click(y) BY <1>8 DEF Click
<1>9. CASE \E mode \in PLAIN \ {"Browse"} : Open(mode) BY <1>9 DEF Open
<1>10. CASE \E letter \in Letters : TypeLetter(letter) BY <1>10 DEF TypeLetter
<1>11. CASE \E delta \in {-1, 1} : MoveTypeFilter(delta) BY <1>11 DEF MoveTypeFilter
<1>12. CASE \E delta \in {-1, 1} : cycle_tab(delta) BY <1>12 DEF cycle_tab
<1>13. CASE \E delta \in {-1, 1} : MovePicker(delta) BY <1>13 DEF MovePicker, Unmoved
<1> QED BY <1>1, <1>2, <1>3, <1>4, <1>5, <1>6, <1>7, <1>8, <1>9, <1>10, <1>11, <1>12, <1>13 DEF QuietKey

LEMMA StepShape ==
  ASSUME [BrowseNext]_vars PROVE Rebuilt \/ Kept
<1> USE DEF Rebuilt, Kept, rowVars, listVars, dataVars, Recomputed
<1>1. CASE PollReload BY <1>1 DEF PollReload
<1>2. CASE drain_discovery BY <1>2 DEF drain_discovery
<1>3. CASE Draw BY <1>3 DEF Draw
<1>4. CASE InputEnds BY <1>4 DEF InputEnds
<1>5. CASE QuietKey BY <1>5, KeyShape
<1>6. CASE invoke_selected BY <1>6 DEF invoke_selected, Unmoved
<1>7. CASE PickerSelect BY <1>7 DEF PickerSelect, Unmoved
<1>8. CASE UNCHANGED vars BY <1>8 DEF vars
<1> QED BY <1>1, <1>2, <1>3, <1>4, <1>5, <1>6, <1>7, <1>8 DEF BrowseNext, Tick, Left

(* The lists, the counts on the tabs and the types of the filter are those *)
(* of the records, the filter and the rules in force (recompute_visible).  *)
THEOREM ListsHold == BrowseSpec => []ListsAreCurrent
<1>1. BrowseInit => ListsAreCurrent
  <2> SUFFICES ASSUME BrowseInit PROVE ListsAreCurrent
    OBVIOUS
  <2>1. FilteredEntries(filter, records) = {}
    BY DEF BrowseInit, FilteredEntries
  <2> QED BY <2>1 DEF BrowseInit, ListsAreCurrent, IsCommandTab, TABS
<1>2. ListsAreCurrent /\ [BrowseNext]_vars => ListsAreCurrent'
  <2> SUFFICES ASSUME ListsAreCurrent, [BrowseNext]_vars PROVE ListsAreCurrent'
    OBVIOUS
  <2>1. CASE Rebuilt
    BY <2>1 DEF Rebuilt, recompute_visible, RecomputeRows, RecomputeCommandGroups, ListsAreCurrent, IsCommandTab
  <2>2. CASE Kept
    BY <2>2 DEF Kept, rowVars, ListsAreCurrent, IsCommandTab
  <2> QED BY <2>1, <2>2, StepShape
<1> QED BY <1>1, <1>2, PTL DEF BrowseSpec

-----------------------------------------------------------------------------
(* A frame that needs no redrawing says what is so, and none is waited at  *)
(* that does.                                                              *)

FrameInv ==
  /\ handled \in Nat
  /\ ~dirty => drawn = render(App)
  /\ drawn # NoFrame => drawn = render(App)
  /\ phase = "input" /\ handled = 0 => ~dirty

LEMMA InputShape ==
  ASSUME handled \in Nat, NEW mode, Input(mode)
  PROVE  dirty' /\ drawn' = NoFrame /\ handled' \in Nat \ {0}
  BY DEF Input

LEMMA QuietFrame ==
  ASSUME FrameInv, QuietKey PROVE FrameInv'
<1> USE DEF FrameInv
<1>1. CASE Navigate BY <1>1, InputShape DEF Navigate
<1>2. CASE ShortenQuery BY <1>2, InputShape DEF ShortenQuery
<1>3. CASE ToggleType BY <1>3, InputShape DEF ToggleType
<1>4. CASE toggle_same_host_filter BY <1>4, InputShape DEF toggle_same_host_filter
<1>5. CASE refresh_services BY <1>5, InputShape DEF refresh_services
<1>6. CASE return_to_browse BY <1>6, InputShape DEF return_to_browse
<1>7. CASE Quit
  <2>1. App' = App /\ UNCHANGED <<dirty, drawn, handled>> /\ phase' = "left"
    BY <1>7 DEF Quit, App, AppAt, dataVars, listVars, rowVars, frameVars
  <2> QED BY <2>1, Zenon DEF render
<1>8. CASE \E y \in 1 .. layout.height : Click(y) BY <1>8, InputShape DEF Click
<1>9. CASE \E mode \in PLAIN \ {"Browse"} : Open(mode) BY <1>9, InputShape DEF Open
<1>10. CASE \E letter \in Letters : TypeLetter(letter) BY <1>10, InputShape DEF TypeLetter
<1>11. CASE \E delta \in {-1, 1} : MoveTypeFilter(delta) BY <1>11, InputShape DEF MoveTypeFilter
<1>12. CASE \E delta \in {-1, 1} : cycle_tab(delta) BY <1>12, InputShape DEF cycle_tab
<1>13. CASE \E delta \in {-1, 1} : MovePicker(delta) BY <1>13, InputShape DEF MovePicker
<1> QED BY <1>1, <1>2, <1>3, <1>4, <1>5, <1>6, <1>7, <1>8, <1>9, <1>10, <1>11, <1>12, <1>13 DEF QuietKey

LEMMA FrameHolds == BrowseSpec => []FrameInv
<1>1. BrowseInit => FrameInv
  <2> SUFFICES ASSUME BrowseInit PROVE FrameInv
    OBVIOUS
  <2>1. handled = 0 /\ dirty /\ drawn = NoFrame /\ phase = "reload"
    BY DEF BrowseInit
  <2> QED BY <2>1 DEF FrameInv
<1>2. FrameInv /\ [BrowseNext]_vars => FrameInv'
  <2> SUFFICES ASSUME FrameInv, [BrowseNext]_vars PROVE FrameInv'
    OBVIOUS
  <2>1. CASE PollReload
    <3>1. MustDraw => FrameInv'
      BY <2>1 DEF PollReload, MustDraw, FrameInv
    <3>2. UNCHANGED <<engine, listVars, modal>> /\ UNCHANGED frameVars => FrameInv'
      <4> SUFFICES ASSUME UNCHANGED <<engine, listVars, modal>>, UNCHANGED frameVars PROVE FrameInv'
        OBVIOUS
      <4>1. App' = App
        BY <2>1 DEF PollReload, App, AppAt, listVars, rowVars, frameVars
      <4> QED BY <2>1, <4>1 DEF PollReload, FrameInv, frameVars, render
    <3> QED BY <2>1, <3>1, <3>2 DEF PollReload
  <2>2. CASE drain_discovery
    <3>1. MustDraw => FrameInv'
      BY <2>2 DEF drain_discovery, MustDraw, FrameInv
    <3>2. UNCHANGED <<session, records, listVars, modal, frameVars>> => FrameInv'
      <4> SUFFICES ASSUME UNCHANGED <<session, records, listVars, modal, frameVars>> PROVE FrameInv'
        OBVIOUS
      <4>1. App' = App
        BY <2>2 DEF drain_discovery, App, AppAt, listVars, rowVars, frameVars
      <4> QED BY <2>2, <4>1 DEF drain_discovery, FrameInv, frameVars, render
    <3> QED BY <2>2, <3>1, <3>2 DEF drain_discovery
  <2>3. CASE Draw
    <3>1. ~dirty' /\ handled' \in Nat
      BY <2>3 DEF Draw, FrameInv
    <3>2. CASE dirty
      <4>1. App' = AppAt(details_scroll', layout')
        BY <2>3 DEF Draw, App, AppAt, dataVars, rowVars
      <4>2. drawn' = render(AppAt(details_scroll', layout'))
        BY <2>3, <3>2 DEF Draw
      <4>3. drawn' = render(App')
        BY <4>1, <4>2
      <4> QED BY <3>1, <4>3 DEF FrameInv, render
    <3>3. CASE ~dirty
      <4>1. App' = App /\ drawn' = drawn
        BY <2>3, <3>3 DEF Draw, App, AppAt, dataVars, rowVars
      <4> QED BY <3>1, <3>3, <4>1 DEF FrameInv, render
    <3> QED BY <3>2, <3>3
  <2>4. CASE InputEnds
    <3>1. phase' = "reload" /\ handled' = 0
      BY <2>4 DEF InputEnds
    <3>2. CASE dirty
      BY <2>4, <3>1, <3>2 DEF InputEnds, MustDraw, FrameInv
    <3>3. CASE ~dirty
      <4>1. App' = App /\ UNCHANGED frameVars
        BY <2>4, <3>3 DEF InputEnds, App, AppAt, dataVars, listVars, rowVars, frameVars
      <4> QED BY <3>1, <4>1 DEF FrameInv, frameVars, render
    <3> QED BY <3>2, <3>3
  <2>5. CASE QuietKey
    BY <2>5, QuietFrame
  <2>6. CASE invoke_selected
    BY <2>6, InputShape DEF invoke_selected, FrameInv
  <2>7. CASE PickerSelect
    BY <2>7, InputShape DEF PickerSelect, FrameInv
  <2>8. CASE UNCHANGED vars
    <3>1. App' = App /\ UNCHANGED <<frameVars, phase, handled>>
      BY <2>8 DEF vars, App, AppAt, dataVars, listVars, rowVars, loopVars, frameVars
    <3> QED BY <3>1 DEF FrameInv, frameVars, render
  <2> QED BY <2>1, <2>2, <2>3, <2>4, <2>5, <2>6, <2>7, <2>8 DEF BrowseNext, Tick, Left
<1> QED BY <1>1, <1>2, PTL DEF BrowseSpec

-----------------------------------------------------------------------------
(* What a step does to the cursor: it follows the rows, stays, moves in    *)
(* rows that stay, or starts again at the top of another tab or session.   *)

FilterInv ==
  /\ filter = [query |-> filter.query, disabled |-> filter.disabled,
               host |-> filter.host, grouping |-> filter.grouping]
  /\ \E i \in DOMAIN TABS : filter.grouping = TABS[i]

Follow ==
  /\ filter'.grouping = filter.grouping
  /\ \E open : recompute_visible(selected, details_scroll, open)

Stay ==
  /\ UNCHANGED <<filter, rowVars>>
  /\ \/ selected' = selected
     \/ phase = "input" /\ details_scroll' = 0

Restart ==
  /\ phase = "input"
  /\ filter'.grouping = filter.grouping => filter' = filter
  /\ \E open : recompute_visible(1, 0, open)

LEMMA SameTab ==
  ASSUME FilterInv,
         \/ \E query : filter' = [filter EXCEPT !.query = query]
         \/ \E disabled : filter' = [filter EXCEPT !.disabled = disabled]
         \/ \E host : filter' = [filter EXCEPT !.host = host]
  PROVE  filter'.grouping = filter.grouping /\ FilterInv'
<1>1. CASE \E query : filter' = [filter EXCEPT !.query = query]
  <2> PICK query : filter' = [filter EXCEPT !.query = query]
    BY <1>1
  <2>1. filter' = [query |-> query, disabled |-> filter.disabled, host |-> filter.host, grouping |-> filter.grouping]
    BY DEF FilterInv
  <2> QED BY <2>1 DEF FilterInv
<1>2. CASE \E disabled : filter' = [filter EXCEPT !.disabled = disabled]
  <2> PICK disabled : filter' = [filter EXCEPT !.disabled = disabled]
    BY <1>2
  <2>1. filter' = [query |-> filter.query, disabled |-> disabled, host |-> filter.host, grouping |-> filter.grouping]
    BY DEF FilterInv
  <2> QED BY <2>1 DEF FilterInv
<1>3. CASE \E host : filter' = [filter EXCEPT !.host = host]
  <2> PICK host : filter' = [filter EXCEPT !.host = host]
    BY <1>3
  <2>1. filter' = [query |-> filter.query, disabled |-> filter.disabled, host |-> host, grouping |-> filter.grouping]
    BY DEF FilterInv
  <2> QED BY <2>1 DEF FilterInv
<1> QED BY <1>1, <1>2, <1>3

LEMMA OtherTab ==
  ASSUME FilterInv, NEW delta \in {-1, 1}, cycle_tab(delta)
  PROVE  filter'.grouping # filter.grouping /\ FilterInv'
<1> DEFINE tab == CHOOSE i \in DOMAIN TABS : TABS[i] = filter.grouping
           next == ((tab - 1 + delta) % 4) + 1
<1>1. tab \in 1 .. 4 /\ TABS[tab] = filter.grouping
  BY DEF FilterInv, TABS
<1> HIDE DEF tab
<1>2. next \in 1 .. 4 /\ next # tab
  <2>1. tab = 1 \/ tab = 2 \/ tab = 3 \/ tab = 4
    BY <1>1
  <2>2. delta = 1 \/ delta = -1
    OBVIOUS
  <2>3. CASE delta = 1 BY <2>1, <2>3
  <2>4. CASE delta = -1 BY <2>1, <2>4
  <2> QED BY <2>2, <2>3, <2>4
<1>3. TABS[next] # TABS[tab]
  BY <1>1, <1>2 DEF TABS
<1>4. filter' = [filter EXCEPT !.grouping = TABS[next]]
  BY DEF cycle_tab, Refilter, tab
<1>5. filter' = [query |-> filter.query, disabled |-> filter.disabled, host |-> filter.host, grouping |-> TABS[next]]
  BY <1>4 DEF FilterInv
<1> HIDE DEF next
<1>6. next \in DOMAIN TABS
  BY <1>2 DEF TABS
<1> QED BY <1>1, <1>3, <1>5, <1>6 DEF FilterInv

LEMMA KeyCursor ==
  ASSUME FilterInv, QuietKey
  PROVE  (Follow \/ Stay \/ Restart) /\ FilterInv'
<1> USE DEF listVars, dataVars
<1>1. CASE Navigate
  BY <1>1 DEF Navigate, Input, move_selection, scroll_details_by, Stay, FilterInv
<1>2. CASE ShortenQuery
  BY <1>2, SameTab DEF ShortenQuery, Refilter, Recomputed, Follow
<1>3. CASE ToggleType
  BY <1>3, SameTab DEF ToggleType, Refilter, Recomputed, Follow
<1>4. CASE toggle_same_host_filter
  BY <1>4, SameTab DEF toggle_same_host_filter, Refilter, Recomputed, Follow
<1>5. CASE refresh_services
  BY <1>5 DEF refresh_services, Input, Restart, FilterInv
<1>6. CASE return_to_browse
  BY <1>6 DEF return_to_browse, Stay, FilterInv
<1>7. CASE Quit
  BY <1>7 DEF Quit, Stay, FilterInv
<1>8. CASE \E y \in 1 .. layout.height : Click(y)
  BY <1>8 DEF Click, Input, Stay, FilterInv
<1>9. CASE \E mode \in PLAIN \ {"Browse"} : Open(mode)
  BY <1>9 DEF Open, Stay, FilterInv
<1>10. CASE \E letter \in Letters : TypeLetter(letter)
  BY <1>10, SameTab DEF TypeLetter, Refilter, Follow
<1>11. CASE \E delta \in {-1, 1} : MoveTypeFilter(delta)
  BY <1>11 DEF MoveTypeFilter, Stay, FilterInv
<1>12. CASE \E delta \in {-1, 1} : cycle_tab(delta)
  BY <1>12, OtherTab DEF cycle_tab, Input, Restart
<1>13. CASE \E delta \in {-1, 1} : MovePicker(delta)
  BY <1>13 DEF MovePicker, Unmoved, Stay, FilterInv
<1> QED BY <1>1, <1>2, <1>3, <1>4, <1>5, <1>6, <1>7, <1>8, <1>9, <1>10, <1>11, <1>12, <1>13 DEF QuietKey

LEMMA StepCursor ==
  ASSUME FilterInv, [BrowseNext]_vars
  PROVE  (Follow \/ Stay \/ Restart) /\ FilterInv'
<1> USE DEF listVars, dataVars
<1>1. CASE PollReload
  BY <1>1 DEF PollReload, Follow, Stay, FilterInv
<1>2. CASE drain_discovery
  BY <1>2 DEF drain_discovery, Recomputed, Follow, Stay, FilterInv
<1>3. CASE Draw
  BY <1>3 DEF Draw, Stay, FilterInv
<1>4. CASE InputEnds
  BY <1>4 DEF InputEnds, Stay, FilterInv
<1>5. CASE QuietKey
  BY <1>5, KeyCursor
<1>6. CASE invoke_selected
  BY <1>6 DEF invoke_selected, Unmoved, Stay, FilterInv
<1>7. CASE PickerSelect
  BY <1>7 DEF PickerSelect, Unmoved, Stay, FilterInv
<1>8. CASE UNCHANGED vars
  BY <1>8 DEF vars, Stay, FilterInv
<1> QED BY <1>1, <1>2, <1>3, <1>4, <1>5, <1>6, <1>7, <1>8 DEF BrowseNext, Tick, Left

LEMMA FilterHolds == BrowseSpec => []FilterInv
<1>1. BrowseInit => FilterInv
  <2> SUFFICES ASSUME BrowseInit PROVE FilterInv
    OBVIOUS
  <2>1. filter = [query |-> <<>>, disabled |-> {}, host |-> NoHost, grouping |-> TABS[1]]
    BY DEF BrowseInit
  <2>2. 1 \in DOMAIN TABS
    BY DEF TABS
  <2> QED BY <2>1, <2>2 DEF FilterInv
<1>2. FilterInv /\ [BrowseNext]_vars => FilterInv'
  BY StepCursor
<1> QED BY <1>1, <1>2, PTL DEF BrowseSpec

LEMMA RecomputedCursor ==
  ASSUME NEW at, NEW scroll, NEW open, recompute_visible(at, scroll, open),
         filter'.grouping = filter.grouping
  PROVE  /\ selected' = find_selection(ActiveIds', At(ActiveIds, at), at)
         /\ details_scroll' = refocus_details(At(ActiveIds, at), At(ActiveIds', selected'), scroll)
  BY DEF recompute_visible, RecomputeRows, RecomputeCommandGroups, ActiveIds, IsCommandTab

LEMMA RecomputedAtTheTop ==
  ASSUME NEW at, NEW open, recompute_visible(at, 0, open) PROVE details_scroll' = 0
  BY DEF recompute_visible, RecomputeRows, RecomputeCommandGroups, refocus_details

(* A place in the details is never shown of another row than the one it    *)
(* was scrolled in (refocus_details, move_selection, cycle_tab).           *)
THEOREM ScrollHolds == BrowseSpec => ScrollBelongsToRow
<1>1. ASSUME FilterInv, [BrowseNext]_vars, At(ActiveIds', selected') # At(ActiveIds, selected)
      PROVE  details_scroll' = 0
  <2>1. CASE Follow
    BY <1>1, <2>1, RecomputedCursor DEF Follow, refocus_details
  <2>2. CASE Stay
    BY <1>1, <2>2 DEF Stay, rowVars, ActiveIds, IsCommandTab
  <2>3. CASE Restart
    BY <2>3, RecomputedAtTheTop DEF Restart
  <2> QED BY <1>1, <2>1, <2>2, <2>3, StepCursor
<1> QED BY <1>1, FilterHolds, PTL DEF BrowseSpec, ScrollBelongsToRow

(* Whatever discovery, a reload or a change of the filter does to the list *)
(* the cursor stays on its row while the row is there (find_selection).    *)
THEOREM CursorHolds == BrowseSpec => CursorFollowsRow
<1>1. ASSUME FilterInv, [BrowseNext]_vars, phase # "input" \/ filter' # filter,
             filter'.grouping = filter.grouping, selected \in DOMAIN ActiveIds,
             ActiveIds[selected] \in ToSet(ActiveIds')
      PROVE  ActiveIds'[selected'] = ActiveIds[selected]
  <2>1. CASE Follow
    <3>1. selected' = find_selection(ActiveIds', {ActiveIds[selected]}, selected)
      BY <1>1, <2>1, RecomputedCursor DEF Follow, At
    <3>2. Present(ActiveIds', {ActiveIds[selected]})
      BY <1>1 DEF Present, ToSet
    <3>3. selected' = Position(ActiveIds', {ActiveIds[selected]})
      BY <3>1, <3>2 DEF find_selection
    <3> QED BY <3>2, <3>3 DEF Present, Position
  <2>2. CASE Stay
    BY <1>1, <2>2 DEF Stay, rowVars, ActiveIds, IsCommandTab
  <2>3. CASE Restart
    BY <1>1, <2>3 DEF Restart
  <2> QED BY <1>1, <2>1, <2>2, <2>3, StepCursor
<1> QED BY <1>1, FilterHolds, PTL DEF BrowseSpec, CursorFollowsRow

-----------------------------------------------------------------------------
(* Open pickers.                                                           *)

PickerInv ==
  /\ records \subseteq Entry
  /\ engine \in Engines
  /\ "mode" \in DOMAIN modal
  /\ modal.mode = "ServicePicker" => IsCommandTab

LEMMA AtIs ==
  ASSUME NEW keys, NEW index, NEW key \in At(keys, index)
  PROVE  key = keys[index]
  BY DEF At

LEMMA PositionIs ==
  ASSUME NEW keys, NEW wanted, Present(keys, wanted)
  PROVE  Position(keys, wanted) \in DOMAIN keys /\ keys[Position(keys, wanted)] \in wanted
  BY DEF Present, Position

LEMMA ReconciledActions ==
  ASSUME NEW open, NEW new_rows, NEW new_groups, NEW rules, NEW to,
         to = reconcile_action_pickers(open, new_rows, new_groups, rules),
         to.mode = open.mode
  PROVE  /\ open.mode = "ActionPicker" =>
              /\ to.anchor = open.anchor
              /\ command_name(to.matches[to.index]) = command_name(open.matches[open.index])
         /\ open.mode = "InstancePicker" =>
              /\ command_name(to.action) = command_name(open.action)
              /\ to.action.targets[to.index] = open.action.targets[open.index]
         /\ open.mode \notin {"ActionPicker", "InstancePicker"} => to = open
<1> DEFINE live == resolve_anchor(open.anchor, new_rows, new_groups, rules)
           chosen == At(names(open.matches), open.index)
           name == {command_name(open.action)}
           action == live[Position(names(live), name)]
           target == At(open.action.targets, open.index)
<1>0. Plain("Browse").mode = "Browse"
  BY DEF Plain
<1>1. ASSUME open.mode = "ActionPicker"
      PROVE  /\ to.anchor = open.anchor
             /\ command_name(to.matches[to.index]) = command_name(open.matches[open.index])
  <2>1. /\ Present(names(live), chosen)
        /\ to = [mode |-> "ActionPicker", anchor |-> open.anchor, matches |-> live,
                 index |-> Position(names(live), chosen)]
    BY <1>0, <1>1 DEF reconcile_action_pickers
  <2> HIDE DEF live, chosen
  <2>2. to.index \in DOMAIN names(live) /\ names(live)[to.index] \in chosen
    BY <2>1, PositionIs
  <2>3. names(live)[to.index] = command_name(live[to.index])
    BY <2>2 DEF names
  <2>4. open.index \in DOMAIN names(open.matches) /\ chosen = {names(open.matches)[open.index]}
    BY <2>2 DEF chosen, At
  <2>5. names(open.matches)[open.index] = command_name(open.matches[open.index])
    BY <2>4 DEF names
  <2> QED BY <2>1, <2>2, <2>3, <2>4, <2>5
<1>2. ASSUME open.mode = "InstancePicker"
      PROVE  /\ command_name(to.action) = command_name(open.action)
             /\ to.action.targets[to.index] = open.action.targets[open.index]
  <2>1. /\ Present(names(live), name)
        /\ Present(action.targets, target)
        /\ to = [mode |-> "InstancePicker", anchor |-> open.anchor, action |-> action,
                 index |-> Position(action.targets, target)]
    BY <1>0, <1>2 DEF reconcile_action_pickers
  <2> HIDE DEF live, target
  <2>2. /\ Position(names(live), name) \in DOMAIN names(live)
        /\ names(live)[Position(names(live), name)] = command_name(open.action)
    BY <2>1, PositionIs
  <2>3. command_name(action) = command_name(open.action)
    BY <2>2 DEF names
  <2> HIDE DEF action
  <2>4. action.targets[to.index] \in target
    BY <2>1, PositionIs
  <2> QED BY <2>1, <2>3, <2>4, AtIs DEF target
<1>3. ASSUME open.mode \notin {"ActionPicker", "InstancePicker"}
      PROVE  to = open
  BY <1>3 DEF reconcile_action_pickers
<1> QED BY <1>1, <1>2, <1>3

LEMMA CommandNames ==
  ASSUME NEW rules \in Engines, NEW entries \in SUBSET Entry
  PROVE  names(CommandRows[rules][entries]) = [i \in DOMAIN rules |-> rules[i].name]
<1> DEFINE row(i) == [command |-> rules[i], services |-> services_for(rules[i], entries)]
<1>1. CommandRows[rules][entries] = [i \in DOMAIN rules |-> row(i)]
  <2> DEFINE f(r, e) == [i \in DOMAIN r |-> [command |-> r[i], services |-> services_for(r[i], e)]]
  <2>1. CommandRows = [r \in Engines |-> [e \in SUBSET Entry |-> f(r, e)]]
    BY DEF CommandRows
  <2> HIDE DEF f
  <2>2. CommandRows[rules][entries] = f(rules, entries)
    BY <2>1
  <2> QED BY <2>2 DEF f
<1>2. \A i : row(i).command = rules[i]
  OBVIOUS
<1> HIDE DEF row
<1>3. DOMAIN CommandRows[rules][entries] = DOMAIN rules
  BY <1>1
<1>4. \A i \in DOMAIN rules : CommandRows[rules][entries][i].command.name = rules[i].name
  BY <1>1, <1>2
<1> QED BY <1>3, <1>4 DEF names, command_name

LEMMA ReconciledService ==
  ASSUME ListsAreCurrent, IsCommandTab, filter'.grouping = filter.grouping, engine' = engine,
         engine \in Engines, records \subseteq Entry, records' \subseteq Entry,
         modal.mode = "ServicePicker", modal'.mode = "ServicePicker",
         recompute_visible(selected, details_scroll, modal)
  PROVE  Chosen' = Chosen
<1> DEFINE new == CommandRows[engine'][FilteredEntries(filter', records')]
           previous == At(names(command_groups), selected)
           now == find_selection(names(new), previous, selected)
           services == ids(new[now].services)
           chosen == At(ids(command_groups[selected].services), modal.index)
           open == reconcile_service_picker(modal, selected, new, now)
<1>1. /\ command_groups' = new
      /\ selected' = now
      /\ modal' = reconcile_action_pickers(open, <<>>, new, engine')
  BY DEF recompute_visible, RecomputeCommandGroups, IsCommandTab
<1>2. IsCommandTab'
  BY DEF IsCommandTab
<1>3. names(new) = names(command_groups)
  <2>1. FilteredEntries(filter, records) \in SUBSET Entry /\ FilteredEntries(filter', records') \in SUBSET Entry
    BY DEF FilteredEntries
  <2>2. command_groups = CommandRows[engine][FilteredEntries(filter, records)]
    BY DEF ListsAreCurrent
  <2> QED BY <2>1, <2>2, CommandNames
<1> HIDE DEF new
<1>4. Plain("Browse").mode = "Browse"
  BY DEF Plain
<1>5. open \in {Plain("Browse"), [mode |-> "ServicePicker", index |-> Position(services, chosen)]}
  BY DEF reconcile_service_picker
<1>6. modal' = open
  BY <1>1, <1>4, <1>5 DEF reconcile_action_pickers
<1>7. /\ selected \in DOMAIN command_groups
      /\ Present(services, chosen)
      /\ modal' = [mode |-> "ServicePicker", index |-> Position(services, chosen)]
  BY <1>4, <1>6 DEF reconcile_service_picker
<1>8. ActiveIds'[selected'] = ActiveIds[selected]
  <2>1. previous = {names(command_groups)[selected]} /\ selected \in DOMAIN names(command_groups)
    BY <1>7 DEF At, names
  <2>2. Present(names(new), previous)
    BY <1>3, <2>1 DEF Present
  <2>3. names(new)[now] = names(command_groups)[selected]
    BY <2>1, <2>2, PositionIs DEF find_selection
  <2> QED BY <1>1, <1>2, <2>3 DEF ActiveIds
<1>9. row_id(PickerList'[modal'.index]) = row_id(PickerList[modal.index])
  <2>1. PickerList' = new[now].services /\ PickerList = command_groups[selected].services
    BY <1>1 DEF PickerList
  <2>2. modal'.index \in DOMAIN services /\ services[modal'.index] \in chosen
    BY <1>7, PositionIs
  <2>3. modal.index \in DOMAIN ids(command_groups[selected].services)
        /\ chosen = {ids(command_groups[selected].services)[modal.index]}
    BY <2>2 DEF At
  <2> QED BY <2>1, <2>2, <2>3 DEF ids
<1> QED BY <1>8, <1>9 DEF Chosen

LEMMA ModeOfActions ==
  ASSUME NEW open, "mode" \in DOMAIN open, NEW new_rows, NEW new_groups, NEW rules, NEW to,
         to = reconcile_action_pickers(open, new_rows, new_groups, rules)
  PROVE  "mode" \in DOMAIN to /\ to.mode \in {"Browse", open.mode}
  BY DEF reconcile_action_pickers, Plain

LEMMA ModeOfServices ==
  ASSUME NEW open, "mode" \in DOMAIN open, NEW at, NEW new_groups, NEW now, NEW to,
         to = reconcile_service_picker(open, at, new_groups, now)
  PROVE  "mode" \in DOMAIN to /\ to.mode \in {"Browse", open.mode}
  BY DEF reconcile_service_picker, Plain

LEMMA RecomputedModal ==
  ASSUME NEW at, NEW scroll, NEW open, recompute_visible(at, scroll, open), "mode" \in DOMAIN open
  PROVE  "mode" \in DOMAIN modal' /\ modal'.mode \in {"Browse", open.mode}
<1>1. CASE filter'.grouping = "command"
  <2>1. PICK new, now : modal' = reconcile_action_pickers(reconcile_service_picker(open, at, new, now), <<>>, new, engine')
    BY <1>1 DEF recompute_visible, RecomputeCommandGroups
  <2> DEFINE between == reconcile_service_picker(open, at, new, now)
  <2>2. "mode" \in DOMAIN between /\ between.mode \in {"Browse", open.mode}
    BY ModeOfServices
  <2>3. modal' = reconcile_action_pickers(between, <<>>, new, engine')
    BY <2>1
  <2> HIDE DEF between
  <2>4. "mode" \in DOMAIN modal' /\ modal'.mode \in {"Browse", between.mode}
    BY <2>2, <2>3, ModeOfActions
  <2> QED BY <2>2, <2>4
<1>2. CASE filter'.grouping # "command"
  <2>1. PICK new : modal' = reconcile_action_pickers(open, new, <<>>, engine')
    BY <1>2 DEF recompute_visible, RecomputeRows
  <2> QED BY <2>1, ModeOfActions
<1> QED BY <1>1, <1>2

\* What a step leaves open.
ModeIn(modes) == "mode" \in DOMAIN modal' /\ modal'.mode \in modes

LEMMA ChosenMode ==
  ASSUME NEW match, NEW anchor, choose_action(match, anchor), "mode" \in DOMAIN modal
  PROVE  ModeIn({"InstancePicker", "Browse", modal.mode})
  BY DEF choose_action, execute_action, show, Plain, ModeIn

LEMMA ExecutedMode ==
  ASSUME NEW command, NEW target, execute_action(command, target), "mode" \in DOMAIN modal
  PROVE  ModeIn({"Browse", modal.mode})
  BY DEF execute_action, Plain, ModeIn

LEMMA RunOnMode ==
  ASSUME NEW command, NEW service, run_command_on(command, service), "mode" \in DOMAIN modal
  PROVE  ModeIn({"InstancePicker", "Browse", modal.mode})
<1>1. CASE show(Plain("Browse")) BY <1>1 DEF show, Plain, ModeIn
<1>2. CASE \E match, anchor : choose_action(match, anchor) BY <1>2, ChosenMode
<1> QED BY <1>1, <1>2 DEF run_command_on

LEMMA InvokedMode ==
  ASSUME PickerInv, invoke_selected
  PROVE  /\ ModeIn({"Browse", "ActionPicker", "InstancePicker", "ServicePicker"})
         /\ modal'.mode = "ServicePicker" => IsCommandTab
<1>1. "mode" \in DOMAIN modal /\ modal.mode = "Browse"
  BY DEF PickerInv, invoke_selected, Input
<1>2. ASSUME NEW row, invoke_row(row)
      PROVE  ModeIn({"Browse", "ActionPicker", "InstancePicker"})
  <2>1. CASE show(modal) BY <1>1, <2>1 DEF show, ModeIn
  <2>2. CASE choose_action(row.matches[1], RowAnchor(row.id))
    BY <1>1, <2>2, ChosenMode DEF ModeIn
  <2>3. CASE show([mode |-> "ActionPicker", anchor |-> RowAnchor(row.id), matches |-> row.matches, index |-> 1])
    BY <2>3 DEF show, ModeIn
  <2> QED BY <1>2, <2>1, <2>2, <2>3 DEF invoke_row
<1>3. ASSUME NEW group, invoke_command(group)
      PROVE  ModeIn({"Browse", "InstancePicker", "ServicePicker"})
  <2>1. CASE show(modal) BY <1>1, <2>1 DEF show, ModeIn
  <2>2. CASE run_command_on(group.command, group.services[1])
    BY <1>1, <2>2, RunOnMode DEF ModeIn
  <2>3. CASE show([mode |-> "ServicePicker", index |-> 1])
    BY <2>3 DEF show, ModeIn
  <2> QED BY <1>3, <2>1, <2>2, <2>3 DEF invoke_command
<1>4. CASE IsCommandTab /\ invoke_command(command_groups[selected])
  BY <1>3, <1>4 DEF ModeIn
<1>5. CASE invoke_row(rows[selected])
  BY <1>2, <1>5 DEF ModeIn
<1> QED BY <1>4, <1>5 DEF invoke_selected

LEMMA SelectedMode ==
  ASSUME PickerInv, PickerSelect
  PROVE  ModeIn({"InstancePicker", "Browse", modal.mode})
<1>1. "mode" \in DOMAIN modal
  BY DEF PickerInv
<1>2. CASE modal.mode = "ActionPicker"
  BY <1>1, <1>2, ChosenMode DEF PickerSelect
<1>3. CASE modal.mode = "InstancePicker"
  BY <1>1, <1>3, ExecutedMode DEF PickerSelect, ModeIn
<1>4. CASE modal.mode = "ServicePicker"
  BY <1>1, <1>4, RunOnMode DEF PickerSelect
<1> QED BY <1>2, <1>3, <1>4 DEF PickerSelect, Input, PICKERS

LEMMA PickersKeep ==
  ASSUME FilterInv, PickerInv, [BrowseNext]_vars PROVE PickerInv'
<1> USE DEF listVars, dataVars, rowVars
<1>1. ASSUME NEW open, "mode" \in DOMAIN open, open.mode \notin PICKERS \/ open = modal,
             NEW at, NEW scroll, recompute_visible(at, scroll, open),
             filter'.grouping = filter.grouping \/ modal.mode = "Browse" \/ open.mode \notin PICKERS
      PROVE  "mode" \in DOMAIN modal' /\ (modal'.mode = "ServicePicker" => IsCommandTab')
  BY <1>1, RecomputedModal DEF PickerInv, PICKERS, IsCommandTab
<1>2. "mode" \in DOMAIN ClosedPickers /\ ClosedPickers.mode \notin PICKERS
  BY DEF PickerInv, ClosedPickers, Plain, PICKERS
<1>3. ASSUME UNCHANGED <<records, filter, engine>>, NEW modes, ModeIn(modes),
             "ServicePicker" \in modes /\ modal'.mode = "ServicePicker" => IsCommandTab
      PROVE  PickerInv'
  BY <1>3 DEF PickerInv, ModeIn, IsCommandTab
<1>4. CASE PollReload
  BY <1>1, <1>2, <1>4 DEF PollReload, PickerInv, IsCommandTab
<1>5. CASE drain_discovery
  BY <1>1, <1>2, <1>5 DEF drain_discovery, Recomputed, RecordSets, PickerInv, IsCommandTab
<1>6. CASE Draw
  BY <1>6 DEF Draw, PickerInv, IsCommandTab
<1>7. CASE InputEnds
  BY <1>7 DEF InputEnds, PickerInv, IsCommandTab
<1>8. CASE QuietKey
  <2>1. CASE Navigate BY <2>1 DEF Navigate, PickerInv, IsCommandTab
  <2>2. CASE ShortenQuery
    BY <1>1, <2>2, SameTab DEF ShortenQuery, Refilter, Recomputed, PickerInv
  <2>3. CASE ToggleType
    BY <1>1, <2>3, SameTab DEF ToggleType, Refilter, Recomputed, PickerInv
  <2>4. CASE toggle_same_host_filter
    BY <1>1, <2>4, SameTab DEF toggle_same_host_filter, Refilter, Recomputed, PickerInv
  <2>5. CASE refresh_services
    BY <1>1, <1>2, <2>5 DEF refresh_services, PickerInv
  <2>6. CASE return_to_browse
    BY <1>3, <2>6 DEF return_to_browse, Plain, ModeIn
  <2>7. CASE Quit BY <2>7 DEF Quit, PickerInv, IsCommandTab
  <2>8. CASE \E y \in 1 .. layout.height : Click(y) BY <2>8 DEF Click, PickerInv, IsCommandTab
  <2>9. CASE \E mode \in PLAIN \ {"Browse"} : Open(mode)
    <3>1. UNCHANGED <<records, filter, engine>> /\ ModeIn(PLAIN)
      BY <2>9 DEF Open, Plain, ModeIn
    <3> QED BY <1>3, <3>1 DEF PLAIN
  <2>10. CASE \E letter \in Letters : TypeLetter(letter)
    <3>1. "mode" \in DOMAIN Plain("Search") /\ Plain("Search").mode \notin PICKERS
      BY DEF Plain, PICKERS
    <3> QED BY <1>1, <2>10, <3>1 DEF TypeLetter, Refilter, PickerInv
  <2>11. CASE \E delta \in {-1, 1} : MoveTypeFilter(delta)
    <3>1. UNCHANGED <<records, filter, engine>> /\ ModeIn({"TypeFilter"})
      BY <2>11 DEF MoveTypeFilter, Input, PickerInv, ModeIn
    <3> QED BY <1>3, <3>1
  <2>12. CASE \E delta \in {-1, 1} : cycle_tab(delta)
    BY <1>1, <2>12 DEF cycle_tab, Input, Refilter, PickerInv
  <2>13. CASE \E delta \in {-1, 1} : MovePicker(delta)
    <3>1. UNCHANGED <<records, filter, engine>> /\ ModeIn({modal.mode})
      BY <2>13 DEF MovePicker, Unmoved, PickerInv, ModeIn
    <3> QED BY <1>3, <3>1 DEF PickerInv, ModeIn
  <2> QED BY <1>8, <2>1, <2>2, <2>3, <2>4, <2>5, <2>6, <2>7, <2>8, <2>9, <2>10, <2>11, <2>12, <2>13 DEF QuietKey
<1>9. CASE invoke_selected
  BY <1>3, <1>9, InvokedMode DEF invoke_selected, Unmoved
<1>10. CASE PickerSelect
  <2>1. UNCHANGED <<records, filter, engine>>
    BY <1>10 DEF PickerSelect, Unmoved
  <2> QED BY <1>3, <1>10, <2>1, SelectedMode DEF PickerInv, ModeIn
<1>11. CASE UNCHANGED vars
  BY <1>11 DEF vars, PickerInv, IsCommandTab
<1> QED BY <1>4, <1>5, <1>6, <1>7, <1>8, <1>9, <1>10, <1>11 DEF BrowseNext, Tick, Left

LEMMA PickersHold == BrowseSpec => [](FilterInv /\ PickerInv)
<1>1. BrowseInit => PickerInv
  <2> SUFFICES ASSUME BrowseInit PROVE PickerInv
    OBVIOUS
  <2>1. modal = [mode |-> "Browse"] /\ records = {} /\ engine \in Engines
    BY DEF BrowseInit, Plain
  <2> QED BY <2>1 DEF PickerInv
<1>2. FilterInv /\ PickerInv /\ [BrowseNext]_vars => PickerInv'
  BY PickersKeep
<1> QED BY <1>1, <1>2, FilterHolds, PTL DEF BrowseSpec

\* An interaction that is no picker has nothing pending.
LEMMA NothingPending ==
  ASSUME modal.mode \notin PICKERS, modal'.mode = modal.mode PROVE Chosen' = Chosen
  BY DEF Chosen, PICKERS

LEMMA ReconciledPicker ==
  ASSUME ListsAreCurrent, PickerInv, PickerInv', filter' = filter, engine' = engine,
         recompute_visible(selected, details_scroll, modal), modal'.mode = modal.mode
  PROVE  Chosen' = Chosen
<1>1. CASE modal.mode = "ServicePicker"
  BY <1>1, ReconciledService DEF PickerInv
<1>2. CASE modal.mode = "ActionPicker" \/ modal.mode = "InstancePicker"
  <2>1. PICK new, groups : modal' = reconcile_action_pickers(modal, new, groups, engine')
    <3>1. CASE filter'.grouping = "command"
      <4>1. PICK new, now :
              modal' = reconcile_action_pickers(reconcile_service_picker(modal, selected, new, now), <<>>, new, engine')
        BY <3>1 DEF recompute_visible, RecomputeCommandGroups
      <4>2. reconcile_service_picker(modal, selected, new, now) = modal
        BY <1>2 DEF reconcile_service_picker
      <4> QED BY <4>1, <4>2
    <3>2. CASE filter'.grouping # "command"
      BY <3>2 DEF recompute_visible, RecomputeRows
    <3> QED BY <3>1, <3>2
  <2>2. CASE modal.mode = "ActionPicker"
    <3>1. /\ modal'.anchor = modal.anchor
          /\ command_name(modal'.matches[modal'.index]) = command_name(modal.matches[modal.index])
      BY <2>1, <2>2, ReconciledActions
    <3> QED BY <2>2, <3>1 DEF Chosen, PickerList
  <2>3. CASE modal.mode = "InstancePicker"
    <3>1. /\ command_name(modal'.action) = command_name(modal.action)
          /\ modal'.action.targets[modal'.index] = modal.action.targets[modal.index]
      BY <2>1, <2>3, ReconciledActions
    <3> QED BY <2>3, <3>1 DEF Chosen, PickerList
  <2> QED BY <1>2, <2>2, <2>3
<1>3. CASE modal.mode \notin PICKERS
  BY <1>3, NothingPending
<1> QED BY <1>1, <1>2, <1>3 DEF PICKERS

(* Nothing that discovery or a reload does hands a pending Enter to another *)
(* command, target or service: the picker stays on what was chosen in it,   *)
(* wherever that is now, or closes (reconcile_action_pickers).              *)
THEOREM NeverRetargetsHolds == BrowseSpec => NeverRetargets
<1>1. ASSUME ListsAreCurrent, PickerInv, PickerInv', [BrowseNext]_vars,
             phase \in {"reload", "drain"}, modal'.mode = modal.mode
      PROVE  Chosen' = Chosen
  <2>1. ASSUME recompute_visible(selected, details_scroll, ClosedPickers) PROVE Chosen' = Chosen
    <3>1. "mode" \in DOMAIN ClosedPickers /\ ClosedPickers.mode \notin PICKERS
      BY <1>1 DEF PickerInv, ClosedPickers, Plain, PICKERS
    <3>2. modal'.mode \in {"Browse", ClosedPickers.mode}
      BY <2>1, <3>1, RecomputedModal
    <3> QED BY <1>1, <3>1, <3>2, NothingPending DEF PICKERS
  <2>2. ASSUME UNCHANGED <<modal, listVars, filter>> PROVE Chosen' = Chosen
    <3>1. PickerList' = PickerList /\ ActiveIds' = ActiveIds
      BY <2>2 DEF PickerList, ActiveIds, IsCommandTab, listVars, rowVars
    <3> QED BY <2>2, <3>1 DEF Chosen, listVars
  <2>3. CASE PollReload
    BY <2>1, <2>2, <2>3 DEF PollReload
  <2>4. CASE drain_discovery
    BY <1>1, <2>1, <2>2, <2>4, ReconciledPicker DEF drain_discovery, Recomputed
  <2>5. CASE UNCHANGED vars
    BY <2>2, <2>5 DEF vars, dataVars
  <2>6. ASSUME Draw \/ InputEnds \/ Left PROVE FALSE
    BY <1>1, <2>6 DEF Draw, InputEnds, Left
  <2>7. ASSUME NEW mode, Input(mode) PROVE FALSE
    BY <1>1, <2>7 DEF Input
  <2>8. ASSUME QuietKey PROVE FALSE
    <3>1. ~Quit
      BY <1>1 DEF Quit
    <3> QED BY <2>7, <2>8, <3>1 DEF QuietKey, Navigate, ShortenQuery, ToggleType, toggle_same_host_filter,
              refresh_services, return_to_browse, Click, Open, TypeLetter, MoveTypeFilter, cycle_tab, MovePicker
  <2>9. ASSUME invoke_selected \/ PickerSelect PROVE FALSE
    BY <2>7, <2>9 DEF invoke_selected, PickerSelect
  <2> QED BY <1>1, <2>3, <2>4, <2>5, <2>6, <2>8, <2>9 DEF BrowseNext, Tick
<1> QED BY <1>1, ListsHold, PickersHold, PTL DEF BrowseSpec, NeverRetargets

-----------------------------------------------------------------------------
(* What the lists are made of.                                             *)

(* A group is the list of its entries.                                     *)
LEMMA GroupsAre ==
  ASSUME NEW entries, entries \subseteq Entry
  PROVE  /\ ordered(entries) \in Group
         /\ IsASequence(ordered(entries))
         /\ ToSet(ordered(entries)) = entries
<1> DEFINE S == {i \in DOMAIN Entries : Entries[i] \in entries}
<1>1. IsASequence(Entries)
  BY ProjectionAssumption, SequenceOf
<1>2. S \subseteq DOMAIN Entries
  OBVIOUS
<1>3. \A e \in entries : \E i \in S : Entries[i] = e
  BY DEF Entry, ToSet
<1>4. \A i \in S : Entries[i] \in entries
  OBVIOUS
<1>5. ordered(entries) = ItemsAt(Entries, S)
  BY DEF ordered
<1> HIDE DEF S
<1>6. /\ IsASequence(ItemsAt(Entries, S))
      /\ \A i \in DOMAIN ItemsAt(Entries, S) : \E k \in S : ItemsAt(Entries, S)[i] = Entries[k]
      /\ \A k \in S : \E i \in DOMAIN ItemsAt(Entries, S) : ItemsAt(Entries, S)[i] = Entries[k]
  BY <1>1, <1>2, ItemsAtThem
<1>7. ToSet(ordered(entries)) = entries
  BY <1>3, <1>4, <1>5, <1>6 DEF ToSet
<1>8. ordered(entries) \in Group
  BY DEF Group
<1> QED BY <1>5, <1>6, <1>7, <1>8

(* A row is listed once, and only for an entry of it.                      *)
LEMMA RowIdsAre ==
  ASSUME NEW entries, NEW mode
  PROVE  /\ IsASequence(RowIds(entries, mode))
         /\ IsInjective(RowIds(entries, mode))
         /\ \A i \in DOMAIN RowIds(entries, mode) :
              \E entry \in entries : row_of(entry, mode) = RowIds(entries, mode)[i]
<1> DEFINE S == {i \in DOMAIN DisplayOrder : \E entry \in entries : row_of(entry, mode) = DisplayOrder[i]}
<1>1. IsASequence(DisplayOrder)
  BY ProjectionAssumption, SequenceOf
<1>2. S \subseteq DOMAIN DisplayOrder
  OBVIOUS
<1>3. \A i \in S : \E entry \in entries : row_of(entry, mode) = DisplayOrder[i]
  OBVIOUS
<1>4. RowIds(entries, mode) = ItemsAt(DisplayOrder, S)
  BY DEF RowIds
<1> HIDE DEF S
<1>5. \A k, l \in S : DisplayOrder[k] = DisplayOrder[l] => k = l
  BY <1>1, <1>2, ProjectionAssumption DEF IsInjective
<1>6. /\ IsASequence(ItemsAt(DisplayOrder, S))
      /\ \A i \in DOMAIN ItemsAt(DisplayOrder, S) : \E k \in S : ItemsAt(DisplayOrder, S)[i] = DisplayOrder[k]
  BY <1>1, <1>2, ItemsAtThem
<1>7. IsInjective(ItemsAt(DisplayOrder, S))
  BY <1>1, <1>2, <1>5, ItemsAtOnce
<1> QED BY <1>3, <1>4, <1>6, <1>7

(* What a command would run on a group is a list of the candidates of its  *)
(* entries (distinct_targets).                                             *)
LEMMA TargetsAre ==
  ASSUME NEW command \in Command, NEW group \in Group
  PROVE  /\ IsASequence(targets[command][group])
         /\ \A target \in ToSet(targets[command][group]) :
              \E entry \in ToSet(group) : target \in ToSet(Candidates(command, entry))
<1>1. PICK entries \in SUBSET Entry : group = ordered(entries)
  BY DEF Group
<1>2. IsASequence(group) /\ ToSet(group) \subseteq Entry
  BY <1>1, GroupsAre
<1> DEFINE pieces == [i \in DOMAIN group |-> Candidates(command, group[i])]
           all == UNION {ToSet(Candidates(command, entry)) : entry \in ToSet(group)}
           candidates == FlattenSeq(pieces)
           S == {i \in DOMAIN candidates : \A j \in 1 .. i - 1 : candidates[j] # candidates[i]}
<1>3. DOMAIN group = 1..Len(group) /\ Len(group) \in Nat
  BY <1>2 DEF IsASequence
<1>4. \A i \in DOMAIN group : group[i] \in ToSet(group)
  BY DEF ToSet
<1>5. ASSUME NEW i \in DOMAIN group PROVE Candidates(command, group[i]) \in Seq(all)
  <2>1. Candidates(command, group[i]) \in Seq(ToSet(Candidates(command, group[i])))
    BY <1>2, <1>4, ProjectionAssumption
  <2>2. ToSet(Candidates(command, group[i])) \subseteq all
    BY <1>4
  <2> HIDE DEF all
  <2> QED BY <2>1, <2>2, SeqMonotonic
<1> HIDE DEF all
<1>6. pieces \in [1..Len(group) -> Seq(all)]
  BY <1>3, <1>5
<1>7. candidates \in Seq(all)
  <2> HIDE DEF pieces
  <2> QED BY <1>3, <1>6, FlattenType
<1>8. targets[command][group] = ItemsAt(candidates, S)
  BY DEF targets, distinct_targets
<1> HIDE DEF candidates
<1>9. IsASequence(candidates) /\ \A k \in DOMAIN candidates : candidates[k] \in all
  BY <1>7, SequenceOf
<1>10. S \subseteq DOMAIN candidates
  OBVIOUS
<1> HIDE DEF S
<1>11. /\ IsASequence(ItemsAt(candidates, S))
       /\ \A i \in DOMAIN ItemsAt(candidates, S) : \E k \in S : ItemsAt(candidates, S)[i] = candidates[k]
  BY <1>9, <1>10, ItemsAtThem
<1>12. \A target \in ToSet(ItemsAt(candidates, S)) : target \in all
  BY <1>9, <1>10, <1>11 DEF ToSet
<1> QED BY <1>8, <1>11, <1>12 DEF all

\* A match is of a rule, and has something to run, each on an entry of these.
IsMatch(match, rules, entries) ==
  /\ match.command \in ToSet(rules)
  /\ IsASequence(match.targets) /\ match.targets # <<>>
  /\ \A target \in ToSet(match.targets) :
       \E entry \in entries : target \in ToSet(Candidates(match.command, entry))

IsMatches(matches, rules, entries) ==
  /\ IsASequence(matches)
  /\ \A i \in DOMAIN matches : IsMatch(matches[i], rules, entries)
  /\ IsInjective(names(matches))

LEMMA CommandIn ==
  ASSUME NEW rules \in Engines
  PROVE  /\ IsASequence(rules)
         /\ \A i \in DOMAIN rules : rules[i] \in Command /\ rules[i] \in ToSet(rules)
         /\ \A i, j \in DOMAIN rules : rules[i].name = rules[j].name => i = j
<1>1. rules \in Seq(Command)
  BY ProjectionAssumption
<1>2. \A i \in DOMAIN rules : rules[i] \in Command
  BY <1>1
<1> QED BY <1>1, <1>2, SequenceOf, BrowseAssumption DEF ToSet

(* A group is matched by each rule that has a target in it, once, in the   *)
(* order of the rules (RuleSet::matches_group).                            *)
LEMMA MatchesAre ==
  ASSUME NEW rules \in Engines, NEW entries \in SUBSET Entry
  PROVE  IsMatches(matches_group[rules][ordered(entries)], rules, entries)
<1> DEFINE group == ordered(entries)
           S == {i \in DOMAIN rules : targets[rules[i]][group] # <<>>}
           found == ItemsAt(rules, S)
           results == [i \in DOMAIN rules |-> [command |-> rules[i], targets |-> targets[rules[i]][group]]]
           matches == matches_group[rules][group]
<1>1. group \in Group /\ ToSet(group) = entries
  BY GroupsAre
<1>2. matches = ItemsAt(results, S)
  BY <1>1 DEF matches_group
<1> HIDE DEF matches, group
<1>3. \A i \in S : targets[rules[i]][group] # <<>>
  OBVIOUS
<1>4. S \subseteq DOMAIN rules
  OBVIOUS
<1> HIDE DEF S
<1>5. \A k, l \in S : rules[k] = rules[l] => k = l
  BY <1>4, CommandIn
<1>6. IsASequence(found) /\ \A i \in DOMAIN found : \E k \in S : found[i] = rules[k]
  BY <1>4, CommandIn, ItemsAtThem
<1>7. IsInjective(found)
  BY <1>4, <1>5, CommandIn, ItemsAtOnce
<1>8. /\ DOMAIN results = DOMAIN rules
       /\ \A k \in DOMAIN rules :
            results[k].command = rules[k] /\ results[k].targets = targets[rules[k]][group]
  OBVIOUS
<1>9. IsASequence(results)
  <2>1. Len(rules) \in Nat /\ DOMAIN rules = 1..Len(rules)
    BY CommandIn DEF IsASequence
  <2>2. results = [i \in 1..Len(rules) |-> results[i]]
    BY <2>1
  <2> QED BY <2>1, <2>2, RangedSequence
<1> HIDE DEF results
<1>10. /\ found = [i \in 1..Cardinality(S) |-> rules[InOrder(S)[i]]]
       /\ \A i \in DOMAIN found : InOrder(S)[i] \in S
  <2>1. found = [i \in 1..Cardinality(S) |-> rules[InOrder(S)[i]]]
    BY <1>4, CommandIn, ItemsAtThem
  <2>2. Enumerates(S)
    <3>1. Len(rules) \in Nat /\ S \subseteq 1..Len(rules)
      BY <1>4, CommandIn DEF IsASequence
    <3> QED BY <3>1, OrderEnumerates
  <2> QED BY <2>1, <2>2 DEF Enumerates
<1>11. /\ IsASequence(matches)
       /\ matches = [i \in 1..Cardinality(S) |-> results[InOrder(S)[i]]]
  BY <1>2, <1>4, <1>8, <1>9, ItemsAtThem
<1> HIDE DEF found
<1>12. /\ DOMAIN matches = DOMAIN found
      /\ \A i \in DOMAIN found : matches[i].command = found[i] /\ matches[i].targets = targets[found[i]][group]
  <2>1. DOMAIN matches = DOMAIN found
    BY <1>10, <1>11
  <2>2. ASSUME NEW i \in DOMAIN found
        PROVE  matches[i].command = found[i] /\ matches[i].targets = targets[found[i]][group]
    <3>1. matches[i] = results[InOrder(S)[i]] /\ found[i] = rules[InOrder(S)[i]] /\ InOrder(S)[i] \in DOMAIN rules
      BY <1>4, <1>10, <1>11
    <3> QED BY <3>1, <1>8
  <2> QED BY <2>1, <2>2
<1>13. IsASequence(matches)
  BY <1>11
<1>14. ASSUME NEW i \in DOMAIN matches PROVE IsMatch(matches[i], rules, entries)
  <2>1. PICK k \in S : found[i] = rules[k]
    BY <1>6, <1>12
  <2>2. rules[k] \in Command /\ rules[k] \in ToSet(rules)
    BY <1>4, <2>1, CommandIn
  <2>3. matches[i].command = rules[k] /\ matches[i].targets = targets[rules[k]][group]
    BY <1>12, <2>1
  <2>4. /\ IsASequence(targets[rules[k]][group])
        /\ \A target \in ToSet(targets[rules[k]][group]) :
             \E entry \in ToSet(group) : target \in ToSet(Candidates(rules[k], entry))
    BY <1>1, <2>2, TargetsAre
  <2> QED BY <1>1, <1>3, <2>2, <2>3, <2>4 DEF IsMatch
<1>15. ASSUME NEW i \in DOMAIN matches, NEW j \in DOMAIN matches,
              matches[i].command.name = matches[j].command.name
       PROVE  i = j
  <2>1. PICK k \in S : found[i] = rules[k]
    BY <1>6, <1>12
  <2>2. PICK l \in S : found[j] = rules[l]
    BY <1>6, <1>12
  <2>3. rules[k].name = rules[l].name
    BY <1>12, <1>15, <2>1, <2>2
  <2>4. k = l
    BY <1>4, <2>3, CommandIn
  <2> QED BY <1>7, <1>12, <2>1, <2>2, <2>4 DEF IsInjective
<1>16. IsInjective(names(matches))
  BY <1>15 DEF names, command_name, IsInjective
<1> QED BY <1>13, <1>14, <1>16 DEF IsMatches, matches, group

\* Items of which each is a group of some of these entries, listed once.
IsListOf(items, entries) ==
  /\ IsASequence(items)
  /\ IsInjective(ids(items))
  /\ \A i \in DOMAIN items : \E S \in SUBSET entries : items[i].instances = ordered(S)

\* Rows that are listed once, each with what matches some of these entries.
AreRows(list, rules, entries) ==
  /\ IsListOf(list, entries)
  /\ \A i \in DOMAIN list : list[i].matches = matches_group[rules][list[i].instances]

LEMMA InstancesAre ==
  ASSUME NEW entries, NEW id, NEW mode
  PROVE  \E S \in SUBSET entries : instances(entries, id, mode) = ordered(S)
BY DEF instances

(* A browse tab lists every row once, with what matches it (grouped_rows). *)
LEMMA RowsAre ==
  ASSUME NEW rules \in Engines, NEW entries \in SUBSET Entry, NEW mode \in {TABS[i] : i \in 1 .. 3}
  PROVE  /\ AreRows(Rows[rules][entries][mode], rules, entries)
         /\ ids(Rows[rules][entries][mode]) = RowIds(entries, mode)
<1> DEFINE listed == RowIds(entries, mode)
           list == Rows[rules][entries][mode]
           row(id) == [id |-> id,
                       instances |-> instances(entries, id, mode),
                       host |-> IF mode = "type" THEN "varies" ELSE instances(entries, id, mode)[1].host,
                       matches |-> matches_group[rules][instances(entries, id, mode)]]
<1>1. list = [i \in DOMAIN listed |-> row(listed[i])]
  BY DEF Rows
<1>2. \A id : /\ row(id).id = id
              /\ row(id).instances = instances(entries, id, mode)
              /\ row(id).matches = matches_group[rules][instances(entries, id, mode)]
  OBVIOUS
<1>3. IsASequence(listed) /\ IsInjective(listed)
  BY RowIdsAre
<1> HIDE DEF listed, list, row
<1>4. Len(listed) \in Nat /\ DOMAIN listed = 1..Len(listed)
  BY <1>3 DEF IsASequence
<1>5. /\ DOMAIN list = DOMAIN listed
      /\ \A i \in DOMAIN listed : /\ list[i].id = listed[i]
                                  /\ list[i].instances = instances(entries, listed[i], mode)
                                  /\ list[i].matches = matches_group[rules][list[i].instances]
  BY <1>1, <1>2
<1>6. IsASequence(list)
  <2>1. list = [i \in 1..Len(listed) |-> list[i]]
    BY <1>1, <1>4
  <2> QED BY <1>4, <2>1, RangedSequence
<1>7. ids(list) = listed
  <2>1. ids(list) = [i \in DOMAIN listed |-> listed[i]]
    BY <1>5 DEF ids, row_id
  <2>2. listed = [i \in DOMAIN listed |-> listed[i]]
    BY <1>3, <1>4 DEF IsASequence
  <2> QED BY <2>1, <2>2
<1>8. \A i \in DOMAIN list : \E S \in SUBSET entries : list[i].instances = ordered(S)
  BY <1>5, InstancesAre
<1>9. AreRows(list, rules, entries) /\ ids(list) = listed
  BY <1>3, <1>5, <1>6, <1>7, <1>8 DEF AreRows, IsListOf
<1> QED BY <1>9 DEF list, listed

(* A command lists the services it has a target in (services_for).         *)
LEMMA ServicesAre ==
  ASSUME NEW command, NEW entries \in SUBSET Entry
  PROVE  IsListOf(services_for(command, entries), entries)
<1> DEFINE listed == RowIds(entries, "service")
           S == {i \in DOMAIN listed : targets[command][instances(entries, listed[i], "service")] # <<>>}
           found == ItemsAt(listed, S)
           list == services_for(command, entries)
<1>1. list = [i \in DOMAIN found |-> [id |-> found[i], instances |-> instances(entries, found[i], "service")]]
  BY DEF services_for
<1>2. IsASequence(listed) /\ IsInjective(listed)
  BY RowIdsAre
<1>3. S \subseteq DOMAIN listed
  OBVIOUS
<1> HIDE DEF listed, S, list
<1>4. \A k, l \in S : listed[k] = listed[l] => k = l
  BY <1>2, <1>3 DEF IsInjective
<1>5. IsASequence(found)
  BY <1>2, <1>3, ItemsAtThem
<1>6. IsInjective(found)
  BY <1>2, <1>3, <1>4, ItemsAtOnce
<1> HIDE DEF found
<1>7. Len(found) \in Nat /\ DOMAIN found = 1..Len(found)
  BY <1>5 DEF IsASequence
<1>8. /\ DOMAIN list = DOMAIN found
      /\ \A i \in DOMAIN found : list[i].id = found[i] /\ list[i].instances = instances(entries, found[i], "service")
  BY <1>1
<1>9. IsASequence(list)
  <2>1. list = [i \in 1..Len(found) |-> list[i]]
    BY <1>1, <1>7
  <2> QED BY <1>7, <2>1, RangedSequence
<1>10. IsInjective(ids(list))
  <2>1. ids(list) = [i \in DOMAIN found |-> found[i]]
    BY <1>8 DEF ids, row_id
  <2> QED BY <1>6, <2>1 DEF IsInjective
<1>11. \A i \in DOMAIN list : \E S1 \in SUBSET entries : list[i].instances = ordered(S1)
  BY <1>8, InstancesAre
<1> QED BY <1>9, <1>10, <1>11 DEF IsListOf, list

\* Groups of commands that are listed once, each with its services.
AreGroups(list, rules, entries) ==
  /\ DOMAIN list = DOMAIN rules
  /\ IsInjective(names(list))
  /\ \A i \in DOMAIN list : list[i].command = rules[i] /\ IsListOf(list[i].services, entries)

(* The command tab lists every rule in force, once (command_groups).       *)
LEMMA CommandRowsAre ==
  ASSUME NEW rules \in Engines, NEW entries \in SUBSET Entry
  PROVE  AreGroups(CommandRows[rules][entries], rules, entries)
<1> DEFINE row(i) == [command |-> rules[i], services |-> services_for(rules[i], entries)]
           list == CommandRows[rules][entries]
<1>1. list = [i \in DOMAIN rules |-> row(i)]
  <2> DEFINE f(r, e) == [i \in DOMAIN r |-> [command |-> r[i], services |-> services_for(r[i], e)]]
  <2>1. CommandRows = [r \in Engines |-> [e \in SUBSET Entry |-> f(r, e)]]
    BY DEF CommandRows
  <2> HIDE DEF f
  <2>2. CommandRows[rules][entries] = f(rules, entries)
    BY <2>1
  <2> QED BY <2>2 DEF f
<1>2. \A i : row(i).command = rules[i] /\ row(i).services = services_for(rules[i], entries)
  OBVIOUS
<1> HIDE DEF row, list
<1>3. DOMAIN list = DOMAIN rules
  BY <1>1
<1>4. \A i \in DOMAIN list : list[i].command = rules[i] /\ IsListOf(list[i].services, entries)
  BY <1>1, <1>2, ServicesAre
<1>5. names(list) = [i \in DOMAIN rules |-> rules[i].name]
  BY <1>3, <1>4 DEF names, command_name
<1>6. IsInjective(names(list))
  BY <1>5, CommandIn DEF IsInjective
<1> QED BY <1>3, <1>4, <1>6 DEF AreGroups, list

-----------------------------------------------------------------------------
(* What an anchor stands for.                                              *)

(* The item of a key is found by it.                                       *)
LEMMA FoundIs ==
  ASSUME NEW items, NEW keys, DOMAIN keys = DOMAIN items, IsInjective(keys), NEW i \in DOMAIN items
  PROVE  Found(items, keys, keys[i]) = {items[i]}
<1>1. Present(keys, {keys[i]})
  BY DEF Present
<1>2. Position(keys, {keys[i]}) = i
  BY <1>1, PositionIs DEF IsInjective
<1> QED BY <1>1, <1>2 DEF Found

LEMMA FoundIn ==
  ASSUME NEW items, NEW keys, NEW key, NEW item \in Found(items, keys, key)
  PROVE  \E i \in DOMAIN keys : keys[i] = key /\ item = items[i]
<1>1. Present(keys, {key}) /\ item = items[Position(keys, {key})]
  BY DEF Found
<1>2. Position(keys, {key}) \in DOMAIN keys /\ keys[Position(keys, {key})] = key
  BY <1>1, PositionIs
<1> QED BY <1>1, <1>2

(* The anchor of a row stands for its matches.                             *)
LEMMA ResolvedRow ==
  ASSUME NEW list, IsInjective(ids(list)), NEW i \in DOMAIN list, NEW groups, NEW rules
  PROVE  resolve_anchor(RowAnchor(list[i].id), list, groups, rules) = list[i].matches
<1> DEFINE anchor == RowAnchor(list[i].id)
<1>1. anchor.kind = "row" /\ anchor.row = ids(list)[i] /\ DOMAIN ids(list) = DOMAIN list
  BY DEF RowAnchor, ids, row_id
<1>2. Found(list, ids(list), anchor.row) = {list[i]}
  BY <1>1, FoundIs
<1> HIDE DEF anchor
<1>3. resolve_anchor(anchor, list, groups, rules) = list[i].matches
  BY <1>1, <1>2 DEF resolve_anchor
<1> QED BY <1>3 DEF anchor

\* The matches of a command.
MatchesOf(matches, name) == ItemsAt(matches, {i \in DOMAIN matches : command_name(matches[i]) = name})

(* The anchor of a service stands for the matches of its command in it.    *)
LEMMA ResolvedService ==
  ASSUME NEW groups, IsInjective(names(groups)), NEW i \in DOMAIN groups,
         IsInjective(ids(groups[i].services)), NEW j \in DOMAIN groups[i].services, NEW list, NEW rules
  PROVE  resolve_anchor(ServiceAnchor(groups[i].command, groups[i].services[j].id), list, groups, rules)
           = MatchesOf(matches_group[rules][groups[i].services[j].instances], groups[i].command.name)
<1> DEFINE service == groups[i].services[j]
           anchor == ServiceAnchor(groups[i].command, service.id)
<1>1. anchor.kind = "service" /\ anchor.command = groups[i].command.name /\ anchor.service = service.id
  BY DEF ServiceAnchor
<1>2. Found(groups, names(groups), anchor.command) = {groups[i]}
  <2>1. anchor.command = names(groups)[i] /\ DOMAIN names(groups) = DOMAIN groups
    BY <1>1 DEF names, command_name
  <2> HIDE DEF anchor
  <2> QED BY <2>1, FoundIs
<1>3. Found(groups[i].services, ids(groups[i].services), anchor.service) = {service}
  <2>1. /\ anchor.service = ids(groups[i].services)[j]
        /\ DOMAIN ids(groups[i].services) = DOMAIN groups[i].services
    BY <1>1 DEF ids, row_id
  <2> HIDE DEF anchor
  <2> QED BY <2>1, FoundIs
<1> HIDE DEF anchor, service
<1> DEFINE services == UNION {Found(g.services, ids(g.services), anchor.service) :
                                g \in Found(groups, names(groups), anchor.command)}
<1>4. services = {service}
  BY <1>2, <1>3
<1> HIDE DEF services
<1>5. services # {} /\ (CHOOSE s \in services : TRUE) = service
  BY <1>4
<1>6. resolve_anchor(anchor, list, groups, rules) = MatchesOf(matches_group[rules][service.instances], anchor.command)
  BY <1>1, <1>5 DEF resolve_anchor, MatchesOf, services
<1> QED BY <1>1, <1>6 DEF anchor, service

LEMMA MoreMatches ==
  ASSUME NEW matches, NEW rules, NEW entries, NEW more, IsMatches(matches, rules, entries), entries \subseteq more
  PROVE  IsMatches(matches, rules, more)
<1>1. ASSUME NEW match, IsMatch(match, rules, entries) PROVE IsMatch(match, rules, more)
  BY <1>1 DEF IsMatch
<1> QED BY <1>1 DEF IsMatches

LEMMA SomeMatches ==
  ASSUME NEW matches, NEW rules, NEW entries, IsMatches(matches, rules, entries),
         NEW S, S \subseteq DOMAIN matches
  PROVE  IsMatches(ItemsAt(matches, S), rules, entries)
<1> DEFINE some == ItemsAt(matches, S)
<1>1. IsASequence(matches)
  BY DEF IsMatches
<1>2. IsASequence(some) /\ \A i \in DOMAIN some : \E k \in S : some[i] = matches[k]
  BY <1>1, ItemsAtThem
<1>3. \A k, l \in S : matches[k].command.name = matches[l].command.name => k = l
  BY DEF IsMatches, IsInjective, names, command_name
<1>4. IsInjective(some)
  BY <1>1, <1>3, ItemsAtOnce
<1> HIDE DEF some
<1>5. \A i \in DOMAIN some : IsMatch(some[i], rules, entries)
  BY <1>2 DEF IsMatches
<1>6. ASSUME NEW i \in DOMAIN some, NEW j \in DOMAIN some, some[i].command.name = some[j].command.name
      PROVE  i = j
  <2>1. PICK k \in S : some[i] = matches[k]
    BY <1>2
  <2>2. PICK l \in S : some[j] = matches[l]
    BY <1>2
  <2> QED BY <1>3, <1>4, <1>6, <2>1, <2>2 DEF IsInjective
<1>7. IsInjective(names(some))
  BY <1>6 DEF names, command_name, IsInjective
<1> QED BY <1>2, <1>5, <1>7 DEF IsMatches, some

LEMMA NoMatches ==
  ASSUME NEW rules, NEW entries PROVE IsMatches(<<>>, rules, entries)
<1>1. DOMAIN <<>> = {} /\ DOMAIN names(<<>>) = {} /\ Len(<<>>) = 0 /\ <<>> = [i \in 1..0 |-> <<>>[i]]
  BY DEF names
<1> QED BY <1>1 DEF IsMatches, IsASequence, IsInjective

\* What is shown: rows, or commands with their services, of these entries.
Lists(list, groups, rules, entries) ==
  \/ AreRows(list, rules, entries) /\ groups = <<>>
  \/ AreGroups(groups, rules, entries) /\ list = <<>>

(* Whatever an anchor stands for, it is matches in the entries shown.      *)
LEMMA ResolvedMatches ==
  ASSUME NEW rules \in Engines, NEW entries \in SUBSET Entry, NEW list, NEW groups,
         Lists(list, groups, rules, entries), NEW anchor
  PROVE  IsMatches(resolve_anchor(anchor, list, groups, rules), rules, entries)
<1> DEFINE row == Found(list, ids(list), anchor.row)
           group == Found(groups, names(groups), anchor.command)
           services == UNION {Found(g.services, ids(g.services), anchor.service) : g \in group}
           service == CHOOSE s \in services : TRUE
           now == matches_group[rules][service.instances]
<1>1. ASSUME NEW S \in SUBSET entries PROVE IsMatches(matches_group[rules][ordered(S)], rules, entries)
  <2>1. S \in SUBSET Entry
    OBVIOUS
  <2> QED BY <2>1, MatchesAre, MoreMatches
<1>2. CASE anchor.kind = "row"
  <2>1. CASE row = {}
    BY <1>2, <2>1, NoMatches DEF resolve_anchor
  <2>2. CASE row # {}
    <3>1. PICK r \in row : r = CHOOSE s \in row : TRUE
      BY <2>2
    <3>2. PICK i \in DOMAIN ids(list) : r = list[i]
      BY FoundIn
    <3>3. i \in DOMAIN list
      BY DEF ids
    <3>4. AreRows(list, rules, entries)
      BY <3>3 DEF Lists
    <3>5. PICK S \in SUBSET entries : list[i].instances = ordered(S)
      BY <3>3, <3>4 DEF AreRows, IsListOf
    <3>6. r.matches = matches_group[rules][ordered(S)]
      BY <3>2, <3>3, <3>4, <3>5 DEF AreRows
    <3>7. resolve_anchor(anchor, list, groups, rules) = r.matches
      BY <1>2, <2>2, <3>1 DEF resolve_anchor
    <3> QED BY <1>1, <3>6, <3>7
  <2> QED BY <2>1, <2>2
<1>3. CASE anchor.kind # "row"
  <2>1. CASE services = {}
    BY <1>3, <2>1, NoMatches DEF resolve_anchor
  <2>2. CASE services # {}
    <3>1. service \in services
      BY <2>2
    <3>2. PICK g \in group : service \in Found(g.services, ids(g.services), anchor.service)
      BY <3>1
    <3>3. PICK k \in DOMAIN names(groups) : g = groups[k]
      BY FoundIn
    <3> HIDE DEF service
    <3>4. PICK l \in DOMAIN ids(g.services) : service = g.services[l]
      BY <3>2, FoundIn
    <3>5. k \in DOMAIN groups /\ l \in DOMAIN g.services
      BY DEF names, ids
    <3>6. AreGroups(groups, rules, entries)
      BY <3>5 DEF Lists
    <3>7. IsListOf(g.services, entries)
      BY <3>3, <3>5, <3>6 DEF AreGroups
    <3>8. PICK S \in SUBSET entries : service.instances = ordered(S)
      BY <3>4, <3>5, <3>7 DEF IsListOf
    <3>9. IsMatches(now, rules, entries)
      BY <1>1, <3>8
    <3> HIDE DEF services
    <3>10. resolve_anchor(anchor, list, groups, rules) = MatchesOf(now, anchor.command)
      BY <1>3, <2>2 DEF resolve_anchor, MatchesOf, service, services
    <3> HIDE DEF now
    <3> QED BY <3>9, <3>10, SomeMatches DEF MatchesOf
  <2> QED BY <2>1, <2>2
<1> QED BY <1>2, <1>3

-----------------------------------------------------------------------------
(* An open picker is of what is selected, points at something in it, and   *)
(* lists what matches it now.                                              *)

OnRow(open, at, list) == at \in DOMAIN list /\ open.anchor = RowAnchor(list[at].id)

IsLive(open, at, list, groups, rules, tab) ==
  /\ open.mode = "ActionPicker" =>
       /\ {"anchor", "matches", "index"} \subseteq DOMAIN open
       /\ tab # "command" /\ OnRow(open, at, list)
       /\ open.matches = list[at].matches
       /\ open.index \in DOMAIN open.matches
  /\ open.mode = "InstancePicker" =>
       /\ {"anchor", "action", "index"} \subseteq DOMAIN open
       /\ tab # "command" => OnRow(open, at, list)
       /\ open.action \in ToSet(resolve_anchor(open.anchor, list, groups, rules))
       /\ open.index \in DOMAIN open.action.targets
  /\ open.mode = "ServicePicker" =>
       /\ "index" \in DOMAIN open
       /\ at \in DOMAIN groups
       /\ open.index \in DOMAIN groups[at].services

LiveInv == IsLive(modal, selected, rows, command_groups, engine, filter.grouping)

LEMMA NoPickerIsLive ==
  ASSUME NEW open, open.mode \notin PICKERS, NEW at, NEW list, NEW groups, NEW rules, NEW tab
  PROVE  IsLive(open, at, list, groups, rules, tab)
BY DEF IsLive, PICKERS

(* What reconcile_action_pickers leaves open lists what its anchor stands  *)
(* for, and points at something in it.                                     *)
LEMMA ReconciledLive ==
  ASSUME NEW open, NEW list, NEW groups, NEW rules, NEW to,
         to = reconcile_action_pickers(open, list, groups, rules)
  PROVE  /\ to.mode = "ActionPicker" =>
              /\ open.mode = "ActionPicker"
              /\ {"anchor", "matches", "index"} \subseteq DOMAIN to
              /\ to.anchor = open.anchor
              /\ to.matches = resolve_anchor(open.anchor, list, groups, rules)
              /\ to.index \in DOMAIN to.matches
         /\ to.mode = "InstancePicker" =>
              /\ open.mode = "InstancePicker"
              /\ {"anchor", "action", "index"} \subseteq DOMAIN to
              /\ to.anchor = open.anchor
              /\ to.action \in ToSet(resolve_anchor(open.anchor, list, groups, rules))
              /\ to.index \in DOMAIN to.action.targets
<1> DEFINE live == resolve_anchor(open.anchor, list, groups, rules)
           chosen == At(names(open.matches), open.index)
           name == {command_name(open.action)}
           action == live[Position(names(live), name)]
           target == At(open.action.targets, open.index)
<1>0. Plain("Browse").mode = "Browse"
  BY DEF Plain
<1>1. DOMAIN names(live) = DOMAIN live
  BY DEF names
<1>2. ASSUME to.mode = "ActionPicker"
      PROVE  /\ open.mode = "ActionPicker"
             /\ {"anchor", "matches", "index"} \subseteq DOMAIN to
             /\ to.anchor = open.anchor
             /\ to.matches = live
             /\ to.index \in DOMAIN to.matches
  <2>1. /\ open.mode = "ActionPicker"
        /\ Present(names(live), chosen)
        /\ to = [mode |-> "ActionPicker", anchor |-> open.anchor, matches |-> live,
                 index |-> Position(names(live), chosen)]
    BY <1>0, <1>2 DEF reconcile_action_pickers
  <2> HIDE DEF live, chosen
  <2>2. Position(names(live), chosen) \in DOMAIN names(live)
    BY <2>1, PositionIs
  <2> QED BY <1>1, <2>1, <2>2
<1>3. ASSUME to.mode = "InstancePicker"
      PROVE  /\ open.mode = "InstancePicker"
             /\ {"anchor", "action", "index"} \subseteq DOMAIN to
             /\ to.anchor = open.anchor
             /\ to.action \in ToSet(live)
             /\ to.index \in DOMAIN to.action.targets
  <2>1. /\ open.mode = "InstancePicker"
        /\ Present(names(live), name)
        /\ Present(action.targets, target)
        /\ to = [mode |-> "InstancePicker", anchor |-> open.anchor, action |-> action,
                 index |-> Position(action.targets, target)]
    BY <1>0, <1>3 DEF reconcile_action_pickers
  <2> HIDE DEF live, name, target
  <2>2. action \in ToSet(live)
    BY <1>1, <2>1, PositionIs DEF ToSet
  <2> HIDE DEF action
  <2>3. Position(action.targets, target) \in DOMAIN action.targets
    BY <2>1, PositionIs
  <2> QED BY <2>1, <2>2, <2>3
<1> QED BY <1>2, <1>3

(* The cursor is on the row of the anchor as long as that is there.        *)
LEMMA FollowsAnchor ==
  ASSUME NEW list, NEW at \in DOMAIN list, NEW new, IsInjective(ids(new)), NEW id, id = list[at].id,
         Present(ids(new), {id})
  PROVE  LET now == find_selection(ids(new), At(ids(list), at), at)
         IN now \in DOMAIN new /\ new[now].id = id
<1>1. At(ids(list), at) = {id}
  BY DEF At, ids, row_id
<1>2. find_selection(ids(new), At(ids(list), at), at) = Position(ids(new), {id})
  BY <1>1 DEF find_selection
<1>3. Position(ids(new), {id}) \in DOMAIN ids(new) /\ ids(new)[Position(ids(new), {id})] = id
  BY PositionIs
<1> QED BY <1>2, <1>3 DEF ids, row_id

LEMMA RowsStayLive ==
  ASSUME NEW open, NEW at, NEW list, NEW groups, NEW rules, NEW tab, IsLive(open, at, list, groups, rules, tab),
         tab # "command", open.mode # "ServicePicker", "mode" \in DOMAIN open,
         NEW new, IsInjective(ids(new)), NEW new_rules,
         NEW to, to = reconcile_action_pickers(open, new, <<>>, new_rules),
         NEW now, now = find_selection(ids(new), At(ids(list), at), at)
  PROVE  IsLive(to, now, new, <<>>, new_rules, tab)
<1>1. to.mode # "ServicePicker"
  BY ModeOfActions
<1>2. ASSUME to.mode \in {"ActionPicker", "InstancePicker"}
      PROVE  /\ to.anchor = open.anchor /\ OnRow(to, now, new)
             /\ resolve_anchor(to.anchor, new, <<>>, new_rules) = new[now].matches
  <2>1. open.mode = to.mode /\ to.anchor = open.anchor
    BY <1>2, ReconciledLive
  <2>2. OnRow(open, at, list)
    BY <1>2, <2>1 DEF IsLive
  <2>3. at \in DOMAIN list /\ open.anchor = RowAnchor(list[at].id)
    BY <2>2 DEF OnRow
  <2>4. resolve_anchor(open.anchor, new, <<>>, new_rules) # <<>>
    <3>1. \E i \in DOMAIN resolve_anchor(open.anchor, new, <<>>, new_rules) : TRUE
      BY <1>2, <2>1, ReconciledLive DEF ToSet
    <3> QED BY <3>1
  <2>5. Found(new, ids(new), list[at].id) # {}
    <3>1. open.anchor.kind = "row" /\ open.anchor.row = list[at].id
      BY <2>3 DEF RowAnchor
    <3> QED BY <2>4, <3>1 DEF resolve_anchor
  <2>6. Present(ids(new), {list[at].id})
    BY <2>5 DEF Found
  <2>7. now \in DOMAIN new /\ new[now].id = list[at].id
    BY <2>3, <2>6, FollowsAnchor
  <2>8. to.anchor = RowAnchor(new[now].id)
    BY <2>1, <2>3, <2>7
  <2> QED BY <2>1, <2>7, <2>8, ResolvedRow DEF OnRow
<1>3. to.mode = "ActionPicker" => IsLive(to, now, new, <<>>, new_rules, tab)
  BY <1>2, ReconciledLive DEF IsLive
<1>4. to.mode = "InstancePicker" => IsLive(to, now, new, <<>>, new_rules, tab)
  BY <1>2, ReconciledLive DEF IsLive
<1> QED BY <1>1, <1>3, <1>4, NoPickerIsLive DEF PICKERS

LEMMA GroupsStayLive ==
  ASSUME NEW open, NEW at, NEW list, NEW rules, IsLive(open, at, list, command_groups, rules, "command"),
         "mode" \in DOMAIN open,
         NEW new, NEW new_rules, NEW now,
         NEW to, to = reconcile_action_pickers(reconcile_service_picker(open, at, new, now), <<>>, new, new_rules)
  PROVE  IsLive(to, now, <<>>, new, new_rules, "command")
<1> DEFINE between == reconcile_service_picker(open, at, new, now)
           services == ids(new[now].services)
           chosen == At(ids(command_groups[at].services), open.index)
<1>1. Plain("Browse").mode = "Browse"
  BY DEF Plain
<1>2. CASE open.mode = "ServicePicker"
  <2>1. between \in {Plain("Browse"), [mode |-> "ServicePicker", index |-> Position(services, chosen)]}
    BY <1>2 DEF reconcile_service_picker
  <2>2. to = between
    BY <1>1, <2>1 DEF reconcile_action_pickers
  <2>3. CASE to = Plain("Browse")
    BY <1>1, <2>3, NoPickerIsLive DEF PICKERS
  <2>4. CASE to # Plain("Browse")
    <3>1. /\ now \in DOMAIN new /\ Present(services, chosen)
          /\ to = [mode |-> "ServicePicker", index |-> Position(services, chosen)]
      BY <1>2, <2>2, <2>4 DEF reconcile_service_picker
    <3>2. Position(services, chosen) \in DOMAIN services
      BY <3>1, PositionIs
    <3>3. DOMAIN services = DOMAIN new[now].services
      BY DEF ids
    <3> HIDE DEF services
    <3> QED BY <3>1, <3>2, <3>3 DEF IsLive
  <2> QED BY <2>3, <2>4
<1>3. CASE open.mode # "ServicePicker"
  <2>1. to = reconcile_action_pickers(open, <<>>, new, new_rules)
    BY <1>3 DEF reconcile_service_picker
  <2>2. to.mode \notin {"ActionPicker", "ServicePicker"}
    BY <1>3, <2>1, ReconciledLive, ModeOfActions DEF IsLive
  <2>3. to.mode = "InstancePicker" => IsLive(to, now, <<>>, new, new_rules, "command")
    BY <2>1, ReconciledLive DEF IsLive
  <2> QED BY <2>2, <2>3, NoPickerIsLive DEF PICKERS
<1> QED BY <1>2, <1>3

-----------------------------------------------------------------------------
(* Steps that rebuild the lists, and steps that open a picker.             *)

ShownEntries == FilteredEntries(filter, records)

LEMMA ShownAre ==
  ASSUME FilterInv, PickerInv, ListsAreCurrent
  PROVE  /\ ShownEntries \in SUBSET Entry
         /\ Lists(rows, command_groups, engine, ShownEntries)
         /\ IsCommandTab => AreGroups(command_groups, engine, ShownEntries) /\ rows = <<>>
         /\ ~IsCommandTab => AreRows(rows, engine, ShownEntries) /\ command_groups = <<>>
<1>1. ShownEntries \in SUBSET Entry /\ engine \in Engines
  BY DEF ShownEntries, FilteredEntries, PickerInv
<1>2. CASE IsCommandTab
  BY <1>1, <1>2, CommandRowsAre DEF ListsAreCurrent, ShownEntries, Lists
<1>3. CASE ~IsCommandTab
  <2>1. filter.grouping \in {TABS[i] : i \in 1 .. 3}
    BY <1>3 DEF FilterInv, IsCommandTab, TABS
  <2>2. rows = Rows[engine][ShownEntries][filter.grouping] /\ command_groups = <<>>
    BY <1>3 DEF ListsAreCurrent, ShownEntries
  <2> QED BY <1>1, <1>3, <2>1, <2>2, RowsAre DEF Lists
<1> QED BY <1>1, <1>2, <1>3

LEMMA RebuiltLive ==
  ASSUME PickerInv, LiveInv, (FilterInv /\ PickerInv /\ ListsAreCurrent)',
         NEW at, NEW scroll, NEW open, recompute_visible(at, scroll, open), "mode" \in DOMAIN open,
         \/ open.mode \notin PICKERS
         \/ open = modal /\ at = selected /\ filter'.grouping = filter.grouping
  PROVE  LiveInv'
<1>1. CASE open.mode \notin PICKERS
  <2>1. modal'.mode \notin PICKERS
    BY <1>1, RecomputedModal DEF PICKERS
  <2> QED BY <2>1, NoPickerIsLive DEF LiveInv
<1>2. CASE open = modal /\ at = selected /\ filter'.grouping = filter.grouping /\ IsCommandTab
  <2>1. PICK new, now :
          /\ rows' = <<>> /\ command_groups' = new /\ selected' = now
          /\ modal' = reconcile_action_pickers(reconcile_service_picker(open, at, new, now), <<>>, new, engine')
    BY <1>2 DEF recompute_visible, RecomputeCommandGroups, IsCommandTab
  <2>2. IsLive(open, at, rows, command_groups, engine, "command")
    BY <1>2 DEF LiveInv, IsCommandTab
  <2>3. IsLive(modal', now, <<>>, new, engine', "command")
    BY <2>1, <2>2, GroupsStayLive
  <2>4. filter'.grouping = "command"
    BY <1>2 DEF IsCommandTab
  <2> QED BY <2>1, <2>3, <2>4 DEF LiveInv
<1>3. CASE open = modal /\ at = selected /\ filter'.grouping = filter.grouping /\ ~IsCommandTab
  <2>1. /\ command_groups' = <<>>
        /\ selected' = find_selection(ids(rows'), At(ids(rows), selected), selected)
        /\ modal' = reconcile_action_pickers(modal, rows', <<>>, engine')
    BY <1>3 DEF recompute_visible, RecomputeRows, IsCommandTab
  <2>2. IsInjective(ids(rows'))
    <3>1. (~IsCommandTab => AreRows(rows, engine, ShownEntries) /\ command_groups = <<>>)'
      BY ShownAre, PTL
    <3>2. ~IsCommandTab'
      BY <1>3 DEF IsCommandTab
    <3> QED BY <3>1, <3>2 DEF AreRows, IsListOf
  <2>3. modal.mode # "ServicePicker" /\ "mode" \in DOMAIN modal
    BY <1>3 DEF PickerInv
  <2>4. IsLive(modal, selected, rows, command_groups, engine, filter.grouping) /\ filter.grouping # "command"
    BY <1>3 DEF LiveInv, IsCommandTab
  <2>5. IsLive(modal', selected', rows', <<>>, engine', filter.grouping)
    BY <2>1, <2>2, <2>3, <2>4, RowsStayLive
  <2> QED BY <1>3, <2>1, <2>5 DEF LiveInv
<1> QED BY <1>1, <1>2, <1>3

\* What is open after a key is live in the lists as they are.
OpenIsLive == IsLive(modal', selected, rows, command_groups, engine, filter.grouping)

\* Something a picker may be opened with.
IsChoice(match, anchor) ==
  /\ match \in ToSet(resolve_anchor(anchor, rows, command_groups, engine))
  /\ ~IsCommandTab => selected \in DOMAIN rows /\ anchor = RowAnchor(rows[selected].id)

LEMMA ChoiceIsMatch ==
  ASSUME FilterInv, PickerInv, ListsAreCurrent, NEW match, NEW anchor, IsChoice(match, anchor)
  PROVE  IsMatch(match, engine, ShownEntries)
<1>1. IsMatches(resolve_anchor(anchor, rows, command_groups, engine), engine, ShownEntries)
  <2>1. engine \in Engines
    BY DEF PickerInv
  <2> QED BY <2>1, ShownAre, ResolvedMatches
<1> QED BY <1>1 DEF IsMatches, IsChoice, ToSet

LEMMA ExecutedLive ==
  ASSUME LiveInv, NEW command, NEW target, execute_action(command, target)
  PROVE  OpenIsLive
<1>1. CASE UNCHANGED modal
  BY <1>1 DEF LiveInv, OpenIsLive
<1>2. CASE modal' = Plain("Browse")
  BY <1>2, NoPickerIsLive DEF OpenIsLive, Plain, PICKERS
<1> QED BY <1>1, <1>2 DEF execute_action

LEMMA ChosenLive ==
  ASSUME FilterInv, PickerInv, ListsAreCurrent, LiveInv,
         NEW match, NEW anchor, IsChoice(match, anchor), choose_action(match, anchor)
  PROVE  OpenIsLive
<1>1. CASE Len(match.targets) > 1
  <2>1. modal' = [mode |-> "InstancePicker", anchor |-> anchor, action |-> match, index |-> 1]
    BY <1>1 DEF choose_action, show
  <2>2. 1 \in DOMAIN match.targets
    BY <1>1, ChoiceIsMatch DEF IsMatch, IsASequence
  <2> QED BY <2>1, <2>2 DEF OpenIsLive, IsLive, IsChoice, OnRow, IsCommandTab
<1>2. CASE ~(Len(match.targets) > 1)
  BY <1>2, ExecutedLive DEF choose_action
<1> QED BY <1>1, <1>2

(* The matches of the selected row are those its anchor stands for.        *)
LEMMA SelectedRow ==
  ASSUME FilterInv, PickerInv, ListsAreCurrent, ~IsCommandTab, selected \in DOMAIN rows
  PROVE  resolve_anchor(RowAnchor(rows[selected].id), rows, command_groups, engine) = rows[selected].matches
BY ShownAre, ResolvedRow DEF AreRows, IsListOf

LEMMA InvokedRowLive ==
  ASSUME FilterInv, PickerInv, ListsAreCurrent, LiveInv, ~IsCommandTab,
         selected \in DOMAIN rows, invoke_row(rows[selected])
  PROVE  OpenIsLive
<1> DEFINE row == rows[selected]
<1>1. resolve_anchor(RowAnchor(row.id), rows, command_groups, engine) = row.matches
  BY SelectedRow
<1>2. IsASequence(row.matches)
  <2>1. engine \in Engines
    BY DEF PickerInv
  <2> QED BY <1>1, <2>1, ShownAre, ResolvedMatches DEF IsMatches
<1>3. CASE Len(row.matches) = 0
  BY <1>3 DEF invoke_row, show, OpenIsLive, LiveInv
<1>4. CASE Len(row.matches) = 1
  <2>1. choose_action(row.matches[1], RowAnchor(row.id))
    BY <1>4 DEF invoke_row
  <2>2. 1 \in DOMAIN row.matches
    BY <1>2, <1>4 DEF IsASequence
  <2>3. IsChoice(row.matches[1], RowAnchor(row.id))
    BY <1>1, <2>2 DEF IsChoice, ToSet
  <2> QED BY <2>1, <2>3, ChosenLive
<1>5. CASE Len(row.matches) \notin {0, 1}
  <2>1. modal' = [mode |-> "ActionPicker", anchor |-> RowAnchor(row.id), matches |-> row.matches, index |-> 1]
    BY <1>5 DEF invoke_row, show
  <2>2. 1 \in DOMAIN row.matches
    BY <1>2, <1>5 DEF IsASequence
  <2> QED BY <2>1, <2>2 DEF OpenIsLive, IsLive, OnRow, IsCommandTab
<1> QED BY <1>3, <1>4, <1>5

\* The service of a command of the command tab.
IsServiceOf(service, group) ==
  \E i \in DOMAIN command_groups : \E j \in DOMAIN command_groups[i].services :
    group = command_groups[i] /\ service = command_groups[i].services[j]

(* What a command finds in a service of its group may be chosen.           *)
LEMMA ServiceChoice ==
  ASSUME FilterInv, PickerInv, ListsAreCurrent, IsCommandTab,
         NEW group, NEW service, IsServiceOf(service, group),
         NEW match \in Found(matches_group[engine][service.instances],
                             names(matches_group[engine][service.instances]), group.command.name)
  PROVE  IsChoice(match, ServiceAnchor(group.command, service.id))
<1> DEFINE result == matches_group[engine][service.instances]
           name == group.command.name
           anchor == ServiceAnchor(group.command, service.id)
<1>1. AreGroups(command_groups, engine, ShownEntries)
  BY ShownAre
<1>2. PICK i \in DOMAIN command_groups : \E j \in DOMAIN command_groups[i].services :
             group = command_groups[i] /\ service = command_groups[i].services[j]
  BY DEF IsServiceOf
<1>3. PICK j \in DOMAIN command_groups[i].services :
             group = command_groups[i] /\ service = command_groups[i].services[j]
  BY <1>2
<1>4. IsInjective(names(command_groups)) /\ IsListOf(command_groups[i].services, ShownEntries)
  BY <1>1 DEF AreGroups
<1>5. resolve_anchor(anchor, rows, command_groups, engine) = MatchesOf(result, name)
  BY <1>3, <1>4, ResolvedService DEF IsListOf
<1>6. IsASequence(result)
  <2>1. PICK S \in SUBSET ShownEntries : service.instances = ordered(S)
    BY <1>3, <1>4 DEF IsListOf
  <2>2. S \in SUBSET Entry /\ engine \in Engines
    BY ShownAre DEF PickerInv
  <2> QED BY <2>1, <2>2, MatchesAre DEF IsMatches
<1> HIDE DEF result, anchor
<1>7. PICK k \in DOMAIN names(result) : names(result)[k] = name /\ match = result[k]
  BY FoundIn DEF result
<1> DEFINE S == {l \in DOMAIN result : command_name(result[l]) = name}
<1>8. k \in S /\ S \subseteq DOMAIN result
  BY <1>7 DEF names
<1>9. MatchesOf(result, name) = ItemsAt(result, S)
  BY DEF MatchesOf
<1> HIDE DEF S
<1>10. match \in ToSet(MatchesOf(result, name))
  BY <1>6, <1>7, <1>8, <1>9, ItemsAtThem DEF ToSet
<1>11. IsChoice(match, anchor)
  BY <1>5, <1>10 DEF IsChoice
<1> QED BY <1>11 DEF anchor

LEMMA RunOnLive ==
  ASSUME FilterInv, PickerInv, ListsAreCurrent, LiveInv, IsCommandTab,
         NEW group, NEW service, IsServiceOf(service, group), run_command_on(group.command, service)
  PROVE  OpenIsLive
<1>1. CASE modal' = Plain("Browse")
  BY <1>1, NoPickerIsLive DEF OpenIsLive, Plain, PICKERS
<1>2. CASE \E match, anchor : IsChoice(match, anchor) /\ choose_action(match, anchor)
  BY <1>2, ChosenLive
<1> QED BY <1>1, <1>2, ServiceChoice DEF run_command_on, show

LEMMA InvokedLive ==
  ASSUME FilterInv, PickerInv, ListsAreCurrent, LiveInv, invoke_selected
  PROVE  OpenIsLive
<1>1. CASE IsCommandTab /\ selected \in DOMAIN command_groups /\ invoke_command(command_groups[selected])
  <2> DEFINE group == command_groups[selected]
  <2>1. IsListOf(group.services, ShownEntries)
    BY <1>1, ShownAre DEF AreGroups
  <2>2. Len(group.services) \in Nat /\ DOMAIN group.services = 1..Len(group.services)
    BY <2>1 DEF IsListOf, IsASequence
  <2>3. CASE Len(group.services) = 0
    BY <1>1, <2>3 DEF invoke_command, show, OpenIsLive, LiveInv
  <2>4. CASE Len(group.services) = 1
    <3>1. run_command_on(group.command, group.services[1])
      BY <1>1, <2>4 DEF invoke_command
    <3>2. 1 \in DOMAIN group.services
      BY <2>2, <2>4
    <3>3. IsServiceOf(group.services[1], group)
      BY <1>1, <3>2 DEF IsServiceOf
    <3> QED BY <1>1, <3>1, <3>3, RunOnLive
  <2>5. CASE Len(group.services) \notin {0, 1}
    <3>1. modal' = [mode |-> "ServicePicker", index |-> 1]
      BY <1>1, <2>5 DEF invoke_command, show
    <3>2. 1 \in DOMAIN group.services
      BY <2>2, <2>5
    <3> QED BY <1>1, <3>1, <3>2 DEF OpenIsLive, IsLive
  <2> QED BY <2>3, <2>4, <2>5
<1>2. CASE ~IsCommandTab /\ selected \in DOMAIN rows /\ invoke_row(rows[selected])
  BY <1>2, InvokedRowLive
<1> QED BY <1>1, <1>2 DEF invoke_selected

(* What a picker lists is a list, and what the cursor is on is in it.      *)
LEMMA ListedIsAList ==
  ASSUME FilterInv, PickerInv, ListsAreCurrent, LiveInv, modal.mode \in PICKERS
  PROVE  IsASequence(PickerList) /\ modal.index \in DOMAIN PickerList
<1>0. engine \in Engines
  BY DEF PickerInv
<1>1. CASE modal.mode = "ActionPicker"
  <2>1. /\ ~IsCommandTab /\ selected \in DOMAIN rows
        /\ modal.matches = rows[selected].matches /\ modal.index \in DOMAIN modal.matches
    BY <1>1 DEF LiveInv, IsLive, OnRow, IsCommandTab
  <2>2. IsMatches(rows[selected].matches, engine, ShownEntries)
    BY <1>0, <2>1, SelectedRow, ShownAre, ResolvedMatches
  <2> QED BY <1>1, <2>1, <2>2 DEF PickerList, IsMatches
<1>2. CASE modal.mode = "InstancePicker"
  <2>1. /\ modal.action \in ToSet(resolve_anchor(modal.anchor, rows, command_groups, engine))
        /\ modal.index \in DOMAIN modal.action.targets
    BY <1>2 DEF LiveInv, IsLive
  <2>2. IsMatch(modal.action, engine, ShownEntries)
    BY <1>0, <2>1, ShownAre, ResolvedMatches DEF IsMatches, ToSet
  <2> QED BY <1>2, <2>1, <2>2 DEF PickerList, IsMatch
<1>3. CASE modal.mode = "ServicePicker"
  <2>1. IsCommandTab /\ selected \in DOMAIN command_groups /\ modal.index \in DOMAIN command_groups[selected].services
    BY <1>3 DEF LiveInv, IsLive, PickerInv
  <2>2. IsListOf(command_groups[selected].services, ShownEntries)
    BY <2>1, ShownAre DEF AreGroups
  <2> QED BY <1>3, <2>1, <2>2 DEF PickerList, IsListOf
<1> QED BY <1>1, <1>2, <1>3 DEF PICKERS

LEMMA SelectedLive ==
  ASSUME FilterInv, PickerInv, ListsAreCurrent, LiveInv, PickerSelect
  PROVE  OpenIsLive
<1>0. modal.mode \in PICKERS
  BY DEF PickerSelect, Input
<1>1. CASE modal.mode = "ActionPicker"
  <2>1. /\ ~IsCommandTab /\ selected \in DOMAIN rows /\ modal.anchor = RowAnchor(rows[selected].id)
        /\ modal.matches = rows[selected].matches /\ modal.index \in DOMAIN modal.matches
    BY <1>1 DEF LiveInv, IsLive, OnRow, IsCommandTab
  <2>2. IsChoice(modal.matches[modal.index], modal.anchor)
    BY <2>1, SelectedRow DEF IsChoice, ToSet
  <2>3. choose_action(modal.matches[modal.index], modal.anchor)
    BY <1>1 DEF PickerSelect, PickerList
  <2> QED BY <2>2, <2>3, ChosenLive
<1>2. CASE modal.mode = "InstancePicker"
  BY <1>2, ExecutedLive DEF PickerSelect
<1>3. CASE modal.mode = "ServicePicker"
  <2> DEFINE group == command_groups[selected]
  <2>1. IsCommandTab /\ selected \in DOMAIN command_groups /\ modal.index \in DOMAIN group.services
    BY <1>3 DEF LiveInv, IsLive, PickerInv
  <2>2. run_command_on(group.command, group.services[modal.index])
    BY <1>3 DEF PickerSelect, PickerList
  <2>3. IsServiceOf(group.services[modal.index], group)
    BY <2>1 DEF IsServiceOf
  <2> QED BY <2>1, <2>2, <2>3, RunOnLive
<1> QED BY <1>0, <1>1, <1>2, <1>3 DEF PICKERS

LEMMA MoveIndex ==
  ASSUME NEW n \in Nat, NEW index \in 1..n, NEW delta \in {-1, 1}
  PROVE  move_index(index, n, delta) \in 1..n
BY DEF move_index, Larger, Smaller

LEMMA MovedLive ==
  ASSUME FilterInv, PickerInv, ListsAreCurrent, LiveInv, NEW delta \in {-1, 1}, MovePicker(delta)
  PROVE  OpenIsLive
<1> DEFINE to == move_index(modal.index, Len(PickerList), delta)
<1>1. modal.mode \in PICKERS
  BY DEF MovePicker, Input
<1>2. to \in DOMAIN PickerList
  <2>1. IsASequence(PickerList) /\ modal.index \in DOMAIN PickerList
    BY <1>1, ListedIsAList
  <2>2. Len(PickerList) \in Nat /\ DOMAIN PickerList = 1..Len(PickerList)
    BY <2>1 DEF IsASequence
  <2> QED BY <2>1, <2>2, MoveIndex
<1>3. modal' = [modal EXCEPT !.index = to]
  BY DEF MovePicker
<1> HIDE DEF to
<1>4. "mode" \in DOMAIN modal /\ "index" \in DOMAIN modal
  BY <1>1 DEF LiveInv, IsLive, PickerInv, PICKERS
<1>5. modal'.mode = modal.mode /\ modal'.index = to /\ DOMAIN modal' = DOMAIN modal
  BY <1>3, <1>4
<1>6. \A x \in DOMAIN modal : x # "index" => modal'[x] = modal[x]
  BY <1>3
<1>7. CASE modal.mode = "ActionPicker"
  <2>1. modal'.matches = modal.matches /\ modal'.anchor = modal.anchor
    BY <1>6, <1>7 DEF LiveInv, IsLive
  <2> QED BY <1>2, <1>5, <1>7, <2>1 DEF LiveInv, OpenIsLive, IsLive, OnRow, PickerList
<1>8. CASE modal.mode = "InstancePicker"
  <2>1. modal'.action = modal.action /\ modal'.anchor = modal.anchor
    BY <1>6, <1>8 DEF LiveInv, IsLive
  <2> QED BY <1>2, <1>5, <1>8, <2>1 DEF LiveInv, OpenIsLive, IsLive, OnRow, PickerList
<1>9. CASE modal.mode = "ServicePicker"
  BY <1>2, <1>5, <1>9 DEF LiveInv, OpenIsLive, IsLive, PickerList
<1> QED BY <1>1, <1>7, <1>8, <1>9 DEF PICKERS

LEMMA StillLive ==
  ASSUME OpenIsLive, UNCHANGED <<filter, engine, rowVars, selected>>
  PROVE  LiveInv'
BY DEF OpenIsLive, LiveInv, rowVars

LEMMA KeyLive ==
  ASSUME FilterInv, PickerInv, ListsAreCurrent, LiveInv, QuietKey,
         (FilterInv /\ PickerInv /\ ListsAreCurrent)'
  PROVE  LiveInv'
<1> USE DEF listVars, dataVars
<1>1. ASSUME NEW at, NEW scroll, NEW open, recompute_visible(at, scroll, open),
             "mode" \in DOMAIN open, open.mode \notin PICKERS
      PROVE  LiveInv'
  BY <1>1, RebuiltLive
<1>2. ASSUME modal'.mode \notin PICKERS PROVE LiveInv'
  BY <1>2, NoPickerIsLive DEF LiveInv
<1>3. "mode" \in DOMAIN modal
  BY DEF PickerInv
<1>4. CASE Navigate BY <1>2, <1>4 DEF Navigate, Input, PICKERS
<1>5. CASE ShortenQuery BY <1>1, <1>3, <1>5 DEF ShortenQuery, Recomputed, Input, PICKERS
<1>6. CASE ToggleType BY <1>1, <1>3, <1>6 DEF ToggleType, Recomputed, Input, PICKERS
<1>7. CASE toggle_same_host_filter BY <1>1, <1>3, <1>7 DEF toggle_same_host_filter, Recomputed, Input, PICKERS
<1>8. CASE refresh_services
  <2>1. "mode" \in DOMAIN ClosedPickers /\ ClosedPickers.mode \notin PICKERS
    BY <1>3 DEF ClosedPickers, Plain, PICKERS
  <2> QED BY <1>1, <1>8, <2>1 DEF refresh_services
<1>9. CASE return_to_browse BY <1>2, <1>9 DEF return_to_browse, Plain, PICKERS
<1>10. CASE Quit BY <1>10 DEF Quit, LiveInv, rowVars
<1>11. CASE \E y \in 1 .. layout.height : Click(y) BY <1>2, <1>11 DEF Click, Input, PICKERS
<1>12. CASE \E mode \in PLAIN \ {"Browse"} : Open(mode) BY <1>2, <1>12 DEF Open, Plain, PLAIN, PICKERS
<1>13. CASE \E letter \in Letters : TypeLetter(letter)
  <2>1. "mode" \in DOMAIN Plain("Search") /\ Plain("Search").mode \notin PICKERS
    BY DEF Plain, PICKERS
  <2> QED BY <1>1, <1>13, <2>1 DEF TypeLetter
<1>14. CASE \E delta \in {-1, 1} : MoveTypeFilter(delta)
  <2>1. modal'.mode = modal.mode /\ modal.mode = "TypeFilter"
    BY <1>3, <1>14 DEF MoveTypeFilter, Input
  <2> QED BY <1>2, <2>1 DEF PICKERS
<1>15. CASE \E delta \in {-1, 1} : cycle_tab(delta) BY <1>1, <1>3, <1>15 DEF cycle_tab, Input, PICKERS
<1>16. CASE \E delta \in {-1, 1} : MovePicker(delta)
  BY <1>16, MovedLive, StillLive DEF MovePicker, Unmoved
<1> QED BY <1>4, <1>5, <1>6, <1>7, <1>8, <1>9, <1>10, <1>11, <1>12, <1>13, <1>14, <1>15, <1>16 DEF QuietKey

LEMMA StepLive ==
  ASSUME FilterInv, PickerInv, ListsAreCurrent, LiveInv, [BrowseNext]_vars,
         (FilterInv /\ PickerInv /\ ListsAreCurrent)'
  PROVE  LiveInv'
<1> USE DEF listVars, dataVars
<1>1. ASSUME recompute_visible(selected, details_scroll, ClosedPickers) PROVE LiveInv'
  <2>1. "mode" \in DOMAIN ClosedPickers /\ ClosedPickers.mode \notin PICKERS
    BY DEF PickerInv, ClosedPickers, Plain, PICKERS
  <2> QED BY <1>1, <2>1, RebuiltLive
<1>2. ASSUME recompute_visible(selected, details_scroll, modal), filter' = filter PROVE LiveInv'
  BY <1>2, RebuiltLive DEF PickerInv
<1>3. ASSUME UNCHANGED <<filter, engine, rowVars, selected, modal>> PROVE LiveInv'
  BY <1>3 DEF LiveInv, rowVars
<1>4. CASE PollReload BY <1>1, <1>3, <1>4 DEF PollReload
<1>5. CASE drain_discovery BY <1>1, <1>2, <1>3, <1>5 DEF drain_discovery, Recomputed
<1>6. CASE Draw BY <1>3, <1>6 DEF Draw
<1>7. CASE InputEnds BY <1>3, <1>7 DEF InputEnds
<1>8. CASE QuietKey BY <1>8, KeyLive
<1>9. CASE invoke_selected BY <1>9, InvokedLive, StillLive DEF invoke_selected, Unmoved
<1>10. CASE PickerSelect BY <1>10, SelectedLive, StillLive DEF PickerSelect, Unmoved
<1>11. CASE UNCHANGED vars BY <1>3, <1>11 DEF vars
<1> QED BY <1>4, <1>5, <1>6, <1>7, <1>8, <1>9, <1>10, <1>11 DEF BrowseNext, Tick, Left

LEMMA LiveHolds == BrowseSpec => [](FilterInv /\ PickerInv /\ ListsAreCurrent /\ LiveInv)
<1>1. BrowseInit => LiveInv
  <2> SUFFICES ASSUME BrowseInit PROVE LiveInv
    OBVIOUS
  <2>1. modal.mode \notin PICKERS
    BY DEF BrowseInit, Plain, PICKERS
  <2> QED BY <2>1, NoPickerIsLive DEF LiveInv
<1>2. FilterInv /\ PickerInv /\ ListsAreCurrent /\ LiveInv /\ [BrowseNext]_vars
        /\ (FilterInv /\ PickerInv /\ ListsAreCurrent)' => LiveInv'
  BY StepLive
<1> QED BY <1>1, <1>2, ListsHold, PickersHold, PTL DEF BrowseSpec

(* An open picker points at something, and lists what its anchor matches   *)
(* now: never what was true when it was opened, whatever discovery, a      *)
(* reload or a key has changed since (reconcile_action_pickers).           *)
THEOREM PickersAreLiveHolds == BrowseSpec => []PickersAreLive
<1>1. FilterInv /\ PickerInv /\ ListsAreCurrent /\ LiveInv => PickersAreLive
  <2> SUFFICES ASSUME FilterInv, PickerInv, ListsAreCurrent, LiveInv PROVE PickersAreLive
    OBVIOUS
  <2>1. modal.mode \in PICKERS => modal.index \in DOMAIN PickerList
    BY ListedIsAList
  <2>2. modal.mode = "ActionPicker" =>
          modal.matches = resolve_anchor(modal.anchor, rows, command_groups, engine)
    BY SelectedRow DEF LiveInv, IsLive, OnRow, IsCommandTab
  <2>3. modal.mode = "InstancePicker" =>
          modal.action \in ToSet(resolve_anchor(modal.anchor, rows, command_groups, engine))
    BY DEF LiveInv, IsLive
  <2> QED BY <2>1, <2>2, <2>3 DEF PickersAreLive
<1> QED BY <1>1, LiveHolds, PTL

-----------------------------------------------------------------------------
(* What is run.                                                            *)

\* An argv of a rule in force on an entry that is shown.
Runnable(argv) ==
  \E entry \in ShownEntries, command \in ToSet(engine) : argv \in ToSet(Candidates(command, entry))

LEMMA TargetIsRunnable ==
  ASSUME NEW match, IsMatch(match, engine, ShownEntries), NEW target \in ToSet(match.targets)
  PROVE  Runnable(target)
BY DEF IsMatch, Runnable

\* Something was run, and there was nothing else to run in that match.
RanOnly(match) == ran' # NoArgv => Runnable(ran') /\ match.targets = <<ran'>>

LEMMA ChosenRan ==
  ASSUME FilterInv, PickerInv, ListsAreCurrent,
         NEW match, NEW anchor, IsChoice(match, anchor), choose_action(match, anchor)
  PROVE  RanOnly(match)
<1>1. IsMatch(match, engine, ShownEntries)
  BY ChoiceIsMatch
<1>2. CASE Len(match.targets) > 1
  BY <1>2 DEF choose_action, show, RanOnly
<1>3. CASE ~(Len(match.targets) > 1)
  <2>1. Len(match.targets) \in Nat /\ match.targets = [i \in 1..Len(match.targets) |-> match.targets[i]]
        /\ match.targets # <<>>
    BY <1>1 DEF IsMatch, IsASequence
  <2>2. Len(match.targets) = 1
    <3>1. Len(match.targets) # 0
      <4> SUFFICES ASSUME Len(match.targets) = 0 PROVE FALSE
        OBVIOUS
      <4>1. match.targets = [i \in 1..0 |-> match.targets[i]]
        BY <2>1
      <4> QED BY <2>1, <4>1
    <3> DEFINE n == Len(match.targets)
    <3>2. n \in Nat /\ n # 0 /\ ~(n > 1)
      BY <1>3, <2>1, <3>1
    <3> HIDE DEF n
    <3>3. n = 1
      BY ONLY <3>2
    <3> QED BY <3>3 DEF n
  <2>3. match.targets = <<match.targets[1]>> /\ match.targets[1] \in ToSet(match.targets)
    <3>1. match.targets = [i \in 1..1 |-> match.targets[i]]
      BY <2>1, <2>2
    <3>2. 1 \in DOMAIN match.targets
      BY <2>1, <2>2
    <3> QED BY <3>1, <3>2 DEF ToSet
  <2>4. ran' \in {NoArgv, match.targets[1]}
    BY <1>3 DEF choose_action, execute_action
  <2> QED BY <1>1, <2>3, <2>4, TargetIsRunnable DEF RanOnly
<1> QED BY <1>2, <1>3

LEMMA RunOnRan ==
  ASSUME FilterInv, PickerInv, ListsAreCurrent, IsCommandTab,
         NEW group, NEW service, IsServiceOf(service, group), run_command_on(group.command, service)
  PROVE  ran' # NoArgv => Runnable(ran')
<1>1. CASE ran' = NoArgv
  BY <1>1
<1>2. CASE \E match : \E anchor : IsChoice(match, anchor) /\ choose_action(match, anchor)
  BY <1>2, ChosenRan DEF RanOnly
<1> QED BY <1>1, <1>2, ServiceChoice DEF run_command_on, show

LEMMA InvokedRan ==
  ASSUME FilterInv, PickerInv, ListsAreCurrent, invoke_selected, ran' # NoArgv
  PROVE  /\ Runnable(ran')
         /\ ~IsCommandTab => \E match \in ToSet(rows[selected].matches) : match.targets = <<ran'>>
<1>1. CASE IsCommandTab /\ selected \in DOMAIN command_groups /\ invoke_command(command_groups[selected])
  <2> DEFINE group == command_groups[selected]
  <2>1. IsListOf(group.services, ShownEntries)
    BY <1>1, ShownAre DEF AreGroups
  <2>2. Len(group.services) = 1
    BY <1>1 DEF invoke_command, show
  <2>3. run_command_on(group.command, group.services[1])
    BY <1>1, <2>2 DEF invoke_command
  <2>4. 1 \in DOMAIN group.services
    BY <2>1, <2>2 DEF IsListOf, IsASequence
  <2>5. IsServiceOf(group.services[1], group)
    BY <1>1, <2>4 DEF IsServiceOf
  <2> QED BY <1>1, <2>3, <2>5, RunOnRan
<1>2. CASE ~IsCommandTab /\ selected \in DOMAIN rows /\ invoke_row(rows[selected])
  <2> DEFINE row == rows[selected]
  <2>1. resolve_anchor(RowAnchor(row.id), rows, command_groups, engine) = row.matches
    BY <1>2, SelectedRow
  <2>2. IsASequence(row.matches)
    <3>1. engine \in Engines
      BY DEF PickerInv
    <3> QED BY <2>1, <3>1, ShownAre, ResolvedMatches DEF IsMatches
  <2>3. Len(row.matches) = 1
    BY <1>2 DEF invoke_row, show
  <2>4. choose_action(row.matches[1], RowAnchor(row.id))
    BY <1>2, <2>3 DEF invoke_row
  <2>5. row.matches[1] \in ToSet(row.matches)
    BY <2>2, <2>3 DEF IsASequence, ToSet
  <2>6. IsChoice(row.matches[1], RowAnchor(row.id))
    BY <1>2, <2>1, <2>5 DEF IsChoice
  <2>7. RanOnly(row.matches[1])
    BY <2>4, <2>6, ChosenRan
  <2> QED BY <2>5, <2>7 DEF RanOnly
<1> QED BY <1>1, <1>2 DEF invoke_selected

LEMMA SelectedRan ==
  ASSUME FilterInv, PickerInv, ListsAreCurrent, LiveInv, PickerSelect, ran' # NoArgv
  PROVE  /\ Runnable(ran')
         /\ modal.mode # "InstancePicker" /\ ~IsCommandTab =>
              \E match \in ToSet(rows[selected].matches) : match.targets = <<ran'>>
<1>0. modal.mode \in PICKERS
  BY DEF PickerSelect, Input
<1>1. CASE modal.mode = "ActionPicker"
  <2>1. /\ ~IsCommandTab /\ selected \in DOMAIN rows /\ modal.anchor = RowAnchor(rows[selected].id)
        /\ modal.matches = rows[selected].matches /\ modal.index \in DOMAIN modal.matches
    BY <1>1 DEF LiveInv, IsLive, OnRow, IsCommandTab
  <2>2. modal.matches[modal.index] \in ToSet(rows[selected].matches)
    BY <2>1 DEF ToSet
  <2>3. IsChoice(modal.matches[modal.index], modal.anchor)
    BY <2>1, <2>2, SelectedRow DEF IsChoice
  <2>4. choose_action(modal.matches[modal.index], modal.anchor)
    BY <1>1 DEF PickerSelect, PickerList
  <2> QED BY <2>2, <2>3, <2>4, ChosenRan DEF RanOnly
<1>2. CASE modal.mode = "InstancePicker"
  <2>1. /\ modal.action \in ToSet(resolve_anchor(modal.anchor, rows, command_groups, engine))
        /\ modal.index \in DOMAIN modal.action.targets
    BY <1>2 DEF LiveInv, IsLive
  <2>2. IsMatch(modal.action, engine, ShownEntries)
    <3>1. engine \in Engines
      BY DEF PickerInv
    <3> QED BY <2>1, <3>1, ShownAre, ResolvedMatches DEF IsMatches, ToSet
  <2>3. ran' = modal.action.targets[modal.index]
    BY <1>2 DEF PickerSelect, execute_action, PickerList
  <2>4. ran' \in ToSet(modal.action.targets)
    BY <2>1, <2>3 DEF ToSet
  <2> QED BY <1>2, <2>2, <2>4, TargetIsRunnable
<1>3. CASE modal.mode = "ServicePicker"
  <2> DEFINE group == command_groups[selected]
  <2>1. IsCommandTab /\ selected \in DOMAIN command_groups /\ modal.index \in DOMAIN group.services
    BY <1>3 DEF LiveInv, IsLive, PickerInv
  <2>2. run_command_on(group.command, group.services[modal.index])
    BY <1>3 DEF PickerSelect, PickerList
  <2>3. IsServiceOf(group.services[modal.index], group)
    BY <2>1 DEF IsServiceOf
  <2> QED BY <2>1, <2>2, <2>3, RunOnRan
<1> QED BY <1>0, <1>1, <1>2, <1>3 DEF PICKERS

(* Only what a rule in force would run on an entry still shown is run, and *)
(* of several targets the one that was chosen (execute_action): whatever   *)
(* became of the records and the rules while the picker was open.          *)
THEOREM RunsOnlyTheLiveHolds == BrowseSpec => RunsOnlyTheLive
<1>1. FilterInv /\ PickerInv /\ ListsAreCurrent /\ LiveInv /\ [BrowseNext]_vars
        => [ran' # NoArgv =>
              /\ \E entry \in FilteredEntries(filter, records), command \in ToSet(engine) :
                   ran' \in ToSet(Candidates(command, entry))
              /\ modal.mode # "InstancePicker" /\ ~IsCommandTab =>
                   \E match \in ToSet(rows[selected].matches) : match.targets = <<ran'>>]_vars
  <2> SUFFICES ASSUME FilterInv, PickerInv, ListsAreCurrent, LiveInv, [BrowseNext]_vars,
                      ran' # NoArgv, vars' # vars
               PROVE  /\ \E entry \in FilteredEntries(filter, records), command \in ToSet(engine) :
                           ran' \in ToSet(Candidates(command, entry))
                      /\ modal.mode # "InstancePicker" /\ ~IsCommandTab =>
                           \E match \in ToSet(rows[selected].matches) : match.targets = <<ran'>>
    OBVIOUS
  <2>1. invoke_selected \/ PickerSelect
    BY DEF BrowseNext, Left
  <2> QED BY <2>1, InvokedRan, SelectedRan DEF Runnable, ShownEntries
<1> QED BY <1>1, LiveHolds, PTL DEF BrowseSpec, RunsOnlyTheLive

(* Nothing is shown of no records.                                         *)
LEMMA NothingResolved ==
  ASSUME NEW rules \in Engines, NEW list, NEW groups, Lists(list, groups, rules, {}), NEW anchor
  PROVE  ToSet(resolve_anchor(anchor, list, groups, rules)) = {}
<1> DEFINE matches == resolve_anchor(anchor, list, groups, rules)
<1>1. IsMatches(matches, rules, {})
  BY ResolvedMatches
<1> HIDE DEF matches
<1>2. ASSUME NEW i \in DOMAIN matches PROVE FALSE
  <2>1. IsASequence(matches[i].targets) /\ matches[i].targets # <<>> /\ ToSet(matches[i].targets) = {}
    BY <1>1 DEF IsMatches, IsMatch
  <2>2. DOMAIN matches[i].targets = {}
    BY <2>1 DEF ToSet
  <2> DEFINE t == matches[i].targets
  <2>3. Len(t) \in Nat /\ t = [k \in 1..Len(t) |-> t[k]] /\ 1..Len(t) = {} /\ t # <<>>
    BY <2>1, <2>2 DEF IsASequence
  <2> HIDE DEF t
  <2>4. Len(t) = 0
    BY <2>3
  <2>5. t = [k \in 1..0 |-> t[k]]
    BY <2>3, <2>4
  <2> QED BY <2>3, <2>5
<1> QED BY <1>2 DEF ToSet, matches

-----------------------------------------------------------------------------
(* What closes a picker.                                                   *)

\* The pending Enter of the picker would be about this match.
Pends(open, match) ==
  IF open.mode = "ActionPicker"
  THEN command_name(match) = command_name(open.matches[open.index])
  ELSE /\ command_name(match) = command_name(open.action)
       /\ open.action.targets[open.index] \in ToSet(match.targets)

(* reconcile_action_pickers closes what lost its choice, and nothing else.  *)
LEMMA ClosedOnLoss ==
  ASSUME NEW open, open.mode \in {"ActionPicker", "InstancePicker"},
         open.mode = "ActionPicker" => open.index \in DOMAIN open.matches,
         open.mode = "InstancePicker" => open.index \in DOMAIN open.action.targets,
         NEW list, NEW groups, NEW rules,
         IsInjective(names(resolve_anchor(open.anchor, list, groups, rules))),
         reconcile_action_pickers(open, list, groups, rules) = Plain("Browse"),
         NEW match \in ToSet(resolve_anchor(open.anchor, list, groups, rules))
  PROVE  ~Pends(open, match)
<1> DEFINE live == resolve_anchor(open.anchor, list, groups, rules)
           chosen == At(names(open.matches), open.index)
           name == {command_name(open.action)}
           action == live[Position(names(live), name)]
           target == At(open.action.targets, open.index)
<1>0. Plain("Browse").mode = "Browse"
  BY DEF Plain
<1>1. PICK i \in DOMAIN live : match = live[i]
  BY DEF ToSet
<1>2. i \in DOMAIN names(live) /\ names(live)[i] = command_name(match)
  BY <1>1 DEF names
<1>3. ASSUME open.mode = "ActionPicker", Pends(open, match) PROVE FALSE
  <2>1. ~Present(names(live), chosen)
    BY <1>0, <1>3 DEF reconcile_action_pickers
  <2>2. chosen = {command_name(open.matches[open.index])}
    BY <1>3 DEF At, names
  <2> HIDE DEF live, chosen
  <2> QED BY <1>2, <1>3, <2>1, <2>2 DEF Pends, Present
<1>4. ASSUME open.mode = "InstancePicker", Pends(open, match) PROVE FALSE
  <2>1. ~(Present(names(live), name) /\ Present(action.targets, target))
    BY <1>0, <1>4 DEF reconcile_action_pickers
  <2>2. command_name(match) = command_name(open.action) /\ open.action.targets[open.index] \in ToSet(match.targets)
    BY <1>4 DEF Pends
  <2>3. target = {open.action.targets[open.index]}
    BY <1>4 DEF At
  <2>4. IsInjective(names(live))
    OBVIOUS
  <2>5. PICK k \in DOMAIN match.targets : match.targets[k] = open.action.targets[open.index]
    BY <2>2 DEF ToSet
  <2> HIDE DEF live, target
  <2>6. Present(names(live), name)
    BY <1>2, <2>2 DEF Present
  <2> DEFINE p == Position(names(live), name)
  <2>7. p \in DOMAIN names(live) /\ names(live)[p] = command_name(open.action)
    BY <2>6, PositionIs
  <2>8. p = i
    BY <1>2, <2>2, <2>4, <2>7 DEF IsInjective
  <2>9. action = match
    BY <1>1, <2>8
  <2> HIDE DEF action, p
  <2>10. Present(action.targets, target)
    BY <2>3, <2>5, <2>9 DEF Present
  <2> QED BY <2>1, <2>6, <2>10
<1> QED BY <1>3, <1>4

(* While the drain reconciles, the anchor stands for a match a rule once.   *)
LEMMA RecomputedCloses ==
  ASSUME LiveInv, (FilterInv /\ PickerInv /\ ListsAreCurrent)',
         modal.mode \in {"ActionPicker", "InstancePicker"}, Recomputed, modal' = Plain("Browse"),
         NEW match \in ToSet(resolve_anchor(modal.anchor, rows', command_groups', engine'))
  PROVE  ~Pends(modal, match)
<1>1. (Lists(rows, command_groups, engine, ShownEntries) /\ ShownEntries \in SUBSET Entry)'
  BY ShownAre, PTL
<1>2. IsInjective(names(resolve_anchor(modal.anchor, rows', command_groups', engine')))
  <2>1. engine' \in Engines
    BY DEF PickerInv
  <2> QED BY <1>1, <2>1, ResolvedMatches DEF IsMatches
<1>3. modal' = reconcile_action_pickers(modal, rows', command_groups', engine')
  <2>1. CASE filter'.grouping = "command"
    <3>1. PICK now : modal' = reconcile_action_pickers(
                   reconcile_service_picker(modal, selected, command_groups', now), <<>>, command_groups', engine')
          /\ rows' = <<>>
      BY <2>1 DEF Recomputed, recompute_visible, RecomputeCommandGroups
    <3>2. reconcile_service_picker(modal, selected, command_groups', now) = modal
      BY DEF reconcile_service_picker
    <3> QED BY <3>1, <3>2
  <2>2. CASE filter'.grouping # "command"
    BY <2>2 DEF Recomputed, recompute_visible, RecomputeRows
  <2> QED BY <2>1, <2>2
<1>4. /\ modal.mode = "ActionPicker" => modal.index \in DOMAIN modal.matches
      /\ modal.mode = "InstancePicker" => modal.index \in DOMAIN modal.action.targets
  BY DEF LiveInv, IsLive
<1> QED BY <1>2, <1>3, <1>4, ClosedOnLoss

\* The step the theorem below allows.
Outlives ==
  (phase = "drain" /\ modal.mode \in {"ActionPicker", "InstancePicker"} /\ modal' = Plain("Browse"))
    => \A match \in ToSet(resolve_anchor(modal.anchor, rows', command_groups', engine')) :
         IF modal.mode = "ActionPicker"
         THEN command_name(match) # command_name(PickerList[modal.index])
         ELSE command_name(match) = command_name(modal.action)
                => PickerList[modal.index] \notin ToSet(match.targets)

LEMMA StepOutlives ==
  ASSUME LiveInv, (FilterInv /\ PickerInv /\ ListsAreCurrent)', [BrowseNext]_vars PROVE Outlives
<1>1. ASSUME phase = "drain", modal.mode \in {"ActionPicker", "InstancePicker"}, modal' = Plain("Browse"),
             NEW match \in ToSet(resolve_anchor(modal.anchor, rows', command_groups', engine'))
      PROVE  IF modal.mode = "ActionPicker"
             THEN command_name(match) # command_name(PickerList[modal.index])
             ELSE command_name(match) = command_name(modal.action)
                    => PickerList[modal.index] \notin ToSet(match.targets)
  <2>1. modal' # modal
    BY <1>1 DEF Plain
  <2>2. drain_discovery
    <3>1. ASSUME NEW mode, Input(mode) PROVE FALSE
      BY <1>1, <3>1 DEF Input
    <3>2. ~QuietKey
      <4>1. ~Quit
        BY <1>1 DEF Quit
      <4> QED BY <3>1, <4>1 DEF QuietKey, Navigate, ShortenQuery, ToggleType, toggle_same_host_filter,
                refresh_services, return_to_browse, Click, Open, TypeLetter, MoveTypeFilter, cycle_tab, MovePicker
    <3>3. ~(invoke_selected \/ PickerSelect)
      BY <3>1 DEF invoke_selected, PickerSelect
    <3>4. ~(PollReload \/ Draw \/ InputEnds \/ Left \/ UNCHANGED vars)
      BY <1>1, <2>1 DEF PollReload, Draw, InputEnds, Left, vars
    <3> QED BY <1>1, <3>2, <3>3, <3>4 DEF BrowseNext, Tick
  <2>3. ~Pends(modal, match)
    <3>1. CASE Recomputed
      BY <1>1, <3>1, RecomputedCloses
    <3>2. CASE records' = {}
      <4>1. (Lists(rows, command_groups, engine, ShownEntries) /\ ShownEntries \in SUBSET Entry)'
        BY <1>1, ShownAre, PTL
      <4>2. ShownEntries' = {}
        BY <3>2 DEF ShownEntries, FilteredEntries
      <4>3. engine' \in Engines
        BY <1>1 DEF PickerInv
      <4>4. Lists(rows', command_groups', engine', {})
        BY <4>1, <4>2
      <4> QED BY <1>1, <4>3, <4>4, NothingResolved
    <3> QED BY <2>1, <2>2, <3>1, <3>2 DEF drain_discovery
  <2> QED BY <1>1, <2>3 DEF Pends, PickerList
<1> QED BY <1>1 DEF Outlives

(* What a drain changes elsewhere closes no picker: one closes only when   *)
(* its command, or the target chosen of it, is gone from what its anchor   *)
(* stands for (drain_discovery, reconcile_action_pickers).                 *)
THEOREM PickerOutlivesTheRestHolds == BrowseSpec => PickerOutlivesTheRest
<1>1. LiveInv /\ (FilterInv /\ PickerInv /\ ListsAreCurrent)' /\ [BrowseNext]_vars => Outlives
  BY StepOutlives
<1> QED BY <1>1, LiveHolds, PTL DEF BrowseSpec, PickerOutlivesTheRest, Outlives

-----------------------------------------------------------------------------
(* Where the cursor is, and the frame around it.                           *)

\* The cursor counts from 1, and the last frame had a list.
PlaceInv ==
  /\ selected \in Nat \ {0}
  /\ layout.height \in Nat
  /\ Len(layout.shown) \in Nat

LEMMA ActiveList ==
  ASSUME FilterInv, PickerInv, ListsAreCurrent
  PROVE  IsASequence(ActiveIds)
<1>1. CASE IsCommandTab
  <2>1. DOMAIN command_groups = DOMAIN engine /\ engine \in Engines
    BY <1>1, ShownAre DEF AreGroups, PickerInv
  <2>2. Len(engine) \in Nat /\ DOMAIN engine = 1..Len(engine)
    BY <2>1, CommandIn DEF IsASequence
  <2>3. names(command_groups) = [i \in 1..Len(engine) |-> names(command_groups)[i]]
    BY <2>1, <2>2 DEF names
  <2> QED BY <1>1, <2>2, <2>3, RangedSequence DEF ActiveIds
<1>2. CASE ~IsCommandTab
  <2>1. IsASequence(rows)
    BY <1>2, ShownAre DEF AreRows, IsListOf
  <2>2. Len(rows) \in Nat /\ DOMAIN rows = 1..Len(rows)
    BY <2>1 DEF IsASequence
  <2>3. ids(rows) = [i \in 1..Len(rows) |-> ids(rows)[i]]
    BY <2>2 DEF ids
  <2> QED BY <1>2, <2>2, <2>3, RangedSequence DEF ActiveIds
<1> QED BY <1>1, <1>2

LEMMA FoundPlace ==
  ASSUME NEW keys, IsASequence(keys), NEW wanted, NEW index \in Nat \ {0}
  PROVE  find_selection(keys, wanted, index) \in Nat \ {0}
<1>1. Len(keys) \in Nat /\ DOMAIN keys = 1..Len(keys)
  BY DEF IsASequence
<1>2. CASE Present(keys, wanted)
  BY <1>1, <1>2, PositionIs DEF find_selection
<1>3. CASE ~Present(keys, wanted)
  <2> DEFINE n == Len(keys)
  <2>1. n \in Nat
    BY <1>1
  <2> HIDE DEF n
  <2>2. clamp(index, Len(keys)) \in Nat \ {0}
    BY <2>1 DEF clamp, Smaller, n
  <2> QED BY <1>3, <2>2 DEF find_selection
<1> QED BY <1>2, <1>3

LEMMA RecomputedPlace ==
  ASSUME (FilterInv /\ PickerInv /\ ListsAreCurrent)', NEW at \in Nat \ {0}, NEW scroll, NEW open,
         recompute_visible(at, scroll, open)
  PROVE  selected' \in Nat \ {0}
<1>1. IsASequence(ActiveIds)'
  BY ActiveList, PTL
<1>2. \E wanted : selected' = find_selection(ActiveIds', wanted, at)
  BY DEF recompute_visible, RecomputeRows, RecomputeCommandGroups, ActiveIds, IsCommandTab
<1> QED BY <1>1, <1>2, FoundPlace

LEMMA MovedPlace ==
  ASSUME NEW index \in Nat \ {0}, NEW n \in Nat, NEW delta \in {-1, 1}
  PROVE  move_index(index, n, delta) \in Nat \ {0}
BY DEF move_index, Larger, Smaller

LEMMA ClickedPlace ==
  ASSUME PlaceInv, NEW y, Click(y) PROVE selected' \in Nat \ {0}
<1> DEFINE n == Len(layout.shown)
           h == layout.height
           window == W!containing(n, h, selected - 1)
<1>1. n \in Nat /\ h \in Nat /\ selected - 1 \in Nat
  BY DEF PlaceInv
<1>2. PICK index \in W!list_row_at(window, 0, y) : selected' = index + 1
  BY DEF Click
<1> HIDE DEF n, h
<1>3. window.offset \in Nat /\ window.len \in Int
  BY <1>1 DEF W!containing, W!Window, W!Least, W!saturating_sub
<1>4. index \in window.offset .. window.offset + window.len - 1
  BY <1>2 DEF W!list_row_at, W!range
<1> HIDE DEF window
<1>5. index \in Nat
  BY <1>3, <1>4
<1> QED BY <1>2, <1>5

LEMMA LaidOut ==
  ASSUME NEW shown, NEW index, NEW size \in Sizes, Len(shown) \in Nat
  PROVE  LayoutOf(shown, index, size).height \in Nat /\ Len(LayoutOf(shown, index, size).shown) \in Nat
<1>1. size \in Nat \X (0 .. 1)
  BY BrowseAssumption
<1> QED BY <1>1 DEF LayoutOf

LEMMA NothingLaidOut == NoLayout.height = 0 /\ Len(NoLayout.shown) = 0
  BY DEF NoLayout, LayoutOf

\* The layout of the last frame, or none.
LayoutKept == layout' \in {layout, NoLayout}

LEMMA KeptPlace ==
  ASSUME PlaceInv, LayoutKept, selected' \in Nat \ {0} PROVE PlaceInv'
BY NothingLaidOut DEF PlaceInv, LayoutKept

LEMMA InputLayout ==
  ASSUME NEW mode, Input(mode) PROVE LayoutKept
BY DEF Input, LayoutKept

LEMMA KeyPlace ==
  ASSUME FilterInv, PickerInv, ListsAreCurrent, PlaceInv, (FilterInv /\ PickerInv /\ ListsAreCurrent)', QuietKey
  PROVE  LayoutKept /\ selected' \in Nat \ {0}
<1> USE DEF listVars
<1>0. selected \in Nat \ {0} /\ 1 \in Nat \ {0}
  BY DEF PlaceInv
<1>1. CASE Navigate
  <2>1. LayoutKept
    BY <1>1, InputLayout DEF Navigate
  <2>2. Len(ActiveIds) \in Nat
    BY ActiveList DEF IsASequence
  <2>3. ASSUME NEW delta \in {-1, 1}, move_selection(delta) PROVE selected' \in Nat \ {0}
    BY <1>0, <2>2, <2>3, MovedPlace DEF move_selection
  <2>4. ASSUME NEW delta \in {-1, 1}, scroll_details_by(delta) PROVE selected' \in Nat \ {0}
    BY <1>0, <2>4 DEF scroll_details_by
  <2> QED BY <1>1, <2>1, <2>3, <2>4 DEF Navigate
<1>2. CASE ShortenQuery
  BY <1>0, <1>2, RecomputedPlace, InputLayout DEF ShortenQuery, Recomputed
<1>3. CASE ToggleType
  BY <1>0, <1>3, RecomputedPlace, InputLayout DEF ToggleType, Recomputed
<1>4. CASE toggle_same_host_filter
  BY <1>0, <1>4, RecomputedPlace, InputLayout DEF toggle_same_host_filter, Recomputed
<1>5. CASE refresh_services
  BY <1>0, <1>5, RecomputedPlace, InputLayout DEF refresh_services
<1>6. CASE return_to_browse BY <1>0, <1>6, InputLayout DEF return_to_browse
<1>7. CASE Quit BY <1>0, <1>7 DEF Quit, frameVars, LayoutKept
<1>8. CASE \E y \in 1 .. layout.height : Click(y)
  BY <1>8, ClickedPlace, InputLayout DEF Click
<1>9. CASE \E mode \in PLAIN \ {"Browse"} : Open(mode) BY <1>0, <1>9, InputLayout DEF Open
<1>10. CASE \E letter \in Letters : TypeLetter(letter)
  BY <1>0, <1>10, RecomputedPlace, InputLayout DEF TypeLetter
<1>11. CASE \E delta \in {-1, 1} : MoveTypeFilter(delta) BY <1>0, <1>11, InputLayout DEF MoveTypeFilter
<1>12. CASE \E delta \in {-1, 1} : cycle_tab(delta)
  BY <1>0, <1>12, RecomputedPlace, InputLayout DEF cycle_tab
<1>13. CASE \E delta \in {-1, 1} : MovePicker(delta) BY <1>0, <1>13, InputLayout DEF MovePicker, Unmoved
<1> QED BY <1>1, <1>2, <1>3, <1>4, <1>5, <1>6, <1>7, <1>8, <1>9, <1>10, <1>11, <1>12, <1>13 DEF QuietKey

LEMMA StepPlace ==
  ASSUME FilterInv, PickerInv, ListsAreCurrent, PlaceInv, (FilterInv /\ PickerInv /\ ListsAreCurrent)', [BrowseNext]_vars
  PROVE  PlaceInv'
<1> USE DEF listVars
<1>0. selected \in Nat \ {0}
  BY DEF PlaceInv
<1>1. MustDraw \/ UNCHANGED frameVars => LayoutKept
  BY DEF MustDraw, frameVars, LayoutKept
<1>2. CASE PollReload
  BY <1>0, <1>1, <1>2, RecomputedPlace, KeptPlace DEF PollReload
<1>3. CASE drain_discovery
  BY <1>0, <1>1, <1>3, RecomputedPlace, KeptPlace DEF drain_discovery, Recomputed
<1>4. CASE Draw
  <2>1. CASE dirty
    <3>1. PICK size \in Sizes : layout' = LayoutOf(ActiveIds, selected, size)
      BY <1>4, <2>1 DEF Draw
    <3>2. Len(ActiveIds) \in Nat
      BY ActiveList DEF IsASequence
    <3> QED BY <1>0, <1>4, <3>1, <3>2, LaidOut DEF Draw, PlaceInv
  <2>2. CASE ~dirty
    BY <1>0, <1>4, <2>2, KeptPlace DEF Draw, LayoutKept
  <2> QED BY <2>1, <2>2
<1>5. CASE InputEnds
  BY <1>0, <1>1, <1>5, KeptPlace DEF InputEnds
<1>6. CASE QuietKey
  BY <1>6, KeyPlace, KeptPlace
<1>7. CASE invoke_selected
  BY <1>0, <1>7, InputLayout, KeptPlace DEF invoke_selected, Unmoved
<1>8. CASE PickerSelect
  BY <1>0, <1>8, InputLayout, KeptPlace DEF PickerSelect, Unmoved
<1>9. CASE UNCHANGED vars
  BY <1>0, <1>1, <1>9, KeptPlace DEF vars, loopVars
<1> QED BY <1>2, <1>3, <1>4, <1>5, <1>6, <1>7, <1>8, <1>9 DEF BrowseNext, Tick, Left

LEMMA PlaceHolds == BrowseSpec => []PlaceInv
<1>1. BrowseInit => PlaceInv
  BY NothingLaidOut DEF BrowseInit, PlaceInv
<1>2. FilterInv /\ PickerInv /\ ListsAreCurrent /\ PlaceInv /\ [BrowseNext]_vars
        /\ (FilterInv /\ PickerInv /\ ListsAreCurrent)' => PlaceInv'
  BY StepPlace
<1> QED BY <1>1, <1>2, LiveHolds, PTL DEF BrowseSpec

-----------------------------------------------------------------------------
(* What the frame says of the list.                                        *)

(* A browse tab has a row for each row id of the entries shown.            *)
LEMMA RowsCounted ==
  ASSUME NEW entries \in SUBSET Entry, NEW i \in 1 .. 3
  PROVE  Len(RowIds(entries, TABS[i])) = Cardinality({row_of(entry, TABS[i]) : entry \in entries})
<1> DEFINE listed == RowIds(entries, TABS[i])
           S == {k \in DOMAIN DisplayOrder : \E entry \in entries : row_of(entry, TABS[i]) = DisplayOrder[k]}
           all == {row_of(entry, TABS[i]) : entry \in entries}
           n == Len(listed)
<1>1. IsASequence(listed) /\ IsInjective(listed) /\ \A k \in DOMAIN listed : listed[k] \in all
  BY RowIdsAre
<1>2. IsASequence(DisplayOrder)
  BY ProjectionAssumption, SequenceOf
<1>3. \A k \in S : \E l \in DOMAIN listed : listed[l] = DisplayOrder[k]
  <2>1. listed = ItemsAt(DisplayOrder, S) /\ S \subseteq DOMAIN DisplayOrder
    BY DEF RowIds
  <2> HIDE DEF S, listed
  <2> QED BY <1>2, <2>1, ItemsAtThem
<1>4. \A id \in all : \E k \in S : DisplayOrder[k] = id
  <2> SUFFICES ASSUME NEW entry \in entries PROVE \E k \in S : DisplayOrder[k] = row_of(entry, TABS[i])
    OBVIOUS
  <2>1. row_of(entry, TABS[i]) \in ToSet(DisplayOrder)
    BY RowsAssumption
  <2> QED BY <2>1 DEF ToSet
<1>5. \A id \in all : \E l \in DOMAIN listed : listed[l] = id
  BY <1>3, <1>4
<1> HIDE DEF S, all, listed
<1>6. n \in Nat /\ DOMAIN listed = 1..n /\ listed = [k \in 1..n |-> listed[k]]
  BY <1>1 DEF IsASequence
<1> HIDE DEF n
<1>7. listed \in [1..n -> all]
  BY <1>1, <1>6
<1>8. listed \in Bijection(1..n, all)
  BY <1>1, <1>5, <1>6, <1>7 DEF Bijection, Injection, Surjection, IsInjective
<1>9. Cardinality(all) = n
  BY <1>6, <1>8, FS_CountingElements DEF ExistsBijection
<1> QED BY <1>9 DEF n, all, listed

\* How many rows the active list has.
ListLength == IF IsCommandTab THEN Len(command_groups) ELSE Len(rows)

(* The number on the active tab is that of its rows (TabCounts::of).       *)
LEMMA TabsCount ==
  ASSUME FilterInv, PickerInv, ListsAreCurrent, NEW i \in DOMAIN TABS, TABS[i] = filter.grouping
  PROVE  tab_counts[i] = ListLength /\ ListLength \in Nat
<1> DEFINE three == [k \in 1 .. 3 |-> Cardinality({row_of(entry, TABS[k]) : entry \in ShownEntries})]
<1>1. tab_counts = three \o <<Len(engine)>>
  BY DEF ListsAreCurrent, TabCounts, ShownEntries
<1>2. engine \in Engines /\ ShownEntries \in SUBSET Entry
  BY ShownAre DEF PickerInv
<1>3. Len(three) = 3 /\ \A k \in 1 .. 3 : tab_counts[k] = three[k]
  BY <1>1
<1>4. tab_counts[4] = Len(engine)
  BY <1>1
<1>5. i \in 1 .. 4
  BY DEF TABS
<1>6. CASE i = 4
  <2>1. IsCommandTab
    BY <1>6 DEF TABS, IsCommandTab
  <2>2. DOMAIN command_groups = DOMAIN engine
    BY <2>1, ShownAre DEF AreGroups
  <2>3. Len(engine) \in Nat /\ DOMAIN engine = 1..Len(engine)
    BY <1>2, CommandIn DEF IsASequence
  <2>4. Len(command_groups) = Len(engine)
    BY <2>2, <2>3
  <2> QED BY <1>4, <1>6, <2>1, <2>3, <2>4 DEF ListLength
<1>7. CASE i # 4
  <2>1. i \in 1 .. 3
    BY <1>5, <1>7
  <2>2. ~IsCommandTab
    BY <2>1 DEF TABS, IsCommandTab
  <2>3. rows = Rows[engine][ShownEntries][TABS[i]]
    BY <2>2 DEF ListsAreCurrent, ShownEntries
  <2>4. TABS[i] \in {TABS[k] : k \in 1 .. 3}
    BY <2>1
  <2>5. ids(rows) = RowIds(ShownEntries, TABS[i]) /\ IsASequence(rows)
    BY <1>2, <2>3, <2>4, RowsAre DEF AreRows, IsListOf
  <2>6. Len(ids(rows)) = Len(rows) /\ Len(rows) \in Nat
    BY <2>5 DEF ids, IsASequence
  <2>7. tab_counts[i] = Len(RowIds(ShownEntries, TABS[i]))
    BY <1>2, <1>3, <2>1, RowsCounted
  <2> QED BY <2>2, <2>5, <2>6, <2>7 DEF ListLength
<1> QED BY <1>6, <1>7

LEMMA TitleIs ==
  ASSUME NEW total \in Nat, NEW height \in Nat, NEW at \in Nat
  PROVE  LET title == W!list_title(total, at, height)
         IN IF title = <<>> THEN total = 0 \/ height = 0 ELSE title[3] = total
<1> DEFINE window == W!containing(total, height, at)
<1>1. window.total = total /\ window.len \in Int /\ (window.len > 0 \/ total = 0 \/ height = 0)
  BY DEF W!containing, W!Window, W!Least, W!saturating_sub
<1>2. W!list_title(total, at, height) = W!range_label(window)
  BY DEF W!list_title
<1> HIDE DEF window
<1>3. CASE window.len > 0
  BY <1>1, <1>2, <1>3 DEF W!range_label
<1>4. CASE ~(window.len > 0)
  BY <1>1, <1>2, <1>4 DEF W!range_label
<1> QED BY <1>3, <1>4

(* The item the cursor is on is one of those the panel shows.              *)
LEMMA SelectedIsShown ==
  ASSUME NEW items, IsASequence(items), NEW height \in Nat \ {0}, NEW at \in DOMAIN items
  PROVE  items[at] \in ToSet(Shown(items, height, at))
<1> DEFINE n == Len(items)
           window == W!containing(n, height, at - 1)
           from == window.offset + 1
           to == window.offset + window.len
<1>1. n \in Nat /\ at \in 1..n /\ DOMAIN items = 1..n
  BY DEF IsASequence
<1>2. Shown(items, height, at) = SubSeq(items, from, to)
  BY DEF Shown
<1> HIDE DEF n
<1>3. from \in Nat \ {0} /\ to \in Nat /\ at \in from..to
  BY <1>1 DEF W!containing, W!Window, W!Least, W!saturating_sub
<1> DEFINE S == {items[i] : i \in from..to}
           k == at - from + 1
           shown == SubSeq(items, from, to)
<1> HIDE DEF from, to, window
<1>4. k \in 1 .. to - from + 1 /\ from + k - 1 = at /\ from <= to
  BY <1>3
<1>5. /\ shown \in Seq(S) /\ Len(shown) = to - from + 1
      /\ \A i \in 1 .. to - from + 1 : shown[i] = items[from + i - 1]
  BY <1>3, <1>4, SubSeqProperties
<1> HIDE DEF k, shown
<1>6. k \in DOMAIN shown /\ shown[k] = items[at]
  BY <1>3, <1>4, <1>5
<1> QED BY <1>2, <1>6 DEF ToSet, shown

\* The lines of the active list as the panel draws them.
Lines ==
  IF IsCommandTab THEN [i \in DOMAIN command_groups |-> command_row(command_groups[i])]
  ELSE [i \in DOMAIN rows |-> service_row(rows[i], filter.grouping)]

LEMMA LinesAre ==
  ASSUME FilterInv, PickerInv, ListsAreCurrent
  PROVE  /\ IsASequence(Lines) /\ Len(Lines) = ListLength
         /\ DOMAIN Lines = DOMAIN ActiveIds
         /\ \A i \in DOMAIN Lines : Lines[i].id = ActiveIds[i]
<1>0. engine \in Engines
  BY DEF PickerInv
<1>1. CASE IsCommandTab
  <2>1. DOMAIN command_groups = DOMAIN engine
    BY <1>1, ShownAre DEF AreGroups
  <2>2. Len(engine) \in Nat /\ DOMAIN engine = 1..Len(engine)
    BY <1>0, CommandIn DEF IsASequence
  <2>3. Lines = [i \in 1..Len(engine) |-> command_row(command_groups[i])]
    BY <1>1, <2>1, <2>2 DEF Lines
  <2>4. IsASequence(Lines)
    <3>1. Lines = [i \in 1..Len(engine) |-> Lines[i]]
      BY <2>3
    <3> QED BY <2>2, <3>1, RangedSequence
  <2>5. Len(Lines) = Len(command_groups)
    BY <2>1, <2>2, <2>3
  <2>6. \A i \in DOMAIN command_groups : command_row(command_groups[i]).id = command_groups[i].command.name
    BY DEF command_row
  <2>7. ActiveIds = [i \in DOMAIN command_groups |-> command_groups[i].command.name]
    BY <1>1 DEF ActiveIds, names, command_name
  <2> QED BY <1>1, <2>1, <2>2, <2>3, <2>4, <2>5, <2>6, <2>7 DEF ListLength
<1>2. CASE ~IsCommandTab
  <2>1. IsASequence(rows)
    BY <1>2, ShownAre DEF AreRows, IsListOf
  <2>2. Len(rows) \in Nat /\ DOMAIN rows = 1..Len(rows)
    BY <2>1 DEF IsASequence
  <2>3. Lines = [i \in 1..Len(rows) |-> service_row(rows[i], filter.grouping)]
    BY <1>2, <2>2 DEF Lines
  <2>4. IsASequence(Lines)
    <3>1. Lines = [i \in 1..Len(rows) |-> Lines[i]]
      BY <2>3
    <3> QED BY <2>2, <3>1, RangedSequence
  <2>5. Len(Lines) = Len(rows)
    BY <2>2, <2>3
  <2>6. \A i \in DOMAIN rows : service_row(rows[i], filter.grouping).id = rows[i].id
    BY DEF service_row
  <2>7. ActiveIds = [i \in DOMAIN rows |-> rows[i].id]
    BY <1>2 DEF ActiveIds, ids, row_id
  <2> QED BY <1>2, <2>2, <2>3, <2>4, <2>5, <2>6, <2>7 DEF ListLength
<1> QED BY <1>1, <1>2

LEMMA PanelIs ==
  LET frame == render(App)
  IN /\ frame.top.active = filter.grouping /\ frame.top.counts = tab_counts
     /\ frame.list.lines = Shown(Lines, layout.height, selected)
     /\ frame.list.selected = selected
     /\ frame.list.title = W!list_title(Len(Lines), selected - 1, layout.height)
<1> DEFINE frame == render(App)
           panel(empty) == render_list_panel(App, Lines, empty)
<1>1. /\ App.filter = filter /\ App.tab_counts = tab_counts /\ App.rows = rows
      /\ App.command_groups = command_groups /\ App.selected = selected /\ App.layout = layout
  BY DEF App, AppAt
<1>2. frame.top.active = filter.grouping /\ frame.top.counts = tab_counts
  BY <1>1 DEF render, render_top_bar
<1>3. frame.list = IF IsCommandTab THEN render_commands(App) ELSE render_services(App)
  BY <1>1 DEF render, IsCommandTab
<1>4. \E empty : frame.list = panel(empty)
  BY <1>1, <1>3 DEF render_commands, render_services, Lines
<1>5. \A empty : /\ panel(empty).lines = Shown(Lines, layout.height, selected)
                 /\ panel(empty).selected = selected
                 /\ panel(empty).title = W!list_title(Len(Lines), selected - 1, layout.height)
  BY <1>1 DEF render_list_panel
<1> HIDE DEF frame, panel
<1> QED BY <1>2, <1>4, <1>5 DEF frame

(* Whatever discovery, a reload or a key changed has been drawn when the   *)
(* app waits for input: the frame is the one it would draw now (App::run). *)
(* A count on a tab is that of the list behind it, and what is selected is *)
(* in sight (render_top_bar, Window::containing).                          *)
THEOREM FrameIsCurrentHolds == BrowseSpec => []FrameIsCurrent
<1>1. ASSUME FrameInv, PlaceInv, FilterInv, PickerInv, ListsAreCurrent
      PROVE  FrameIsCurrent
  <2>1. DrawnIsSo
    BY <1>1 DEF FrameInv, DrawnIsSo
  <2> SUFFICES ASSUME drawn # NoFrame
               PROVE  /\ \A i \in DOMAIN TABS : TABS[i] = drawn.top.active =>
                           IF drawn.list.title = <<>> THEN drawn.top.counts[i] = 0 \/ layout.height = 0
                           ELSE drawn.top.counts[i] = drawn.list.title[3]
                      /\ selected \in DOMAIN ActiveIds /\ layout.height > 0 =>
                           \E line \in ToSet(drawn.list.lines) : {line.id} = At(ActiveIds, drawn.list.selected)
    BY <2>1 DEF FrameIsCurrent
  <2>2. /\ drawn.top.active = filter.grouping /\ drawn.top.counts = tab_counts
        /\ drawn.list.lines = Shown(Lines, layout.height, selected)
        /\ drawn.list.selected = selected
        /\ drawn.list.title = W!list_title(Len(Lines), selected - 1, layout.height)
    BY <1>1, PanelIs DEF FrameInv
  <2>3. selected \in Nat \ {0} /\ layout.height \in Nat /\ selected - 1 \in Nat
    BY <1>1 DEF PlaceInv
  <2>4. ASSUME NEW i \in DOMAIN TABS, TABS[i] = filter.grouping
        PROVE  IF drawn.list.title = <<>> THEN tab_counts[i] = 0 \/ layout.height = 0
               ELSE tab_counts[i] = drawn.list.title[3]
    <3>1. tab_counts[i] = Len(Lines) /\ Len(Lines) \in Nat
      BY <1>1, <2>4, TabsCount, LinesAre
    <3> QED BY <2>2, <2>3, <3>1, TitleIs
  <2>5. ASSUME selected \in DOMAIN ActiveIds, layout.height > 0
        PROVE  \E line \in ToSet(drawn.list.lines) : {line.id} = At(ActiveIds, drawn.list.selected)
    <3>1. IsASequence(Lines) /\ selected \in DOMAIN Lines /\ Lines[selected].id = ActiveIds[selected]
      BY <1>1, <2>5, LinesAre
    <3>2. layout.height \in Nat \ {0}
      BY <2>3, <2>5
    <3>3. Lines[selected] \in ToSet(drawn.list.lines)
      BY <2>2, <3>1, <3>2, SelectedIsShown
    <3> QED BY <2>2, <2>5, <3>1, <3>3 DEF At
  <2> QED BY <2>2, <2>4, <2>5
<1> QED BY <1>1, FrameHolds, PlaceHolds, LiveHolds, PTL
=============================================================================
