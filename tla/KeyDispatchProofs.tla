--------------------------- MODULE KeyDispatchProofs ---------------------------
(* What holds of the windows for all sizes, and of the keys for all files, *)
(* terminals and keys.                                                     *)
EXTENDS KeyDispatch, SequenceProofs

-----------------------------------------------------------------------------
(* Windows, which the app draws its lists, its details and its help in.    *)

(* Whatever is selected and however short the panel, the window drawn      *)
(* around the selection shows it, lies within the content and wastes no    *)
(* row of the panel (Window::containing).                                  *)
THEOREM SelectionIsSeen ==
  ASSUME NEW total \in Nat, NEW room \in Nat, NEW selected \in Nat
  PROVE  LET window == V!containing(total, room, selected)
         IN /\ V!IsFull(window, room)
            /\ room > 0 /\ selected < total => selected \in V!range(window)
  BY DEF V!containing, V!Window, V!IsFull, V!range, V!Least, V!saturating_sub

(* Wherever the reader has scrolled and whatever has been resized since,   *)
(* the window drawn is full (Window::at).                                  *)
THEOREM ScrolledWindowIsFull ==
  ASSUME NEW total \in Nat, NEW room \in Nat, NEW scroll \in Nat
  PROVE  V!IsFull(V!window_at(total, room, scroll), room)
  BY DEF V!window_at, V!max_scroll, V!Window, V!IsFull, V!range, V!Least, V!saturating_sub

(* Moving the selection within what is shown from the last position leaves *)
(* a selection that is shown: one step of the cursor scrolls by at most    *)
(* one row (Window::containing, move_index).                               *)
THEOREM OneStepScrollsOneRow ==
  ASSUME NEW total \in Nat, NEW room \in Nat, NEW selected \in Nat
  PROVE  LET before == V!containing(total, room, selected).offset
             after == V!containing(total, room, selected + 1).offset
         IN after \in {before, before + 1}
  BY DEF V!containing, V!Window, V!Least, V!saturating_sub

(* A click selects a row only between the borders of the list, the row     *)
(* that is drawn there (LayoutSnapshot::list_row_at).                      *)
THEOREM BordersAreNoRows ==
  ASSUME NEW layout \in V!LayoutSnapshot, NEW selected \in Nat, NEW top \in Nat, NEW y \in Nat,
         NEW index \in V!list_row_at(V!list_window(layout, selected), top, y)
  PROVE  /\ y \in top + 1 .. top + layout.list - 2
         /\ index = V!list_window(layout, selected).offset + (y - top - 1)
         /\ index < layout.list_total
  BY DEF V!LayoutSnapshot, V!list_row_at, V!list_window, V!containing, V!viewport_of, V!Window,
         V!range, V!Least, V!saturating_sub

(* At the largest scroll the last line of the details is in view, and no   *)
(* scroll shows more (LayoutSnapshot::details_max_scroll).                 *)
THEOREM DetailsReachTheirEnd ==
  ASSUME NEW layout \in V!LayoutSnapshot, NEW scroll \in Nat, V!details_viewport(layout) > 0,
         layout.details_total > 0
  PROVE  /\ layout.details_total - 1 \in V!range(V!details_window(layout, V!details_max_scroll(layout)))
         /\ scroll >= V!details_max_scroll(layout) =>
              V!details_window(layout, scroll) = V!details_window(layout, V!details_max_scroll(layout))
  BY DEF V!LayoutSnapshot, V!details_window, V!details_max_scroll, V!details_viewport, V!window_at, V!max_scroll,
         V!viewport_of, V!Window, V!range, V!Least, V!saturating_sub

(* A list has a scrollbar exactly when rows of it are hidden, with the     *)
(* thumb within its track, and a pop-up has one exactly when its title     *)
(* says where it is or it shows nothing of what it has                     *)
(* (render_list_panel, render_popup).                                      *)
THEOREM ScrollbarsTellTheTruth ==
  ASSUME NEW total \in Nat, NEW room \in Nat, NEW selected \in Nat
  PROVE  LET window == V!containing(total, room, selected)
             bar == V!render_scrollbar(total, room, window.offset)
             popup == V!render_popup(window)
         IN /\ bar # <<>> <=> V!is_clipped(window)
            /\ bar # <<>> => bar[3] + bar[2] <= bar[1]
            /\ popup.scrollbar # <<>> <=> popup.title # <<>> \/ (room = 0 /\ total > 0)
<1> DEFINE window == V!containing(total, room, selected)
<1>1. /\ window.total = total /\ window.offset \in Nat /\ window.len \in Nat
      /\ window.len = V!Least(room, total)
      /\ room < total => window.offset + room <= total
  BY DEF V!containing, V!Window, V!Least, V!saturating_sub
<1> HIDE DEF window
<1>2. V!is_clipped(window) <=> room < total
  BY <1>1 DEF V!is_clipped, V!Least
<1>3. V!render_scrollbar(total, room, window.offset) # <<>> <=> room < total
  BY <1>1 DEF V!render_scrollbar
<1>4. room < total => V!render_scrollbar(total, room, window.offset) = <<total, room, window.offset>>
  BY DEF V!render_scrollbar
<1>5. V!render_scrollbar(window.total, window.len, window.offset) # <<>> <=> room < total
  BY <1>1 DEF V!render_scrollbar, V!Least
<1>6. V!render_popup(window).title # <<>> <=> room < total /\ room > 0
  BY <1>1, <1>2 DEF V!render_popup, V!range_label, V!Least
<1>7. room < total => total > 0
  OBVIOUS
<1> QED
  BY <1>1, <1>2, <1>3, <1>4, <1>5, <1>6, <1>7 DEF V!render_popup, window

(* What is on the right of a bar ends at its edge when both parts fit, and *)
(* is what is cut off otherwise (push_right_aligned).                      *)
THEOREM RightEndIsFlush ==
  ASSUME NEW left \in Nat, NEW right \in Nat, NEW width \in Nat
  PROVE  LET end == left + V!push_right_aligned(left, right, width) + right
         IN IF left + right <= width THEN end = width ELSE end = left + right
  BY DEF V!push_right_aligned, V!saturating_sub

-----------------------------------------------------------------------------
(* Bindings without collisions give an event at most one action in a mode: *)
(* an event matches one key only.                                          *)
LEMMA OneActionForAKey ==
  ASSUME NEW b, ensure_no_collisions(b), NEW m \in DISPATCH, NEW event,
         NEW a1 \in triggers(b, m, event), NEW a2 \in triggers(b, m, event)
  PROVE  a1 = a2
<1>1. PICK key1 \in ToSet(b[a1]) : matches(key1, event)
  BY DEF triggers
<1>2. PICK key2 \in ToSet(b[a2]) : matches(key2, event)
  BY DEF triggers
<1>3. key1 = key2
  BY <1>1, <1>2 DEF matches
<1>4. a1 \in Action /\ a2 \in Action /\ active_in(a1, m) /\ active_in(a2, m)
  BY DEF triggers
<1>5. key1 \in ToSet(b[a1]) \cap ToSet(b[a2])
  BY <1>1, <1>2, <1>3
<1> QED
  BY <1>4, <1>5 DEF ensure_no_collisions

-----------------------------------------------------------------------------
(* Whatever files are laid over them, the bindings are lists of keys.      *)

AreBindings(b) == \A action \in Action : AreKeys(b[action])

LEMMA FewKeys ==
  ASSUME NEW key1, IsKey(key1), NEW key2, IsKey(key2), NEW key3, IsKey(key3)
  PROVE  AreKeys(<<key1>>) /\ AreKeys(<<key1, key2>>) /\ AreKeys(<<key1, key2, key3>>)
<1>1. AreKeys(<<key1>>)
  BY DEF AreKeys, ToSet
<1>2. AreKeys(<<key1, key2>>)
  BY DEF AreKeys, ToSet
<1>3. AreKeys(<<key1, key2, key3>>)
  BY DEF AreKeys, ToSet
<1> QED BY <1>1, <1>2, <1>3

LEMMA EachIsBound ==
  ASSUME NEW i \in DOMAIN BOUND
  PROVE  AreKeys(BOUND[i].keys)
<1>1. \A code : IsKey(Key(code)) /\ IsKey(Ctrl(code))
  BY DEF IsKey, Key, Ctrl
<1>2. \A key1, key2, key3 : IsKey(key1) /\ IsKey(key2) /\ IsKey(key3)
        => AreKeys(<<key1>>) /\ AreKeys(<<key1, key2>>) /\ AreKeys(<<key1, key2, key3>>)
  BY FewKeys
<1>3. /\ AreKeys(BOUND[1].keys) /\ AreKeys(BOUND[2].keys) /\ AreKeys(BOUND[3].keys)
      /\ AreKeys(BOUND[4].keys) /\ AreKeys(BOUND[5].keys) /\ AreKeys(BOUND[6].keys)
      /\ AreKeys(BOUND[7].keys) /\ AreKeys(BOUND[8].keys) /\ AreKeys(BOUND[9].keys)
      /\ AreKeys(BOUND[10].keys) /\ AreKeys(BOUND[11].keys) /\ AreKeys(BOUND[12].keys)
      /\ AreKeys(BOUND[13].keys) /\ AreKeys(BOUND[14].keys) /\ AreKeys(BOUND[15].keys)
      /\ AreKeys(BOUND[16].keys) /\ AreKeys(BOUND[17].keys) /\ AreKeys(BOUND[18].keys)
      /\ AreKeys(BOUND[19].keys) /\ AreKeys(BOUND[20].keys) /\ AreKeys(BOUND[21].keys)
      /\ AreKeys(BOUND[22].keys) /\ AreKeys(BOUND[23].keys) /\ AreKeys(BOUND[24].keys)
      /\ AreKeys(BOUND[25].keys) /\ AreKeys(BOUND[26].keys) /\ AreKeys(BOUND[27].keys)
  BY <1>1, <1>2 DEF BOUND, bound
<1>4. DOMAIN BOUND = 1 .. 27
  BY DEF BOUND
<1> QED BY <1>3, <1>4

LEMMA DefaultsAreBindings == AreBindings(DEFAULT)
<1> SUFFICES ASSUME NEW action \in Action PROVE AreKeys(DEFAULT[action])
  BY DEF AreBindings
<1> DEFINE i == CHOOSE k \in DOMAIN ALL : ALL[k] = action
<1>1. i \in DOMAIN ALL
  BY DEF Action, ToSet
<1>2. i \in DOMAIN BOUND
  BY <1>1 DEF ALL
<1>3. DEFAULT[action] = BOUND[i].keys
  BY DEF DEFAULT
<1> HIDE DEF i
<1> QED BY <1>2, <1>3, EachIsBound

LEMMA DedupeType ==
  ASSUME NEW keys, AreKeys(keys)
  PROVE  AreKeys(dedupe(keys))
<1> DEFINE S == {i \in DOMAIN keys : \A j \in 1 .. i - 1 : keys[j] # keys[i]}
           kept == ItemsAt(keys, S)
<1>1. S \subseteq DOMAIN keys /\ dedupe(keys) = kept
  BY DEF dedupe
<1> HIDE DEF S
<1>2. /\ IsASequence(kept)
      /\ \A i \in DOMAIN kept : \E k \in S : kept[i] = keys[k]
  BY <1>1, SequenceOf, ItemsAtThem DEF AreKeys
<1> HIDE DEF kept
<1>3. kept \in Seq(ToSet(kept))
  BY <1>2, OfItsMembers
<1>4. ToSet(kept) \subseteq ToSet(keys)
  BY <1>1, <1>2 DEF ToSet
<1> QED BY <1>1, <1>3, <1>4 DEF AreKeys

LEMMA ParsedName ==
  ASSUME NEW name, IsKey(name)
  PROVE  IsKey(parse(name))
<1> DEFINE code == IF name.code \in DOMAIN ALIASES THEN ALIASES[name.code] ELSE name.code
<1>1. parse(name) = [name EXCEPT !.code = code]
  BY DEF parse
<1> HIDE DEF code
<1> QED BY <1>1 DEF IsKey

LEMMA FileApplied ==
  ASSUME NEW b, AreBindings(b), NEW file, \A action \in DOMAIN file : AreKeys(file[action])
  PROVE  AreBindings(apply_file(b, file))
<1> SUFFICES ASSUME NEW action \in Action PROVE AreKeys(apply_file(b, file)[action])
  BY DEF AreBindings
<1>1. CASE action \in DOMAIN file
  <2> DEFINE keys == [i \in DOMAIN file[action] |-> parse(file[action][i])]
  <2>1. AreKeys(file[action])
    BY <1>1
  <2>2. \A i \in DOMAIN file[action] : IsKey(parse(file[action][i]))
    BY <2>1, ParsedName DEF AreKeys, ToSet
  <2>3. AreKeys(keys)
    <3>1. Len(file[action]) \in Nat /\ DOMAIN file[action] = 1..Len(file[action])
      BY <2>1 DEF AreKeys
    <3>2. keys = [i \in 1..Len(file[action]) |-> keys[i]]
      BY <3>1
    <3>3. IsASequence(keys)
      BY <3>1, <3>2, RangedSequence
    <3>4. \A key \in ToSet(keys) : IsKey(key)
      BY <2>2 DEF ToSet
    <3> QED BY <3>3, <3>4, OfItsMembers DEF AreKeys
  <2>4. apply_file(b, file)[action] = dedupe(keys)
    BY <1>1 DEF apply_file
  <2> HIDE DEF keys
  <2> QED BY <2>3, <2>4, DedupeType
<1>2. CASE action \notin DOMAIN file
  BY <1>2 DEF apply_file, AreBindings
<1> QED BY <1>1, <1>2

\* What the bindings are after each of the files.
IsAfter(f, files, n) ==
  f = [i \in 0..n |-> IF i = 0 THEN DEFAULT ELSE apply_file(f[i - 1], files[i])]

LEMMA AfterExists ==
  ASSUME NEW files, NEW n \in Nat
  PROVE  \E f : IsAfter(f, files, n)
<1> DEFINE T == {m \in Nat : ~\E f : IsAfter(f, files, m)}
<1> SUFFICES ASSUME T # {} PROVE FALSE
  OBVIOUS
<1>1. PICK m \in T : \A k \in T : ~(k < m)
  BY Least
<1>2. m \in Nat /\ ~\E f : IsAfter(f, files, m)
  BY <1>1
<1>3. CASE m = 0
  <2> DEFINE f == [i \in 0..0 |-> DEFAULT]
  <2>1. f = [i \in 0..0 |-> IF i = 0 THEN DEFAULT ELSE apply_file(f[i - 1], files[i])]
    OBVIOUS
  <2> QED BY <2>1, <1>2, <1>3 DEF IsAfter
<1>4. CASE m # 0
  <2>1. m - 1 \in Nat /\ m - 1 < m
    BY <1>2, <1>4
  <2>2. PICK g : IsAfter(g, files, m - 1)
    BY <2>1, <1>1
  <2> DEFINE f == [i \in 0..m |-> IF i = 0 THEN DEFAULT ELSE apply_file(g[i - 1], files[i])]
             e == [i \in 0..m - 1 |-> IF i = 0 THEN DEFAULT ELSE apply_file(g[i - 1], files[i])]
  <2>3. g = e
    BY <2>2 DEF IsAfter
  <2>4. \A i \in 0..m - 1 : f[i] = e[i]
    BY <2>1
  <2>5. \A i \in 0..m - 1 : f[i] = g[i]
    BY <2>3, <2>4
  <2>6. \A i \in 0..m : i = 0 \/ i - 1 \in 0..m - 1
    BY <2>1
  <2> HIDE DEF e
  <2>7. \A i \in 0..m : f[i] = IF i = 0 THEN DEFAULT ELSE apply_file(f[i - 1], files[i])
    BY <2>5, <2>6
  <2>8. f = [i \in 0..m |-> f[i]]
    OBVIOUS
  <2> HIDE DEF f
  <2>9. f = [i \in 0..m |-> IF i = 0 THEN DEFAULT ELSE apply_file(f[i - 1], files[i])]
    BY <2>7, <2>8
  <2> QED BY <2>9, <1>2 DEF IsAfter
<1> QED BY <1>3, <1>4

LEMMA OverlaidAreBindings ==
  ASSUME NEW files \in Configs
  PROVE  AreBindings(overlaid(files))
<1> DEFINE n == Len(files)
           after == CHOOSE f : f = [i \in 0..n |-> IF i = 0 THEN DEFAULT ELSE apply_file(f[i - 1], files[i])]
<1>1. n \in Nat /\ \A i \in 1..n : \A action \in DOMAIN files[i] : AreKeys(files[i][action])
  <2>1. files \in Seq(ToSet(files)) /\ \A file \in ToSet(files) : \A action \in DOMAIN file : AreKeys(file[action])
    BY KeyAssumption
  <2>2. n \in Nat /\ \A i \in 1..n : files[i] \in ToSet(files)
    BY <2>1
  <2> QED BY <2>1, <2>2
<1> HIDE DEF n
<1>2. IsAfter(after, files, n)
  BY <1>1, AfterExists DEF IsAfter
<1>3. overlaid(files) = after[n]
  BY Zenon DEF overlaid, n
<1> HIDE DEF after
<1>4. \A i \in 0..n : after[i] = IF i = 0 THEN DEFAULT ELSE apply_file(after[i - 1], files[i])
  BY <1>2, Zenon DEF IsAfter
<1> DEFINE T == {i \in 0..n : ~AreBindings(after[i])}
<1>5. T = {}
  <2> SUFFICES ASSUME T # {} PROVE FALSE
    OBVIOUS
  <2>1. T \subseteq Nat
    OBVIOUS
  <2>2. PICK i \in T : \A k \in T : ~(k < i)
    BY <2>1, Least
  <2>3. i \in 0..n /\ ~AreBindings(after[i])
    BY <2>2
  <2>4. i # 0
    BY <1>4, <2>3, DefaultsAreBindings
  <2>5. i - 1 \in 0..n /\ i - 1 < i /\ i \in 1..n
    BY <1>1, <2>3, <2>4
  <2>6. AreBindings(after[i - 1])
    BY <2>2, <2>5
  <2>7. after[i] = apply_file(after[i - 1], files[i])
    BY <1>4, <2>3, <2>4
  <2> QED BY <1>1, <2>3, <2>5, <2>6, <2>7, FileApplied
<1>6. n \in 0..n
  BY <1>1
<1> QED BY <1>3, <1>5, <1>6

LEMMA HelpLinesNat == help_lines \in Nat
<1> DEFINE shown == {i \in DOMAIN help_rows : describe_group(bindings, help_rows[i]) # <<>>}
<1>1. DOMAIN help_rows = 1 .. 15
  BY DEF help_rows
<1>2. IsFiniteSet(shown)
  BY <1>1, FS_Interval, FS_Subset, 1 \in Int, 15 \in Int
<1>3. Cardinality(shown) \in Nat
  BY <1>2, FS_CardinalityType
<1> QED
  BY <1>3 DEF help_lines

-----------------------------------------------------------------------------
(* A key bound in a mode does what it is bound to when pressed in it, and  *)
(* what a hint names are such keys.                                        *)

LEMMA EarliestIsThere ==
  ASSUME NEW S, S \subseteq Nat, S # {}
  PROVE  Earliest(S) \in S
<1>1. PICK n \in S : \A k \in S : ~(k < n)
  BY Least
<1>2. \A k \in S : n <= k
  BY <1>1
<1> QED BY <1>2 DEF Earliest

LEMMA BoundKeyWorks ==
  ASSUME NEW b, ensure_no_collisions(b), NEW m \in DISPATCH,
         NEW action \in Action, active_in(action, m), NEW key \in ToSet(b[action]), IsKey(key)
  PROVE  resolve(b, m, EventOf(key)) = action
<1> DEFINE event == EventOf(key)
           found == triggers(b, m, event)
           at == {i \in DOMAIN ALL : ALL[i] \in found}
<1>1. matches(key, event)
  <2>1. key \in [ctrl : BOOLEAN, code : {key.code}]
    BY DEF IsKey
  <2>2. ("ctrl" \in event.modifiers) = key.ctrl /\ event.code = key.code
    BY <2>1 DEF EventOf
  <2>3. event.modifiers \subseteq {"ctrl", "shift"}
    BY DEF EventOf
  <2> QED BY <2>1, <2>2, <2>3 DEF matches
<1>2. action \in found
  BY <1>1 DEF triggers
<1>3. \A a \in found : a = action
  BY <1>2, OneActionForAKey
<1>4. at \subseteq Nat /\ at # {}
  <2>1. DOMAIN ALL = 1 .. 27
    BY DEF ALL, BOUND
  <2>2. PICK i \in DOMAIN ALL : ALL[i] = action
    BY DEF Action, ToSet
  <2> QED BY <1>2, <2>1, <2>2
<1>5. Earliest(at) \in at
  BY <1>4, EarliestIsThere
<1>6. resolve(b, m, event) = ALL[Earliest(at)]
  BY <1>2 DEF resolve
<1> HIDE DEF at, found
<1> QED BY <1>3, <1>5, <1>6 DEF at

\* What the keys of a mode may do in it.
ActiveIn(m) == {action \in Action : active_in(action, m)}

LEMMA NamedKeyWorks ==
  ASSUME NEW b, AreBindings(b), ensure_no_collisions(b), NEW m \in DISPATCH,
         NEW group \in Seq(ActiveIn(m)), NEW key \in ToSet(compact_group(b, group))
  PROVE  resolve(b, m, EventOf(key)) \in ToSet(group)
<1> DEFINE n == Len(group)
           shown == [i \in 1..n |-> compact(b, group[i])]
           Keys == UNION {ToSet(shown[i]) : i \in 1..n}
<1>1. n \in Nat /\ DOMAIN group = 1..n /\ \A i \in 1..n : group[i] \in ActiveIn(m) /\ group[i] \in ToSet(group)
  BY DEF ToSet
<1>2. \A i \in 1..n : /\ compact(b, group[i]) \in Seq(ToSet(compact(b, group[i])))
                      /\ ToSet(compact(b, group[i])) \subseteq ToSet(b[group[i]])
  <2> SUFFICES ASSUME NEW a \in Action
               PROVE  /\ compact(b, a) \in Seq(ToSet(compact(b, a)))
                      /\ ToSet(compact(b, a)) \subseteq ToSet(b[a])
    BY <1>1 DEF ActiveIn
  <2>1. CASE b[a] = <<>>
    BY <2>1 DEF compact, ToSet
  <2>2. CASE b[a] # <<>>
    <3>1. b[a] \in Seq(ToSet(b[a]))
      BY DEF AreBindings, AreKeys
    <3>2. compact(b, a) = <<Head(b[a])>> /\ Head(b[a]) \in ToSet(b[a])
      BY <2>2, <3>1 DEF compact
    <3> QED BY <3>2 DEF ToSet
  <2> QED BY <2>1, <2>2
<1>3. compact_group(b, group) = FlattenSeq(shown)
  BY <1>1 DEF compact_group
<1>4. \A i \in 1..n : shown[i] = compact(b, group[i])
  OBVIOUS
<1>5. shown = [i \in 1..n |-> shown[i]]
  OBVIOUS
<1> HIDE DEF shown
<1>6. \A i \in 1..n : shown[i] \in Seq(Keys)
  <2> SUFFICES ASSUME NEW i \in 1..n PROVE shown[i] \in Seq(Keys)
    OBVIOUS
  <2>1. shown[i] \in Seq(ToSet(shown[i])) /\ ToSet(shown[i]) \subseteq Keys
    BY <1>2, <1>4
  <2> HIDE DEF Keys
  <2> QED BY <2>1, SeqMonotonic
<1>7. shown \in [1..n -> Seq(Keys)]
  BY <1>5, <1>6
<1>8. FlattenSeq(shown) \in Seq(Keys)
  BY ONLY <1>1, <1>7, FlattenType
<1>9. key \in Keys
  <2> HIDE DEF Keys
  <2> QED BY <1>3, <1>8 DEF ToSet
<1>10. PICK i \in 1..n : key \in ToSet(b[group[i]])
  BY <1>9, <1>2, <1>4
<1>11. IsKey(key)
  BY <1>1, <1>10 DEF AreBindings, AreKeys, ActiveIn
<1> QED BY <1>1, <1>10, <1>11, BoundKeyWorks DEF ActiveIn

(* A hint for one action that is bound names its first key.                *)
LEMMA HintIsFirst ==
  ASSUME NEW b, AreBindings(b), NEW action \in Action, b[action] # <<>>
  PROVE  Head(b[action]) \in ToSet(compact_group(b, <<action>>))
<1> DEFINE s == [i \in DOMAIN <<action>> |-> compact(b, <<action>>[i])]
           key == Head(b[action])
<1>1. compact(b, action) = <<key>>
  BY DEF compact
<1>2. s \in [1 .. 0 + 1 -> Seq({key})] /\ s[0 + 1] = <<key>>
  <2>1. s = [i \in 1 .. 1 |-> <<key>>]
    BY <1>1
  <2> HIDE DEF s, key
  <2>2. <<key>> \in Seq({key}) /\ 0 + 1 = 1
    OBVIOUS
  <2>3. ASSUME NEW T, NEW t \in T PROVE [i \in 1 .. 1 |-> t] \in [1 .. 1 -> T] /\ [i \in 1 .. 1 |-> t][1] = t
    OBVIOUS
  <2>4. s \in [1 .. 1 -> Seq({key})] /\ s[1] = <<key>>
    BY <2>1, <2>2, <2>3
  <2> QED BY <2>2, <2>4
<1>3. compact_group(b, <<action>>) = FlattenSeq(s)
  BY DEF compact_group
<1> HIDE DEF s
<1>4. FlattenSeq(s) = <<>> \o <<key>>
  BY <1>2, FlattenOn, 0 \in Nat
<1>5. <<>> \o <<key>> = <<key>>
  OBVIOUS
<1> HIDE DEF key
<1> QED BY <1>3, <1>4, <1>5 DEF ToSet, key

-----------------------------------------------------------------------------
KeyInv ==
  /\ mode \in DISPATCH => ensure_no_collisions(bindings) /\ ensure_quit_reachable(bindings)
  /\ AreBindings(bindings)
  /\ help_scroll \in Nat
  /\ height \in Nat

LEMMA KeyInitial == KeyInit => KeyInv
  BY KeyAssumption, DefaultsAreBindings DEF KeyInit, KeyInv, DISPATCH

(* A scroll of the help stays a line number.                               *)
LEMMA ScrollNat ==
  ASSUME KeyInv, NEW delta \in {-1, 1}, scroll_help(delta)
  PROVE  help_scroll' \in Nat
  BY HelpLinesNat DEF KeyInv, scroll_help, V!Least, V!saturating_sub, V!max_scroll

LEMMA KeyStep == KeyInv /\ [KeyNext]_keyVars => KeyInv'
<1> SUFFICES ASSUME KeyInv, [KeyNext]_keyVars PROVE KeyInv'
  OBVIOUS
<1>1. ASSUME NEW files \in Configs, Load(files) PROVE KeyInv'
  <2>1. CASE Loads(files)
    BY <1>1, <2>1, OverlaidAreBindings DEF Load, Loads, KeyInv
  <2>2. CASE ~Loads(files)
    BY <1>1, <2>2 DEF Load, KeyInv, DISPATCH
  <2> QED
    BY <2>1, <2>2
<1>2. ASSUME NEW event \in Events, handle_key(event) PROVE KeyInv'
  <2>1. bindings' = bindings /\ height' \in Nat /\ mode \in DISPATCH
    BY <1>2 DEF handle_key, KeyInv
  <2>2. help_scroll' \in Nat
    <3> DEFINE action == resolve(bindings, mode, event)
    <3> HIDE DEF action
    <3>1. CASE mode = "help" /\ handle_help_key(action)
      BY <3>1, ScrollNat DEF handle_help_key, Goto, KeyInv
    <3>2. CASE UNCHANGED help_scroll \/ help_scroll' = 0
      BY <3>2 DEF KeyInv
    <3>3. \/ mode = "help" /\ handle_help_key(action)
          \/ UNCHANGED help_scroll \/ help_scroll' = 0
      BY <1>2 DEF handle_key, action, handle_browse_key, handle_search_key, handle_type_filter_key,
                  handle_picker_key, invoke_selected, Type, Edit, Goto
    <3> QED
      BY <3>1, <3>2, <3>3
  <2> QED
    BY <2>1, <2>2 DEF KeyInv
<1>3. CASE PickerCloses
  BY <1>3 DEF PickerCloses, Goto, KeyInv, DISPATCH
<1>4. CASE Resize
  BY <1>4, KeyAssumption DEF Resize, KeyInv
<1>5. CASE UNCHANGED keyVars
  BY <1>5 DEF keyVars, KeyInv
<1> QED
  BY <1>1, <1>2, <1>3, <1>4, <1>5 DEF KeyNext, Ended

LEMMA KeyInductive == KeySpec => []KeyInv
  BY KeyInitial, KeyStep, PTL DEF KeySpec

(* No event ever stands for two actions, for all files and keys.           *)
THEOREM KeyMeansOneActionHolds == KeySpec => []KeyMeansOneAction
<1>1. KeyInv => KeyMeansOneAction
  BY OneActionForAKey DEF KeyInv, KeyMeansOneAction
<1> QED
  BY <1>1, KeyInductive, PTL

\* The commands the hints name, in the modes they name them in.
LEMMA HintedCommands ==
  /\ {<<"browse", "down">>, <<"browse", "up">>, <<"browse", "invoke">>, <<"browse", "search">>,
      <<"browse", "type_filter">>, <<"browse", "tab_next">>, <<"browse", "same_host">>,
      <<"browse", "refresh">>, <<"browse", "details_down">>, <<"browse", "details_up">>,
      <<"browse", "help">>, BROWSE_QUIT, QUIT} \subseteq ActiveIn("browse")
  /\ {<<"search", "close">>, <<"search", "clear">>} \subseteq ActiveIn("search")
  /\ {<<"type_filter", "down">>, <<"type_filter", "up">>, <<"type_filter", "toggle">>,
      <<"type_filter", "close">>} \subseteq ActiveIn("type_filter")
  /\ {<<"picker", "down">>, <<"picker", "up">>, <<"picker", "select">>, <<"picker", "close">>}
       \subseteq ActiveIn("picker")
  /\ {<<"help", "down">>, <<"help", "up">>, <<"help", "close">>} \subseteq ActiveIn("help")
<1>1. DOMAIN ALL = 1 .. 27
  BY DEF ALL, BOUND
<1>2. \A i \in 1 .. 27 : ALL[i] \in Action
  BY <1>1 DEF Action, ToSet
<1>3. \A i \in 1 .. 27 : BOUND[i].action \in Action
  <2>1. DOMAIN BOUND = 1 .. 27
    BY DEF BOUND
  <2> QED BY <1>2, <2>1 DEF ALL
<1>4. /\ BOUND[1].action = QUIT /\ BOUND[2].action = BROWSE_QUIT
      /\ BOUND[3].action = <<"browse", "up">> /\ BOUND[4].action = <<"browse", "down">>
      /\ BOUND[5].action = <<"browse", "invoke">> /\ BOUND[6].action = <<"browse", "search">>
      /\ BOUND[7].action = <<"browse", "type_filter">>
      /\ BOUND[8].action = <<"browse", "tab_next">>
      /\ BOUND[10].action = <<"browse", "same_host">>
      /\ BOUND[11].action = <<"browse", "refresh">>
      /\ BOUND[12].action = <<"browse", "details_down">>
      /\ BOUND[13].action = <<"browse", "details_up">> /\ BOUND[14].action = <<"browse", "help">>
      /\ BOUND[15].action = <<"search", "close">> /\ BOUND[16].action = <<"search", "clear">>
      /\ BOUND[17].action = <<"type_filter", "close">>
      /\ BOUND[18].action = <<"type_filter", "up">>
      /\ BOUND[19].action = <<"type_filter", "down">>
      /\ BOUND[20].action = <<"type_filter", "toggle">>
      /\ BOUND[21].action = <<"picker", "close">> /\ BOUND[22].action = <<"picker", "up">>
      /\ BOUND[23].action = <<"picker", "down">> /\ BOUND[24].action = <<"picker", "select">>
      /\ BOUND[25].action = <<"help", "close">> /\ BOUND[26].action = <<"help", "up">>
      /\ BOUND[27].action = <<"help", "down">>
  BY DEF BOUND, bound, QUIT, BROWSE_QUIT
<1>5. \A m, command : \A i \in 1 .. 27 : BOUND[i].action = <<m, command>> => <<m, command>> \in ActiveIn(m)
  BY <1>3 DEF active_in, ActiveIn
<1>6. active_in(QUIT, "browse") /\ active_in(BROWSE_QUIT, "browse")
  BY DEF active_in, QUIT, BROWSE_QUIT
<1>7. /\ <<"browse", "down">> \in ActiveIn("browse") /\ <<"browse", "up">> \in ActiveIn("browse")
      /\ <<"browse", "invoke">> \in ActiveIn("browse") /\ <<"browse", "search">> \in ActiveIn("browse")
      /\ <<"browse", "type_filter">> \in ActiveIn("browse") /\ <<"browse", "tab_next">> \in ActiveIn("browse")
      /\ <<"browse", "same_host">> \in ActiveIn("browse") /\ <<"browse", "refresh">> \in ActiveIn("browse")
      /\ <<"browse", "details_down">> \in ActiveIn("browse") /\ <<"browse", "details_up">> \in ActiveIn("browse")
      /\ <<"browse", "help">> \in ActiveIn("browse")
  BY ONLY <1>4, <1>5
<1>8. BROWSE_QUIT \in ActiveIn("browse") /\ QUIT \in ActiveIn("browse")
  BY <1>3, <1>4, <1>6 DEF ActiveIn
<1>9. /\ <<"search", "close">> \in ActiveIn("search") /\ <<"search", "clear">> \in ActiveIn("search")
      /\ <<"type_filter", "down">> \in ActiveIn("type_filter") /\ <<"type_filter", "up">> \in ActiveIn("type_filter")
      /\ <<"type_filter", "toggle">> \in ActiveIn("type_filter") /\ <<"type_filter", "close">> \in ActiveIn("type_filter")
  BY ONLY <1>4, <1>5
<1>10. /\ <<"picker", "down">> \in ActiveIn("picker") /\ <<"picker", "up">> \in ActiveIn("picker")
       /\ <<"picker", "select">> \in ActiveIn("picker") /\ <<"picker", "close">> \in ActiveIn("picker")
       /\ <<"help", "down">> \in ActiveIn("help") /\ <<"help", "up">> \in ActiveIn("help")
       /\ <<"help", "close">> \in ActiveIn("help")
  BY ONLY <1>4, <1>5
<1> QED BY <1>7, <1>8, <1>9, <1>10

LEMMA HintsAreGroups ==
  ASSUME KeyInv, mode \in DISPATCH
  PROVE  \A group \in ToSet(footer_hints \o modal_hint) : group \in Seq(ActiveIn(mode))
<1> DEFINE Groups == Seq(ActiveIn(mode))
<1>1. \A s \in Seq(Groups), t \in Seq(Groups) : ToSet(s \o t) \subseteq Groups
  <2> HIDE DEF Groups
  <2> QED BY ConcatProperties DEF ToSet
<1>2. SUFFICES footer_hints \in Seq(Groups) /\ modal_hint \in Seq(Groups)
  <2> HIDE DEF Groups
  <2>1. footer_hints \in Seq(Groups) /\ modal_hint \in Seq(Groups)
    BY <1>2
  <2> QED BY <1>1, <2>1 DEF Groups
<1>3. CASE mode = "browse"
  <2> DEFINE A == ActiveIn("browse")
  <2> HIDE DEF A
  <2>1. FOOTER["browse"] \in Seq(Seq(A))
    BY HintedCommands DEF FOOTER, A
  <2>2. quit_hint \in Seq(A)
    BY HintedCommands DEF quit_hint, A
  <2>3. modal_hint = <<>> /\ <<>> \in Seq(Seq(A))
    BY <1>3 DEF modal_hint
  <2>4. footer_hints \in Seq(Seq(A))
    BY <1>3, <2>1, <2>2 DEF footer_hints
  <2> QED BY <1>3, <2>3, <2>4 DEF A
<1>4. CASE mode = "search"
  <2> DEFINE A == ActiveIn("search")
  <2> HIDE DEF A
  <2>1. FOOTER["search"] \in Seq(Seq(A))
    BY HintedCommands DEF FOOTER, A
  <2>2. footer_hints = FOOTER["search"] /\ modal_hint = <<>> /\ <<>> \in Seq(Seq(A))
    BY <1>4 DEF footer_hints, modal_hint
  <2> QED BY <1>4, <2>1, <2>2 DEF A
<1>5. CASE mode = "type_filter"
  <2> DEFINE A == ActiveIn("type_filter")
  <2> HIDE DEF A
  <2>1. FOOTER["type_filter"] \in Seq(Seq(A))
    BY HintedCommands DEF FOOTER, A
  <2>2. footer_hints = FOOTER["type_filter"]
    BY <1>5 DEF footer_hints
  <2>3. modal_hint \in Seq(Seq(A))
    BY <1>5, HintedCommands DEF modal_hint, A
  <2> QED BY <1>5, <2>1, <2>2, <2>3 DEF A
<1>6. CASE mode = "picker"
  <2> DEFINE A == ActiveIn("picker")
  <2> HIDE DEF A
  <2>1. FOOTER["picker"] \in Seq(Seq(A))
    BY HintedCommands DEF FOOTER, A
  <2>2. footer_hints = FOOTER["picker"]
    BY <1>6 DEF footer_hints
  <2>3. modal_hint \in Seq(Seq(A))
    BY <1>6, HintedCommands DEF modal_hint, A
  <2> QED BY <1>6, <2>1, <2>2, <2>3 DEF A
<1>7. CASE mode = "help"
  <2> DEFINE A == ActiveIn("help")
  <2> HIDE DEF A
  <2>1. FOOTER["help"] \in Seq(Seq(A))
    BY HintedCommands DEF FOOTER, A
  <2>2. footer_hints = FOOTER["help"]
    BY <1>7 DEF footer_hints
  <2>3. <<<<<<"help", "down">>, <<"help", "up">>>>>> \in Seq(Seq(A)) /\ <<<<<<"help", "close">>>>>> \in Seq(Seq(A))
    BY HintedCommands DEF A
  <2>4. help_hint \in Seq(Seq(A))
    BY <2>3, ConcatProperties DEF help_hint
  <2>5. modal_hint = help_hint
    BY <1>7 DEF modal_hint
  <2> QED BY <1>7, <2>1, <2>2, <2>4, <2>5 DEF A
<1> QED BY <1>3, <1>4, <1>5, <1>6, <1>7 DEF DISPATCH

(* Every key a hint names does one of the things the hint is for, for all  *)
(* files, in every mode and in a terminal of any height.                   *)
THEOREM AdvertisedKeysWorkHolds == KeySpec => []AdvertisedKeysWork
<1>1. ASSUME KeyInv, mode \in DISPATCH, NEW group \in ToSet(footer_hints \o modal_hint),
             NEW key \in ToSet(compact_group(bindings, group))
      PROVE  resolve(bindings, mode, EventOf(key)) \in ToSet(group)
  <2>1. group \in Seq(ActiveIn(mode))
    BY <1>1, HintsAreGroups
  <2>2. AreBindings(bindings) /\ ensure_no_collisions(bindings)
    BY <1>1 DEF KeyInv
  <2> QED BY <1>1, <2>1, <2>2, NamedKeyWorks
<1>2. KeyInv => AdvertisedKeysWork
  BY <1>1 DEF AdvertisedKeysWork
<1> QED BY <1>2, KeyInductive, PTL

(* The browse footer always names a key that quits, for all files.         *)
THEOREM BrowseCanLeaveHolds == KeySpec => []BrowseCanLeave
<1>1. ASSUME KeyInv, mode = "browse" PROVE BrowseCanLeave
  <2>1. /\ mode \in DISPATCH /\ AreBindings(bindings) /\ ensure_no_collisions(bindings)
        /\ ensure_quit_reachable(bindings)
    BY <1>1 DEF KeyInv, DISPATCH
  <2>2. PICK action \in {QUIT, BROWSE_QUIT} : quit_hint = <<action>> /\ bindings[action] # <<>>
    BY <2>1 DEF ensure_quit_reachable, quit_hint
  <2>3. action \in Action /\ action \in ActiveIn(mode)
    BY <1>1, HintedCommands DEF ActiveIn
  <2> DEFINE key == Head(bindings[action])
  <2>4. key \in ToSet(compact_group(bindings, quit_hint))
    BY <2>1, <2>2, <2>3, HintIsFirst
  <2>5. quit_hint \in Seq(ActiveIn(mode)) /\ ToSet(quit_hint) = {action}
    BY <2>2, <2>3 DEF ToSet
  <2> HIDE DEF key
  <2>6. resolve(bindings, mode, EventOf(key)) \in ToSet(quit_hint)
    BY <2>1, <2>4, <2>5, NamedKeyWorks
  <2> QED BY <2>2, <2>4, <2>5, <2>6 DEF BrowseCanLeave
<1>2. KeyInv => BrowseCanLeave
  BY <1>1 DEF BrowseCanLeave
<1> QED BY <1>2, KeyInductive, PTL

(* The help is always drawn full, for all bindings and terminals.          *)
THEOREM HelpWindowIsFullHolds == KeySpec => []HelpWindowIsFull
<1>1. KeyInv => HelpWindowIsFull
  BY HelpLinesNat, ScrolledWindowIsFull DEF KeyInv, HelpWindowIsFull, help_window
<1> QED
  BY <1>1, KeyInductive, PTL

(* A press that scrolls further always moves what is shown, in a terminal  *)
(* of any height and help of any length.                                   *)
THEOREM NothingIsBankedHolds == KeySpec => NothingIsBanked
<1>1. ASSUME KeyInv, [KeyNext]_keyVars, mode = "help", help_scroll' > help_scroll
      PROVE  help_window'.offset = help_window.offset + 1
  <2>1. PICK event \in Events : handle_key(event)
    BY <1>1 DEF KeyNext, Load, PickerCloses, Resize, Ended, keyVars, Goto, KeyInv
  <2>2. PICK delta \in {-1, 1} : scroll_help(delta)
    <3> DEFINE action == resolve(bindings, mode, event)
    <3> HIDE DEF action
    <3>1. (action = QUIT /\ Goto("left")) \/ handle_help_key(action)
      BY <1>1, <2>1 DEF handle_key, action
    <3> QED
      BY <1>1, <3>1 DEF handle_help_key, Goto, KeyInv
  <2>3. help_lines' = help_lines /\ height' = height
    BY <2>1 DEF handle_key, help_lines, describe_group
  <2>4. help_scroll' = help_scroll + 1 /\ help_scroll' <= V!max_scroll(help_lines, height)
    BY <1>1, <2>2, HelpLinesNat
    DEF scroll_help, KeyInv, V!Least, V!saturating_sub, V!max_scroll
  <2> QED
    BY <1>1, <2>3, <2>4, HelpLinesNat
    DEF help_window, V!window_at, V!Window, KeyInv, V!Least, V!saturating_sub, V!max_scroll
<1>2. KeyInv /\ [KeyNext]_keyVars
        => [mode = "help" /\ help_scroll' > help_scroll
              => help_window'.offset = help_window.offset + 1]_keyVars
  BY <1>1
<1> QED
  BY <1>2, KeyInductive, PTL DEF NothingIsBanked, KeySpec
=============================================================================
