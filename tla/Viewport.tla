------------------------------- MODULE Viewport -------------------------------
(***************************************************************************)
(* The visible window over a taller list (src/ui/viewport.rs), and the     *)
(* panels it is asked for (src/ui/layout.rs).  Pure functions of the rows  *)
(* there are, the rows there is room for, and where the reader is; indices *)
(* count from 0, as in the code.                                           *)
(***************************************************************************)
EXTENDS Integers

Least(a, b) == IF a <= b THEN a ELSE b

saturating_sub(a, b) == IF a <= b THEN 0 ELSE a - b

Window(total, height, offset) ==
  [offset |-> offset, len |-> Least(height, saturating_sub(total, offset)), total |-> total]

\* Mutated form: the selection is brought to the row below the last one shown.
containing_late(total, height, selected) ==
  Window(total, height,
         IF height = 0 \/ total <= height \/ selected <= height THEN 0
         ELSE Least(selected - height, total - height))

containing(total, height, selected) ==
  Window(total, height,
         IF height = 0 \/ total <= height \/ selected < height THEN 0
         ELSE Least(selected + 1 - height, total - height))

\* Mutated form: the last line can be brought to the top.
max_scroll_past(total, height) == saturating_sub(total, 1)

max_scroll(total, height) == saturating_sub(total, height)

\* Mutated form: a scroll left over from a shorter window is not clamped.
window_at_unclamped(total, height, scroll) == Window(total, height, scroll)

window_at(total, height, scroll) ==
  Window(total, height, Least(scroll, max_scroll(total, height)))

range(window) == window.offset .. window.offset + window.len - 1

is_clipped(window) == window.len < window.total

\* "first-last/total", from 1, of what is shown.
range_label(window) ==
  IF window.len > 0 THEN <<window.offset + 1, window.offset + window.len, window.total>> ELSE <<>>

\* The title of a list always says where the list is.
list_title(total, selected, height) == range_label(containing(total, height, selected))

\* The thumb: how much there is, how much of it is in view, and from where.
render_scrollbar(content_len, viewport, position) ==
  IF content_len <= viewport THEN <<>> ELSE <<content_len, viewport, position>>

\* A pop-up says so only when it hides something.
render_popup(window) ==
  [title |-> IF is_clipped(window) THEN range_label(window) ELSE <<>>,
   scrollbar |-> render_scrollbar(window.total, window.len, window.offset)]

\* The blanks that put what is on the right of a bar flush against its edge.
push_right_aligned(left, right, width) == saturating_sub(saturating_sub(width, left), right)

\* What fits between the borders of a panel.
viewport_of(height) == saturating_sub(height, 2)

(* The panels of the browse screen: layout has the heights of the list and *)
(* of the details, and how much each is a view of.                         *)
LayoutSnapshot == [list : Nat, details : Nat, list_total : Nat, details_total : Nat]

list_window(layout, selected) ==
  containing(layout.list_total, viewport_of(layout.list), selected)

details_viewport(layout) == viewport_of(layout.details)

details_window(layout, scroll) == window_at(layout.details_total, details_viewport(layout), scroll)

details_max_scroll(layout) == max_scroll(layout.details_total, details_viewport(layout))

\* The index under the row y of a panel that starts at row top.
list_row_at(window, top, y) ==
  LET index == window.offset + y - (top + 1)
  IN IF y > top /\ index \in range(window) THEN {index} ELSE {}

-----------------------------------------------------------------------------
(* A window is full when it shows all there is or all there is room for.   *)
IsFull(window, height) ==
  /\ range(window) \subseteq 0 .. window.total - 1
  /\ window.len = Least(height, window.total)
=============================================================================
