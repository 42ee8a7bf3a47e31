----------------------------- MODULE CommandTable -----------------------------
(***************************************************************************)
(* What list-commands prints (src/lib.rs::write_commands) and how a text   *)
(* becomes terminal columns (src/terminal.rs).  A text is how many          *)
(* characters of each class it has.  Pure.                                 *)
(***************************************************************************)
EXTENDS Integers, Sequences, FiniteSetsExt

CONSTANT Described(_)     \* of a rule: the texts of its name, mode, description and command

Text(plain, wide, mark, control, bidi) ==
  [plain |-> plain, wide |-> wide, mark |-> mark, control |-> control, bidi |-> bidi]

Texts == [plain : Nat, wide : Nat, mark : Nat, control : Nat, bidi : Nat]

\* Escapes are \xNN and \u{NNNN}.
text(value) == Text(value.plain + 4 * value.control + 8 * value.bidi, value.wide, value.mark, 0, 0)

\* A wide character has two columns, and a combining mark none.
width(safe) == safe.plain + 2 * safe.wide

heading == [i \in 1..4 |-> Text(<<4, 4, 11, 7>>[i], 0, 0, 0, 0)]
minimum == <<22, 8, 36>>

column_width(column, rows) ==
  Max({minimum[column], width(heading[column])} \union {width(rows[i][column]) : i \in DOMAIN rows})

\* The columns after a cell, of which one is left blank.
write_padding(cell, columns) ==
  (IF width(cell) < columns THEN columns - width(cell) ELSE 0) + 1

\* A line: every cell and the column it starts at.
write_command_row(cells, widths) ==
  LET at[i \in DOMAIN cells] ==
        IF i = 1 THEN 0 ELSE at[i - 1] + width(cells[i - 1]) + write_padding(cells[i - 1], widths[i - 1])
  IN [i \in DOMAIN cells |-> [at |-> at[i], cell |-> cells[i]]]

write_commands(rules) ==
  LET rows == [i \in DOMAIN rules |-> [j \in 1..4 |-> text(Described(rules[i])[j])]]
      widths == [j \in 1..3 |-> column_width(j, rows)]
  IN <<write_command_row(heading, widths)>>
       \o [i \in DOMAIN rows |-> write_command_row(rows[i], widths)]

-----------------------------------------------------------------------------
\* A table is read by its columns: every line has them at the same places, and a
\* cell ends before the next one begins.
Legible(table) ==
  \A i, k \in DOMAIN table : \A j \in 1..3 :
    /\ table[i][j + 1].at = table[k][j + 1].at
    /\ table[i][j].at + width(table[i][j].cell) < table[i][j + 1].at
=============================================================================
