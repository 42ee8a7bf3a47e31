---------------------------- MODULE ConfigOverlay ----------------------------
(***************************************************************************)
(* The rules built from the command files of an overlay of directories     *)
(* (src/plumber/config.rs).  Pure: the builder, one file at a time, and    *)
(* what a whole reading declares, which the builder is checked against.    *)
(*                                                                         *)
(* What a file holds is Absent (it cannot be read), Broken (it does not    *)
(* parse) or the rule [name, body] it parses to.                           *)
(***************************************************************************)
EXTENDS Positions, Sequences

CONSTANTS Absent, Broken

IsRule(content) == content \notin {Absent, Broken}

(* MatcherBuilder.                                                         *)

NewBuilder == [commands |-> <<>>, names |-> << >>, layer |-> 0]

start_layer(b) == [b EXCEPT !.layer = @ + 1]

IsDuplicate(b, rule) == rule.name \in DOMAIN b.names /\ b.names[rule.name].layer = b.layer
Accepts(b, content) == IsRule(content) /\ ~IsDuplicate(b, content)

named(b, rule, index) ==
  [name \in DOMAIN b.names \union {rule.name} |->
     IF name = rule.name THEN [layer |-> b.layer, index |-> index] ELSE b.names[name]]

override(b, rule) ==
  LET index == b.names[rule.name].index
  IN [commands |-> [b.commands EXCEPT ![index] = rule],
      names |-> named(b, rule, index), layer |-> b.layer]

append(b, rule) ==
  [commands |-> Append(b.commands, rule),
   names |-> named(b, rule, Len(b.commands) + 1), layer |-> b.layer]

\* Mutant: an override goes to the end of the list.
AlwaysAppended(b, content) == IF Accepts(b, content) THEN append(b, content) ELSE b

\* What is not accepted is an error and leaves the builder alone.
add_file(b, content) ==
  CASE ~Accepts(b, content) -> b
    [] Accepts(b, content) /\ content.name \in DOMAIN b.names -> override(b, content)
    [] OTHER -> append(b, content)

-----------------------------------------------------------------------------
(* A reading: the files that were read, in their order, as [layer, at,     *)
(* content].  A layer is a directory, and at is what a diagnostic names:   *)
(* the directory and the file, or the directory when it cannot be listed,  *)
(* which counts as a file that cannot be read.                             *)

Read(layer, at, content) == [layer |-> layer, at |-> at, content |-> content]

\* A file defines its rule if it is its layer's first for the name.
Defining(reading) ==
  {j \in DOMAIN reading :
     /\ IsRule(reading[j].content)
     /\ \A k \in 1..j - 1 :
          IsRule(reading[k].content) /\ reading[k].layer = reading[j].layer
            => reading[k].content.name # reading[j].content.name}

Definitions(reading, name) == {j \in Defining(reading) : reading[j].content.name = name}

Names(reading) == {reading[j].content.name : j \in Defining(reading)}

Firsts(reading) ==
  {j \in Defining(reading) : \A k \in Definitions(reading, reading[j].content.name) : j <= k}

\* Every name once, where it was first defined and as it was last defined.
Overlay(reading) ==
  LET first == InOrder(Firsts(reading))
      latest(i) == Latest(Definitions(reading, reading[first[i]].content.name))
  IN [i \in DOMAIN first |-> reading[latest(i)].content]

\* What defines nothing is an error.
Errors(reading) ==
  LET refused == InOrder(DOMAIN reading \ Defining(reading))
  IN [i \in DOMAIN refused |-> reading[refused[i]].at]
=============================================================================
