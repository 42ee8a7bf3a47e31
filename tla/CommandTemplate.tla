---------------------------- MODULE CommandTemplate ----------------------------
(***************************************************************************)
(* The command of an action (src/plumber/template.rs): how its text is     *)
(* read into arguments, which arguments a rule may have, and what they are *)
(* for a service.                                                          *)
(*                                                                         *)
(* A text is a sequence of symbols.  A symbol is one of the characters the *)
(* reader gives a meaning to, or a Word: a run of characters that have     *)
(* none.  An argument is a sequence of atoms, each a literal symbol or a   *)
(* field; that runs of literals are kept as one string is not modelled.    *)
(***************************************************************************)
EXTENDS Naturals, SequencesExt

CONSTANTS
  Word,        \* runs of characters without a meaning
  Terminator,  \* the word "--"
  TypedField,  \* the fields that are not text: address and port
  TextField    \* the other fields

Field == TypedField \cup TextField

Quotes == {"single", "double"}
Unquoted == "none"
Meaning == Quotes \cup {"backslash", "{", "}", "blank"}
Symbol == Word \cup Meaning

ASSUME TemplateAssumption ==
  /\ Terminator \in Word
  /\ TypedField \cap TextField = {}
  /\ Word \cap (Field \cup Meaning \cup {Unquoted}) = {}
  /\ Field \cap Meaning = {}

Literal(ch) == [is |-> "literal", of |-> ch]
FieldOf(f) == [is |-> "field", of |-> f]

-----------------------------------------------------------------------------
(* tokenize: a loop over the text.  "escape" and "placeholder" are where   *)
(* the loop takes further symbols; `held` is the body of the placeholder.  *)

Start == [reading |-> "text", quote |-> Unquoted, held |-> <<>>,
          started |-> FALSE, token |-> <<>>, tokens |-> <<>>]

push(r, atom) == [r EXCEPT !.reading = "text", !.started = TRUE, !.token = Append(@, atom)]

end_token(r) ==
  IF r.started
    THEN [r EXCEPT !.tokens = Append(@, r.token), !.token = <<>>, !.started = FALSE]
    ELSE r

Failed(r) == [r EXCEPT !.reading = "error"]

read_placeholder(r, ch) ==
  CASE ch = "{" /\ r.held = <<>>  -> push(r, Literal(ch))
    [] ch = "{" /\ r.held # <<>>  -> Failed(r)
    [] ch = "}" -> IF \E f \in Field : r.held = <<f>>
                     THEN [push(r, FieldOf(r.held[1])) EXCEPT !.held = <<>>]
                     ELSE Failed(r)
    [] OTHER -> [r EXCEPT !.held = Append(@, ch)]

\* Mutant: any quote closes the open one.
AnyQuoteCloses(r, ch) ==
  CASE r.quote # Unquoted /\ ch \in Quotes -> [r EXCEPT !.quote = Unquoted]
    [] ch = "backslash" -> [r EXCEPT !.reading = "escape"]
    [] ch = "{" -> [r EXCEPT !.reading = "placeholder"]
    [] ch \in Quotes /\ r.quote = Unquoted -> [r EXCEPT !.quote = ch, !.started = TRUE]
    [] ch = "blank" /\ r.quote = Unquoted -> end_token(r)
    [] OTHER -> push(r, Literal(ch))

read_text(r, ch) ==
  CASE ch = r.quote -> [r EXCEPT !.quote = Unquoted]
    [] ch = "backslash" -> [r EXCEPT !.reading = "escape"]
    [] ch = "{" -> [r EXCEPT !.reading = "placeholder"]
    [] ch \in Quotes /\ r.quote = Unquoted -> [r EXCEPT !.quote = ch, !.started = TRUE]
    [] ch = "blank" /\ r.quote = Unquoted -> end_token(r)
    [] OTHER -> push(r, Literal(ch))

read(r, ch) ==
  CASE r.reading = "text" -> read_text(r, ch)
    [] r.reading = "escape" -> push(r, Literal(ch))
    [] r.reading = "placeholder" -> read_placeholder(r, ch)
    [] OTHER -> r

Complete(r) == r.reading = "text" /\ r.quote = Unquoted

tokenize(r) == end_token(r).tokens

-----------------------------------------------------------------------------
(* compile.                                                                *)

IsField(atom) == atom.is = "field"

\* Mutant: a field is looked for in arguments that are nothing else.
OnlyALoneField(token) == Len(token) = 1 /\ IsField(token[1]) /\ token[1].of \in TextField

\* A text field that can decide whether the argument starts with a `-`.
leading_option_sensitive_field(token) ==
  token # <<>> /\ IsField(token[1]) /\ token[1].of \in TextField

options_terminated(tokens, i) == \E j \in 2 .. i - 1 : tokens[j] = <<Literal(Terminator)>>

validate_option_like_values(tokens) ==
  \A i \in 2 .. Len(tokens) :
    leading_option_sensitive_field(tokens[i]) => options_terminated(tokens, i)

ProgramIsLiteral(tokens) ==
  /\ tokens # <<>>
  /\ tokens[1] # <<>>
  /\ \A k \in DOMAIN tokens[1] : ~IsField(tokens[1][k])

Compiles(r, allow) ==
  /\ Complete(r)
  /\ ProgramIsLiteral(tokenize(r))
  /\ allow \/ validate_option_like_values(tokenize(r))

fields(tokens) ==
  {f \in Field : \E i \in DOMAIN tokens : \E k \in DOMAIN tokens[i] : tokens[i][k] = FieldOf(f)}

-----------------------------------------------------------------------------
(* render: an argument for each token, with the values of a service.       *)

value_of(atom, value) == IF IsField(atom) THEN value[atom.of] ELSE <<atom.of>>

render_token(token, value) == FlattenSeq([k \in DOMAIN token |-> value_of(token[k], value)])

render(tokens, value) == [i \in DOMAIN tokens |-> render_token(tokens[i], value)]
=============================================================================
