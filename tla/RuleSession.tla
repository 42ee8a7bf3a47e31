------------------------------ MODULE RuleSession ------------------------------
(***************************************************************************)
(* A command file is written and loaded, services come and go, and the     *)
(* rule is run.  The writer follows the grammar documented at              *)
(* CommandTemplate::compile: he knows which arguments he means, and the    *)
(* reader of CommandTemplate has only the symbols.                         *)
(***************************************************************************)
EXTENDS RowDetails

CONSTANTS
  Files,     \* what a command file may say, its command aside
  Reports,   \* what the backend may report, in the order of compare_occurrences
  Programs,  \* the programs that may be installed
  OptionLike, \* the symbols that start with a `-`
  MaxAtoms,  \* bound: the literals and fields of a command
  MaxArgs,   \* bound: its arguments
  MaxLive    \* bound: the services in the store at once

IsSequence(s) == s \in Seq(ToSet(s))

\* An address and a port are displayed from their numbers (std::net::IpAddr and u16).
ASSUME ReportAssumption ==
  /\ IsSequence(Reports)
  /\ \A report \in ToSet(Reports) :
       /\ IsSequence(report.name) /\ IsSequence(report.service_type) /\ IsSequence(report.hostname)
       /\ IsSequence(report.addresses) /\ ToSet(report.addresses) \cap OptionLike = {}
       /\ report.port # 0 => ToString(report.port) \notin OptionLike
       /\ IsSequence(report.txt)
       /\ \A p \in ToSet(report.txt) : p.value = Undecoded \/ IsSequence(p.value)

VARIABLES
  args,       \* the arguments the writer has finished
  arg, open,  \* the one he is in, if any
  quote,      \* the quote he has open
  sound,      \* what he wrote has a meaning
  reader,     \* the reader after what was written so far
  rule,       \* the rule loaded from the file, as a set of at most one
  live,       \* the indexes of the reports that are in the store
  installed,
  launched    \* what the last step ran, as a set of at most one

meantVars == <<args, arg, open, quote, sound>>
writerVars == <<meantVars, reader>>
ruleVars == <<writerVars, rule, live, installed, launched>>

group == ItemsAt([i \in DOMAIN Reports |-> resolved(Reports[i])], live)

RuleInit ==
  /\ args = <<>> /\ arg = <<>> /\ open = FALSE /\ quote = Unquoted /\ sound = TRUE
  /\ reader = Start
  /\ rule = {}
  /\ live = {}
  /\ installed = {}
  /\ launched = {}

-----------------------------------------------------------------------------
(* Writing the command.                                                    *)

Writing == rule = {} /\ sound /\ UNCHANGED <<rule, live, installed, launched>>

Means(atom) ==
  /\ Len(FlattenSeq(args)) + Len(arg) < MaxAtoms
  /\ arg' = Append(arg, atom)
  /\ open' = TRUE
  /\ UNCHANGED <<args, quote, sound>>

\* Symbols that mean themselves: words, a lone `}`, and what the quotes keep.
WriteLiteral(ch) ==
  /\ Writing
  /\ \/ ch \in Word \cup {"}"}
     \/ quote # Unquoted /\ ch \in (Quotes \cup {"blank"}) \ {quote}
  /\ Means(Literal(ch))
  /\ reader' = read(reader, ch)

WriteEscaped(ch) ==
  /\ Writing
  /\ Means(Literal(ch))
  /\ reader' = read(read(reader, "backslash"), ch)

WriteBrace ==
  /\ Writing
  /\ Means(Literal("{"))
  /\ reader' = read(read(reader, "{"), "{")

WritePlaceholder(f) ==
  /\ Writing
  /\ Means(FieldOf(f))
  /\ reader' = read(read(read(reader, "{"), f), "}")

OpenQuote(q) ==
  /\ Writing
  /\ quote = Unquoted
  /\ quote' = q
  /\ open' = TRUE
  /\ reader' = read(reader, q)
  /\ UNCHANGED <<args, arg, sound>>

CloseQuote ==
  /\ Writing
  /\ quote # Unquoted
  /\ quote' = Unquoted
  /\ reader' = read(reader, quote)
  /\ UNCHANGED <<args, arg, open, sound>>

\* The arguments with the open one.
Intended == IF open THEN Append(args, arg) ELSE args

EndArgument ==
  /\ Writing
  /\ quote = Unquoted
  /\ Len(args) + 1 < MaxArgs
  /\ args' = Intended
  /\ arg' = <<>>
  /\ open' = FALSE
  /\ reader' = read(reader, "blank")
  /\ UNCHANGED <<quote, sound>>

\* What the grammar has no meaning for: an end after a backslash or within a
\* placeholder, and placeholders that are empty, nested or of no field.
Slip ==
  /\ Writing
  /\ sound' = FALSE
  /\ \E w \in Word, f \in Field :
       reader' \in {read(reader, "backslash"),
                    read(reader, "{"),
                    read(read(reader, "{"), f),
                    read(read(reader, "{"), "}"),
                    read(read(read(reader, "{"), f), "{"),
                    read(read(read(reader, "{"), w), "}")}
  /\ UNCHANGED <<args, arg, open, quote>>

-----------------------------------------------------------------------------

\* The file is loaded as it is; a file that is refused is written anew.
Load(file) ==
  /\ rule = {}
  /\ \/ /\ Parses(file, reader)
        /\ rule' = {CommandConfig(file, reader)}
        /\ UNCHANGED writerVars
     \/ /\ ~Parses(file, reader)
        /\ args' = <<>> /\ arg' = <<>> /\ open' = FALSE /\ quote' = Unquoted /\ sound' = TRUE
        /\ reader' = Start
        /\ UNCHANGED rule
  /\ UNCHANGED <<live, installed, launched>>

(* Services are looked at for commands whose literals are words (bound).   *)
Worded(r) ==
  \A i \in DOMAIN r.template : \A atom \in ToSet(r.template[i]) : IsField(atom) \/ atom.of \in Word

Running ==
  /\ \E r \in rule : Worded(r)
  /\ \A l \in launched : l.how # "handoff"
  /\ UNCHANGED <<writerVars, rule>>

Report(i) ==
  /\ Running
  /\ live' = IF i \in live THEN live \ {i} ELSE live \cup {i}
  /\ Cardinality(live') <= MaxLive
  /\ launched' = {}
  /\ UNCHANGED installed

Install(program) ==
  /\ Running
  /\ installed' = IF program \in installed THEN installed \ {program} ELSE installed \cup {program}
  /\ launched' = {}
  /\ UNCHANGED live

\* After a hand-off Kinjo is gone, and nothing more is run.
Run(r, target) ==
  /\ Running
  /\ launched' = {[how |-> how, argv |-> prepare(r, target).argv] :
                    how \in run(r, target, installed) \cap ActionOutcome}
  /\ UNCHANGED <<live, installed>>

RuleNext ==
  \/ \E ch \in Symbol : WriteLiteral(ch) \/ WriteEscaped(ch)
  \/ \E f \in Field : WritePlaceholder(f)
  \/ \E q \in Quotes : OpenQuote(q)
  \/ WriteBrace \/ CloseQuote \/ EndArgument \/ Slip
  \/ \E file \in Files : Load(file)
  \/ \E i \in DOMAIN Reports : Report(i)
  \/ \E program \in Programs : Install(program)
  \/ \E r \in rule : \E t \in ToSet(targets(r, group)) : Run(r, t)

RuleSpec == RuleInit /\ [][RuleNext]_ruleVars

-----------------------------------------------------------------------------

(* The arguments read from a command are those its writer means, whatever  *)
(* he quotes and escapes, and what he cannot mean is refused               *)
(* (template.rs:225, one pass over quotes, escapes and placeholders).      *)
ReadAsWritten ==
  /\ sound => reader = [reading |-> "text", quote |-> quote, held |-> <<>>,
                        started |-> open, token |-> arg, tokens |-> args]
  /\ ~sound => ~Complete(reader)
  /\ \A r \in rule : r.template = Intended

LetOptionsThrough(r) == \E file \in Files : file.name = r.name /\ file.allow_option_like_values

(* A service cannot add, remove or choose an argument: an argv has an      *)
(* argument for each of the writer's, its program is his, and an argument  *)
(* that looks like an option starts with his text or comes after his `--`, *)
(* unless the file allows it (template.rs:144, mod.rs:94).                 *)
Uninjected(r, argv) ==
  /\ DOMAIN argv = DOMAIN Intended
  /\ argv[1] = [k \in DOMAIN Intended[1] |-> Intended[1][k].of]
  /\ \A i \in 2 .. Len(argv) :
       argv[i] # <<>> /\ argv[i][1] \in OptionLike /\ ~LetOptionsThrough(r) =>
         \/ Intended[i][1] = Literal(argv[i][1])
         \/ \E j \in 2 .. i - 1 : Intended[j] = <<Literal(Terminator)>>

NothingIsInjected ==
  \A r \in rule :
    /\ \A l \in launched : Uninjected(r, l.argv)
    /\ \A t \in ToSet(targets(r, group)) : Uninjected(r, prepare(r, t).argv)

\* What the rule could act on, one by one: an entry, or one address of it.
Variants(r, entry) ==
  IF uses_address(r) THEN {[entry EXCEPT !.addresses = <<a>>] : a \in ToSet(entry.addresses)}
                     ELSE {entry}

Fits(r, variant) ==
  /\ Prepares(r, variant)
  /\ \A p \in r.predicates : has_field(variant, p.field) /\ field_value(variant, p.field) \in p.accepts

(* The rules listed for a row are those with a target in it, and the       *)
(* engine reports each of them (mod.rs:447); a rule's                      *)
(* targets run different commands, and they are all the commands it can    *)
(* run for one service at one address that meets every predicate           *)
(* (mod.rs:187, mod.rs:258, mod.rs:287).                                   *)
MatchingAgrees ==
  \A r \in rule :
    LET found == targets(r, group)
    IN /\ matching_command_names(<<r>>, group) = names_by_matching(<<r>>, group)
       /\ \A m \in ToSet(matches_group(<<r>>, group)) : m.command \in ToSet(commands(<<r>>))
       /\ \A t \in ToSet(found) : Fits(r, t)
       /\ \A i, j \in DOMAIN found : prepare(r, found[i]) = prepare(r, found[j]) => i = j
       /\ {prepare(r, t) : t \in ToSet(found)}
            = {prepare(r, v) : v \in {w \in UNION {Variants(r, e) : e \in ToSet(group)} : Fits(r, w)}}

\* The first value a report has for a key, whatever the case of the key.
FirstAdvertised(pairs, key) ==
  LET of == {i \in DOMAIN pairs : pairs[i].key \in DOMAIN LowerCase /\ LowerCase[pairs[i].key] = key}
  IN {pairs[i].value : i \in {j \in of : \A k \in of : j <= k}} \ {Undecoded}

KeepsTheFirst(pairs) ==
  LET values == txt_values(pairs)
  IN \A key \in DOMAIN LowerCase : FirstAdvertised(pairs, key) = {values[k] : k \in DOMAIN values \cap {key}}

(* What a row says holds of each of its services: no fact, TXT value or    *)
(* count is one service's alone, and a TXT value is the first advertised   *)
(* for its key (entry.rs:677, entry.rs:810, txt.rs:39).                    *)
RowsTellTheTruth ==
  /\ \A mode \in BROWSE_MODES : \A id \in row_ids(group, mode) :
       LET row == row_instances(group, id, mode)
       IN FactsHoldOf(row, row_facts(group, id, mode), mode) /\ TxtHoldsOf(row) /\ CountsAddUp(row)
  /\ \A i \in live : KeepsTheFirst(Reports[i].txt)
=============================================================================
