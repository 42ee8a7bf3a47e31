------------------------------ MODULE RuleEngine ------------------------------
(***************************************************************************)
(* A command rule and the services it applies to: what an entry keeps of a *)
(* backend's report (src/discovery/entry.rs, txt.rs), the rule a command   *)
(* file makes (src/plumber/config.rs), its candidates and targets          *)
(* (src/plumber/mod.rs) and its launch (src/plumber/exec.rs).  Pure.       *)
(*                                                                         *)
(* Text is a sequence of symbols.  A predicate is the set of texts that    *)
(* satisfy it, whether it was written `equals`, `contains` or `regex`.     *)
(***************************************************************************)
EXTENDS CommandTemplate, Positions

CONSTANTS
  TxtField,   \* the fields txt.<key>
  KeyOf,      \* the key of each, as the rule spells it
  LowerCase,  \* each legal key in lower case; the other keys are not legal
  Undecoded   \* a TXT value that is not valid UTF-8

ASSUME EngineAssumption ==
  /\ TextField = TxtField \cup {"name", "service_type", "hostname"}
  /\ TxtField \cap {"name", "service_type", "hostname"} = {}
  /\ TypedField = {"address", "port"}
  /\ DOMAIN KeyOf = TxtField
  /\ \A f \in TxtField : KeyOf[f] \in DOMAIN LowerCase
  /\ \A key \in DOMAIN LowerCase : LowerCase[key] \in DOMAIN LowerCase

NotResolved == <<>>

insert(values, key, value) ==
  [k \in {key} \cup DOMAIN values |-> IF k = key THEN value ELSE values[k]]

(* TextTxtMap: a key belongs to its first value, were it not text.         *)
observe(map, pair) ==
  LET key == LowerCase[pair.key]
  IN IF pair.key \notin DOMAIN LowerCase \/ key \in map.seen
       THEN map
       ELSE [seen |-> map.seen \cup {key},
             values |-> IF pair.value = Undecoded THEN map.values ELSE insert(map.values, key, pair.value)]

txt_values(pairs) ==
  LET after[n \in 0 .. Len(pairs)] ==
        IF n = 0 THEN [seen |-> {}, values |-> <<>>] ELSE observe(after[n - 1], pairs[n])
  IN after[Len(pairs)].values

trim(text) == ItemsAt(text, {i \in DOMAIN text : text[i] # "blank"})

(* Entry::resolved: a blank hostname and port 0 are not resolved.          *)
resolved(report) ==
  [name |-> report.name, service_type |-> report.service_type,
   hostname |-> trim(report.hostname), addresses |-> report.addresses,
   port |-> IF report.port = 0 THEN NotResolved ELSE <<ToString(report.port)>>,
   txt |-> txt_values(report.txt)]

(* The key of a field `txt.<key>` in an entry: as spelled, else in another *)
(* case.                                                                   *)
txt_keys(entry, f) ==
  IF KeyOf[f] \in DOMAIN entry.txt
    THEN {KeyOf[f]}
    ELSE {key \in DOMAIN entry.txt : LowerCase[key] = LowerCase[KeyOf[f]]}

has_field(entry, f) ==
  CASE f \in TxtField -> txt_keys(entry, f) # {}
    [] f = "hostname" -> entry.hostname # NotResolved
    [] f = "port" -> entry.port # NotResolved
    [] f = "address" -> entry.addresses # <<>>
    [] OTHER -> TRUE

field_value(entry, f) ==
  CASE f \in TxtField -> entry.txt[CHOOSE key \in txt_keys(entry, f) : TRUE]
    [] f = "address" -> <<entry.addresses[1]>>
    [] OTHER -> entry[f]

-----------------------------------------------------------------------------
(* A command file: the keys it sets, and what they say.  A requirement is  *)
(* what its commas separate.                                               *)

\* The keys there are and those there must be; below `match` every key is a field's.
KnownKeys == {"metadata.name", "metadata.description", "metadata.requirements",
              "action.description", "action.command", "action.mode",
              "action.allow_option_like_values"}
RawConfig(file) ==
  /\ file.keys \subseteq KnownKeys
  /\ {"metadata.name", "action.command", "action.mode"} \subseteq file.keys

requirement_ok(parts) ==
  /\ Len(parts) \in {1, 2}
  /\ parts[1] # ""
  /\ Len(parts) = 2 => parts[2] = "optional"

Requirement(parts) == [command |-> parts[1], optional |-> Len(parts) = 2]

ActionMode == [fork |-> "fork", execute |-> "execute", exec |-> "execute"]

\* The predicates of a file can be collected: each is of a kind and a field there is.
collect_predicates(match) ==
  \A i \in DOMAIN match :
    match[i].field \in Field /\ match[i].kind \in {"equals", "contains", "regex"}

(* parse_command_config, of a file whose command was read as r.            *)
Parses(file, r) ==
  /\ RawConfig(file)
  /\ file.name # ""
  /\ file.mode \in DOMAIN ActionMode
  /\ \A i \in DOMAIN file.requirements : requirement_ok(file.requirements[i])
  /\ file.match # <<>>
  /\ collect_predicates(file.match)
  /\ Compiles(r, file.allow_option_like_values)

CommandAction(file, r) == [template |-> tokenize(r), mode |-> ActionMode[file.mode]]

CommandConfig(file, r) ==
  [name |-> file.name,
   requirements |-> [i \in DOMAIN file.requirements |-> Requirement(file.requirements[i])],
   predicates |-> {[field |-> p.field, accepts |-> p.accepts] : p \in ToSet(file.match)},
   template |-> CommandAction(file, r).template,
   mode |-> CommandAction(file, r).mode]

-----------------------------------------------------------------------------
(* Candidates.  Predicates on the address are met by one address.          *)

is_address(predicate) == predicate.field = "address"

predicate_matches(predicate, entry) ==
  has_field(entry, predicate.field) /\ field_value(entry, predicate.field) \in predicate.accepts

non_address_predicates_match(rule, entry) ==
  \A p \in rule.predicates : ~is_address(p) => predicate_matches(p, entry)

address_predicates_match(rule, address) ==
  \A p \in rule.predicates : is_address(p) => <<address>> \in p.accepts

template_fields_resolve(rule, entry) ==
  \A f \in fields(rule.template) \ {"address"} : has_field(entry, f)

uses_address(rule) ==
  "address" \in fields(rule.template) \/ \E p \in rule.predicates : is_address(p)

Applies(rule, entry) ==
  non_address_predicates_match(rule, entry) /\ template_fields_resolve(rule, entry)

candidates(rule, entry) ==
  LET fit == ItemsAt(entry.addresses,
                     {i \in DOMAIN entry.addresses : address_predicates_match(rule, entry.addresses[i])})
  IN CASE ~Applies(rule, entry) -> <<>>
       [] Applies(rule, entry) /\ ~uses_address(rule) -> <<entry>>
       [] OTHER -> [i \in DOMAIN fit |-> [entry EXCEPT !.addresses = <<fit[i]>>]]

\* Mutant: each predicate on the address is met by some address.
EachByAnAddress(rule, entry) ==
  /\ Applies(rule, entry)
  /\ ~uses_address(rule) \/ entry.addresses # <<>>
  /\ \A p \in rule.predicates : is_address(p) => \E a \in ToSet(entry.addresses) : <<a>> \in p.accepts

has_candidate(rule, entry) ==
  /\ Applies(rule, entry)
  /\ \/ ~uses_address(rule)
     \/ \E i \in DOMAIN entry.addresses : address_predicates_match(rule, entry.addresses[i])

-----------------------------------------------------------------------------
(* Targets: the first candidate of each prepared command.                  *)

Prepares(rule, entry) == \A f \in fields(rule.template) : has_field(entry, f)

prepare(rule, entry) ==
  [argv |-> render(rule.template, [f \in fields(rule.template) |-> field_value(entry, f)]),
   mode |-> rule.mode]

prepared(rule, entry) == IF Prepares(rule, entry) THEN {prepare(rule, entry)} ELSE {}

distinct_targets(rule, cands) ==
  ItemsAt(cands, {i \in DOMAIN cands :
                    \A j \in 1 .. i - 1 : prepared(rule, cands[j]) # prepared(rule, cands[i])})

targets(rule, group) ==
  distinct_targets(rule, FlattenSeq([i \in DOMAIN group |-> candidates(rule, group[i])]))

-----------------------------------------------------------------------------
(* RuleEngine: what the app asks of the rules, in their order.             *)

commands(rules) == rules

MatchResult(rule, group) == [command |-> rule, targets |-> targets(rule, group)]

matches_group(rules, group) ==
  ItemsAt([i \in DOMAIN rules |-> MatchResult(rules[i], group)],
          {i \in DOMAIN rules : targets(rules[i], group) # <<>>})

\* What the trait falls back on, and the matcher's own, which prepares nothing.
names_by_matching(rules, group) ==
  LET found == matches_group(rules, group) IN [i \in DOMAIN found |-> found[i].command.name]

matching_command_names(rules, group) ==
  LET found == ItemsAt(rules, {k \in DOMAIN rules : \E i \in DOMAIN group : has_candidate(rules[k], group[i])})
  IN [i \in DOMAIN found |-> found[i].name]

-----------------------------------------------------------------------------
(* run, where the programs `installed` are found.                          *)

\* Found and executable, along PATH or where its path says.
locate(program, installed) == program # "" /\ program \in installed

missing_requirement(rule, installed) ==
  {r \in ToSet(rule.requirements) : ~r.optional /\ ~locate(r.command, installed)}

\* The first argument is the program; there is one, and it is not empty.
Spawns(argv, installed) == \E program \in installed : argv[1] = <<program>> /\ locate(program, installed)

ActionOutcome == {"forked", "handoff"}

run(rule, entry, installed) ==
  CASE missing_requirement(rule, installed) # {} -> {"refused"}
    [] missing_requirement(rule, installed) = {} /\ ~Prepares(rule, entry) -> {"refused"}
    [] missing_requirement(rule, installed) = {} /\ Prepares(rule, entry) /\ rule.mode = "fork" ->
         IF Spawns(prepare(rule, entry).argv, installed) THEN {"forked"} ELSE {"refused"}
    [] OTHER -> {"handoff"}
=============================================================================
