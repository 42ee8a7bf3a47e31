--------------------------- MODULE MCProcessShell ---------------------------
(* An instance of ProcessShell for TLC.                                      *)
EXTENDS ProcessShell, TLC

rule(name, body) == [name |-> name, body |-> body]

System == <<"/etc", "kinjo/commands">>
User_ == <<"/home", ".config/kinjo/commands">>
Given == <<"given", "commands">>

MCSources == <<"a.toml", "b.toml">>

dir(access, a, b) == [access |-> access, files |-> ("a.toml" :> a @@ "b.toml" :> b)]

disks(b, access, c) ==
  System :> dir("open", rule("x", 1), rule("y", 1)) @@ User_ :> dir("open", Absent, b)
    @@ Given :> dir(access, rule("y", 3), c)

MCDisks == {disks(Absent, "missing", Broken), disks(rule("x", 2), "open", rule("y", 4))}

MCEdits ==
  {<<System, "a.toml", content>> : content \in {Absent, rule("y", 1), rule("x", 5)}}
    \union {<<User_, "b.toml", content>> : content \in {Broken, rule("z", 6)}}
    \union {<<User_, "unreadable">>, <<Given, "open">>}

ssh == <<<<Underscore, Letter, Letter>>, "_tcp">>
typo == <<<<Underscore, Letter, Letter, Hyphen>>, "_tcp">>

list == Subcommand
dir_is(path) == <<"--config-dir", path>>
type_is(labels) == <<"--service-type", labels>>

MCLines ==
  {<<dir_is(Given), list, dir_is(System)>>,
   <<type_is(ssh), dir_is(Given), <<"--backend", "mdns-sd">>>>,
   <<type_is(typo)>>,
   <<type_is(typo), list>>,
   <<<<"--backend", "zeroconf">>, <<"--domain", "corp">>>>,
   <<<<"--backend", "fake">>>>,
   <<list, <<"--domain", "corp">>>>,
   <<list, <<"--help">>>>}

\* The longest name fills its column; of the others one is wide and one is escaped.
MCDescribed(r) ==
  LET name == CASE r.name = "x" -> Text(23, 0, 0, 0, 0)
                [] r.name = "y" -> Text(0, 1, 1, 0, 0)
                [] OTHER -> Text(0, 0, 0, 0, 1)
      word == Text(r.body, 0, 0, r.body % 2, 0)
  IN <<name, word, word, word>>

at_home == [exe |-> Unset, xdg_config_home |-> "", home |-> "/home", crash_dir |-> ""]
relative == [exe |-> "/usr/bin", xdg_config_home |-> ".", home |-> "home", crash_dir |-> "out"]

MCStarts == [line : MCLines, env : {at_home}]
  \union {[line |-> <<dir_is(Given)>>, env |-> relative]}

\* What a service name may be, stated once more: letters and digits in runs that
\* single hyphens join, of which at least one is a letter (RFC 6763, section 7).
WellFormed(name) ==
  /\ Len(name) \in 1..MAX_SERVICE_NAME_LEN
  /\ \A i \in DOMAIN name :
       \/ name[i] \in {Letter, Digit}
       \/ name[i] = Hyphen /\ i \in 2..Len(name) - 1 /\ {name[i - 1], name[i + 1]} \subseteq {Letter, Digit}
  /\ \E i \in DOMAIN name : name[i] = Letter

ASSUME NamesAreWellFormed ==
  \A n \in 0..MAX_SERVICE_NAME_LEN + 1 : \A name \in [1..n -> {Letter, Digit, Hyphen, Underscore}] :
    validate_service_name(name) <=> WellFormed(name)

\* Where the directories are given never changes which are read, nor their order: a
\* line that is accepted reads them in the order they are written in.
Words == {Subcommand, <<"--domain", "corp">>, <<"--backend", "fake">>, <<"--help">>}
           \union {dir_is(p) : p \in {"one", "two"}}

ASSUME PlacementNeverMatters ==
  \A n \in 0..4 : \A words \in [1..n -> Words] :
    parse_from(words) = "cli" => Cli(words).config_dirs = occurrences(words)
=============================================================================
