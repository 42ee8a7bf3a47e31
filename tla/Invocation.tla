------------------------------ MODULE Invocation ------------------------------
(***************************************************************************)
(* What a command line asks for (src/ui/cli.rs), the directories it reads  *)
(* (src/plumber/config.rs, src/ui/config.rs, src/config_home.rs) and the   *)
(* discovery options it may start (src/discovery/options.rs).  Pure.       *)
(*                                                                         *)
(* A command line is a sequence of words, an option and its value being     *)
(* one word.  A path is "" when empty, one of Relative, or absolute; a      *)
(* directory is <<base, what is below it>>.  A service type is its labels,  *)
(* each a sequence of character classes.                                    *)
(***************************************************************************)
EXTENDS Positions, SequencesExt

CONSTANTS Compiled,              \* the backends built in
          Unset,
          Relative,              \* the relative paths
          MAX_SERVICE_NAME_LEN

Letter == "letter"
Digit == "digit"
Hyphen == "hyphen"
Underscore == "underscore"

-----------------------------------------------------------------------------
(* The words `command` declares, before the subcommand and after it.  What *)
(* Clap does with them is external: words are taken from left to right,    *)
(* and the first it cannot take, or that asks to be shown something, is    *)
(* the last it looks at.                                                   *)

Backends == {"mdns-sd", "fake", "zeroconf"}
Single == {"--domain", "--service-type", "--backend"}    \* given at most once
config_dir_arg == "--config-dir"
Subcommand == <<"list-commands">>

\* Of one level's words: the value of an option, and those of a repeatable one.
value_of(words, option, default) ==
  LET at == SelectInSeq(words, LAMBDA w : w[1] = option)
  IN IF at = 0 THEN default ELSE words[at][2]

occurrences(words) ==
  LET given == InOrder({i \in DOMAIN words : words[i][1] = config_dir_arg})
  IN [i \in DOMAIN given |-> words[given[i]][2]]

root(line) == SubSeq(line, 1, SelectInSeq(line \o <<Subcommand>>, LAMBDA w : w = Subcommand) - 1)
sub(line) == SubSeq(line, Len(root(line)) + 2, Len(line))
HasSubcommand(line) == Len(root(line)) < Len(line)

Asks(line, i) ==
  line[i] \in IF i <= Len(root(line)) THEN {<<"--help">>, <<"--version">>} ELSE {<<"--help">>}

Takes(line, i) ==
  LET word == line[i]
      again == \E j \in 1..i - 1 : line[j][1] = word[1]
  IN \/ i = Len(root(line)) + 1
     \/ Len(word) = 2 /\ word[1] = config_dir_arg
     \/ /\ i <= Len(root(line)) /\ Len(word) = 2 /\ word[1] \in Single /\ ~again
        /\ word[1] = "--backend" => word[2] \in Backends

\* "cli", or what is reported instead of one: "shown" or "refused".  A backend that is
\* known by name but not built in is refused once the line has been read.
parse_from(line) ==
  LET last == SelectInSeq([i \in DOMAIN line |-> i], LAMBDA i : Asks(line, i) \/ ~Takes(line, i))
  IN CASE last # 0 /\ Asks(line, last) -> "shown"
       [] last # 0 /\ ~Asks(line, last) -> "refused"
       [] last = 0 -> IF value_of(line, "--backend", "mdns-sd") \in Compiled THEN "cli" ELSE "refused"

merge_config_dirs(line) == occurrences(root(line)) \o occurrences(sub(line))

Cli(line) ==
  [command |-> IF HasSubcommand(line) THEN "ListCommands" ELSE "Run",
   config_dirs |-> merge_config_dirs(line),
   backend |-> value_of(line, "--backend", "mdns-sd"),
   domain |-> value_of(line, "--domain", "local"),
   service_type |-> value_of(line, "--service-type", Unset)]

-----------------------------------------------------------------------------
(* The directories, lowest precedence first.                               *)

valid_absolute(path) == path \notin {Unset, ""} \union Relative

kinjo_config_dir(env) ==
  CASE valid_absolute(env.xdg_config_home) -> <<<<env.xdg_config_home, "kinjo">>>>
    [] ~valid_absolute(env.xdg_config_home) /\ valid_absolute(env.home) -> <<<<env.home, ".config/kinjo">>>>
    [] OTHER -> <<>>

keybinding_paths(env) ==
  LET directory == kinjo_config_dir(env)
  IN [i \in DOMAIN directory |-> Append(directory[i], "keybindings.toml")]

install_dirs_from(exe) ==
  CASE exe = Unset -> <<>>
    [] exe = "/" -> <<<<"exe", "commands">>>>
    [] OTHER -> <<<<"exe", "commands">>, <<"prefix", "share/kinjo/commands">>>>

SYSTEM_CONFIG_DIR == <<"/etc", "kinjo/commands">>

config_dirs(env, extra) ==
  LET user == kinjo_config_dir(env)
  IN install_dirs_from(env.exe) \o <<SYSTEM_CONFIG_DIR>>
       \o [i \in DOMAIN user |-> <<user[i][1], user[i][2] \o "/commands">>] \o extra

matcher_config_dirs(env, cli) ==
  IF cli.command = "ListCommands" /\ cli.config_dirs # <<>>
    THEN cli.config_dirs
    ELSE config_dirs(env, cli.config_dirs)

-----------------------------------------------------------------------------
(* DiscoveryConfig::validate.                                              *)

validate_service_name(name) ==
  /\ name # <<>>
  /\ \A i \in DOMAIN name : name[i] \in {Letter, Digit, Hyphen}
  /\ Len(name) <= MAX_SERVICE_NAME_LEN
  /\ name[1] # Hyphen /\ name[Len(name)] # Hyphen
  /\ \A i \in 1..Len(name) - 1 : <<name[i], name[i + 1]>> # <<Hyphen, Hyphen>>
  /\ \E i \in DOMAIN name : name[i] = Letter

TransportProtocol == {"_tcp", "_udp"}

\* The transport, when its label is one, is the name of the label.
parse_service_type(labels) ==
  /\ labels[1] # <<>> /\ labels[1][1] = Underscore
  /\ Len(labels) = 2 /\ labels[2] \in TransportProtocol
  /\ validate_service_name(Tail(labels[1]))

canonical_domain(domain) == IF domain \in {"", "local", "local.", "LOCAL"} THEN "local" ELSE domain

supports_custom_domain(backend) == backend # "zeroconf"

\* The request, and what is wrong with it.
discovery_config(cli) ==
  [backend |-> cli.backend, domain |-> cli.domain, service_type |-> cli.service_type]

DiscoveryOptionError(config) ==
  CASE config.service_type # Unset /\ ~parse_service_type(config.service_type) -> "ServiceType"
    [] \/ config.service_type = Unset
       \/ parse_service_type(config.service_type) ->
         IF canonical_domain(config.domain) # "local" /\ ~supports_custom_domain(config.backend)
           THEN "UnsupportedDomain" ELSE "none"

\* The options discovery is started with, or the flag that cannot be honoured.
validate(config) == [config EXCEPT !.domain = canonical_domain(@)]

Flag == [ServiceType |-> "--service-type", UnsupportedDomain |-> "--domain", none |-> "none"]
DiscoveryUsageError(cli) == Flag[DiscoveryOptionError(discovery_config(cli))]
discovery_options(cli) == validate(discovery_config(cli))
=============================================================================
