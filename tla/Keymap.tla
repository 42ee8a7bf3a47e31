-------------------------------- MODULE Keymap --------------------------------
(***************************************************************************)
(* The key bindings (src/ui/keymap.rs): the actions and their default      *)
(* keys, the files laid over them and what makes a load fail, what a key   *)
(* does in a mode, and the keys a hint names.  Pure functions.             *)
(*                                                                         *)
(* A key name in a file is its ctrl- prefix and the rest of it, trimmed    *)
(* and in lower case; a key event is a code and the modifiers held.  A     *)
(* label is represented by the keys it spells.                             *)
(***************************************************************************)
EXTENDS Positions, SequencesExt

CONSTANTS Chars            \* the characters a key may type, in lower case

Key(code) == [ctrl |-> FALSE, code |-> code]
Ctrl(code) == [ctrl |-> TRUE, code |-> code]

\* What a list of names, or of the keys they stand for, is.
IsKey(key) == key \in [ctrl : BOOLEAN, code : {key.code}]
AreKeys(keys) == keys \in Seq(ToSet(keys)) /\ \A key \in ToSet(keys) : IsKey(key)

bound(mode, command, keys) == [action |-> <<mode, command>>, keys |-> keys]

\* Action::ALL, in the order keys are resolved, with the default keys.
BOUND == <<
  bound("common",      "quit",         <<Ctrl("c")>>),
  bound("browse",      "quit",         <<Key("q")>>),
  bound("browse",      "up",           <<Key("up"), Key("k")>>),
  bound("browse",      "down",         <<Key("down"), Key("j")>>),
  bound("browse",      "invoke",       <<Key("enter")>>),
  bound("browse",      "search",       <<Key("/")>>),
  bound("browse",      "type_filter",  <<Key("t")>>),
  bound("browse",      "tab_next",     <<Key("tab"), Key("right")>>),
  bound("browse",      "tab_prev",     <<Key("backtab"), Key("left")>>),
  bound("browse",      "same_host",    <<Key("s")>>),
  bound("browse",      "refresh",      <<Key("r"), Key("f5")>>),
  bound("browse",      "details_down", <<Key("d"), Key("pagedown"), Ctrl("d")>>),
  bound("browse",      "details_up",   <<Key("u"), Key("pageup"), Ctrl("u")>>),
  bound("browse",      "help",         <<Key("?")>>),
  bound("search",      "close",        <<Key("esc"), Key("enter")>>),
  bound("search",      "clear",        <<Ctrl("u")>>),
  bound("type_filter", "close",        <<Key("esc"), Key("t")>>),
  bound("type_filter", "up",           <<Key("up"), Key("k")>>),
  bound("type_filter", "down",         <<Key("down"), Key("j")>>),
  bound("type_filter", "toggle",       <<Key(" "), Key("enter")>>),
  bound("picker",      "close",        <<Key("esc")>>),
  bound("picker",      "up",           <<Key("up"), Key("k")>>),
  bound("picker",      "down",         <<Key("down"), Key("j")>>),
  bound("picker",      "select",       <<Key("enter")>>),
  bound("help",        "close",        <<Key("esc"), Key("?"), Key("q")>>),
  bound("help",        "up",           <<Key("up"), Key("k"), Key("pageup")>>),
  bound("help",        "down",         <<Key("down"), Key("j"), Key("pagedown")>>) >>

ALL == [i \in DOMAIN BOUND |-> BOUND[i].action]
Action == ToSet(ALL)
NoAction == <<"no", "action">>

QUIT == <<"common", "quit">>
BROWSE_QUIT == <<"browse", "quit">>

DEFAULT == [action \in Action |-> BOUND[CHOOSE i \in DOMAIN ALL : ALL[i] = action].keys]

DISPATCH == {"browse", "search", "type_filter", "picker", "help"}

active_in(action, mode) == action[1] \in {mode, "common"}

-----------------------------------------------------------------------------
(* The names of keys.                                                      *)

SPECIAL == {"up", "down", "left", "right", "enter", "pageup", "pagedown", "esc",
            "tab", "backtab", "backspace"}
FUNCTION_KEYS == {"f1", "f2", "f3", "f4", "f5", "f6", "f7", "f8", "f9", "f10", "f11", "f12"}
ALIASES == [escape |-> "esc", space |-> " "]

IsKeyName(name) == name.code \in DOMAIN ALIASES \cup SPECIAL \cup FUNCTION_KEYS \cup Chars

parse(name) == [name EXCEPT !.code = IF @ \in DOMAIN ALIASES THEN ALIASES[@] ELSE @]

dedupe(keys) == ItemsAt(keys, {i \in DOMAIN keys : \A j \in 1 .. i - 1 : keys[j] # keys[i]})

-----------------------------------------------------------------------------
(* Loading.  A file maps the commands it binds to lists of names; one that *)
(* is not readable TOML is refused like one that binds what does not exist. *)

IsBindings(file) ==
  /\ DOMAIN file \subseteq Action
  /\ \A action \in DOMAIN file : \A name \in ToSet(file[action]) : IsKeyName(name)

apply_file(bindings, file) ==
  [action \in Action |->
     IF action \in DOMAIN file
     THEN dedupe([i \in DOMAIN file[action] |-> parse(file[action][i])])
     ELSE bindings[action]]

overlaid(files) ==
  LET after[n \in 0 .. Len(files)] == IF n = 0 THEN DEFAULT ELSE apply_file(after[n - 1], files[n])
  IN after[Len(files)]

\* Mutated form: the common bindings are not held against those of a mode.
no_collisions_within_modes(bindings) ==
  \A a, b \in Action : a # b /\ a[1] = b[1] => ToSet(bindings[a]) \cap ToSet(bindings[b]) = {}

ensure_no_collisions(bindings) ==
  \A mode \in DISPATCH : \A a, b \in Action :
    a # b /\ active_in(a, mode) /\ active_in(b, mode)
      => ToSet(bindings[a]) \cap ToSet(bindings[b]) = {}

\* Mutated form: one unbound quit is taken for the other one bound.
quit_kept(bindings) == Len(bindings[QUIT]) + Len(bindings[BROWSE_QUIT]) >= 0

ensure_quit_reachable(bindings) == \E action \in {QUIT, BROWSE_QUIT} : bindings[action] # <<>>

Loads(files) ==
  /\ \A file \in ToSet(files) : IsBindings(file)
  /\ ensure_no_collisions(overlaid(files))
  /\ ensure_quit_reachable(overlaid(files))

-----------------------------------------------------------------------------
(* What a key does.                                                        *)

\* Mutated form: a chord with any modifier is the plain key.
matches_modified(key, event) ==
  key.code = event.code /\ (key.ctrl => "ctrl" \in event.modifiers)

matches(key, event) ==
  /\ key = [ctrl |-> "ctrl" \in event.modifiers, code |-> event.code]
  /\ event.modifiers \subseteq {"ctrl", "shift"}

\* The actions a key stands for: one at most, where bindings do not collide.
triggers(bindings, mode, event) ==
  {action \in Action : /\ active_in(action, mode)
                       /\ \E key \in ToSet(bindings[action]) : matches(key, event)}

\* The first in the order of ALL.
resolve(bindings, mode, event) ==
  LET found == triggers(bindings, mode, event)
  IN IF found = {} THEN NoAction ELSE ALL[Earliest({i \in DOMAIN ALL : ALL[i] \in found})]

\* What an unbound key event types into the search: a modified key is a
\* shortcut, not text.
types(event) == event.code \in Chars \cup {" "} /\ event.modifiers \subseteq {"shift"}

-----------------------------------------------------------------------------
(* Hints.                                                                  *)

\* Mutated form: the first key of the defaults.
compact_default(bindings, action) == SubSeq(DEFAULT[action], 1, 1)

\* The first key, if there is one.
compact(bindings, action) ==
  IF bindings[action] = <<>> THEN <<>> ELSE <<Head(bindings[action])>>

compact_group(bindings, actions) ==
  FlattenSeq([i \in DOMAIN actions |-> compact(bindings, actions[i])])

describe_group(bindings, actions) ==
  FlattenSeq([i \in DOMAIN actions |-> bindings[actions[i]]])

=============================================================================
