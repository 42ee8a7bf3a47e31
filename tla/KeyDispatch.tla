------------------------------ MODULE KeyDispatch ------------------------------
(***************************************************************************)
(* What keys do to the app (src/ui/app.rs, handle_key and the handlers it  *)
(* calls) under bindings read from files at startup (Keymap), and the keys *)
(* the footer, the pop-ups and the help name (src/ui/render.rs), with the  *)
(* window onto the help, while the terminal is resized.                    *)
(*                                                                         *)
(* What running a command, searching and filtering do to the lists is in   *)
(* BrowseModel: here invoking opens a picker, leaves, or stays; the three  *)
(* pickers share their keys and are one mode.                              *)
(***************************************************************************)
EXTENDS Keymap, FiniteSets

CONSTANTS
  Codes,                      \* the codes of the keys there are
  Modifiers,                  \* the sets of modifiers held with them
  Configs,                    \* the files found, one sequence for each start
  Heights,                    \* the lines of help a terminal may have room for
  MaxQuery                    \* bound: characters in the query

\* A file binds commands to lists of names.
ASSUME KeyAssumption ==
  /\ Heights \subseteq Nat /\ MaxQuery \in Nat
  /\ \A files \in Configs :
       /\ files \in Seq(ToSet(files))
       /\ \A file \in ToSet(files) : \A action \in DOMAIN file : AreKeys(file[action])

V == INSTANCE Viewport

VARIABLES
  bindings,
  mode,               \* the open interaction, or how the app started or ended
  query,              \* the text filter
  help_scroll,
  height              \* lines of help the terminal has room for

keyVars == <<bindings, mode, query, help_scroll, height>>

Events == [code : Codes, modifiers : Modifiers]

KeyInit ==
  /\ bindings = DEFAULT
  /\ mode = "loading"
  /\ query = <<>>
  /\ help_scroll = 0
  /\ height \in Heights

\* KeyBindings::load: the files replace the bindings they name, or none starts.
Load(files) ==
  /\ mode = "loading"
  /\ IF Loads(files)
     THEN bindings' = overlaid(files) /\ mode' = "browse"
     ELSE mode' = "rejected" /\ UNCHANGED bindings
  /\ UNCHANGED <<query, help_scroll, height>>

-----------------------------------------------------------------------------
(* Hints: groups of actions a label stands for, each shown by its keys.    *)

FOOTER == [
  browse      |-> <<<<<<"browse", "down">>, <<"browse", "up">>>>, <<<<"browse", "invoke">>>>,
                    <<<<"browse", "search">>>>, <<<<"browse", "type_filter">>>>,
                    <<<<"browse", "tab_next">>>>, <<<<"browse", "same_host">>>>,
                    <<<<"browse", "refresh">>>>,
                    <<<<"browse", "details_down">>, <<"browse", "details_up">>>>,
                    <<<<"browse", "help">>>>>>,
  search      |-> <<<<<<"search", "close">>>>, <<<<"search", "clear">>>>>>,
  type_filter |-> <<<<<<"type_filter", "down">>, <<"type_filter", "up">>>>,
                    <<<<"type_filter", "toggle">>>>, <<<<"type_filter", "close">>>>>>,
  picker      |-> <<<<<<"picker", "down">>, <<"picker", "up">>>>,
                    <<<<"picker", "select">>>>, <<<<"picker", "close">>>>>>,
  help        |-> <<<<<<"help", "close">>>>>>]

\* Browsing, the footer also names whichever quit survives.
quit_hint == IF bindings[BROWSE_QUIT] # <<>> THEN <<BROWSE_QUIT>> ELSE <<QUIT>>

footer_hints == IF mode = "browse" THEN Append(FOOTER["browse"], quit_hint) ELSE FOOTER[mode]

help_rows == <<
  <<<<"browse", "down">>>>, <<<<"browse", "up">>>>,
  <<<<"browse", "details_down">>>>, <<<<"browse", "details_up">>>>,
  <<<<"browse", "invoke">>>>, <<<<"browse", "search">>>>,
  <<<<"search", "close">>>>, <<<<"search", "clear">>>>,
  <<<<"browse", "type_filter">>>>, <<<<"browse", "tab_next">>, <<"browse", "tab_prev">>>>,
  <<<<"browse", "same_host">>>>, <<<<"browse", "refresh">>>>,
  <<<<"picker", "close">>>>, <<<<"browse", "help">>>>, <<BROWSE_QUIT, QUIT>> >>

\* A row for each hint with a key to show, between two blank lines, and the badges.
help_lines ==
  Cardinality({i \in DOMAIN help_rows : describe_group(bindings, help_rows[i]) # <<>>}) + 3

help_window == V!window_at(help_lines, height, help_scroll)

\* The border of the help names the scroll keys while there is more to see.
help_hint ==
  (IF V!is_clipped(help_window) THEN <<<<<<"help", "down">>, <<"help", "up">>>>>> ELSE <<>>)
    \o <<<<<<"help", "close">>>>>>

modal_hint ==
  CASE mode = "type_filter" -> <<<<<<"type_filter", "toggle">>>>, <<<<"type_filter", "close">>>>>>
    [] mode = "picker" -> <<<<<<"picker", "select">>>>, <<<<"picker", "close">>>>>>
    [] mode = "help" -> help_hint
    [] OTHER -> <<>>

-----------------------------------------------------------------------------
(* Handlers.                                                               *)

Goto(next) == mode' = next /\ UNCHANGED <<query, help_scroll>>

\* Mutated form: a scroll counts on past the last line.
scroll_help_unbounded(delta) ==
  /\ help_scroll' = V!Least(V!saturating_sub(help_scroll + 1 + delta, 1), help_lines)
  /\ UNCHANGED <<mode, query>>

scroll_help(delta) ==
  /\ help_scroll' = V!Least(V!saturating_sub(help_scroll + 1 + delta, 1),
                            V!max_scroll(help_lines, height))
  /\ UNCHANGED <<mode, query>>

handle_help_key(action) ==
  \/ action = <<"help", "close">> /\ Goto("browse")
  \/ action = <<"help", "down">> /\ scroll_help(1)
  \/ action = <<"help", "up">> /\ scroll_help(-1)

Type(event) ==
  /\ types(event)
  /\ Len(query) < MaxQuery
  /\ query' = Append(query, event.code)
  /\ mode' = "search"
  /\ UNCHANGED help_scroll

invoke_selected(action) ==
  /\ action = <<"browse", "invoke">>
  /\ \E next \in {"browse", "picker", "left"} : Goto(next)

handle_browse_key(action, event) ==
  \/ action = BROWSE_QUIT /\ Goto("left")
  \/ action = <<"browse", "search">> /\ Goto("search")
  \/ action = <<"browse", "type_filter">> /\ Goto("type_filter")
  \/ invoke_selected(action)
  \/ /\ action = <<"browse", "help">>
     /\ help_scroll' = 0
     /\ mode' = "help"
     /\ UNCHANGED query
  \/ action = NoAction /\ Type(event)

Edit(event) ==
  /\ event.code \in {"backspace", "delete"}
  /\ query' = IF query = <<>> THEN <<>> ELSE Front(query)
  /\ UNCHANGED <<mode, help_scroll>>

handle_search_key(action, event) ==
  \/ action = <<"search", "close">> /\ Goto("browse")
  \/ action = <<"search", "clear">> /\ query' = <<>> /\ UNCHANGED <<mode, help_scroll>>
  \/ action = NoAction /\ (Edit(event) \/ Type(event))

\* What the checklist's own keys do to the types shown is in BrowseModel.
handle_type_filter_key(action) == action = <<"type_filter", "close">> /\ Goto("browse")

\* What is selected runs and leaves, runs and stays, or opens the next picker.
handle_picker_key(action) ==
  \/ action = <<"picker", "close">> /\ Goto("browse")
  \/ action = <<"picker", "select">> /\ \E next \in {"browse", "picker", "left"} : Goto(next)

handle_key(event) ==
  /\ mode \in DISPATCH
  /\ LET action == resolve(bindings, mode, event)
     IN \/ action = QUIT /\ Goto("left")
        \/ mode = "browse" /\ handle_browse_key(action, event)
        \/ mode = "search" /\ handle_search_key(action, event)
        \/ mode = "type_filter" /\ handle_type_filter_key(action)
        \/ mode = "picker" /\ handle_picker_key(action)
        \/ mode = "help" /\ handle_help_key(action)
  /\ UNCHANGED <<bindings, height>>

\* Discovery or a reload takes away what a picker stands on.
PickerCloses ==
  /\ mode = "picker"
  /\ Goto("browse")
  /\ UNCHANGED <<bindings, height>>

Resize ==
  /\ mode \in DISPATCH
  /\ height' \in Heights \ {height}
  /\ UNCHANGED <<bindings, mode, query, help_scroll>>

Ended == mode \in {"left", "rejected"} /\ UNCHANGED keyVars

KeyNext ==
  \/ \E files \in Configs : Load(files)
  \/ \E event \in Events : handle_key(event)
  \/ PickerCloses
  \/ Resize
  \/ Ended

KeySpec == KeyInit /\ [][KeyNext]_keyVars

-----------------------------------------------------------------------------
(* Properties.                                                             *)

EventOf(key) == [code |-> key.code, modifiers |-> IF key.ctrl THEN {"ctrl"} ELSE {}]

(* Whatever files were laid over the defaults, and in whatever mode, no    *)
(* event stands for two actions, so the order of ALL never decides which   *)
(* of two bindings is dead (ensure_no_collisions, resolve).                *)
KeyMeansOneAction ==
  mode \in DISPATCH =>
    \A event \in Events : \A a, b \in triggers(bindings, mode, event) : a = b

(* Every key the footer or the border of a pop-up names does, pressed in   *)
(* that mode, one of the things it is named for (footer_hints, modal_hint, *)
(* help_hint against resolve).                                             *)
AdvertisedKeysWork ==
  mode \in DISPATCH =>
    \A group \in ToSet(footer_hints \o modal_hint) :
      \A key \in ToSet(compact_group(bindings, group)) :
        resolve(bindings, mode, EventOf(key)) \in ToSet(group)

(* Whatever was loaded, the footer of the browse screen names a key that   *)
(* quits, as its comment promises (browse_footer_hints).                   *)
BrowseCanLeave ==
  mode = "browse" =>
    \E key \in ToSet(compact_group(bindings, quit_hint)) :
      resolve(bindings, mode, EventOf(key)) \in {QUIT, BROWSE_QUIT}

(* However the terminal was resized after scrolling, the help shows all    *)
(* its lines or as many as fit (render_help).                              *)
HelpWindowIsFull == V!IsFull(help_window, height)

(* A press that scrolls further down moves what is shown: nothing is       *)
(* banked that has to be undone before the content moves again             *)
(* (scroll_help).                                                          *)
NothingIsBanked ==
  [][mode = "help" /\ help_scroll' > help_scroll => help_window'.offset = help_window.offset + 1]_keyVars

(* docs/keybindings.md: with a quit key bound, the app always remains      *)
(* quittable.  Some key must leave the mode, or there is no way out of it. *)
AlwaysQuittable ==
  mode \in DISPATCH =>
    \E action \in {QUIT, BROWSE_QUIT, <<"search", "close">>, <<"type_filter", "close">>,
                   <<"picker", "close">>, <<"picker", "select">>, <<"help", "close">>} :
      active_in(action, mode) /\ bindings[action] # <<>>
=============================================================================
