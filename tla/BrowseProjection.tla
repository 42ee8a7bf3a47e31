---------------------------- MODULE BrowseProjection ----------------------------
(***************************************************************************)
(* From the records to what the list shows: the filter (src/ui/filter.rs), *)
(* the grouping into rows (src/discovery/entry.rs) and the rules that      *)
(* match a row (src/plumber/mod.rs).  Pure functions.                      *)
(*                                                                         *)
(* An entry has an id, the logical service, host and type its row ids are  *)
(* made of, and the text a search looks in.  What a rule would run is an   *)
(* argv; a target is represented by it, as two candidates with one argv    *)
(* are one target.                                                         *)
(***************************************************************************)
EXTENDS Positions, SequencesExt

CONSTANTS
  Entries,           \* all entries there may be, in the order of compare_occurrences
  DisplayOrder,      \* all row ids, by label and then by identity
  Engines,           \* the rule sets a reload may find
  Candidates(_, _),  \* the argvs of a command for an entry, in address order
  NoHost             \* the host of an unresolved entry; no host filter

Entry == ToSet(Entries)
Command == UNION {ToSet(rules) : rules \in Engines}

ASSUME ProjectionAssumption ==
  /\ Entries \in Seq(Entry) /\ IsInjective(Entries)
  /\ DisplayOrder \in Seq(ToSet(DisplayOrder)) /\ IsInjective(DisplayOrder)
  /\ \A rules \in Engines : rules \in Seq(Command)
  /\ \A command \in Command, entry \in Entry :
       Candidates(command, entry) \in Seq(ToSet(Candidates(command, entry)))

\* Entries in their order, and what a row may collect.
ordered(entries) == ItemsAt(Entries, {i \in DOMAIN Entries : Entries[i] \in entries})
Group == {ordered(S) : S \in SUBSET Entry}

TABS == <<"service", "host", "type", "command">>

row_of(entry, mode) ==
  CASE mode = "service" -> <<mode, entry.service>>
    [] mode = "host"    -> <<mode, entry.host>>
    [] mode = "type"    -> <<mode, entry.type>>

\* Every entry has its rows in the display order.
ASSUME RowsAssumption ==
  \A entry \in Entry : \A i \in 1 .. 3 : row_of(entry, TABS[i]) \in ToSet(DisplayOrder)

RowIds(entries, mode) ==
  ItemsAt(DisplayOrder,
          {i \in DOMAIN DisplayOrder : \E entry \in entries : row_of(entry, mode) = DisplayOrder[i]})

instances(entries, id, mode) == ordered({entry \in entries : row_of(entry, mode) = id})

-----------------------------------------------------------------------------
(* FilterState.                                                            *)

\* The letters of the query occur in the text in the same order.
fuzzy_match(text, query) ==
  \E at \in [DOMAIN query -> DOMAIN text] :
    /\ \A i \in DOMAIN query : text[at[i]] = query[i]
    /\ \A i, j \in DOMAIN query : i < j => at[i] < at[j]

observe_types == [known \in SUBSET Entry |-> RowIds(known, "type")]

is_enabled(filter, type) == type \notin filter.disabled

\* How many of the discovered types are shown, and how many there are.
type_counts(filter, types) ==
  <<Cardinality({i \in DOMAIN types : is_enabled(filter, types[i][2])}), Len(types)>>

is_active(filter, types) ==
  \/ filter.query # <<>>
  \/ filter.host # NoHost
  \/ type_counts(filter, types)[1] < type_counts(filter, types)[2]

FilteredEntries(filter, records) ==
  {entry \in records :
     /\ is_enabled(filter, entry.type)
     /\ filter.host \in {NoHost, entry.host}
     /\ fuzzy_match(entry.text, filter.query)}

-----------------------------------------------------------------------------
(* Rules.                                                                  *)

\* Candidates that would run the same are one target.
distinct_targets(candidates) ==
  ItemsAt(candidates, {i \in DOMAIN candidates : \A j \in 1 .. i - 1 : candidates[j] # candidates[i]})

targets == [command \in Command |-> [group \in Group |->
  distinct_targets(FlattenSeq([i \in DOMAIN group |-> Candidates(command, group[i])]))]]

matches_group == [rules \in Engines |-> [group \in Group |->
  ItemsAt([i \in DOMAIN rules |-> [command |-> rules[i], targets |-> targets[rules[i]][group]]],
          {i \in DOMAIN rules : targets[rules[i]][group] # <<>>})]]

-----------------------------------------------------------------------------
(* What each tab lists, and how many rows it has.                          *)

TabCounts(rules, entries) ==
  [i \in 1 .. 3 |-> Cardinality({row_of(entry, TABS[i]) : entry \in entries})] \o <<Len(rules)>>

Rows == [rules \in Engines |-> [entries \in SUBSET Entry |-> [mode \in {TABS[i] : i \in 1 .. 3} |->
  LET ids == RowIds(entries, mode)
      row(id) == LET group == instances(entries, id, mode)
                 IN [id |-> id,
                     instances |-> group,
                     host |-> IF mode = "type" THEN "varies" ELSE group[1].host,
                     matches |-> matches_group[rules][group]]
  IN [i \in DOMAIN ids |-> row(ids[i])]]]]

\* The logical services a command has a candidate in.
services_for(command, entries) ==
  LET listed == RowIds(entries, "service")
      found == ItemsAt(listed, {i \in DOMAIN listed :
                 targets[command][instances(entries, listed[i], "service")] # <<>>})
  IN [i \in DOMAIN found |-> [id |-> found[i], instances |-> instances(entries, found[i], "service")]]

\* Every command, whether or not anything matches it.
CommandRows == [rules \in Engines |-> [entries \in SUBSET Entry |->
  [i \in DOMAIN rules |-> [command |-> rules[i], services |-> services_for(rules[i], entries)]]]]

=============================================================================
