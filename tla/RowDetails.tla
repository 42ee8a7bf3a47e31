------------------------------ MODULE RowDetails ------------------------------
(***************************************************************************)
(* What a row says about the occurrences it collects (src/discovery/       *)
(* entry.rs): their host and service type, the services among them, and    *)
(* their TXT data.  An occurrence is an entry, as RuleEngine has it, and a *)
(* row is a sequence of them.                                              *)
(***************************************************************************)
EXTENDS RuleEngine

CONSTANTS
  MacSuffix,   \* the end of a name, ` [aa:bb:cc:dd:ee:ff]`
  EscapeOf     \* each DNS-SD escape in a name, and the symbol it stands for

BROWSE_MODES == {"service", "host", "type"}

decode_dns_sd_escapes(name) ==
  [i \in DOMAIN name |-> IF name[i] \in DOMAIN EscapeOf THEN EscapeOf[name[i]] ELSE name[i]]

base_display_name(name) ==
  LET display == decode_dns_sd_escapes(name)
  IN IF Len(display) > 1 /\ Last(display) = MacSuffix THEN Front(display) ELSE display

\* The facts of an entry's row, and the identity of the row.
facts_of(entry, mode) ==
  CASE mode = "service" -> [name |-> base_display_name(entry.name), service_type |-> entry.service_type,
                            hostname |-> entry.hostname, port |-> entry.port]
    [] mode = "host" -> [hostname |-> entry.hostname]
    [] mode = "type" -> [service_type |-> entry.service_type]

row_id(entry, mode) ==
  CASE mode = "service" -> <<base_display_name(entry.name), entry.service_type, entry.hostname, entry.port>>
    [] mode = "host" -> <<entry.hostname>>
    [] mode = "type" -> <<entry.service_type>>

row_ids(entries, mode) == {row_id(entry, mode) : entry \in ToSet(entries)}

row_instances(entries, id, mode) ==
  ItemsAt(entries, {i \in DOMAIN entries : row_id(entries[i], mode) = id})

\* A bucket has the facts of the entry that opened it.
row_facts(entries, id, mode) == facts_of(row_instances(entries, id, mode)[1], mode)

\* RowHost and RowServiceType: what holds of all occurrences, or that they vary.
row_host(facts) == IF "hostname" \in DOMAIN facts THEN {facts.hostname} ELSE {}
row_service_type(facts) == IF "service_type" \in DOMAIN facts THEN {facts.service_type} ELSE {}

-----------------------------------------------------------------------------

occurrence_count(row) == Len(row)
logical_service_count(row) == Cardinality(row_ids(row, "service"))
resolved_host_count(row) == Cardinality({e.hostname : e \in ToSet(row)} \ {NotResolved})

child_services(row) ==
  {[facts |-> row_facts(row, id, "service"),
    occurrences |-> Len(row_instances(row, id, "service"))] : id \in row_ids(row, "service")}

-----------------------------------------------------------------------------
(* EntryGroup::txt: the occurrences' values one after another, and then    *)
(* the keys that some of them lack.                                        *)

Mixed == [is |-> "mixed"]
Shared(value) == [is |-> "shared", value |-> value]

merge(merged, entry) ==
  [key \in DOMAIN merged \cup DOMAIN entry.txt |->
     CASE key \notin DOMAIN merged -> Shared(entry.txt[key])
       [] key \in DOMAIN merged /\ key \notin DOMAIN entry.txt -> merged[key]
       [] OTHER -> IF merged[key] = Shared(entry.txt[key]) THEN merged[key] ELSE Mixed]

merged_txt(row) ==
  LET after[n \in 0 .. Len(row)] == IF n = 0 THEN <<>> ELSE merge(after[n - 1], row[n])
  IN after[Len(row)]

\* Mutant: what one occurrence has and the others lack is shown as shared.
SharedByThoseThatHaveIt(row) == merged_txt(row)

txt(row) ==
  LET merged == merged_txt(row)
      everywhere(key) == \A e \in ToSet(row) : key \in DOMAIN e.txt
  IN [key \in DOMAIN merged |-> IF everywhere(key) THEN merged[key] ELSE Mixed]

\* How a value is shown (render.rs): a notice of disagreement is not drawn as a value is.
txt_row(value) ==
  IF value = Mixed THEN [notice |-> "differs per occurrence"] ELSE [text |-> value.value]

-----------------------------------------------------------------------------
(* What the row says is true of all of its occurrences, and of none of     *)
(* another row.                                                            *)

FactsHoldOf(row, facts, mode) ==
  \A e \in ToSet(row) :
    /\ facts_of(e, mode) = facts
    /\ row_host(facts) \subseteq {e.hostname}
    /\ row_service_type(facts) \subseteq {e.service_type}

TxtHoldsOf(row) ==
  LET all == ToSet(row)
  IN /\ DOMAIN txt(row) = UNION {DOMAIN e.txt : e \in all}
     /\ \A key \in DOMAIN txt(row) : \A value \in UNION {{e.txt[k] : k \in DOMAIN e.txt} : e \in all} :
          txt_row(txt(row)[key]) = [text |-> value] <=> \A e \in all : key \in DOMAIN e.txt /\ e.txt[key] = value

CountsAddUp(row) ==
  /\ Cardinality(child_services(row)) = logical_service_count(row)
  /\ SumFunction([child \in child_services(row) |-> child.occurrences]) = occurrence_count(row)
  /\ resolved_host_count(row) <= logical_service_count(row)
=============================================================================
