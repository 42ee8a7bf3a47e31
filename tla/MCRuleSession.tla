---------------------------- MODULE MCRuleSession ----------------------------
(* An instance of RuleSession for TLC.                                       *)
EXTENDS RuleSession

MCKeyOf == "txt.k" :> "K"
MCLowerCase == "k" :> "k" @@ "K" :> "k"
MCEscapeOf == "\\045x" :> "-x"

pair(key, value) == [key |-> key, value |-> value]
predicate(field, kind, accepts) == [field |-> field, kind |-> kind, accepts |-> accepts]

report(name, type, host, addresses, port, pairs) ==
  [name |-> name, service_type |-> <<type>>, hostname |-> host, addresses |-> addresses,
   port |-> port, txt |-> pairs]

\* A service on two interfaces; one whose names, joined, are those of another; one unresolved.
MCReports ==
  <<report(<<"a">>, "ssh", <<"b", "c">>, <<"A4", "A9">>, 22, <<pair("K", <<"v">>), pair("k", <<"w">>)>>),
    report(<<"a", "[mac]">>, "ssh", <<"b", "c">>, <<"A4">>, 22, <<pair("k", <<"-x">>)>>),
    report(<<"a", "b">>, "ssh", <<"c", "blank">>, <<"A6">>, 80, <<pair("k", Undecoded), pair("K", <<"v">>)>>),
    report(<<"-x">>, "web", <<"blank">>, <<>>, 0, <<pair("=", <<"v">>)>>)>>

file(name, mode, requirements, match, allow) ==
  [keys |-> {"metadata.name", "metadata.requirements", "action.command", "action.mode"},
   name |-> name, mode |-> mode, requirements |-> requirements, match |-> match,
   allow_option_like_values |-> allow]

OfType == predicate("service_type", "equals", {<<"ssh">>, <<"web">>})

MCFiles ==
  {file("any", "fork", <<<<"p">>>>, <<OfType>>, FALSE),
   file("open", "exec", <<<<"q", "optional">>>>, <<predicate("name", "regex", {<<"a">>, <<"a", "b">>, <<"-x">>})>>, TRUE),
   file("at", "execute", <<>>, <<predicate("address", "contains", {<<"A4">>, <<"A6">>}),
                                 predicate("address", "equals", {<<"A6">>, <<"A9">>})>>, FALSE),
   file("txt", "fork", <<>>, <<OfType, predicate("txt.k", "equals", {<<"v">>, <<"-x">>})>>, FALSE),
   file("typo", "execute", <<<<"p", "optinal">>>>, <<OfType>>, FALSE),
   file("none", "execute", <<>>, <<>>, TRUE),
   [file("key", "fork", <<>>, <<OfType>>, FALSE) EXCEPT !.keys = @ \union {"action.commnad"}]}

\* The fake backend's samples, under a rule whose command is `run {hostname}`.
Keys == {"os", "uptime", "motd", "defcon", "path", "cake", "status", "judgment-day", "answer", "eta",
         "pod-bay-doors", "mood", "power", "speed", "program", "safety", "brain", "k"}
Samples == INSTANCE FakeNetwork WITH LowerCase <- [key \in Keys |-> key]

ByHost ==
  [predicates |-> {[field |-> "service_type", accepts |-> {<<"_ssh._tcp">>}]},
   template |-> <<<<Literal("run")>>, <<FieldOf("hostname")>>>>, mode |-> "execute"]

ASSUME SamplesServeTheirPurpose ==
  Samples!SamplesAreDistinct /\ Samples!SamplesShowTheirPoint(ByHost)
=============================================================================
