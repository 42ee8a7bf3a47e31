------------------------------ MODULE MCBrowseModel ------------------------------
(* Instances of BrowseModel for TLC.                                       *)
EXTENDS BrowseModel

CONSTANTS ssh1, ssh2, web1, web2, web3, h1

\* Two services on one host, one of them with two occurrences; the other may
\* be unresolved, or resolved with either of two addresses.
pA == [id |-> 1, service |-> "a", host |-> h1, type |-> "t1", text |-> <<"x">>, ssh |-> <<ssh1>>, web |-> <<>>]
pB == [id |-> 2, service |-> "a", host |-> h1, type |-> "t1", text |-> <<>>, ssh |-> <<ssh2>>, web |-> <<web1>>]
qU == [id |-> 3, service |-> "b0", host |-> NoHost, type |-> "t2", text |-> <<>>, ssh |-> <<>>, web |-> <<>>]
qR == [id |-> 3, service |-> "b", host |-> h1, type |-> "t2", text |-> <<"x">>, ssh |-> <<ssh2>>, web |-> <<web2, web3>>]

MCEntries == <<pA, pB, qU, qR>>

MCDisplayOrder ==
  <<<<"service", "a">>, <<"service", "b">>, <<"service", "b0">>,
    <<"host", NoHost>>, <<"host", h1>>, <<"type", "t1">>, <<"type", "t2">>>>

sshRule == [name |-> <<"command", "ssh">>, field |-> "ssh", forks |-> FALSE,
            words |-> [rule |-> "log in", action |-> "open a shell"]]
webRule == [name |-> <<"command", "web">>, field |-> "web", forks |-> TRUE,
            words |-> [rule |-> "", action |-> "open a page"]]

MCCandidates(command, entry) == entry[command.field]

MCEngines == {<<sshRule, webRule>>, <<webRule>>}

\* A short terminal and a tall one; a short one.
BrowseSizes == {<<1, 1>>, <<2, 0>>}
ClickSizes == {<<1, 1>>}
=============================================================================
