----------------------------- MODULE FakeNetwork -----------------------------
(***************************************************************************)
(* The sample records of the fake backend (src/discovery/fake.rs), as the  *)
(* reports a real backend would make of them, and what their comments say  *)
(* they are there for.  Pure; a name is one symbol, as its contents are    *)
(* of no matter here.                                                      *)
(***************************************************************************)
EXTENDS RuleEngine

sample(name, service_type, host, addresses, port, txt) ==
  [name |-> <<name>>, service_type |-> <<service_type>>, hostname |-> <<host>>,
   addresses |-> addresses, port |-> port,
   txt |-> [i \in DOMAIN txt |-> [key |-> txt[i], value |-> <<"text">>]]]

\* Entry::new: announced, and nothing more is known of it.
unresolved(name, service_type) == sample(name, service_type, "blank", <<>>, 0, <<>>)

\* The last parts of the addresses, and the TXT keys.
fake_records ==
  <<sample("Mainframe", "_ssh._tcp", "mainframe", <<"64", "beef::64">>, 22, <<"os", "uptime">>),
    sample("WOPR", "_ssh._tcp", "wopr", <<"83">>, 22, <<"motd", "defcon">>),
    sample("Mainframe [de:ad:be:ef:ca:fe]", "_workstation._tcp", "mainframe", <<"64">>, 9, <<>>),
    sample("GLaDOS", "_http._tcp", "glados", <<"98">>, 8080, <<"path", "cake">>),
    sample("Skynet Defense Grid", "_https._tcp", "skynet", <<"97">>, 443, <<"status", "judgment-day">>),
    sample("Deep Thought", "_smb._tcp", "deep-thought", <<"42">>, 445, <<"answer", "eta">>),
    sample("HAL 9000", "_raop._tcp", "hal9000", <<"200">>, 7000, <<"pod-bay-doors", "mood">>),
    sample("Multivac", "_http._tcp", "multivac", <<"56">>, 80, <<"path", "answer">>),
    sample("Flux Capacitor", "_hap._tcp", "delorean", <<"85">>, 1955, <<"power", "speed">>),
    sample("Holodeck 3", "_googlecast._tcp", "holodeck", <<"101">>, 8009, <<"program", "safety">>),
    sample("Marvin", "_spotify-connect._tcp", "marvin", <<"142">>, 4070, <<"brain", "mood">>),
    unresolved("Cake Dispenser", "_ipp._tcp")>>

has_instance_data(entry) ==
  entry.hostname # NotResolved \/ entry.addresses # <<>> \/ entry.port # NotResolved

\* The entries of a service type, and those of a host.
OfType(type) == SelectSeq([i \in DOMAIN fake_records |-> resolved(fake_records[i])],
                          LAMBDA e : e.service_type = <<type>>)
OnHost(host) == SelectSeq([i \in DOMAIN fake_records |-> resolved(fake_records[i])],
                          LAMBDA e : e.hostname = <<host>>)

-----------------------------------------------------------------------------
(* The identities differ: no sample replaces another.                      *)
SamplesAreDistinct ==
  \A i, j \in DOMAIN fake_records :
    fake_records[i].name = fake_records[j].name /\ fake_records[i].service_type = fake_records[j].service_type
      => i = j

(* One service has two addresses and is one entry; a rule on the host name *)
(* asks which host to act on in the row of _ssh._tcp; the row of the host  *)
(* that is there twice groups two types; one entry is never resolved.      *)
SamplesShowTheirPoint(by_host) ==
  /\ Len(OfType("_ssh._tcp")[1].addresses) = 2
  /\ Len(targets(by_host, OfType("_ssh._tcp"))) = 2
  /\ {OnHost("mainframe")[i].service_type : i \in DOMAIN OnHost("mainframe")}
       = {<<"_ssh._tcp">>, <<"_workstation._tcp">>}
  /\ Cardinality({i \in DOMAIN fake_records : ~has_instance_data(resolved(fake_records[i]))}) = 1
=============================================================================
