---------------------------- MODULE MCMdnsDiscovery ----------------------------
(* Instances of MdnsDiscovery for TLC.                                     *)
EXTENDS MdnsDiscovery, TLC

CONSTANTS r1, r2

\* Every announcement names its interface: the occurrences of one registration.
NamedKeys == {r1} \X Interfaces

\* No announcement names an interface: two registrations.
NamelessKeys == {r2} \X {NoInterface}

\* One registration announced both ways.
MixedKeys == {r1} \X (Interfaces \cup {NoInterface})

AllKeys == NamedKeys \cup NamelessKeys
PureNetworks == {NamedKeys, NamelessKeys}
MixedNetworks == {MixedKeys}
=============================================================================
