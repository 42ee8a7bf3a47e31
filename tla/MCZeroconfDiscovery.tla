-------------------------- MODULE MCZeroconfDiscovery --------------------------
(* Instances of ZeroconfDiscovery for TLC.                                 *)
EXTENDS ZeroconfDiscovery
=============================================================================
