------------------------- MODULE MCDiscoveryLifecycle -------------------------
(* Instances of DiscoveryLifecycle for TLC; the constants are in the cfgs. *)
EXTENDS DiscoveryLifecycle
=============================================================================
