-------------------------- MODULE MCProviderBridge --------------------------
(* ProviderBridge for TLC.  Its runs check liveness: no symmetry.           *)
EXTENDS ProviderBridge, TLC
=============================================================================
