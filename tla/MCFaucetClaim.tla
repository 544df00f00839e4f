--------------------------- MODULE MCFaucetClaim ----------------------------
(* FaucetClaim for TLC.  The run checks a liveness property, so it uses no *)
(* symmetry.                                                               *)
EXTENDS FaucetClaim, TLC
=============================================================================
