--------------------------- MODULE MCDesktopVault ---------------------------
(* DesktopVault for TLC.  Its runs check liveness, so they use no symmetry. *)
EXTENDS DesktopVault, TLC
=============================================================================
