-------------------------- MODULE MCRecordPrograms --------------------------
(* Values of RecordPrograms's constants for TLC. *)
EXTENDS RecordPrograms

(* The largest pointer value, and a testimonial too long for a pointer     *)
(* with a username one past its bound. *)
PayloadsEdge ==
  {[value |-> 128, username |-> 64], [value |-> 129, username |-> 65]}
=============================================================================
