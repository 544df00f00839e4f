----------------------------- MODULE MCRegistry -----------------------------
(* Values of Registry's constants for TLC. *)
EXTENDS Registry, TLC

GoodMeta == [f \in MetaFields |-> 1]

NoCidMeta == [GoodMeta EXCEPT !["idl_cid"] = 0]

(* More than an account's data may hold. *)
OversizeMeta == [GoodMeta EXCEPT !["other"] = 5000]

NamesEdge == {1, 64, 65}
MetasOdd  == {GoodMeta, NoCidMeta, OversizeMeta}
=============================================================================
