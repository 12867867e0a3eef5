------------------------- MODULE MCSupplierResponse -------------------------
(***************************************************************************)
(* Instances of SupplierResponse for TLC.                                  *)
(***************************************************************************)
EXTENDS SupplierResponse, TLC

CONSTANTS t1, t2, p1, p2

TwoTabs == {t1, t2}
TwoPayloads == {p1, p2}

Symmetry == Permutations(Window) \cup Permutations(Payload)
=============================================================================
