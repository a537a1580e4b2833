--------------------------- MODULE MCJobRegistry ---------------------------
(* Model-checking instances of JobRegistry. *)
EXTENDS JobRegistry

CONSTANTS j1, j2, j3, k1, k2

\* Job IDs are interchangeable: they are taken in one order.
InOrder == (Fresh(j1) => Fresh(j2)) /\ (Fresh(j2) => Fresh(j3))
=============================================================================
