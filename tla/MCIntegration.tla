--------------------------- MODULE MCIntegration ---------------------------
(* Model-checking instances of Integration. *)
EXTENDS Integration

CONSTANTS u1, i1
=============================================================================
