------------------------- MODULE MCRuntimeEvents -------------------------
(* Model-checking instances of RuntimeEvents. *)
EXTENDS RuntimeEvents
=============================================================================
