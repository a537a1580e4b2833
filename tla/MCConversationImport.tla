---------------------- MODULE MCConversationImport ----------------------
(* Model-checking instances of ConversationImport. *)
EXTENDS ConversationImport

CONSTANTS i1, i2
=============================================================================
