------------------------- MODULE MCDeleteReconcile -------------------------
(* Small instances of the deletion passes. *)
EXTENDS DeleteReconcile
=============================================================================
