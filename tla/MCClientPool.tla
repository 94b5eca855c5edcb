---------------------------- MODULE MCClientPool ----------------------------
(* Small instances of the client pool. *)
EXTENDS ClientPool
=============================================================================
