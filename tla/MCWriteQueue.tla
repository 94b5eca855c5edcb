---------------------------- MODULE MCWriteQueue ----------------------------
(* Small instances of the write queue. *)
EXTENDS WriteQueue
=============================================================================
