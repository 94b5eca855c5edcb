----------------------- MODULE MCCollectionContract -----------------------
(* Small instances of the collection contract and the event observer. *)
EXTENDS CollectionContract
=============================================================================
