---------------------------- MODULE MCMutations ----------------------------
(* Small instances of the mutation paths. *)
EXTENDS MutationsProps, TLC

CONSTANTS worker, caller, d1, d2

\* One executor at a time does everything: tools are called only while the
\* worker is idle.
SerialKinds == worker :> Kinds
NoReplaceKinds == worker :> (Kinds \ {"replace"})

\* The worker applies mirrored mutations while a caller runs initialize's or
\* an operator's reconciliation, or a batch.
TwoKinds == worker :> {"add", "remove", "replace"}
            @@ caller :> {"add", "reconcile_deletes", "reconcile_inserts"}

StaleDeleteKinds == worker :> {"add", "remove"} @@ caller :> {"reconcile_deletes"}

EachNeedle == {{d} : d \in Digests}
AnyNeedle  == SUBSET Digests \ {{}}

\* Collections found at start.
Empty       == [i \in Ids |-> NoPoint]
WithForeign == [i \in Ids |-> IF i = 1 THEN Foreign ELSE NoPoint]
WithLegacy  == [i \in Ids |-> CASE i = 1 -> Legacy(d1)
                                 [] i = 2 -> Foreign
                                 [] i = 3 -> Legacy(d2)
                                 [] OTHER -> NoPoint]
TwoLegacy   == [i \in Ids |-> CASE i \in {1, 3} -> Legacy(d1)
                                 [] i = 2 -> Alien(d2)
                                 [] i = 4 -> Foreign
                                 [] OTHER -> NoPoint]

Interchangeable == Permutations(Digests)
=============================================================================
