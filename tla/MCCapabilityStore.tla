-------------------------- MODULE MCCapabilityStore --------------------------
EXTENDS CapabilityStore, TLC

CONSTANTS p, q, k

OneCollection == p :> k @@ q :> k

Same == Permutations(Callers) \cup Permutations({p, q})
=============================================================================
