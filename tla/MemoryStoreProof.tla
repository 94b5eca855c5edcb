------------------------- MODULE MemoryStoreProof -------------------------
(* What the write-ahead discipline of the memory store is good for. *)
EXTENDS MemoryStore, TLAPS

\* What no step may break: the types, and both promises.
StoreInvariant == StoreTypeOK /\ GoneIsAbsent /\ StoredIsPresent

LEMMA StoreInit == Init => StoreInvariant
  BY DEF Init, StoreInvariant, StoreTypeOK, Claims, GoneIsAbsent, StoredIsPresent

LEMMA StoreStep ==
  ASSUME StoreInvariant, [Next]_storeVars
  PROVE  StoreInvariant'
<1> USE DEF StoreInvariant, StoreTypeOK, Claims, GoneIsAbsent, StoredIsPresent
<1>1. CASE UNCHANGED storeVars
  BY <1>1 DEF storeVars
<1>2. ASSUME NEW m \in Memories, Intend(m)
      PROVE  StoreInvariant'
  BY <1>2 DEF Intend, Say
<1>3. ASSUME NEW m \in Memories, Write(m)
      PROVE  StoreInvariant'
  BY <1>3 DEF Write, Make
<1>4. ASSUME NEW m \in Memories, Confirm(m)
      PROVE  StoreInvariant'
  BY <1>4 DEF Confirm, Say
<1>5. ASSUME NEW m \in Memories, Withdraw(m)
      PROVE  StoreInvariant'
  BY <1>5 DEF Withdraw, Say
<1>6. ASSUME NEW m \in Memories, Reclaim(m)
      PROVE  StoreInvariant'
  BY <1>6 DEF Reclaim, Say
<1>7. ASSUME NEW m \in Memories, Doom(m)
      PROVE  StoreInvariant'
  BY <1>7 DEF Doom, Say
<1>8. ASSUME NEW m \in Memories, Erase(m)
      PROVE  StoreInvariant'
  BY <1>8 DEF Erase, Make
<1>9. ASSUME NEW m \in Memories, ConfirmGone(m)
      PROVE  StoreInvariant'
  BY <1>9 DEF ConfirmGone, Say
<1>10. ASSUME NEW m \in Memories, Dispute(m)
       PROVE  StoreInvariant'
  BY <1>10 DEF Dispute, Say
<1> QED
  BY <1>1, <1>2, <1>3, <1>4, <1>5, <1>6, <1>7, <1>8, <1>9, <1>10 DEF Next

\* A memory reported removed or replaced is not in the collection, and one
\* reported active is, as far as no failed replace called it so unseen.
THEOREM StoreKeepsItsWord == Spec => [](GoneIsAbsent /\ StoredIsPresent)
<1>1. StoreInvariant => GoneIsAbsent /\ StoredIsPresent
  BY DEF StoreInvariant
<1> QED
  BY StoreInit, StoreStep, <1>1, PTL DEF Spec
=============================================================================
