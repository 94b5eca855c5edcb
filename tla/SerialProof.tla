----------------------------- MODULE SerialProof -----------------------------
(***************************************************************************)
(* Ledger and collection agree when one operation runs at a time.          *)
(*                                                                         *)
(* The argument: every step leaves the row, the intent and the point that  *)
(* the next one relies on (IntentInvariant), because nobody else writes    *)
(* the ledger meanwhile, and what reaches the collection from outside, a   *)
(* late insert or another client's point, only takes vacant places.        *)
(***************************************************************************)
EXTENDS MutationsProof

LEMMA OneThread ==
    ASSUME OneExecutor, NEW t \in Threads
    PROVE  Threads = {t}
  BY DEF OneExecutor

LEMMA ThreadFacts ==
    ASSUME TypeOK, NEW t \in Threads
    PROVE  /\ th[t] \in ThreadStates /\ ThreadOK(th[t])
           /\ \A r \in th[t].todo : r \in Records
           /\ th[t].pc \in OldPcs => th[t].old \in Records
           /\ th[t].pc \in NewPcs => th[t].new \in Digests
           /\ th[t].pc \in IdPcs => th[t].id \in Ids
  BY DEF TypeOK, ThreadOK, ThreadStates

\* The executor is left in order if its next state is.
LEMMA NextInOrder ==
    ASSUME TypeOK, OneExecutor, NEW t \in Threads,
           \E z : Goto(t, z) /\ InOrder(t, z)'
    PROVE  (\A u \in Threads : InOrder(u, th[u]))'
  <1>1. PICK z : Goto(t, z) /\ InOrder(t, z)'
    OBVIOUS
  <1>2. th'[t] = z
    BY <1>1 DEF Goto, TypeOK
  <1>3. InOrder(t, th[t])'
    BY <1>1, <1>2 DEF InOrder, OldInForce, TodoInForce, StillSeen
  <1> QED  BY <1>3, OneThread

LEMMA InOrderUnchanged ==
    ASSUME NEW t, NEW z, InOrder(t, z), UNCHANGED <<row, counter, point, inflight>>
    PROVE  InOrder(t, z)'
  BY DEF InOrder, OldInForce, TodoInForce, StillSeen, RowIs, Holds, ClearFor

-----------------------------------------------------------------------------
(* Where an operation goes when it ends or fails.                           *)

LEMMA IdleInOrder ==
    ASSUME NEW t
    PROVE  InOrder(t, Idle) /\ InOrder(t, Idle)'
  BY DEF InOrder, OldInForce, TodoInForce, StillSeen, Idle, RemovePcs, NewPcs,
         HoldingPcs

LEMMA StoreFailedInOrder ==
    ASSUME NEW t \in Threads, NEW s \in ThreadStates, InOrder(t, s), s.pc # "idle"
    PROVE  InOrder(t, StoreFailed(s))
  <1>1. CASE s.kind = "replace"
    <2> DEFINE z == [s EXCEPT !.pc = "reinstate"]
    <2>1. z.pc = "reinstate" /\ z.kind = "replace" /\ z.todo = s.todo
      BY <1>1 DEF ThreadStates
    <2>2. "reinstate" \in PathOf("replace")
      BY DEF PathOf
    <2>3. OldInForce(z) /\ TodoInForce(z) /\ StillSeen(z)
      BY <2>1 DEF OldInForce, TodoInForce, StillSeen, RemovePcs, NewPcs, HoldingPcs
    <2> QED  BY <1>1, <2>1, <2>2, <2>3 DEF InOrder, StoreFailed
  <1>2. CASE s.kind # "replace"
    BY <1>2, IdleInOrder DEF StoreFailed
  <1> QED  BY <1>1, <1>2

LEMMA DeleteRaisedInOrder ==
    ASSUME NEW t \in Threads, NEW s \in ThreadStates, InOrder(t, s),
           s.pc \in DeletePcs
    PROVE  InOrder(t, DeleteRaised(s))
  <1>1. CASE s.kind = "remove"
    BY <1>1, IdleInOrder DEF DeleteRaised
  <1>2. CASE s.kind # "remove"
    <2> DEFINE z == [s EXCEPT !.pc = "delete_failed"]
    <2>1. /\ z.pc = "delete_failed" /\ z.kind = s.kind /\ z.todo = s.todo
          /\ z.old = s.old
      BY DEF ThreadStates
    <2>2. s.kind \in KindsOf[t] /\ s.kind \in {"replace", "reconcile_deletes"}
      BY <1>2 DEF InOrder, PathOf, DeletePcs, NewPcs, FindPcs, RemovePcs, ThreadStates, Kinds
    <2>3. "delete_failed" \in PathOf(s.kind)
      BY <2>2 DEF PathOf
    <2>4. OldInForce(z)
      BY <2>1 DEF InOrder, OldInForce, DeletePcs, RemovePcs, NewPcs
    <2>5. TodoInForce(z) /\ StillSeen(z)
      BY <2>1 DEF InOrder, TodoInForce, StillSeen, HoldingPcs
    <2> QED  BY <1>2, <2>1, <2>2, <2>3, <2>4, <2>5 DEF InOrder, DeleteRaised
  <1> QED  BY <1>1, <1>2

LEMMA OnErrorInOrder ==
    ASSUME NEW t \in Threads, NEW s \in ThreadStates, InOrder(t, s), s.pc \in RpcPcs
    PROVE  InOrder(t, OnError(s))
  <1>1. CASE s.pc \in StorePcs
    <2>1. s.pc # "idle" /\ OnError(s) = StoreFailed(s)
      BY <1>1 DEF OnError, StorePcs, InsertPcs, DeletePcs
    <2> QED  BY <2>1, StoreFailedInOrder
  <1>2. CASE s.pc \in InsertPcs
    <2> DEFINE z == [s EXCEPT !.pc = "mark_retry"]
    <2>1. /\ z.pc = "mark_retry" /\ z.kind = s.kind /\ z.todo = s.todo
          /\ z.old = s.old /\ z.new = s.new
      BY DEF ThreadStates
    <2>2. s.kind \in KindsOf[t] /\ s.kind \in {"add", "replace"}
      BY <1>2 DEF InOrder, PathOf, InsertPcs, DeletePcs, NewPcs, FindPcs, RemovePcs, ThreadStates, Kinds
    <2>3. "mark_retry" \in PathOf(s.kind)
      BY <2>2 DEF PathOf, NewPcs
    <2>4. OldInForce(z)
      BY <1>2, <2>1 DEF InOrder, OldInForce, InsertPcs, RemovePcs, NewPcs, SavePcs
    <2>5. TodoInForce(z) /\ StillSeen(z)
      BY <2>1 DEF InOrder, TodoInForce, StillSeen, HoldingPcs
    <2>6. OnError(s) = z
      BY <1>2 DEF OnError, StorePcs, InsertPcs, DeletePcs
    <2> QED  BY <2>1, <2>2, <2>3, <2>4, <2>5, <2>6 DEF InOrder
  <1>3. CASE s.pc \in DeletePcs
    <2>1. OnError(s) = DeleteRaised(s)
      BY <1>3 DEF OnError, StorePcs, InsertPcs, DeletePcs
    <2> QED  BY <1>3, <2>1, DeleteRaisedInOrder
  <1>4. CASE s.pc = "check_insert"
    <2> DEFINE z == [s EXCEPT !.pc = "mark_absent"]
    <2>1. /\ z.pc = "mark_absent" /\ z.kind = s.kind /\ z.todo = s.todo
          /\ z.old = s.old /\ z.new = s.new
      BY DEF ThreadStates
    <2>2. s.kind \in KindsOf[t] /\ s.kind = "reconcile_inserts"
      BY <1>4 DEF InOrder, PathOf, InsertPcs, DeletePcs, NewPcs, FindPcs, RemovePcs, ThreadStates, Kinds
    <2>3. "mark_absent" \in PathOf(s.kind)
      BY <2>2 DEF PathOf, NewPcs
    <2>4. OldInForce(z)
      BY <1>4, <2>1 DEF InOrder, OldInForce, InsertPcs, RemovePcs, NewPcs, SavePcs
    <2>5. TodoInForce(z) /\ StillSeen(z)
      BY <2>1 DEF InOrder, TodoInForce, StillSeen, HoldingPcs
    <2>6. OnError(s) = z
      BY <1>4 DEF OnError, StorePcs, InsertPcs, DeletePcs
    <2> QED  BY <2>1, <2>2, <2>3, <2>4, <2>5, <2>6 DEF InOrder
  <1>5. CASE s.pc = "search"
    BY <1>5, IdleInOrder DEF OnError, StorePcs, InsertPcs, DeletePcs
  <1> QED  BY <1>1, <1>2, <1>3, <1>4, <1>5 DEF RpcPcs

-----------------------------------------------------------------------------
(* Steps that only read.                                                    *)

LEMMA KindAt ==
    ASSUME NEW t \in Threads, NEW s \in ThreadStates, InOrder(t, s), s.pc # "idle"
    PROVE  /\ s.kind \in KindsOf[t]
           /\ s.pc \in FindPcs => s.kind \in {"remove", "replace"}
           /\ s.pc \in NewPcs \ {"retire_old"} => s.kind \in {"add", "replace"}
           /\ s.pc \in {"retire_old", "reinstate"} => s.kind = "replace"
           /\ s.pc \in RemovePcs => s.kind \in {"remove", "replace", "reconcile_deletes"}
           /\ s.pc = "delete_failed" => s.kind \in {"replace", "reconcile_deletes"}
           /\ s.pc = "pending_read" => s.kind = "reconcile_deletes"
           /\ s.pc \in {"check_insert", "mark_absent", "mark_active"}
                 => s.kind = "reconcile_inserts"
           /\ s.pc = "list_retries" => s.kind = "reconcile_inserts"
           /\ s.pc \in {"next_pending", "mark_conflict"}
                 => s.kind \in {"reconcile_deletes", "reconcile_inserts"}
  BY DEF InOrder, PathOf, NewPcs, FindPcs, RemovePcs, ThreadStates, Kinds

LEMMA Paths ==
    /\ NewPcs \ {"retire_old"} \subseteq PathOf("add")
    /\ FindPcs \cup RemovePcs \subseteq PathOf("remove")
    /\ FindPcs \cup NewPcs \cup RemovePcs \cup {"reinstate", "delete_failed"}
          \subseteq PathOf("replace")
    /\ RemovePcs \cup {"next_pending", "pending_read", "mark_conflict", "delete_failed"}
          \subseteq PathOf("reconcile_deletes")
    /\ {"list_retries", "next_pending", "check_insert", "mark_absent", "mark_active",
         "mark_conflict"} \subseteq PathOf("reconcile_inserts")
  BY DEF PathOf

\* The operation goes on with what it has in hand.
LEMMA GoesOn ==
    ASSUME NEW t \in Threads, NEW s \in ThreadStates, InOrder(t, s), s.pc # "idle",
           NEW z, z.kind = s.kind, z.todo = s.todo, z.old = s.old,
           z.pc \in PathOf(s.kind) \ {"adopt"}, OldInForce(z), StillSeen(z)
    PROVE  InOrder(t, z)
  BY DEF InOrder, TodoInForce

LEMMA StoreReads ==
    ASSUME TypeOK, IntentInvariant, NEW t \in Threads,
           \/ LookUp(t) \/ ReadKnown(t) \/ ProbeVacant(t) \/ VerifyReadback(t)
    PROVE  \E z : Goto(t, z) /\ InOrder(t, z)
  <1> DEFINE s == th[t]
  <1>0. /\ s \in ThreadStates /\ InOrder(t, s)
        /\ s.pc \in NewPcs => s.new \in Digests
        /\ s.pc \in IdPcs => s.id \in Ids
    BY ThreadFacts DEF IntentInvariant
  <1>1. CASE LookUp(t)
    <2>1. s.pc = "look_up" /\ s.kind \in {"add", "replace"}
      BY <1>0, <1>1, KindAt DEF LookUp, At, NewPcs
    <2>2. ASSUME NEW z \in ThreadStates, z.pc \in {"next_id", "read_known"},
                 z.kind = s.kind, z.todo = s.todo, z.old = s.old
          PROVE  InOrder(t, z)
      <3>1. OldInForce(z) /\ StillSeen(z)
        BY <1>0, <2>1, <2>2 DEF InOrder, OldInForce, StillSeen, RemovePcs, NewPcs,
                                SavePcs, HoldingPcs
      <3> QED  BY <1>0, <2>1, <2>2, <3>1, GoesOn, Paths DEF NewPcs
    <2>3. ASSUME row[s.new].status # "absent"
          PROVE  [s EXCEPT !.pc = "read_known", !.id = row[s.new].id] \in ThreadStates
      BY <1>0, <2>1, <2>3 DEF TypeOK, RowOK, ThreadStates, Pcs, RpcPcs, StorePcs, NewPcs
    <2>4. [s EXCEPT !.pc = "next_id"] \in ThreadStates
      BY <1>0 DEF ThreadStates, Pcs
    <2>5. CASE row[s.new].status = "absent"
      <3>1. InOrder(t, [s EXCEPT !.pc = "next_id"])
        BY <1>0, <2>2, <2>4 DEF ThreadStates
      <3> QED  BY <1>1, <2>5, <3>1 DEF LookUp
    <2>6. CASE row[s.new].status # "absent"
      <3>1. InOrder(t, [s EXCEPT !.pc = "read_known", !.id = row[s.new].id])
        BY <1>0, <2>2, <2>3, <2>6 DEF ThreadStates
      <3> QED  BY <1>1, <2>6, <3>1 DEF LookUp
    <2> QED  BY <2>5, <2>6
  <1>2. CASE ReadKnown(t)
    <2>1. s.pc = "read_known" /\ s.kind \in {"add", "replace"}
      BY <1>0, <1>2, KindAt DEF ReadKnown, At, NewPcs
    <2>2. CASE Reusable(point[s.id], s.new)
      <3> DEFINE z == [s EXCEPT !.pc = "write_ahead"]
      <3>1. /\ z.pc = "write_ahead" /\ z.kind = s.kind /\ z.todo = s.todo
            /\ z.old = s.old /\ z.new = s.new /\ z.id = s.id
        BY <1>0 DEF ThreadStates
      <3>2. point[s.id] = Own(s.new) /\ s.id \in Ids /\ s.new \in Digests
        BY <1>0, <2>1, <2>2 DEF Reusable, OwnerMatches, NewPcs, IdPcs
      <3>3. ClearFor(s.new, s.id)
        <4>1. s.id < counter
          BY <3>2 DEF IntentInvariant, Own
        <4>2. ASSUME NEW m \in inflight, m.id = s.id
              PROVE  m.digest = s.new
          <5>1. Own(s.new) \in {NoPoint, Foreign, Own(m.digest)}
            BY <3>2, <4>2 DEF IntentInvariant, ClearFor
          <5> QED  BY <5>1 DEF Own, NoPoint, Foreign
        <4> QED  BY <3>2, <4>1, <4>2 DEF ClearFor
      <3>4. OldInForce(z) /\ StillSeen(z)
        BY <1>0, <2>1, <3>1, <3>3 DEF InOrder, OldInForce, StillSeen, RemovePcs, NewPcs,
                                SavePcs, HoldingPcs
      <3>5. InOrder(t, z)
        BY <1>0, <2>1, <3>1, <3>4, GoesOn, Paths DEF NewPcs
      <3> QED  BY <1>2, <2>2, <3>5 DEF ReadKnown
    <2>3. CASE ~Reusable(point[s.id], s.new)
      <3> DEFINE z == [s EXCEPT !.pc = "next_id", !.id = 0]
      <3>1. /\ z.pc = "next_id" /\ z.kind = s.kind /\ z.todo = s.todo
            /\ z.old = s.old /\ z.new = s.new
        BY <1>0 DEF ThreadStates
      <3>2. OldInForce(z) /\ StillSeen(z)
        BY <1>0, <2>1, <3>1 DEF InOrder, OldInForce, StillSeen, RemovePcs, NewPcs,
                                SavePcs, HoldingPcs
      <3>3. InOrder(t, z)
        BY <1>0, <2>1, <3>1, <3>2, GoesOn, Paths DEF NewPcs
      <3> QED  BY <1>2, <2>3, <3>3 DEF ReadKnown
    <2> QED  BY <2>2, <2>3
  <1>3. CASE ProbeVacant(t)
    <2> DEFINE z == [s EXCEPT !.pc = "write_ahead", !.tries = 0]
    <2>1. s.pc = "probe" /\ s.kind \in {"add", "replace"}
      BY <1>0, <1>3, KindAt DEF ProbeVacant, At, NewPcs
    <2>2. /\ z.pc = "write_ahead" /\ z.kind = s.kind /\ z.todo = s.todo
          /\ z.old = s.old /\ z.new = s.new /\ z.id = s.id
      BY <1>0 DEF ThreadStates
    <2>3. point[s.id] = NoPoint
      BY <1>0, <1>3, <2>1, ConstantsAssumption
         DEF ProbeVacant, Vacant, TypeOK, Contents, NoPoint, IdPcs
    <2>4. ClearFor(s.new, s.id)
      BY <1>0, <2>1, <2>3 DEF InOrder, StillSeen, ClearFor
    <2>5. OldInForce(z) /\ StillSeen(z)
      BY <1>0, <2>1, <2>2, <2>4 DEF InOrder, OldInForce, StillSeen, RemovePcs, NewPcs,
                                SavePcs, HoldingPcs
    <2>6. InOrder(t, z)
      BY <1>0, <2>1, <2>2, <2>5, GoesOn, Paths DEF NewPcs
    <2> QED  BY <1>3, <2>6 DEF ProbeVacant
  <1>4. CASE VerifyReadback(t)
    <2>1. s.pc = "verify" /\ s.kind \in {"add", "replace"}
      BY <1>0, <1>4, KindAt DEF VerifyReadback, At, NewPcs
    <2>2. ClearFor(s.new, s.id)
      BY <1>0, <2>1 DEF InOrder, StillSeen, HoldingPcs
    <2>3. ASSUME ReadbackProves(point[s.id], s.new)
          PROVE  InOrder(t, [s EXCEPT !.pc = "commit", !.tries = 0])
      <3> DEFINE z == [s EXCEPT !.pc = "commit", !.tries = 0]
      <3>1. /\ z.pc = "commit" /\ z.kind = s.kind /\ z.todo = s.todo
            /\ z.old = s.old /\ z.new = s.new /\ z.id = s.id
        BY <1>0 DEF ThreadStates
      <3>2. OldInForce(z) /\ StillSeen(z)
        BY <1>0, <2>1, <2>2, <2>3, <3>1
           DEF InOrder, OldInForce, StillSeen, RemovePcs, NewPcs, SavePcs, HoldingPcs,
               ReadbackProves, OwnerMatches
      <3> QED  BY <1>0, <2>1, <3>1, <3>2, GoesOn, Paths DEF NewPcs
    <2>4. ASSUME NEW n
          PROVE  InOrder(t, [s EXCEPT !.tries = n])
      <3> DEFINE z == [s EXCEPT !.tries = n]
      <3>1. /\ z.pc = "verify" /\ z.kind = s.kind /\ z.todo = s.todo
            /\ z.old = s.old /\ z.new = s.new /\ z.id = s.id
        BY <1>0, <2>1 DEF ThreadStates
      <3>2. OldInForce(z) /\ StillSeen(z)
        BY <1>0, <2>1, <2>2, <3>1
           DEF InOrder, OldInForce, StillSeen, RemovePcs, NewPcs, SavePcs, HoldingPcs
      <3> QED  BY <1>0, <2>1, <3>1, <3>2, GoesOn, Paths DEF NewPcs
    <2>5. InOrder(t, OnError(s))
      BY <1>0, <2>1, OnErrorInOrder DEF RpcPcs, InsertPcs
    <2> QED  BY <1>4, <2>3, <2>4, <2>5 DEF VerifyReadback
  <1> QED  BY <1>1, <1>2, <1>3, <1>4

LEMMA RemoveReads ==
    ASSUME TypeOK, IntentInvariant, NEW t \in Threads,
           ReadOld(t) \/ ReadBack(t) \/ DeleteRefused(t)
    PROVE  \E z : Goto(t, z) /\ InOrder(t, z)
  <1> DEFINE s == th[t]
  <1>0. s \in ThreadStates /\ InOrder(t, s)
    BY ThreadFacts DEF IntentInvariant
  <1>1. s.pc \in {"read_old", "delete", "read_back"}
    BY DEF ReadOld, ReadBack, DeleteRefused, At
  <1>2. /\ s.kind \in {"remove", "replace", "reconcile_deletes"}
        /\ RowIs(s.old, {"delete_pending"})
    BY <1>0, <1>1, KindAt DEF RemovePcs, InOrder, OldInForce
  <1>3. InOrder(t, DeleteRaised(s))
    BY <1>0, <1>1, DeleteRaisedInOrder DEF DeletePcs
  <1>4. ASSUME NEW pc \in RemovePcs, pc = "delete" => Holds(s.old)
        PROVE  InOrder(t, [s EXCEPT !.pc = pc])
    <2> DEFINE z == [s EXCEPT !.pc = pc]
    <2>1. /\ z.pc = pc /\ z.kind = s.kind /\ z.todo = s.todo
          /\ z.old = s.old /\ z.new = s.new
      BY <1>0 DEF ThreadStates
    <2>2. OldInForce(z) /\ StillSeen(z)
      BY <1>2, <1>4, <2>1 DEF OldInForce, StillSeen, RemovePcs, NewPcs, HoldingPcs
    <2> QED  BY <1>0, <1>1, <1>2, <2>1, <2>2, GoesOn, Paths DEF RemovePcs, FindPcs
  <1>5. CASE ReadOld(t)
    <2>1. Deletable(point[s.old.id], s.old.digest)
             => InOrder(t, [s EXCEPT !.pc = "delete"])
      BY <1>4 DEF RemovePcs, Deletable, Holds, PointsWith
    <2>2. InOrder(t, [s EXCEPT !.pc = "mark_done"])
      BY <1>4 DEF RemovePcs
    <2> QED  BY <1>3, <1>5, <2>1, <2>2 DEF ReadOld
  <1>6. CASE ReadBack(t)
    BY <1>3, <1>4, <1>6 DEF ReadBack, RemovePcs
  <1>7. CASE DeleteRefused(t)
    BY <1>4, <1>7 DEF DeleteRefused, RemovePcs
  <1> QED  BY <1>5, <1>6, <1>7

LEMMA PassReads ==
    ASSUME TypeOK, IntentInvariant, NEW t \in Threads,
           \/ ListRetries(t) \/ NextPending(t) \/ SkipPending(t)
           \/ ReadPending(t) \/ CheckInsert(t)
    PROVE  \E z : Goto(t, z) /\ InOrder(t, z)
  <1> DEFINE s == th[t]
  <1>0. s \in ThreadStates /\ InOrder(t, s)
    BY ThreadFacts DEF IntentInvariant
  <1>l. CASE ListRetries(t)
    <2>1. s.pc = "list_retries" /\ s.kind = "reconcile_inserts" /\ s.old = NoRecord
      BY <1>0, <1>l, KindAt DEF ListRetries, At, InOrder, OldInForce
    <2> DEFINE z == [s EXCEPT !.pc = "next_pending",
                              !.todo = @ \cup Pending("retry_pending")]
    <2>2. /\ z.pc = "next_pending" /\ z.kind = s.kind /\ z.old = NoRecord
          /\ z.todo = s.todo \cup Pending("retry_pending")
      BY <1>0, <2>1 DEF ThreadStates
    <2>3. \A r \in Pending("retry_pending") : RowIs(r, Unproved) /\ r # NoRecord
      BY ConstantsAssumption DEF Pending, RecordOf, RowIs, Unproved, NoRecord
    <2>4. TodoInForce(z)
      BY <1>0, <2>1, <2>2, <2>3 DEF InOrder, TodoInForce
    <2>5. OldInForce(z) /\ StillSeen(z)
      BY <2>2 DEF OldInForce, StillSeen, RemovePcs, NewPcs, HoldingPcs
    <2>6. z.kind \in KindsOf[t] /\ z.pc \in PathOf(z.kind)
      BY <1>0, <2>1, <2>2, Paths DEF InOrder
    <2>7. InOrder(t, z)
      BY <2>4, <2>5, <2>6 DEF InOrder
    <2> QED  BY <1>l, <2>7 DEF ListRetries
  <1>1. CASE NextPending(t)
    <2>1. s.pc = "next_pending" /\ s.kind \in {"reconcile_deletes", "reconcile_inserts"}
      BY <1>0, <1>1, KindAt DEF NextPending, At
    <2>2. ASSUME NEW r \in s.todo, NEW pc,
                 pc = IF s.kind = "reconcile_deletes" THEN "pending_read"
                                                      ELSE "check_insert"
          PROVE  InOrder(t, [s EXCEPT !.pc = pc, !.old = r, !.todo = @ \ {r}])
      <3> DEFINE z == [s EXCEPT !.pc = pc, !.old = r, !.todo = @ \ {r}]
      <3>1. /\ z.pc = pc /\ z.kind = s.kind /\ z.todo = s.todo \ {r}
            /\ z.old = r
        BY <1>0 DEF ThreadStates
      <3>2. OldInForce(z)
        BY <1>0, <2>1, <2>2, <3>1 DEF InOrder, TodoInForce, OldInForce, RemovePcs, NewPcs
      <3>3. TodoInForce(z)
        BY <1>0, <2>1, <2>2, <3>1 DEF InOrder, TodoInForce
      <3>4. StillSeen(z)
        BY <2>2, <3>1 DEF StillSeen, HoldingPcs
      <3>5. z.kind \in KindsOf[t] /\ z.pc \in PathOf(z.kind)
        BY <1>0, <2>1, <2>2, <3>1, Paths DEF InOrder
      <3> QED  BY <3>2, <3>3, <3>4, <3>5 DEF InOrder
    <2> QED  BY <1>1, <2>2, IdleInOrder DEF NextPending
  <1>2. CASE SkipPending(t)
    <2>1. s.pc = "next_pending"
      BY <1>2 DEF SkipPending, At
    <2>2. ASSUME NEW r \in s.todo
          PROVE  InOrder(t, [s EXCEPT !.todo = @ \ {r}])
      <3> DEFINE z == [s EXCEPT !.todo = @ \ {r}]
      <3>1. /\ z.pc = s.pc /\ z.kind = s.kind /\ z.todo = s.todo \ {r}
            /\ z.old = s.old
        BY <1>0 DEF ThreadStates
      <3>2. OldInForce(z) /\ StillSeen(z)
        BY <2>1, <3>1 DEF OldInForce, StillSeen, RemovePcs, NewPcs, HoldingPcs
      <3> QED  BY <1>0, <3>1, <3>2 DEF InOrder, TodoInForce
    <2> QED  BY <1>2, <2>2 DEF SkipPending
  <1>3. ASSUME NEW pc, s.pc \in {"pending_read", "check_insert"},
               pc \in PathOf(s.kind) \ (NewPcs \cup {"adopt"}),
               OldInForce([s EXCEPT !.pc = pc]),
               pc \notin {"search", "delete"},
               pc = "mark_active" => point[s.old.id] = Own(s.old.digest)
        PROVE  InOrder(t, [s EXCEPT !.pc = pc])
    <2> DEFINE z == [s EXCEPT !.pc = pc]
    <2>1. /\ z.pc = pc /\ z.kind = s.kind /\ z.todo = s.todo /\ z.old = s.old
      BY <1>0 DEF ThreadStates
    <2>2. StillSeen(z)
      BY <1>3, <2>1 DEF StillSeen, NewPcs, HoldingPcs
    <2> QED  BY <1>0, <1>3, <2>1, <2>2, GoesOn
  <1>4. CASE ReadPending(t)
    <2>1. /\ s.pc = "pending_read" /\ s.kind = "reconcile_deletes"
          /\ RowIs(s.old, {"delete_pending"})
      BY <1>0, <1>4, KindAt DEF ReadPending, At, InOrder, OldInForce
    <2>2. ASSUME NEW pc \in {"mark_done", "read_old", "mark_conflict"}
          PROVE  InOrder(t, [s EXCEPT !.pc = pc])
      <3>1. OldInForce([s EXCEPT !.pc = pc])
        BY <1>0, <2>1 DEF OldInForce, RemovePcs, NewPcs, ThreadStates, RowIs
      <3>2. pc \in PathOf(s.kind) \ (NewPcs \cup {"adopt"})
        BY <2>1, Paths DEF RemovePcs, NewPcs
      <3> QED  BY <1>3, <2>1, <3>1, <3>2
    <2> QED  BY <1>4, <2>2 DEF ReadPending
  <1>5. CASE CheckInsert(t)
    <2>1. /\ s.pc = "check_insert" /\ s.kind = "reconcile_inserts"
          /\ RowIs(s.old, Unproved)
      BY <1>0, <1>5, KindAt DEF CheckInsert, At, InOrder, OldInForce
    <2>2. ASSUME NEW pc \in {"mark_absent", "mark_active", "mark_conflict"},
                 pc = "mark_active" => OwnerMatches(point[s.old.id], s.old.digest)
          PROVE  InOrder(t, [s EXCEPT !.pc = pc])
      <3>1. OldInForce([s EXCEPT !.pc = pc])
        BY <1>0, <2>1 DEF OldInForce, RemovePcs, NewPcs, ThreadStates, RowIs
      <3>2. pc \in PathOf(s.kind) \ (NewPcs \cup {"adopt"})
        BY <2>1, Paths DEF NewPcs
      <3> QED  BY <1>3, <2>1, <2>2, <3>1, <3>2 DEF OwnerMatches
    <2> QED  BY <1>5, <2>2 DEF CheckInsert
  <1> QED  BY <1>l, <1>1, <1>2, <1>4, <1>5

LEMMA SearchReads ==
    ASSUME TypeOK, IntentInvariant, NEW t \in Threads, SearchLegacy(t)
    PROVE  \E z : Goto(t, z) /\ InOrder(t, z)
  <1> DEFINE s == th[t]
  <1>0. /\ s \in ThreadStates /\ InOrder(t, s) /\ s.pc = "search"
        /\ s.kind \in KindsOf[t] /\ s.kind \in {"remove", "replace"}
    BY ThreadFacts, KindAt DEF IntentInvariant, SearchLegacy, At, FindPcs
  <1>1. PICK found \in SearchResults(s.needle) :
           Goto(t, IF found = {} THEN Idle
                   ELSE [s EXCEPT
                           !.pc = "adopt", !.todo = found, !.needle = {},
                           !.old = IF \E r \in found : found = {r}
                                     THEN CHOOSE r \in found : TRUE
                                     ELSE NoRecord])
    BY DEF SearchLegacy
  <1>2. ASSUME NEW r \in found
        PROVE  Holds(r)
    <2>1. LedgerMatches(s.needle) = {}
      BY <1>0 DEF InOrder, StillSeen, LedgerMatches
    <2>2. r \in RemoteMatches(s.needle)
      BY <2>1 DEF SearchResults
    <2>3. r.id \in Ids /\ r.digest = point[r.id].digest /\ r.digest \in Digests
      BY <1>0, <2>2 DEF RemoteMatches, ThreadStates
    <2> QED
      BY <2>3, ConstantsAssumption
         DEF TypeOK, Contents, PointsWith, Own, Legacy, Alien, Holds
  <1>3. ASSUME NEW o
        PROVE  InOrder(t, [s EXCEPT !.pc = "adopt", !.todo = found,
                                    !.needle = {}, !.old = o])
    <2> DEFINE z == [s EXCEPT !.pc = "adopt", !.todo = found, !.needle = {}, !.old = o]
    <2>1. z.pc = "adopt" /\ z.kind = s.kind /\ z.todo = found
      BY <1>0 DEF ThreadStates
    <2>2. OldInForce(z) /\ TodoInForce(z) /\ StillSeen(z)
      BY <1>0, <1>2, <2>1
         DEF OldInForce, TodoInForce, StillSeen, RemovePcs, NewPcs, HoldingPcs
    <2> QED  BY <1>0, <2>1, <2>2, Paths DEF InOrder, FindPcs
  <1> QED  BY <1>1, <1>3, IdleInOrder

LEMMA RequestReads ==
    ASSUME TypeOK, NEW t \in Threads, Request(t)
    PROVE  \E z : Goto(t, z) /\ InOrder(t, z)
  <1>1. ASSUME NEW n \in Needles, NEW s \in ThreadStates, s.needle = n,
               s.todo = {}, s.kind \in KindsOf[t], s.kind \in {"remove", "replace"},
               ResolveOld(t, s)
        PROVE  \E z : Goto(t, z) /\ InOrder(t, z)
    <2>0. n \subseteq Digests
      BY ConstantsAssumption
    <2>1. CASE Resolve(n) = {} /\ Goto(t, [s EXCEPT !.pc = "search"])
      <3> DEFINE z == [s EXCEPT !.pc = "search"]
      <3>1. z.pc = "search" /\ z.kind = s.kind /\ z.todo = {} /\ z.needle = n
        BY <1>1 DEF ThreadStates
      <3>2. \A d \in n : row[d].status # "active"
        BY <2>1 DEF Resolve
      <3>3. OldInForce(z) /\ TodoInForce(z) /\ StillSeen(z)
        BY <3>1, <3>2 DEF OldInForce, TodoInForce, StillSeen, RemovePcs, NewPcs, HoldingPcs
      <3>4. InOrder(t, z)
        BY <1>1, <3>1, <3>3, Paths DEF InOrder, FindPcs
      <3> QED  BY <2>1, <3>4
    <2>2. ASSUME NEW r \in Resolve(n),
                 Goto(t, [s EXCEPT !.pc = "mark_old", !.old = r, !.needle = {}])
          PROVE  \E z : Goto(t, z) /\ InOrder(t, z)
      <3> DEFINE z == [s EXCEPT !.pc = "mark_old", !.old = r, !.needle = {}]
      <3>1. z.pc = "mark_old" /\ z.kind = s.kind /\ z.todo = {} /\ z.old = r
        BY <1>1 DEF ThreadStates
      <3>2. RowIs(r, {"active", "delete_pending"})
        BY <2>0 DEF Resolve, RecordOf, RowIs
      <3>3. OldInForce(z) /\ TodoInForce(z) /\ StillSeen(z)
        BY <3>1, <3>2 DEF OldInForce, TodoInForce, StillSeen, RemovePcs, NewPcs, HoldingPcs
      <3>4. InOrder(t, z)
        BY <1>1, <3>1, <3>3, Paths DEF InOrder, FindPcs
      <3> QED  BY <2>2, <3>4
    <2>3. CASE Goto(t, Idle)
      BY <2>3, IdleInOrder
    <2> QED  BY <1>1, <2>1, <2>2, <2>3 DEF ResolveOld
  <1>2. CASE BeginAdd(t)
    <2>1. PICK d \in Digests :
             Goto(t, [Idle EXCEPT !.pc = "look_up", !.kind = "add", !.new = d])
      BY <1>2 DEF BeginAdd
    <2> DEFINE z == [Idle EXCEPT !.pc = "look_up", !.kind = "add", !.new = d]
    <2>2. z.pc = "look_up" /\ z.kind = "add" /\ z.todo = {}
      BY DEF Idle
    <2>3. OldInForce(z) /\ TodoInForce(z) /\ StillSeen(z)
      BY <2>2 DEF OldInForce, TodoInForce, StillSeen, RemovePcs, NewPcs, HoldingPcs
    <2>4. InOrder(t, z)
      BY <1>2, <2>2, <2>3, Paths DEF InOrder, NewPcs, BeginAdd, Begin
    <2> QED  BY <2>1, <2>4
  <1>3. CASE BeginRemove(t)
    <2>1. PICK n \in Needles :
             ResolveOld(t, [Idle EXCEPT !.kind = "remove", !.needle = n])
      BY <1>3 DEF BeginRemove
    <2>2. [Idle EXCEPT !.kind = "remove", !.needle = n] \in ThreadStates
      BY ConstantsAssumption DEF Idle, ThreadStates, Kinds, Pcs
    <2> QED  BY <1>1, <1>3, <2>1, <2>2 DEF Idle, BeginRemove, Begin
  <1>4. CASE BeginReplace(t)
    <2>1. PICK n \in Needles, d \in Digests :
             ResolveOld(t, [Idle EXCEPT !.kind = "replace", !.needle = n, !.new = d])
      BY <1>4 DEF BeginReplace
    <2>2. [Idle EXCEPT !.kind = "replace", !.needle = n, !.new = d] \in ThreadStates
      BY ConstantsAssumption DEF Idle, ThreadStates, Kinds, Pcs
    <2> QED  BY <1>1, <1>4, <2>1, <2>2 DEF Idle, BeginReplace, Begin
  <1>5. CASE BeginReconcile(t)
    <2>1. ASSUME NEW k \in KindsOf[t], NEW st, NEW pc,
                 \/ k = "reconcile_deletes" /\ st = "delete_pending"
                    /\ pc = "next_pending"
                 \/ k = "reconcile_inserts" /\ st = "inserting"
                    /\ pc = "list_retries"
          PROVE  InOrder(t, [Idle EXCEPT !.pc = pc, !.kind = k, !.todo = Pending(st)])
      <3> DEFINE z == [Idle EXCEPT !.pc = pc, !.kind = k, !.todo = Pending(st)]
      <3>1. z.pc = pc /\ z.kind = k /\ z.todo = Pending(st) /\ z.old = NoRecord
        BY DEF Idle
      <3>2. \A r \in Pending(st) : RowIs(r, {st}) /\ r # NoRecord
        BY ConstantsAssumption DEF Pending, RecordOf, RowIs, NoRecord
      <3>3. TodoInForce(z)
        BY <2>1, <3>1, <3>2 DEF TodoInForce, RowIs, Unproved
      <3>4. OldInForce(z) /\ StillSeen(z)
        BY <2>1, <3>1 DEF OldInForce, StillSeen, RemovePcs, NewPcs, HoldingPcs
      <3> QED  BY <2>1, <3>1, <3>3, <3>4, Paths DEF InOrder
    <2> QED  BY <1>5, <2>1 DEF BeginReconcile, Begin
  <1> QED  BY <1>2, <1>3, <1>4, <1>5 DEF Request

\* A step that only reads, begins or fails keeps everything in order.
LEMMA ReadingStep ==
    ASSUME TypeOK, OneExecutor, IntentInvariant, NEW t \in Threads,
           UNCHANGED <<row, counter, point, inflight>>,
           \E z : Goto(t, z) /\ InOrder(t, z)
    PROVE  IntentInvariant'
  <1>1. (\A u \in Threads : InOrder(u, th[u]))'
    BY NextInOrder, InOrderUnchanged
  <1>2. (\A m \in inflight : m.op = "insert" /\ ClearFor(m.digest, m.id))'
    BY DEF IntentInvariant, ClearFor
  <1> QED  BY <1>1, <1>2 DEF IntentInvariant, ActiveIsStored

-----------------------------------------------------------------------------
(* Steps that write the ledger.                                             *)

LEMMA SetStatusRow ==
    ASSUME RowOK, NEW d \in Digests, NEW st, row' = SetStatus(d, st)
    PROVE  /\ \A e \in Digests : row'[e].id = row[e].id
           /\ \A e \in Digests \ {d} : row'[e] = row[e]
           /\ row[d].status # "absent" => row'[d].status = st
  BY DEF RowOK, SetStatus

LEMMA UpsertRow ==
    ASSUME RowOK, NEW d \in Digests, NEW i, NEW st, row' = Upsert(d, i, st)
    PROVE  /\ \A e \in Digests \ {d} : row'[e] = row[e]
           /\ row'[d] = [status |-> st, id |-> i]
  BY DEF RowOK, Upsert

\* One row was written, and is active only if its point was seen.
LEMMA WritingStep ==
    ASSUME TypeOK, OneExecutor, IntentInvariant, NEW t \in Threads,
           UNCHANGED <<counter, point, inflight>>,
           \E z : Goto(t, z) /\ InOrder(t, z)',
           NEW d \in Digests, \A e \in Digests \ {d} : row'[e] = row[e],
           ~Replaces /\ row'[d].status = "active"
              => point[row'[d].id] \in PointsWith(d)
    PROVE  IntentInvariant'
  <1>1. (\A u \in Threads : InOrder(u, th[u]))'
    BY NextInOrder
  <1>2. (\A m \in inflight : m.op = "insert" /\ ClearFor(m.digest, m.id))'
    BY DEF IntentInvariant, ClearFor
  <1>3. (~Replaces => ActiveIsStored)'
    BY DEF IntentInvariant, ActiveIsStored, Replaces
  <1> QED  BY <1>1, <1>2, <1>3 DEF IntentInvariant

\* A pass goes on to rows that the step did not touch.
LEMMA AfterInOrder ==
    ASSUME TypeOK, NEW t \in Threads, NEW s \in ThreadStates, s = th[t], InOrder(t, s),
           s.pc \in {"mark_done", "delete_failed", "mark_absent", "mark_active",
                     "mark_conflict"},
           \A e \in Digests \ {s.old.digest} : row'[e] = row[e]
    PROVE  InOrder(t, After(s))'
  <1>0. /\ s.old \in Records
        /\ \A r \in s.todo : r \in Records
    BY ThreadFacts DEF OldPcs
  <1>1. CASE s.kind \in {"reconcile_deletes", "reconcile_inserts"}
    <2> DEFINE z == [s EXCEPT !.pc = "next_pending", !.old = NoRecord]
    <2>1. /\ z.pc = "next_pending" /\ z.kind = s.kind /\ z.todo = s.todo
          /\ z.old = NoRecord
      BY <1>0 DEF ThreadStates
    <2>2. row[s.old.digest].id = s.old.id
      BY DEF InOrder, OldInForce, RowIs, RemovePcs
    <2>3. ASSUME NEW r \in s.todo
          PROVE  row'[r.digest] = row[r.digest] /\ r # NoRecord
      <3>1. r # s.old /\ row[r.digest].id = r.id
        BY <1>1 DEF InOrder, TodoInForce, RowIs
      <3>2. r.digest # s.old.digest
        BY <1>0, <2>2, <3>1 DEF Records
      <3> QED  BY <1>0, <3>2 DEF Records, NoRecord, Ids
    <2>4. TodoInForce(z)'
      BY <2>1, <2>3 DEF InOrder, TodoInForce, RowIs
    <2>5. OldInForce(z)' /\ StillSeen(z)'
      BY <2>1 DEF OldInForce, StillSeen, RemovePcs, NewPcs, HoldingPcs
    <2>6. z.kind \in KindsOf[t] /\ z.pc \in PathOf(z.kind)
      BY <1>1, <2>1, Paths DEF InOrder
    <2> QED  BY <1>1, <2>4, <2>5, <2>6 DEF InOrder, After
  <1>2. CASE s.kind \notin {"reconcile_deletes", "reconcile_inserts"}
    BY <1>2, IdleInOrder DEF After
  <1> QED  BY <1>1, <1>2

LEMMA AdoptStep ==
    ASSUME TypeOK, OneExecutor, IntentInvariant, NEW t \in Threads, Adopt(t)
    PROVE  IntentInvariant'
  <1> PICK s \in ThreadStates : s = th[t]
    BY ThreadFacts
  <1>0. /\ s \in ThreadStates /\ InOrder(t, s) /\ s.pc = "adopt"
        /\ s.kind \in KindsOf[t] /\ s.kind \in {"remove", "replace"}
        /\ UNCHANGED <<counter, point, inflight>> /\ RowOK
    BY ThreadFacts, KindAt DEF IntentInvariant, Adopt, At, FindPcs, TypeOK
  <1>1. PICK r \in s.todo :
           IF IdFree(r.digest, r.id)
             THEN /\ row' = Upsert(r.digest, r.id, "active")
                  /\ Goto(t, CASE s.todo # {r} -> [s EXCEPT !.todo = @ \ {r}]
                              [] s.todo = {r} /\ s.old = r ->
                                   [s EXCEPT !.pc = "mark_old", !.todo = {}]
                              [] OTHER -> Idle)
             ELSE row' = row /\ Goto(t, Idle)
    BY DEF Adopt
  <1>2. r.digest \in Digests /\ Holds(r)
    BY <1>0, ThreadFacts DEF InOrder, TodoInForce, Records
  <1>3. CASE row' = row /\ Goto(t, Idle)
    BY <1>0, <1>3, IdleInOrder, ReadingStep
  <1>4. CASE row' = Upsert(r.digest, r.id, "active")
             /\ Goto(t, CASE s.todo # {r} -> [s EXCEPT !.todo = @ \ {r}]
                         [] s.todo = {r} /\ s.old = r ->
                              [s EXCEPT !.pc = "mark_old", !.todo = {}]
                         [] OTHER -> Idle)
    <2>1. /\ \A e \in Digests \ {r.digest} : row'[e] = row[e]
          /\ row'[r.digest] = [status |-> "active", id |-> r.id]
      BY <1>0, <1>2, <1>4, UpsertRow
    <2>2. InOrder(t, [s EXCEPT !.todo = @ \ {r}])'
      <3> DEFINE z == [s EXCEPT !.todo = @ \ {r}]
      <3>1. z.pc = "adopt" /\ z.kind = s.kind /\ z.todo = s.todo \ {r}
        BY <1>0 DEF ThreadStates
      <3>2. OldInForce(z)' /\ StillSeen(z)'
        BY <3>1 DEF OldInForce, StillSeen, RemovePcs, NewPcs, HoldingPcs
      <3>3. TodoInForce(z)'
        BY <1>0, <3>1 DEF InOrder, TodoInForce, Holds
      <3> QED  BY <1>0, <3>1, <3>2, <3>3, Paths DEF InOrder, FindPcs
    <2>3. s.old = r => InOrder(t, [s EXCEPT !.pc = "mark_old", !.todo = {}])'
      <3> DEFINE z == [s EXCEPT !.pc = "mark_old", !.todo = {}]
      <3>1. z.pc = "mark_old" /\ z.kind = s.kind /\ z.todo = {} /\ z.old = s.old
        BY <1>0 DEF ThreadStates
      <3>2. s.old = r => OldInForce(z)'
        BY <2>1, <3>1 DEF OldInForce, RowIs, RemovePcs, NewPcs
      <3>3. TodoInForce(z)' /\ StillSeen(z)'
        BY <3>1 DEF TodoInForce, StillSeen, HoldingPcs
      <3> QED  BY <1>0, <3>1, <3>2, <3>3, Paths DEF InOrder, FindPcs
    <2>4. \E z : Goto(t, z) /\ InOrder(t, z)'
      BY <1>4, <2>2, <2>3, IdleInOrder
    <2>5. point[row'[r.digest].id] \in PointsWith(r.digest)
      BY <1>2, <2>1 DEF Holds
    <2> QED  BY <1>0, <1>2, <2>1, <2>4, <2>5, WritingStep
  <1> QED  BY <1>1, <1>3, <1>4

LEMMA MarkOldStep ==
    ASSUME TypeOK, OneExecutor, IntentInvariant, NEW t \in Threads, MarkOld(t)
    PROVE  IntentInvariant'
  <1> PICK s \in ThreadStates : s = th[t]
    BY ThreadFacts
  <1> DEFINE d == s.old.digest
             z == [s EXCEPT !.pc = IF s.kind = "remove" THEN "read_old" ELSE "look_up"]
  <1>0. /\ s \in ThreadStates /\ InOrder(t, s) /\ s.pc = "mark_old"
        /\ s.kind \in KindsOf[t] /\ s.kind \in {"remove", "replace"}
        /\ d \in Digests /\ RowIs(s.old, {"active", "delete_pending"})
        /\ UNCHANGED <<counter, point, inflight>> /\ RowOK
    BY ThreadFacts, KindAt DEF IntentInvariant, MarkOld, At, FindPcs, OldPcs,
         Records, InOrder, OldInForce, TypeOK
  <1>1. /\ row' = SetStatus(d, IntentStatus(s.kind)) /\ Goto(t, z)
    BY DEF MarkOld
  <1>2. /\ \A e \in Digests \ {d} : row'[e] = row[e]
        /\ row'[d].id = s.old.id /\ row'[d].status = IntentStatus(s.kind)
    BY <1>0, <1>1, SetStatusRow DEF RowIs
  <1>3. /\ z.pc = IF s.kind = "remove" THEN "read_old" ELSE "look_up"
        /\ z.kind = s.kind /\ z.todo = s.todo /\ z.old = s.old /\ z.new = s.new
    BY <1>0 DEF ThreadStates
  <1>4. OldInForce(z)'
    BY <1>0, <1>2, <1>3 DEF OldInForce, RowIs, IntentStatus, RemovePcs, NewPcs
  <1>5. TodoInForce(z)' /\ StillSeen(z)'
    BY <1>0, <1>3 DEF TodoInForce, StillSeen, HoldingPcs
  <1>6. InOrder(t, z)'
    BY <1>0, <1>3, <1>4, <1>5, Paths DEF InOrder, RemovePcs, NewPcs
  <1>7. row'[d].status # "active"
    BY <1>2 DEF IntentStatus
  <1> QED  BY <1>0, <1>1, <1>2, <1>6, <1>7, WritingStep

LEMMA SaveStep ==
    ASSUME TypeOK, OneExecutor, IntentInvariant, NEW t \in Threads,
           WriteAhead(t) \/ Commit(t)
    PROVE  IntentInvariant'
  <1> PICK s \in ThreadStates : s = th[t]
    BY ThreadFacts
  <1>0. /\ s \in ThreadStates /\ InOrder(t, s) /\ s.new \in Digests
        /\ s.pc \in {"write_ahead", "commit"}
        /\ s.kind \in KindsOf[t] /\ s.kind \in {"add", "replace"}
        /\ s.pc = "write_ahead" => WriteAhead(t)
        /\ s.pc = "commit" => Commit(t)
        /\ UNCHANGED <<counter, point, inflight>> /\ RowOK
    BY ThreadFacts, KindAt DEF IntentInvariant, WriteAhead, Commit, At, NewPcs, TypeOK
  <1>1. CASE row' = row /\ Goto(t, Idle)
    BY <1>0, <1>1, IdleInOrder, ReadingStep
  <1>2. ASSUME NEW st, NEW z \in ThreadStates, row' = Upsert(s.new, s.id, st),
               z.kind = s.kind, z.todo = s.todo, z.old = s.old, z.new = s.new,
               z.pc = "insert" => z.id = s.id,
               z.pc = "insert" \/ (z.pc = "retire_old" /\ s.kind = "replace")
        PROVE  InOrder(t, z)'
    <2>1. \A e \in Digests \ {s.new} : row'[e] = row[e]
      BY <1>0, <1>2, UpsertRow
    <2>2. s.kind = "replace" => s.old \in Records
      BY <1>0 DEF TypeOK, ThreadOK, NewPcs
    <2>3. OldInForce(z)'
      <3>1. ASSUME s.kind = "replace", s.new # s.old.digest
            PROVE  RowIs(s.old, {"replacing"})'
        BY <1>0, <2>1, <2>2, <3>1 DEF InOrder, OldInForce, RowIs, NewPcs, Records
      <3> QED
        BY <1>2, <3>1 DEF OldInForce, RemovePcs, NewPcs, SavePcs, RowIs
    <2>4. StillSeen(z)'
      BY <1>0, <1>2 DEF InOrder, StillSeen, HoldingPcs, ClearFor
    <2>5. TodoInForce(z)'
      BY <1>0, <1>2 DEF TodoInForce
    <2> QED  BY <1>0, <1>2, <2>3, <2>4, <2>5, Paths DEF InOrder, NewPcs
  <1>3. CASE /\ row' = Upsert(s.new, s.id, "inserting")
             /\ Goto(t, [s EXCEPT !.pc = "insert"])
    <2>0. ASSUME NEW z, z = [s EXCEPT !.pc = "insert"]
          PROVE  InOrder(t, z)'
      <3>1. z \in ThreadStates
        BY <2>0 DEF ThreadStates, Pcs, RpcPcs, InsertPcs
      <3>2. /\ z.pc = "insert" /\ z.kind = s.kind /\ z.todo = s.todo
            /\ z.old = s.old /\ z.new = s.new /\ z.id = s.id
        BY <2>0 DEF ThreadStates
      <3> QED  BY <1>2, <1>3, <3>1, <3>2
    <2>1. \E z : Goto(t, z) /\ InOrder(t, z)'
      BY <1>3, <2>0
    <2>2. /\ \A e \in Digests \ {s.new} : row'[e] = row[e]
          /\ row'[s.new].status = "inserting"
      BY <1>0, <1>3 DEF RowOK, Upsert
    <2> QED  BY <1>0, <1>3, <2>1, <2>2, WritingStep
  <1>4. CASE /\ row' = Upsert(s.new, s.id, "active") /\ s.pc = "commit"
             /\ Goto(t, IF s.kind = "replace"
                          THEN [s EXCEPT !.pc = "retire_old", !.id = 0] ELSE Idle)
    <2>0. ASSUME NEW z, z = [s EXCEPT !.pc = "retire_old", !.id = 0], s.kind = "replace"
          PROVE  InOrder(t, z)'
      <3>1. z \in ThreadStates
        BY <2>0 DEF ThreadStates, Pcs
      <3>2. /\ z.pc = "retire_old" /\ z.kind = s.kind /\ z.todo = s.todo
            /\ z.old = s.old /\ z.new = s.new
        BY <2>0 DEF ThreadStates
      <3> QED  BY <1>2, <1>4, <2>0, <3>1, <3>2
    <2>1. s.kind = "replace" => InOrder(t, [s EXCEPT !.pc = "retire_old", !.id = 0])'
      BY <2>0
    <2>2. \E z : Goto(t, z) /\ InOrder(t, z)'
      BY <1>4, <2>1, IdleInOrder
    <2>3. /\ \A e \in Digests \ {s.new} : row'[e] = row[e]
          /\ row'[s.new].id = s.id
      BY <1>0, <1>4 DEF RowOK, Upsert
    <2>4. point[s.id] = Own(s.new)
      BY <1>0, <1>4 DEF InOrder, StillSeen
    <2> QED  BY <1>0, <2>2, <2>3, <2>4, WritingStep DEF PointsWith
  <1> QED  BY <1>0, <1>1, <1>3, <1>4 DEF WriteAhead, Commit

LEMMA FailedReplaceStep ==
    ASSUME TypeOK, OneExecutor, IntentInvariant, NEW t \in Threads,
           MarkRetry(t) \/ Reinstate(t)
    PROVE  IntentInvariant'
  <1> PICK s \in ThreadStates : s = th[t]
    BY ThreadFacts
  <1>0. /\ s \in ThreadStates /\ InOrder(t, s) /\ RowOK
        /\ UNCHANGED <<counter, point, inflight>>
    BY ThreadFacts DEF IntentInvariant, MarkRetry, Reinstate, TypeOK
  <1>1. CASE MarkRetry(t)
    <2>1. s.pc = "mark_retry" /\ s.new \in Digests /\ s.kind \in KindsOf[t]
      BY <1>0, <1>1, ThreadFacts, KindAt DEF MarkRetry, At, NewPcs
    <2>2. ASSUME s.kind = "replace"
          PROVE  InOrder(t, [s EXCEPT !.pc = "reinstate"])'
      <3> DEFINE z == [s EXCEPT !.pc = "reinstate"]
      <3>1. z.pc = "reinstate" /\ z.kind = "replace" /\ z.todo = s.todo
        BY <1>0, <2>2 DEF ThreadStates
      <3>2. OldInForce(z)' /\ TodoInForce(z)' /\ StillSeen(z)'
        BY <3>1 DEF OldInForce, TodoInForce, StillSeen, RemovePcs, NewPcs, HoldingPcs
      <3> QED  BY <2>1, <2>2, <3>1, <3>2, Paths DEF InOrder
    <2>3. Goto(t, StoreFailed(s)) /\ row' = SetStatus(s.new, "retry_pending")
      BY <1>1 DEF MarkRetry
    <2>4. InOrder(t, StoreFailed(s))'
      BY <2>2, IdleInOrder DEF StoreFailed
    <2>5. /\ \A e \in Digests \ {s.new} : row'[e] = row[e]
          /\ row'[s.new].status = "active" => row[s.new].status = "absent"
      BY <1>0, <2>1, <2>3, SetStatusRow
    <2>6. row'[s.new].status # "active"
      BY <1>0, <2>1, <2>3 DEF RowOK, SetStatus
    <2> QED  BY <1>0, <2>1, <2>3, <2>4, <2>5, <2>6, WritingStep
  <1>2. CASE Reinstate(t)
    <2>1. s.pc = "reinstate" /\ s.kind = "replace" /\ s.kind \in KindsOf[t]
          /\ s.old.digest \in Digests
      BY <1>0, <1>2, ThreadFacts, KindAt DEF Reinstate, At, OldPcs, Records
    <2>2. Replaces
      BY <2>1 DEF Replaces
    <2>3. \A e \in Digests \ {s.old.digest} : row'[e] = row[e]
      BY <1>0, <1>2, <2>1, SetStatusRow DEF Reinstate
    <2>4. Goto(t, Idle)
      BY <1>2 DEF Reinstate
    <2> QED  BY <1>0, <2>1, <2>2, <2>3, <2>4, IdleInOrder, WritingStep
  <1> QED  BY <1>1, <1>2

LEMMA RetireOldStep ==
    ASSUME TypeOK, OneExecutor, IntentInvariant, NEW t \in Threads, RetireOld(t)
    PROVE  IntentInvariant'
  <1> PICK s \in ThreadStates : s = th[t]
    BY ThreadFacts
  <1> DEFINE d == s.old.digest
             z == [s EXCEPT !.pc = "read_old", !.new = NoDigest]
  <1>0. /\ s \in ThreadStates /\ InOrder(t, s) /\ RowOK /\ s.pc = "retire_old"
        /\ s.kind = "replace" /\ s.kind \in KindsOf[t] /\ d \in Digests
        /\ UNCHANGED <<counter, point, inflight>>
    BY ThreadFacts, KindAt DEF IntentInvariant, RetireOld, At, OldPcs, Records, TypeOK
  <1>1. Replaces
    BY <1>0 DEF Replaces
  <1>2. CASE s.new = d
    <2>1. \A e \in Digests \ {d} : row'[e] = row[e]
      BY <1>0, <1>2, SetStatusRow DEF RetireOld
    <2>2. Goto(t, Idle)
      BY <1>2 DEF RetireOld
    <2> QED  BY <1>0, <1>1, <2>1, <2>2, IdleInOrder, WritingStep
  <1>3. CASE s.new # d
    <2>1. row' = SetStatus(d, "delete_pending") /\ Goto(t, z)
      BY <1>3 DEF RetireOld
    <2>2. RowIs(s.old, {"replacing"})
      BY <1>0, <1>3 DEF InOrder, OldInForce, NewPcs
    <2>3. /\ \A e \in Digests \ {d} : row'[e] = row[e]
          /\ row'[d].id = s.old.id /\ row'[d].status = "delete_pending"
      BY <1>0, <2>1, <2>2, SetStatusRow DEF RowIs
    <2>4. /\ z.pc = "read_old" /\ z.kind = "replace" /\ z.todo = s.todo
          /\ z.old = s.old
      BY <1>0 DEF ThreadStates
    <2>5. OldInForce(z)' /\ TodoInForce(z)' /\ StillSeen(z)'
      BY <2>3, <2>4 DEF OldInForce, TodoInForce, StillSeen, RowIs, NewPcs, HoldingPcs
    <2>6. InOrder(t, z)'
      BY <1>0, <2>4, <2>5, Paths DEF InOrder, RemovePcs
    <2> QED  BY <1>0, <1>1, <2>1, <2>3, <2>6, WritingStep
  <1> QED  BY <1>2, <1>3

LEMMA SettleStep ==
    ASSUME TypeOK, OneExecutor, IntentInvariant, NEW t \in Threads,
           MarkDone(t) \/ DeleteFailed(t) \/ MarkChecked(t)
    PROVE  IntentInvariant'
  <1> PICK s \in ThreadStates : s = th[t]
    BY ThreadFacts
  <1> DEFINE d == s.old.digest
  <1>0. /\ s \in ThreadStates /\ InOrder(t, s) /\ RowOK
        /\ s.pc \in {"mark_done", "delete_failed", "mark_absent", "mark_active",
                      "mark_conflict"}
        /\ UNCHANGED <<counter, point, inflight>> /\ Goto(t, After(s))
    BY ThreadFacts DEF IntentInvariant, MarkDone, DeleteFailed, MarkChecked, At, TypeOK
  <1>1. d \in Digests /\ row[d].id = s.old.id
    BY <1>0, ThreadFacts DEF OldPcs, Records, InOrder, OldInForce, RowIs, RemovePcs
  <1>2. \E st : row' = SetStatus(d, st) /\ (st = "active" => s.pc = "mark_active")
    BY <1>0 DEF MarkDone, DeleteFailed, MarkChecked, FinalStatus, At
  <1>3. /\ \A e \in Digests \ {d} : row'[e] = row[e]
        /\ row'[d].id = s.old.id
        /\ row'[d].status = "active" =>
              s.pc = "mark_active" \/ row[d].status = "active"
    BY <1>0, <1>1, <1>2 DEF RowOK, SetStatus
  <1>4. InOrder(t, After(s))'
    BY <1>0, <1>3, AfterInOrder
  <1>5. row[d].status # "active"
    BY <1>0 DEF InOrder, OldInForce, RowIs, RemovePcs, Unproved
  <1>6. s.pc = "mark_active" => point[s.old.id] = Own(d)
    BY <1>0 DEF InOrder, StillSeen
  <1> QED  BY <1>0, <1>1, <1>3, <1>4, <1>5, <1>6, WritingStep DEF PointsWith

-----------------------------------------------------------------------------
(* Steps that raise the counter, and writes to the collection.              *)

\* Only what the next step has seen depends on anything but the ledger rows.
LEMMA SeenAnew ==
    ASSUME NEW t, NEW z, InOrder(t, z), z.pc # "adopt", UNCHANGED row, StillSeen(z)'
    PROVE  InOrder(t, z)'
  BY DEF InOrder, OldInForce, TodoInForce, RowIs

LEMMA NothingSeen ==
    ASSUME NEW t, NEW z, InOrder(t, z), UNCHANGED row,
           z.pc \notin HoldingPcs \cup {"adopt", "probe", "delete", "mark_active"}
    PROVE  InOrder(t, z)'
  <1>1. StillSeen(z)'
    BY DEF InOrder, StillSeen, HoldingPcs
  <1> QED  BY <1>1, SeenAnew

LEMMA StoreFailedPc ==
    ASSUME NEW s \in ThreadStates
    PROVE  StoreFailed(s).pc \in {"reinstate", "idle"}
  BY DEF StoreFailed, Idle, ThreadStates

LEMMA NextIdInOrder ==
    ASSUME TypeOK, OneExecutor, IntentInvariant, NEW t \in Threads, NextExternalId(t)
    PROVE  \E z : Goto(t, z) /\ InOrder(t, z)'
  <1> PICK s \in ThreadStates : s = th[t]
    BY ThreadFacts
  <1>0. /\ InOrder(t, s) /\ s.pc = "next_id" /\ s.kind \in {"add", "replace"}
        /\ counter \in Nat /\ counter' = counter + 1 /\ UNCHANGED <<row, inflight>>
    BY KindAt DEF IntentInvariant, NextExternalId, At, NewPcs, TypeOK, NextCounter
  <1>1. ASSUME NEW z, z = [s EXCEPT !.pc = "probe", !.id = counter]
        PROVE  InOrder(t, z)'
    <2>1. /\ z.pc = "probe" /\ z.kind = s.kind /\ z.todo = s.todo
          /\ z.old = s.old /\ z.new = s.new /\ z.id = counter
      BY <1>1 DEF ThreadStates
    <2>2. OldInForce(z)'
      BY <1>0, <2>1 DEF InOrder, OldInForce, RemovePcs, NewPcs, SavePcs, RowIs
    <2>3. TodoInForce(z)'
      BY <1>0, <2>1 DEF InOrder, TodoInForce
    <2>4. \A m \in inflight : m.id < counter /\ m.id \in Int
      BY DEF TypeOK, Messages, Ids, IntentInvariant, ClearFor
    <2>5. StillSeen(z)'
      BY <1>0, <2>1, <2>4 DEF StillSeen, HoldingPcs
    <2> QED  BY <1>0, <2>1, <2>2, <2>3, <2>5, Paths DEF InOrder, NewPcs
  <1> QED  BY <1>1 DEF NextExternalId

LEMMA OccupiedInOrder ==
    ASSUME TypeOK, OneExecutor, IntentInvariant, NEW t \in Threads, ProbeOccupied(t)
    PROVE  \E z : Goto(t, z) /\ InOrder(t, z)'
  <1> PICK s \in ThreadStates : s = th[t]
    BY ThreadFacts
  <1>0. /\ InOrder(t, s) /\ s.pc = "probe" /\ s.kind \in {"add", "replace"}
        /\ UNCHANGED row
    BY KindAt DEF IntentInvariant, ProbeOccupied, At, NewPcs
  <1>1. InOrder(t, StoreFailed(s))'
    BY <1>0, StoreFailedInOrder, StoreFailedPc, NothingSeen DEF HoldingPcs
  <1>2. ASSUME NEW z, z = [s EXCEPT !.pc = "next_id", !.id = 0, !.tries = @ + 1]
        PROVE  InOrder(t, z)'
    <2>1. /\ z.pc = "next_id" /\ z.kind = s.kind /\ z.todo = s.todo
          /\ z.old = s.old /\ z.new = s.new
      BY <1>2 DEF ThreadStates
    <2>2. OldInForce(z) /\ StillSeen(z)
      BY <1>0, <2>1 DEF InOrder, OldInForce, StillSeen, RemovePcs, NewPcs, SavePcs,
                        HoldingPcs
    <2>3. InOrder(t, z)
      BY <1>0, <2>1, <2>2, GoesOn, Paths DEF NewPcs
    <2> QED  BY <1>0, <2>1, <2>3, NothingSeen DEF HoldingPcs
  <1> QED  BY <1>1, <1>2 DEF ProbeOccupied

LEMMA CounterStep ==
    ASSUME TypeOK, OneExecutor, IntentInvariant, [Next]_vars, NEW t \in Threads,
           NextExternalId(t) \/ ProbeOccupied(t)
    PROVE  IntentInvariant'
  <1>1. (\A u \in Threads : InOrder(u, th[u]))'
    BY NextIdInOrder, OccupiedInOrder, NextInOrder
  <1>2. /\ UNCHANGED <<row, point, inflight>>
        /\ counter \in Nat /\ counter' \in Nat /\ counter' >= counter
    BY CounterGrows, TypePreserved DEF TypeOK, NextExternalId, ProbeOccupied
  <1>3. \A i \in Int : i < counter => i < counter'
    BY <1>2
  <1>4. (\A m \in inflight : m.op = "insert" /\ ClearFor(m.digest, m.id))'
    BY <1>2, <1>3 DEF IntentInvariant, ClearFor, TypeOK, Messages, Ids
  <1>5. (\A i \in Ids : point[i].kind = "own" => i < counter)'
    BY <1>2, <1>3 DEF IntentInvariant, Ids
  <1> QED  BY <1>1, <1>2, <1>4, <1>5 DEF IntentInvariant, ActiveIsStored

\* What an insert leaves its thread to do, wherever the point went.
LEMMA InsertSent ==
    ASSUME TypeOK, IntentInvariant, NEW t \in Threads,
           NEW s \in ThreadStates, s = th[t], s.pc = "insert",
           UNCHANGED row, ClearFor(s.new, s.id)',
           Goto(t, Verifying(t)) \/ Goto(t, OnError(s))
    PROVE  \E z : Goto(t, z) /\ InOrder(t, z)'
  <1>0. InOrder(t, s) /\ s.kind \in {"add", "replace"}
    BY KindAt DEF IntentInvariant, NewPcs
  <1>1. InOrder(t, OnError(s))'
    <2>1. OnError(s).pc = "mark_retry"
      BY DEF OnError, StorePcs, InsertPcs, DeletePcs, ThreadStates
    <2> QED  BY <1>0, <2>1, OnErrorInOrder, NothingSeen DEF RpcPcs, InsertPcs, HoldingPcs
  <1>2. ASSUME NEW z, z = [s EXCEPT !.pc = "verify", !.tries = 1]
        PROVE  InOrder(t, z)'
    <2>1. /\ z.pc = "verify" /\ z.kind = s.kind /\ z.todo = s.todo
          /\ z.old = s.old /\ z.new = s.new /\ z.id = s.id
      BY <1>2 DEF ThreadStates
    <2>2. OldInForce(z) /\ StillSeen(z)
      BY <1>0, <2>1 DEF InOrder, OldInForce, StillSeen, RemovePcs, NewPcs, SavePcs,
                        HoldingPcs
    <2>3. InOrder(t, z)
      BY <1>0, <2>1, <2>2, GoesOn, Paths DEF NewPcs
    <2>4. StillSeen(z)'
      BY <2>1 DEF StillSeen
    <2> QED  BY <2>1, <2>3, <2>4, SeenAnew
  <1> QED  BY <1>1, <1>2 DEF Verifying

\* At most one memory is known to be at a point, or on its way there.
LEMMA Values ==
    /\ \A d, e : PointsWith(d) \cap PointsWith(e) # {} => d = e
    /\ \A d, e : Own(e) \in PointsWith(d) => d = e
    /\ \A d : {NoPoint, Foreign} \cap PointsWith(d) = {}
  BY DEF PointsWith, Own, Legacy, Alien, NoPoint, Foreign

LEMMA InsertStep ==
    ASSUME TypeOK, OneExecutor, IntentInvariant, NEW t \in Threads,
           InsertApplied(t) \/ InsertDelayed(t)
    PROVE  IntentInvariant'
  <1> PICK s \in ThreadStates : s = th[t]
    BY ThreadFacts
  <1>0. /\ s.pc = "insert" /\ s.new \in Digests /\ s.id \in Ids
        /\ ClearFor(s.new, s.id) /\ UNCHANGED <<row, counter>>
        /\ Goto(t, Verifying(t)) \/ Goto(t, OnError(s))
    BY ThreadFacts DEF InsertApplied, InsertDelayed, At, NewPcs, IdPcs, ledger,
         IntentInvariant, InOrder, StillSeen, HoldingPcs
  <1>1. \/ point' = [point EXCEPT ![s.id] = Own(s.new)] /\ inflight' = inflight
        \/ point' = point /\ inflight' = inflight \cup
             {[op |-> "insert", digest |-> s.new, id |-> s.id]}
    BY DEF InsertApplied, InsertDelayed, Insertion
  <1>2. /\ \A i \in Ids \ {s.id} : point'[i] = point[i]
        /\ point'[s.id] \in {point[s.id], Own(s.new)}
    BY <1>0, <1>1 DEF TypeOK
  <1>3. \A m \in inflight' :
           \/ m \in inflight
           \/ m.op = "insert" /\ m.digest = s.new /\ m.id = s.id
    BY <1>1
  <1>4. \A m \in inflight : m.id = s.id => m.digest = s.new
    BY <1>0 DEF ClearFor
  <1>5. ClearFor(s.new, s.id)'
    BY <1>0, <1>2, <1>3, <1>4 DEF ClearFor
  <1>6. (\A u \in Threads : InOrder(u, th[u]))'
    BY <1>0, <1>5, InsertSent, NextInOrder
  <1>7. (\A m \in inflight : m.op = "insert" /\ ClearFor(m.digest, m.id))'
    <2> SUFFICES ASSUME NEW m \in inflight'
                 PROVE  m.op = "insert" /\ ClearFor(m.digest, m.id)'
      OBVIOUS
    <2>1. CASE m.id = s.id
      BY <1>3, <1>4, <1>5, <2>1 DEF IntentInvariant
    <2>2. CASE m.id # s.id
      <3>1. m \in inflight /\ m.id \in Ids /\ ClearFor(m.digest, m.id) /\ m.op = "insert"
        BY <1>3, <2>2 DEF TypeOK, Messages, IntentInvariant
      <3>2. \A n \in inflight' : n.id = m.id => n.digest = m.digest
        BY <1>3, <2>2, <3>1 DEF ClearFor
      <3> QED  BY <1>0, <1>2, <2>2, <3>1, <3>2 DEF ClearFor
    <2> QED  BY <2>1, <2>2
  <1>8. (\A i \in Ids : point[i].kind = "own" => i < counter)'
    BY <1>0, <1>2 DEF IntentInvariant, ClearFor
  <1>9. ASSUME ~Replaces, NEW d \in Digests, row'[d].status = "active"
        PROVE  point'[row'[d].id] \in PointsWith(d)
    <2>1. row' = row /\ point[row[d].id] \in PointsWith(d) /\ row[d].id \in Ids
      BY <1>0, <1>9 DEF IntentInvariant, ActiveIsStored, TypeOK, RowOK
    <2>2. ASSUME row[d].id = s.id PROVE d = s.new
      <3>1. point[s.id] \in PointsWith(d)
        BY <2>1, <2>2
      <3>2. point[s.id] \in {NoPoint, Foreign, Own(s.new)}
        BY <1>0 DEF ClearFor
      <3>3. point[s.id] \notin {NoPoint, Foreign}
        BY ONLY <3>1, Values
      <3> QED  BY ONLY <3>1, <3>2, <3>3, Values
    <2> QED  BY <1>2, <2>1, <2>2 DEF PointsWith
  <1> QED  BY <1>6, <1>7, <1>8, <1>9 DEF IntentInvariant, ActiveIsStored, Replaces

LEMMA DeleteStep ==
    ASSUME TypeOK, OneExecutor, IntentInvariant, NEW t \in Threads, DeleteApplied(t)
    PROVE  IntentInvariant'
  <1> PICK s \in ThreadStates : s = th[t]
    BY ThreadFacts
  <1>0. /\ s.pc = "delete" /\ s.old \in Records /\ InOrder(t, s)
        /\ RowIs(s.old, {"delete_pending"}) /\ Holds(s.old)
        /\ UNCHANGED <<row, counter, inflight>>
        /\ Goto(t, [s EXCEPT !.pc = "read_back"]) \/ Goto(t, DeleteRaised(s))
    BY ThreadFacts DEF DeleteApplied, At, OldPcs, DeletePcs, ledger, IntentInvariant,
         InOrder, StillSeen, OldInForce, RemovePcs
  <1>1. /\ \A i \in Ids \ {s.old.id} : point'[i] = point[i]
        /\ point'[s.old.id] = NoPoint
    BY <1>0 DEF DeleteApplied, TypeOK, Records
  <1>2. InOrder(t, DeleteRaised(s))'
    <2>1. DeleteRaised(s).pc \in {"idle", "delete_failed"}
      BY DEF DeleteRaised, Idle, ThreadStates
    <2> QED  BY <1>0, <2>1, DeleteRaisedInOrder, NothingSeen DEF DeletePcs, HoldingPcs
  <1>3. ASSUME NEW z, z = [s EXCEPT !.pc = "read_back"]
        PROVE  InOrder(t, z)'
    <2>1. /\ z.pc = "read_back" /\ z.kind = s.kind /\ z.todo = s.todo
          /\ z.old = s.old /\ z.new = s.new
      BY <1>3 DEF ThreadStates
    <2>2. OldInForce(z) /\ StillSeen(z) /\ s.kind \in {"remove", "replace", "reconcile_deletes"}
      BY <1>0, <2>1, KindAt DEF OldInForce, StillSeen, RemovePcs, NewPcs, HoldingPcs
    <2>3. InOrder(t, z)
      BY <1>0, <2>1, <2>2, GoesOn, Paths DEF RemovePcs, FindPcs
    <2> QED  BY <1>0, <2>1, <2>3, NothingSeen DEF HoldingPcs
  <1>4. (\A u \in Threads : InOrder(u, th[u]))'
    BY <1>0, <1>2, <1>3, NextInOrder
  <1>5. (\A m \in inflight : m.op = "insert" /\ ClearFor(m.digest, m.id))'
    BY <1>0, <1>1 DEF IntentInvariant, ClearFor, TypeOK, Messages
  <1>6. (\A i \in Ids : point[i].kind = "own" => i < counter)'
    BY <1>0, <1>1 DEF IntentInvariant, NoPoint
  <1>7. ASSUME ~Replaces, NEW d \in Digests, row'[d].status = "active"
        PROVE  point'[row'[d].id] \in PointsWith(d)
    <2>1. row' = row /\ point[row[d].id] \in PointsWith(d) /\ row[d].id \in Ids
      BY <1>0, <1>7 DEF IntentInvariant, ActiveIsStored, TypeOK, RowOK
    <2>2. row[d].id = s.old.id => d = s.old.digest
      BY <1>0, <2>1, Values DEF Holds
    <2> QED  BY <1>0, <1>1, <1>7, <2>1, <2>2 DEF RowIs
  <1> QED  BY <1>4, <1>5, <1>6, <1>7 DEF IntentInvariant, ActiveIsStored, Replaces

\* What comes from outside takes vacant places, or those of others, and each
\* only the place that was cleared for it.
LEMMA OutsideStep ==
    ASSUME TypeOK, OneExecutor, IntentInvariant,
           UNCHANGED <<row, counter, th>>, inflight' \subseteq inflight,
           \A i \in Ids : \/ point'[i] = point[i]
                          \/ /\ point[i] = NoPoint
                             /\ point'[i] = Foreign
                          \/ \E m \in inflight : m.id = i /\ point'[i] = Own(m.digest)
    PROVE  IntentInvariant'
  <1>1. ASSUME NEW i \in Ids, NEW d, point[i] \in PointsWith(d)
        PROVE  point'[i] = point[i] \/ point'[i] = Own(d)
    <2>1. point[i] # NoPoint /\ point[i] # Foreign
      BY <1>1, Values
    <2>2. ASSUME NEW m \in inflight, m.id = i
          PROVE  m.digest = d
      <3>1. point[i] = Own(m.digest)
        BY <2>1, <2>2 DEF IntentInvariant, ClearFor
      <3> QED  BY <1>1, <3>1, Values
    <2> QED  BY <2>1, <2>2
  <1>2. ASSUME NEW i \in Ids, NEW d, ClearFor(d, i)
        PROVE  ClearFor(d, i)'
    <2>1. point'[i] \in {NoPoint, Foreign, Own(d)}
      BY <1>2 DEF ClearFor
    <2> QED  BY <1>2, <2>1 DEF ClearFor
  <1>3. ASSUME NEW t \in Threads, NEW s \in ThreadStates, s = th[t]
        PROVE  InOrder(t, s)'
    <2>0. InOrder(t, s)
      BY <1>3 DEF IntentInvariant
    <2>1. \A r \in Records : Holds(r) => Holds(r)'
      BY <1>1 DEF Holds, Records, PointsWith
    <2>2. OldInForce(s)'
      BY <2>0 DEF InOrder, OldInForce, RowIs
    <2>3. TodoInForce(s)'
      BY <1>3, <2>0, <2>1, ThreadFacts DEF InOrder, TodoInForce, RowIs
    <2>4. s.pc = "search" => (\A d \in s.needle : row[d].status # "active")'
      BY <2>0 DEF InOrder, StillSeen
    <2>5. s.pc = "probe" => (s.id < counter /\ \A m \in inflight : m.id # s.id)'
      BY <2>0 DEF InOrder, StillSeen
    <2>6. s.pc \in HoldingPcs => ClearFor(s.new, s.id)'
      BY <1>2, <1>3, <2>0, ThreadFacts DEF InOrder, StillSeen, HoldingPcs, IdPcs
    <2>7. s.pc = "commit" => (point[s.id] = Own(s.new))'
      BY <1>1, <1>3, <2>0, ThreadFacts DEF InOrder, StillSeen, IdPcs,
          PointsWith
    <2>8. s.pc = "delete" => Holds(s.old)'
      BY <1>3, <2>0, <2>1, ThreadFacts DEF InOrder, StillSeen, OldPcs, DeletePcs
    <2>9. s.pc = "mark_active" => (point[s.old.id] = Own(s.old.digest))'
      BY <1>1, <1>3, <2>0, ThreadFacts DEF InOrder, StillSeen, OldPcs, Records,
          PointsWith
    <2>10. StillSeen(s)'
      BY <2>4, <2>5, <2>6, <2>7, <2>8, <2>9 DEF StillSeen
    <2> QED  BY <2>0, <2>2, <2>3, <2>10 DEF InOrder
  <1>4. (\A t \in Threads : InOrder(t, th[t]))'
    <2> SUFFICES ASSUME NEW t \in Threads
                 PROVE  InOrder(t, th[t])'
      OBVIOUS
    <2>1. PICK s \in ThreadStates : s = th[t]
      BY ThreadFacts
    <2>2. InOrder(t, s)' /\ s = th'[t]
      BY <1>3, <2>1
    <2> QED  BY <2>2 DEF InOrder, OldInForce, TodoInForce, StillSeen
  <1>5. (\A m \in inflight : m.op = "insert" /\ ClearFor(m.digest, m.id))'
    BY <1>2 DEF IntentInvariant, TypeOK, Messages
  <1>6. (\A i \in Ids : point[i].kind = "own" => i < counter)'
    BY DEF IntentInvariant, ClearFor, Foreign
  <1>7. (~Replaces => ActiveIsStored)'
    <2> SUFFICES ASSUME ~Replaces, NEW d \in Digests, row'[d].status = "active"
                 PROVE  point'[row'[d].id] \in PointsWith(d)
      BY DEF ActiveIsStored, Replaces
    <2>1. row' = row /\ point[row[d].id] \in PointsWith(d) /\ row[d].id \in Ids
      BY DEF IntentInvariant, ActiveIsStored, TypeOK, RowOK
    <2> QED  BY <1>1, <2>1 DEF PointsWith
  <1> QED  BY <1>4, <1>5, <1>6, <1>7 DEF IntentInvariant

LEMMA EnvironmentInOrder ==
    ASSUME TypeOK, OneExecutor, IntentInvariant, Land \/ Crash \/ ForeignWrite
    PROVE  IntentInvariant'
  <1>1. CASE Land
    <2>1. PICK m \in inflight :
             /\ inflight' = inflight \ {m}
             /\ point' = [point EXCEPT ![m.id] =
                            IF m.op = "insert" THEN Own(m.digest) ELSE NoPoint]
      BY <1>1 DEF Land
    <2>2. m.op = "insert" /\ m.id \in Ids
      BY <2>1 DEF IntentInvariant, TypeOK, Messages
    <2>3. \A i \in Ids : \/ point'[i] = point[i]
                         \/ \E n \in inflight : n.id = i /\ point'[i] = Own(n.digest)
      BY <2>1, <2>2 DEF TypeOK
    <2>4. UNCHANGED <<row, counter, th>> /\ inflight' \subseteq inflight
      BY <1>1, <2>1 DEF Land, ledger
    <2> QED  BY <2>3, <2>4, OutsideStep
  <1>2. CASE Crash
    <2>1. UNCHANGED <<row, counter, point, inflight>> /\ th' = [t \in Threads |-> Idle]
      BY <1>2 DEF Crash, ledger
    <2>2. (\A t \in Threads : InOrder(t, th[t]))'
      BY <2>1 DEF InOrder, OldInForce, TodoInForce, StillSeen, Idle, RemovePcs, NewPcs,
                  HoldingPcs
    <2>3. (\A m \in inflight : m.op = "insert" /\ ClearFor(m.digest, m.id))'
      BY <2>1 DEF IntentInvariant, ClearFor
    <2> QED  BY <2>1, <2>2, <2>3 DEF IntentInvariant, ActiveIsStored
  <1>3. CASE ForeignWrite
    <2>1. PICK j \in Ids : Vacant(point[j]) /\ point' = [point EXCEPT ![j] = Foreign]
      BY <1>3 DEF ForeignWrite
    <2>2. point[j] = NoPoint
      BY <2>1, ConstantsAssumption DEF Vacant, TypeOK, Contents, NoPoint
    <2>3. \A i \in Ids : \/ point'[i] = point[i]
                         \/ point[i] = NoPoint /\ point'[i] = Foreign
      BY <2>1, <2>2 DEF TypeOK
    <2>4. UNCHANGED <<row, counter, th>> /\ inflight' \subseteq inflight
      BY <1>3 DEF ForeignWrite, ledger
    <2> QED  BY <2>3, <2>4, OutsideStep
  <1> QED  BY <1>1, <1>2, <1>3

LEMMA ReadersInOrder ==
    ASSUME TypeOK, OneExecutor, IntentInvariant, NEW t \in Threads,
           \/ Request(t) \/ SearchLegacy(t) \/ RpcError(t)
           \/ LookUp(t) \/ ReadKnown(t) \/ ProbeVacant(t) \/ VerifyReadback(t)
           \/ ReadOld(t) \/ ReadBack(t) \/ DeleteRefused(t)
           \/ ListRetries(t) \/ NextPending(t) \/ SkipPending(t)
           \/ ReadPending(t) \/ CheckInsert(t)
    PROVE  IntentInvariant'
  <1>1. UNCHANGED <<row, counter, point, inflight>>
    BY DEF Request, BeginAdd, BeginRemove, BeginReplace, BeginReconcile, SearchLegacy,
           RpcError, LookUp, ReadKnown, ProbeVacant, VerifyReadback, ReadOld, ReadBack,
           DeleteRefused, NextPending, ListRetries, SkipPending, ReadPending, CheckInsert, ledger
  <1>2. RpcError(t) => \E z : Goto(t, z) /\ InOrder(t, z)
    BY ThreadFacts, OnErrorInOrder DEF RpcError, IntentInvariant
  <1>3. \E z : Goto(t, z) /\ InOrder(t, z)
    BY <1>2, RequestReads, SearchReads, StoreReads, RemoveReads, PassReads
  <1> QED  BY <1>1, <1>3, ReadingStep

LEMMA IntentStep ==
    ASSUME TypeOK, OneExecutor, "late_delete" \notin Environment,
           IntentInvariant, [Next]_vars
    PROVE  IntentInvariant'
  <1>1. CASE UNCHANGED vars
    BY <1>1 DEF vars, IntentInvariant, InOrder, OldInForce, TodoInForce, StillSeen,
                RowIs, Holds, ClearFor, ActiveIsStored
  <1>2. ASSUME NEW t \in Threads, Step(t)
        PROVE  IntentInvariant'
    <2>1. CASE Store(t)
      BY <2>1, ReadersInOrder, CounterStep, SaveStep, InsertStep, FailedReplaceStep
         DEF Store
    <2>2. CASE Delete(t)
      BY <2>2, ReadersInOrder, DeleteStep, SettleStep DEF Delete, DeleteDelayed
    <2>3. CASE Reconcile(t)
      BY <2>3, ReadersInOrder, SettleStep DEF Reconcile
    <2>4. CASE SearchLegacy(t) \/ Adopt(t) \/ MarkOld(t) \/ Reinstate(t) \/ RetireOld(t)
      BY <2>4, ReadersInOrder, AdoptStep, MarkOldStep, FailedReplaceStep, RetireOldStep
    <2> QED  BY <1>2, <2>1, <2>2, <2>3, <2>4 DEF Step
  <1>3. ASSUME NEW t \in Threads, Request(t) \/ RpcError(t)
        PROVE  IntentInvariant'
    BY <1>3, ReadersInOrder
  <1>4. CASE Land \/ Crash \/ ForeignWrite
    BY <1>4, EnvironmentInOrder
  <1> QED  BY <1>1, <1>2, <1>3, <1>4 DEF Next

LEMMA InOrderAtStart ==
    ASSUME Init, NothingSigned
    PROVE  IntentInvariant
  <1>1. \A t \in Threads : InOrder(t, th[t])
    BY DEF Init, InOrder, OldInForce, TodoInForce, StillSeen, Idle, RemovePcs, NewPcs,
           HoldingPcs
  <1>2. inflight = {} /\ \A i \in Ids : point[i].kind # "own"
    BY DEF Init, NothingSigned
  <1>3. ActiveIsStored
    BY DEF Init, ActiveIsStored
  <1> QED  BY <1>1, <1>2, <1>3 DEF IntentInvariant

\* With one executor, whatever lands late, crashes or fails: what a step read,
\* or wrote ahead, is still so when the next one relies on it
\* (_store_content_sync, _delete_verified, both reconciliation passes).
THEOREM IntentCorrect ==
    ASSUME OneExecutor, NothingSigned, "late_delete" \notin Environment
    PROVE  Spec => []IntentInvariant
  <1>1. Init => IntentInvariant
    BY InOrderAtStart
  <1>2. TypeOK /\ IntentInvariant /\ [Next]_vars => IntentInvariant'
    BY IntentStep
  <1> QED  BY <1>1, <1>2, TypeCorrect, PTL DEF Spec

\* Without a replace, whose failure reinstates the old record unseen, a memory
\* the ledger calls active is in the collection.
THEOREM ActiveStored ==
    ASSUME OneExecutor, NothingSigned, "late_delete" \notin Environment, ~Replaces
    PROVE  Spec => []ActiveIsStored
  <1>1. IntentInvariant => ActiveIsStored
    BY DEF IntentInvariant
  <1> QED  BY <1>1, IntentCorrect, PTL

\* A point leaves the collection only in the delete of a removal whose intent
\* the ledger still records.
LEMMA LeavesByIntent ==
    ASSUME TypeOK, IntentInvariant, [Next]_vars, NEW i \in Ids, NEW d \in Digests,
           point[i].digest = d, point'[i].digest # d
    PROVE  row[d] = [status |-> "delete_pending", id |-> i]
  <1>0. point[i] \in PointsWith(d)
    BY ConstantsAssumption
       DEF TypeOK, Contents, PointsWith, Own, Legacy, Alien
  <1>1. ASSUME NEW t \in Threads, DeleteApplied(t)
        PROVE  row[d] = [status |-> "delete_pending", id |-> i]
    <2> PICK s \in ThreadStates : s = th[t]
      BY ThreadFacts
    <2>1. /\ s.old \in Records /\ Holds(s.old) /\ RowIs(s.old, {"delete_pending"})
          /\ point' = [point EXCEPT ![s.old.id] = NoPoint]
      BY <1>1, ThreadFacts
         DEF DeleteApplied, At, OldPcs, DeletePcs, IntentInvariant, InOrder, StillSeen,
             OldInForce, RemovePcs
    <2>2. i = s.old.id
      BY <2>1 DEF TypeOK
    <2>3. d = s.old.digest
      BY <1>0, <2>1, <2>2, Values DEF Holds
    <2> QED  BY <2>1, <2>2, <2>3 DEF RowIs, TypeOK, RowOK
  <1>2. ASSUME NEW e, ClearFor(e, i), point'[i] = Own(e)
        PROVE  FALSE
    BY <1>0, <1>2, Values DEF ClearFor
  <1>3. ASSUME NEW t \in Threads, InsertApplied(t)
        PROVE  FALSE
    <2> PICK s \in ThreadStates : s = th[t]
      BY ThreadFacts
    <2>1. ClearFor(s.new, s.id) /\ point' = [point EXCEPT ![s.id] = Own(s.new)]
      BY <1>3 DEF InsertApplied, At, IntentInvariant, InOrder, StillSeen, HoldingPcs
    <2>2. i = s.id
      BY <2>1 DEF TypeOK
    <2> QED  BY <1>2, <2>1, <2>2 DEF TypeOK
  <1>4. CASE Land
    <2>1. PICK m \in inflight : point' = [point EXCEPT ![m.id] = Own(m.digest)]
      BY <1>4 DEF Land, IntentInvariant
    <2>2. i = m.id
      BY <2>1 DEF TypeOK
    <2> QED  BY <1>2, <2>1, <2>2 DEF TypeOK, IntentInvariant
  <1>5. CASE ForeignWrite
    BY <1>0, <1>5 DEF ForeignWrite, Vacant, TypeOK, PointsWith, Own, Legacy, Alien
  <1>6. point' # point
    OBVIOUS
  <1> QED  BY <1>1, <1>3, <1>4, <1>5, <1>6, PointStep

\* The intent is durable before the delete is sent, and still in force when the
\* memory leaves the collection (_delete_verified and its callers).
THEOREM DeletesIntended ==
    ASSUME OneExecutor, NothingSigned, "late_delete" \notin Environment
    PROVE  Spec => DeleteHasIntent
  <1>1. TypeOK /\ IntentInvariant /\ [Next]_vars =>
          [\A i \in Ids, d \in Digests :
             point[i].digest = d /\ point'[i].digest # d
                => row[d] = [status |-> "delete_pending", id |-> i]]_vars
    BY LeavesByIntent
  <1> QED  BY <1>1, IntentCorrect, TypeCorrect, PTL DEF Spec, DeleteHasIntent

-----------------------------------------------------------------------------
(* The place of the memory being stored, when nothing lands late.           *)

LEMMA NextPlaced ==
    ASSUME TypeOK, OneExecutor, NEW t \in Threads,
           \E z : Goto(t, z) /\ Placed(z)'
    PROVE  (\A u \in Threads : Placed(th[u]))'
  <1>1. PICK z : Goto(t, z) /\ Placed(z)'
    OBVIOUS
  <1>2. th'[t] = z
    BY <1>1 DEF Goto, TypeOK
  <1>3. Placed(th[t])'
    BY <1>1, <1>2 DEF Placed
  <1> QED  BY <1>3, OneThread

\* Signed points only go: what is known of where they are not stays true.
LEMMA PlacedStays ==
    ASSUME TypeOK, NEW s \in ThreadStates, Placed(s), UNCHANGED row,
           s.pc \in OldPcs => s.old \in Records,
           \A i \in Ids : \A d : point'[i] = Own(d) => point[i] = Own(d)
    PROVE  Placed(s)'
  BY DEF Placed, OldPcs, Records

LEMMA UnplacedPc ==
    ASSUME NEW z,
           z.pc \notin {"read_known", "next_id", "probe", "write_ahead", "insert", "verify",
                        "commit", "mark_retry", "retire_old", "reinstate", "mark_done"}
    PROVE  Placed(z) /\ Placed(z)'
  BY DEF Placed

\* A replace that fails before it has saved anything finds the old row replacing.
LEMMA ReplaceFails ==
    ASSUME NEW t \in Threads, NEW s \in ThreadStates, InOrder(t, s), s.pc \in StorePcs
    PROVE  Placed(StoreFailed(s))
  <1>1. CASE s.kind = "replace"
    <2> DEFINE z == [s EXCEPT !.pc = "reinstate"]
    <2>1. z.pc = "reinstate" /\ z.old = s.old
      BY DEF ThreadStates
    <2>2. row[s.old.digest].status = "replacing"
      BY <1>1 DEF InOrder, OldInForce, StorePcs, NewPcs, SavePcs, RowIs
    <2> QED  BY <1>1, <2>1, <2>2 DEF StoreFailed, Placed
  <1>2. CASE s.kind # "replace"
    BY <1>2, UnplacedPc DEF StoreFailed, Idle
  <1> QED  BY <1>1, <1>2

LEMMA ErrorPlaced ==
    ASSUME NEW t \in Threads, NEW s \in ThreadStates, InOrder(t, s), Placed(s),
           s.pc \in RpcPcs
    PROVE  Placed(OnError(s))
  <1>1. CASE s.pc \in StorePcs
    <2>1. OnError(s) = StoreFailed(s)
      BY <1>1 DEF OnError, StorePcs, InsertPcs, DeletePcs
    <2> QED  BY <1>1, <2>1, ReplaceFails
  <1>2. CASE s.pc \in InsertPcs
    <2>1. OnError(s) = [s EXCEPT !.pc = "mark_retry"]
      BY <1>2 DEF OnError, StorePcs, InsertPcs, DeletePcs
    <2>2. OnError(s).pc = "mark_retry" /\ OnError(s).new = s.new
      BY <2>1 DEF ThreadStates
    <2>3. row[s.new].status = "inserting"
      BY <1>2 DEF Placed, InsertPcs
    <2> QED  BY <2>2, <2>3 DEF Placed
  <1>3. CASE s.pc \notin StorePcs \cup InsertPcs
    <2>1. OnError(s).pc \in {"delete_failed", "mark_absent", "idle"}
      BY <1>3 DEF OnError, StorePcs, InsertPcs, DeletePcs, RpcPcs, DeleteRaised, Idle,
             ThreadStates
    <2> QED  BY <2>1, UnplacedPc
  <1> QED  BY <1>1, <1>2, <1>3

\* _allocate_id: what the row and the point read say about where the memory is.
LEMMA AllocatePlaced ==
    ASSUME TypeOK, IntentInvariant, PlaceInvariant, NEW t \in Threads,
           \/ LookUp(t) \/ ReadKnown(t) \/ NextExternalId(t)
           \/ ProbeVacant(t) \/ ProbeOccupied(t)
    PROVE  \E z : Goto(t, z) /\ Placed(z)
  <1> PICK s \in ThreadStates : s = th[t]
    BY ThreadFacts
  <1>0. /\ InOrder(t, s) /\ Placed(s) /\ NoOrphan
        /\ s.pc \in NewPcs => s.new \in Digests
    BY ThreadFacts DEF IntentInvariant, PlaceInvariant
  <1>1. CASE LookUp(t)
    <2>1. s.new \in Digests
      BY <1>0, <1>1 DEF LookUp, At, NewPcs
    <2>2. ASSUME NEW z, z = [s EXCEPT !.pc = "next_id"], row[s.new].status = "absent"
          PROVE  Placed(z)
      <3>1. z.pc = "next_id" /\ z.new = s.new
        BY <2>2 DEF ThreadStates
      <3>2. row[s.new].id = 0
        BY <2>1, <2>2 DEF TypeOK, RowOK
      <3> QED  BY <1>0, <2>1, <3>1, <3>2 DEF Placed, NoOrphan, Ids
    <2>3. ASSUME NEW z, z = [s EXCEPT !.pc = "read_known", !.id = row[s.new].id]
          PROVE  Placed(z)
      <3>1. z.pc = "read_known" /\ z.new = s.new /\ z.id = row[s.new].id
        BY <2>3 DEF ThreadStates
      <3> QED  BY <3>1 DEF Placed
    <2> QED  BY <1>1, <2>2, <2>3 DEF LookUp
  <1>2. CASE ReadKnown(t)
    <2>1. s.new \in Digests /\ row[s.new].id = s.id
      BY <1>0, <1>2 DEF ReadKnown, At, NewPcs, Placed
    <2>2. ASSUME NEW z, z = [s EXCEPT !.pc = "write_ahead"]
          PROVE  Placed(z)
      <3>1. z.pc = "write_ahead" /\ z.new = s.new /\ z.id = s.id
        BY <2>2 DEF ThreadStates
      <3> QED  BY <1>0, <2>1, <3>1 DEF Placed, NoOrphan
    <2>3. ASSUME NEW z, z = [s EXCEPT !.pc = "next_id", !.id = 0],
                 ~Reusable(point[s.id], s.new)
          PROVE  Placed(z)
      <3>1. z.pc = "next_id" /\ z.new = s.new
        BY <2>3 DEF ThreadStates
      <3> QED  BY <1>0, <2>1, <2>3, <3>1 DEF Placed, NoOrphan, Reusable, OwnerMatches
    <2> QED  BY <1>2, <2>2, <2>3 DEF ReadKnown
  <1>3. CASE NextExternalId(t)
    <2>1. s.pc = "next_id" /\ \E z : Goto(t, z) /\ z = [s EXCEPT !.pc = "probe", !.id = counter]
      BY <1>3 DEF NextExternalId, At
    <2>2. ASSUME NEW z, z = [s EXCEPT !.pc = "probe", !.id = counter]
          PROVE  Placed(z)
      <3>1. z.pc = "probe" /\ z.new = s.new
        BY <2>2 DEF ThreadStates
      <3> QED  BY <1>0, <2>1, <3>1 DEF Placed
    <2> QED  BY <2>1, <2>2
  <1>4. CASE ProbeVacant(t)
    <2>1. s.pc = "probe" /\ Goto(t, [s EXCEPT !.pc = "write_ahead", !.tries = 0])
      BY <1>4 DEF ProbeVacant, At
    <2>2. ASSUME NEW z, z = [s EXCEPT !.pc = "write_ahead", !.tries = 0]
          PROVE  Placed(z)
      <3>1. z.pc = "write_ahead" /\ z.new = s.new
        BY <2>2 DEF ThreadStates
      <3> QED  BY <1>0, <2>1, <3>1 DEF Placed
    <2> QED  BY <2>1, <2>2
  <1>5. CASE ProbeOccupied(t)
    <2>1. s.pc = "probe"
      BY <1>5 DEF ProbeOccupied, At
    <2>2. ASSUME NEW z, z = [s EXCEPT !.pc = "next_id", !.id = 0, !.tries = @ + 1]
          PROVE  Placed(z)
      <3>1. z.pc = "next_id" /\ z.new = s.new
        BY <2>2 DEF ThreadStates
      <3> QED  BY <1>0, <2>1, <3>1 DEF Placed
    <2>3. Placed(StoreFailed(s))
      BY <1>0, <2>1, ReplaceFails DEF StorePcs
    <2> QED  BY <1>5, <2>2, <2>3 DEF ProbeOccupied
  <1> QED  BY <1>1, <1>2, <1>3, <1>4, <1>5

LEMMA VerifyPlaced ==
    ASSUME TypeOK, IntentInvariant, PlaceInvariant, NEW t \in Threads, VerifyReadback(t)
    PROVE  \E z : Goto(t, z) /\ Placed(z)
  <1> PICK s \in ThreadStates : s = th[t]
    BY ThreadFacts
  <1>0. /\ InOrder(t, s) /\ Placed(s) /\ s.pc = "verify"
        /\ row[s.new] = [status |-> "inserting", id |-> s.id]
    BY DEF IntentInvariant, PlaceInvariant, VerifyReadback, At, Placed
  <1>1. ASSUME NEW z, z = [s EXCEPT !.pc = "commit", !.tries = 0]
        PROVE  Placed(z)
    <2>1. z.pc = "commit" /\ z.new = s.new /\ z.id = s.id
      BY <1>1 DEF ThreadStates
    <2> QED  BY <1>0, <2>1 DEF Placed
  <1>2. ASSUME NEW n, NEW z, z = [s EXCEPT !.tries = n]
        PROVE  Placed(z)
    <2>1. z.pc = "verify" /\ z.new = s.new /\ z.id = s.id
      BY <1>0, <1>2 DEF ThreadStates
    <2> QED  BY <1>0, <2>1 DEF Placed
  <1>3. Placed(OnError(s))
    BY <1>0, ErrorPlaced DEF RpcPcs, InsertPcs
  <1> QED  BY <1>1, <1>2, <1>3 DEF VerifyReadback

\* A removal is marked done only when the point was seen to be gone.
LEMMA RemovalPlaced ==
    ASSUME TypeOK, IntentInvariant, PlaceInvariant, NEW t \in Threads,
           ReadOld(t) \/ ReadBack(t) \/ DeleteRefused(t) \/ ReadPending(t)
    PROVE  \E z : Goto(t, z) /\ Placed(z)
  <1> PICK s \in ThreadStates : s = th[t]
    BY ThreadFacts
  <1>1. ASSUME NEW pc \in {"delete", "read_back", "read_old", "mark_conflict"}
        PROVE  Placed([s EXCEPT !.pc = pc])
    <2> DEFINE z == [s EXCEPT !.pc = pc]
    <2>1. z.pc = pc
      BY DEF ThreadStates
    <2> QED  BY <1>1, <2>1, UnplacedPc
  <1>2. ASSUME Gone(point[s.old.id])
        PROVE  Placed([s EXCEPT !.pc = "mark_done"])
    <2> DEFINE z == [s EXCEPT !.pc = "mark_done"]
    <2>1. z.pc = "mark_done" /\ z.old = s.old
      BY DEF ThreadStates
    <2> QED  BY <1>2, <2>1 DEF Placed, Gone, Own
  <1>3. Placed(DeleteRaised(s))
    <2>1. DeleteRaised(s).pc \in {"idle", "delete_failed"}
      BY DEF DeleteRaised, Idle, ThreadStates
    <2> QED  BY <2>1, UnplacedPc
  <1>4. CASE ReadOld(t)
    BY <1>1, <1>2, <1>3, <1>4 DEF ReadOld
  <1>5. CASE ReadBack(t)
    BY <1>2, <1>3, <1>5 DEF ReadBack
  <1>6. CASE DeleteRefused(t)
    BY <1>1, <1>6 DEF DeleteRefused
  <1>7. CASE ReadPending(t)
    <2>1. ReadPending(t) =>
             \/ Gone(point[s.old.id]) /\ Goto(t, [s EXCEPT !.pc = "mark_done"])
             \/ Goto(t, [s EXCEPT !.pc = "read_old"])
             \/ Goto(t, [s EXCEPT !.pc = "mark_conflict"])
      BY DEF ReadPending
    <2> QED  BY <1>1, <1>2, <1>7, <2>1
  <1> QED  BY <1>4, <1>5, <1>6, <1>7

\* The other steps that only read go to a place where nothing is assumed.
LEMMA OtherPlaced ==
    ASSUME TypeOK, NEW t \in Threads,
           \/ Request(t) \/ SearchLegacy(t)
           \/ ListRetries(t) \/ NextPending(t) \/ SkipPending(t) \/ CheckInsert(t)
    PROVE  \E z : Goto(t, z) /\ Placed(z)
  <1> DEFINE Quiet == {"look_up", "search", "mark_old", "idle", "list_retries",
                       "next_pending", "adopt", "pending_read", "check_insert", "mark_absent",
                       "mark_active", "mark_conflict"}
  <1> PICK s \in ThreadStates : s = th[t]
    BY ThreadFacts
  <1>0. ASSUME NEW z, Goto(t, z), z.pc \in Quiet
        PROVE  \E y : Goto(t, y) /\ Placed(y)
    BY <1>0, UnplacedPc
  <1>1. Idle \in ThreadStates /\ Idle.pc \in Quiet
    BY DEF Idle, ThreadStates, Pcs
  <1>2. CASE BeginAdd(t)
    <2>1. PICK d \in Digests :
             Goto(t, [Idle EXCEPT !.pc = "look_up", !.kind = "add", !.new = d])
      BY <1>2 DEF BeginAdd
    <2>2. [Idle EXCEPT !.pc = "look_up", !.kind = "add", !.new = d].pc = "look_up"
      BY DEF Idle
    <2> QED  BY <1>0, <2>1, <2>2
  <1>3. ASSUME NEW y, y.pc = "idle", y \in ThreadStates, ResolveOld(t, y)
        PROVE  \E z : Goto(t, z) /\ Placed(z)
    <2>1. [y EXCEPT !.pc = "search"].pc = "search"
      BY <1>3 DEF ThreadStates
    <2>2. ASSUME NEW r
          PROVE  [y EXCEPT !.pc = "mark_old", !.old = r, !.needle = {}].pc = "mark_old"
      BY <1>3 DEF ThreadStates
    <2> QED  BY <1>0, <1>1, <1>3, <2>1, <2>2 DEF ResolveOld
  <1>4. CASE BeginRemove(t)
    <2>1. PICK n \in Needles :
             ResolveOld(t, [Idle EXCEPT !.kind = "remove", !.needle = n])
      BY <1>4 DEF BeginRemove
    <2>2. [Idle EXCEPT !.kind = "remove", !.needle = n] \in ThreadStates
      BY ConstantsAssumption DEF Idle, ThreadStates, Kinds, Pcs
    <2> QED  BY <1>3, <2>1, <2>2 DEF Idle
  <1>5. CASE BeginReplace(t)
    <2>1. PICK n \in Needles, d \in Digests :
             ResolveOld(t, [Idle EXCEPT !.kind = "replace", !.needle = n, !.new = d])
      BY <1>5 DEF BeginReplace
    <2>2. [Idle EXCEPT !.kind = "replace", !.needle = n, !.new = d] \in ThreadStates
      BY ConstantsAssumption DEF Idle, ThreadStates, Kinds, Pcs
    <2> QED  BY <1>3, <2>1, <2>2 DEF Idle
  <1>6. CASE BeginReconcile(t)
    <2>1. ASSUME NEW k, NEW st, NEW pc \in {"list_retries", "next_pending"},
                 Goto(t, [Idle EXCEPT !.pc = pc, !.kind = k, !.todo = Pending(st)])
          PROVE  \E z : Goto(t, z) /\ Placed(z)
      <3>1. [Idle EXCEPT !.pc = pc, !.kind = k, !.todo = Pending(st)].pc = pc
        BY DEF Idle
      <3> QED  BY <1>0, <2>1, <3>1
    <2> QED  BY <1>6, <2>1 DEF BeginReconcile
  <1>7. CASE SearchLegacy(t)
    <2> DEFINE Only(found) == IF \E r \in found : found = {r}
                                THEN CHOOSE r \in found : TRUE ELSE NoRecord
               Found(found) == [s EXCEPT !.pc = "adopt", !.todo = found, !.needle = {},
                                         !.old = Only(found)]
    <2>1. Goto(t, Idle) \/ \E found : Goto(t, Found(found))
      BY <1>7 DEF SearchLegacy
    <2> HIDE DEF Only
    <2>2. \A found : Found(found).pc = "adopt"
      BY DEF ThreadStates
    <2> HIDE DEF Found
    <2> QED  BY <1>0, <1>1, <2>1, <2>2
  <1>l. CASE ListRetries(t)
    <2>1. \A todo : [s EXCEPT !.pc = "next_pending", !.todo = todo].pc = "next_pending"
      BY DEF ThreadStates
    <2> QED  BY <1>0, <1>l, <2>1 DEF ListRetries
  <1>8. CASE NextPending(t) \/ SkipPending(t)
    <2>1. s.pc = "next_pending"
      BY <1>8 DEF NextPending, SkipPending, At
    <2>2. ASSUME NEW pc \in {"pending_read", "check_insert"}, NEW r, NEW todo
          PROVE  [s EXCEPT !.pc = pc, !.old = r, !.todo = todo].pc = pc
      BY DEF ThreadStates
    <2>3. ASSUME NEW todo
          PROVE  [s EXCEPT !.todo = todo].pc = "next_pending"
      BY <2>1 DEF ThreadStates
    <2>4. CASE NextPending(t)
      <3>1. ASSUME NEW r \in s.todo,
                   Goto(t, [s EXCEPT
                              !.pc = IF s.kind = "reconcile_deletes"
                                       THEN "pending_read" ELSE "check_insert",
                              !.old = r, !.todo = @ \ {r}])
            PROVE  \E z : Goto(t, z) /\ Placed(z)
        <4> DEFINE pc == IF s.kind = "reconcile_deletes"
                           THEN "pending_read" ELSE "check_insert"
        <4>1. [s EXCEPT !.pc = pc, !.old = r, !.todo = s.todo \ {r}].pc = pc
          BY <2>2
        <4>2. pc \in Quiet
          OBVIOUS
        <4> QED  BY <1>0, <3>1, <4>1, <4>2
      <3> QED  BY <1>0, <1>1, <2>4, <3>1 DEF NextPending
    <2>5. CASE SkipPending(t)
      BY <1>0, <2>3, <2>5 DEF SkipPending
    <2> QED  BY <1>8, <2>4, <2>5
  <1>9. CASE CheckInsert(t)
    <2>1. PICK pc \in {"mark_absent", "mark_active", "mark_conflict"} :
             Goto(t, [s EXCEPT !.pc = pc])
      BY <1>9 DEF CheckInsert
    <2>2. [s EXCEPT !.pc = pc].pc = pc
      BY DEF ThreadStates
    <2> QED  BY <1>0, <2>1, <2>2
  <1> QED  BY <1>2, <1>4, <1>5, <1>6, <1>l, <1>7, <1>8, <1>9 DEF Request

LEMMA ReadersPlaced ==
    ASSUME TypeOK, OneExecutor, IntentInvariant, PlaceInvariant, NEW t \in Threads,
           \/ Request(t) \/ SearchLegacy(t) \/ RpcError(t)
           \/ LookUp(t) \/ ReadKnown(t) \/ NextExternalId(t) \/ ProbeVacant(t)
           \/ ProbeOccupied(t) \/ VerifyReadback(t)
           \/ ReadOld(t) \/ ReadBack(t) \/ DeleteRefused(t)
           \/ ListRetries(t) \/ NextPending(t) \/ SkipPending(t)
           \/ ReadPending(t) \/ CheckInsert(t)
    PROVE  PlaceInvariant'
  <1>1. UNCHANGED <<row, point, inflight>>
    BY DEF Request, BeginAdd, BeginRemove, BeginReplace, BeginReconcile, SearchLegacy,
           RpcError, LookUp, ReadKnown, NextExternalId, ProbeVacant, ProbeOccupied,
           VerifyReadback, ReadOld, ReadBack, DeleteRefused, NextPending, ListRetries, SkipPending,
           ReadPending, CheckInsert, ledger
  <1>2. RpcError(t) => \E z : Goto(t, z) /\ Placed(z)
    BY ThreadFacts, ErrorPlaced DEF RpcError, IntentInvariant, PlaceInvariant
  <1>3. \E z : Goto(t, z) /\ Placed(z)
    BY <1>2, AllocatePlaced, VerifyPlaced, RemovalPlaced, OtherPlaced
  <1>4. \A z : Placed(z) => Placed(z)'
    BY <1>1 DEF Placed
  <1>5. (\A u \in Threads : Placed(th[u]))'
    BY <1>3, <1>4, NextPlaced
  <1> QED  BY <1>1, <1>5 DEF PlaceInvariant, NoOrphan, RemovedIsGone

\* One row is written: it keeps its id, or the memory is at its new id or nowhere.
LEMMA RowPlaced ==
    ASSUME TypeOK, OneExecutor, PlaceInvariant, NEW t \in Threads,
           UNCHANGED <<point, inflight>>,
           \E z : Goto(t, z) /\ Placed(z)',
           NEW d \in Digests, \A e \in Digests \ {d} : row'[e] = row[e],
           \A i \in Ids : point[i] = Own(d) => row'[d].id = i,
           row'[d].status \in {"removed", "replaced"}
              => row'[d] = row[d] \/ point[row[d].id] # Own(d)
    PROVE  PlaceInvariant'
  <1>1. (\A u \in Threads : Placed(th[u]))'
    BY NextPlaced
  <1>2. NoOrphan'
    BY DEF PlaceInvariant, NoOrphan
  <1>3. RemovedIsGone'
    BY DEF PlaceInvariant, NoOrphan, RemovedIsGone
  <1> QED  BY <1>1, <1>2, <1>3 DEF PlaceInvariant

LEMMA AfterPlaced ==
    ASSUME NEW s \in ThreadStates
    PROVE  Placed(After(s))'
  <1>1. After(s).pc \in {"next_pending", "idle"}
    BY DEF After, Idle, ThreadStates
  <1> QED  BY <1>1, UnplacedPc

LEMMA AdoptPlaced ==
    ASSUME TypeOK, OneExecutor, IdsInvariant, IntentInvariant, PlaceInvariant,
           NEW t \in Threads, Adopt(t)
    PROVE  PlaceInvariant'
  <1> PICK s \in ThreadStates : s = th[t]
    BY ThreadFacts
  <1>0. /\ s.pc = "adopt" /\ UNCHANGED <<point, inflight>>
        /\ \A r \in s.todo : r \in Records /\ Holds(r)
    BY ThreadFacts DEF Adopt, At, IntentInvariant, InOrder, TodoInForce
  <1>1. PICK r \in s.todo :
           \/ row' = row
           \/ row' = Upsert(r.digest, r.id, "active")
    BY DEF Adopt
  <1>2. \E z : Goto(t, z) /\ Placed(z)'
    <2>1. Idle.pc = "idle"
      BY DEF Idle
    <2>2. /\ [s EXCEPT !.pc = "mark_old", !.todo = {}].pc = "mark_old"
          /\ \A todo : [s EXCEPT !.todo = todo].pc = "adopt"
      BY <1>0 DEF ThreadStates
    <2>3. ASSUME NEW z, Goto(t, z), z.pc \in {"idle", "adopt", "mark_old"}
          PROVE  \E y : Goto(t, y) /\ Placed(y)'
      BY <2>3, UnplacedPc
    <2>4. \/ Goto(t, Idle)
          \/ Goto(t, [s EXCEPT !.pc = "mark_old", !.todo = {}])
          \/ \E q : Goto(t, [s EXCEPT !.todo = @ \ {q}])
      BY DEF Adopt
    <2> QED  BY <2>1, <2>2, <2>3, <2>4
  <1>3. r.digest \in Digests /\ r.id \in Ids /\ point[r.id] = Own(r.digest)
    <2>1. r.digest \in Digests /\ r.id \in Ids /\ Holds(r)
      BY <1>0 DEF Records
    <2>2. point[r.id] \notin {Legacy(r.digest), Alien(r.digest)}
      BY <2>1 DEF IdsInvariant, Legacy, Alien
    <2> QED  BY <2>1, <2>2 DEF Holds, PointsWith
  <1>4. row[r.digest].id = r.id
    BY <1>3 DEF PlaceInvariant, NoOrphan
  <1>5. /\ \A e \in Digests \ {r.digest} : row'[e] = row[e]
        /\ row'[r.digest].id = r.id
        /\ row'[r.digest] = row[r.digest] \/ row'[r.digest].status = "active"
    BY <1>1, <1>3, <1>4 DEF Upsert, TypeOK, RowOK
  <1>6. \A i \in Ids : point[i] = Own(r.digest) => row'[r.digest].id = i
    BY <1>3, <1>4, <1>5 DEF PlaceInvariant, NoOrphan
  <1> QED  BY <1>0, <1>2, <1>3, <1>5, <1>6, RowPlaced

LEMMA SavePlaced ==
    ASSUME TypeOK, OneExecutor, IntentInvariant, PlaceInvariant, NEW t \in Threads,
           WriteAhead(t) \/ Commit(t)
    PROVE  PlaceInvariant'
  <1> PICK s \in ThreadStates : s = th[t]
    BY ThreadFacts
  <1>0. /\ s.pc \in {"write_ahead", "commit"} /\ s.new \in Digests /\ Placed(s)
        /\ UNCHANGED <<point, inflight>>
    BY ThreadFacts DEF WriteAhead, Commit, At, NewPcs, PlaceInvariant
  <1>1. \A i \in Ids : point[i] = Own(s.new) => i = s.id
    <2>1. CASE s.pc = "write_ahead"
      BY <1>0, <2>1 DEF Placed
    <2>2. CASE s.pc = "commit"
      BY <1>0, <2>2 DEF Placed, PlaceInvariant, NoOrphan
    <2> QED  BY <1>0, <2>1, <2>2
  <1>2. CASE row' = row /\ Goto(t, Idle)
    <2>1. Placed(Idle)'
      BY UnplacedPc DEF Idle
    <2> QED
      BY <1>0, <1>2, <2>1, NextPlaced DEF PlaceInvariant, NoOrphan, RemovedIsGone
  <1>3. ASSUME NEW st \in {"inserting", "active"}, row' = Upsert(s.new, s.id, st),
               \E z : Goto(t, z) /\ Placed(z)'
        PROVE  PlaceInvariant'
    <2>1. /\ \A e \in Digests \ {s.new} : row'[e] = row[e]
          /\ row'[s.new] = [status |-> st, id |-> s.id]
      BY <1>0, <1>3 DEF Upsert, TypeOK, RowOK
    <2> QED  BY <1>0, <1>1, <1>3, <2>1, RowPlaced
  <1>4. CASE row' = Upsert(s.new, s.id, "inserting") /\ Goto(t, [s EXCEPT !.pc = "insert"])
    <2>1. ASSUME NEW z, z = [s EXCEPT !.pc = "insert"]
          PROVE  Placed(z)'
      <3>1. z.pc = "insert" /\ z.new = s.new /\ z.id = s.id
        BY <2>1 DEF ThreadStates
      <3>2. row'[s.new] = [status |-> "inserting", id |-> s.id]
        BY <1>0, <1>4 DEF Upsert, TypeOK, RowOK
      <3> QED  BY <3>1, <3>2 DEF Placed
    <2>2. \E z : Goto(t, z) /\ Placed(z)'
      BY <1>4, <2>1
    <2> QED  BY <1>3, <1>4, <2>2
  <1>5. CASE /\ row' = Upsert(s.new, s.id, "active")
             /\ Goto(t, IF s.kind = "replace"
                          THEN [s EXCEPT !.pc = "retire_old", !.id = 0] ELSE Idle)
    <2>1. ASSUME NEW z, z = [s EXCEPT !.pc = "retire_old", !.id = 0]
          PROVE  Placed(z)'
      <3>1. z.pc = "retire_old" /\ z.new = s.new
        BY <2>1 DEF ThreadStates
      <3>2. row'[s.new].status = "active"
        BY <1>0, <1>5 DEF Upsert, TypeOK, RowOK
      <3> QED  BY <3>1, <3>2 DEF Placed
    <2>2. Placed(Idle)'
      BY UnplacedPc DEF Idle
    <2>3. \E z : Goto(t, z) /\ Placed(z)'
      BY <1>5, <2>1, <2>2
    <2> QED  BY <1>3, <1>5, <2>3
  <1> QED  BY <1>2, <1>4, <1>5 DEF WriteAhead, Commit

LEMMA MarkRetryPlaced ==
    ASSUME TypeOK, OneExecutor, IntentInvariant, PlaceInvariant, NEW t \in Threads,
           MarkRetry(t)
    PROVE  PlaceInvariant'
  <1> PICK s \in ThreadStates : s = th[t]
    BY ThreadFacts
  <1>0. /\ s.pc = "mark_retry" /\ s.new \in Digests /\ Placed(s) /\ InOrder(t, s)
        /\ UNCHANGED <<point, inflight>> /\ row' = SetStatus(s.new, "retry_pending")
        /\ Goto(t, StoreFailed(s)) /\ (s.kind = "replace" => s.old \in Records)
    BY ThreadFacts DEF MarkRetry, At, NewPcs, PlaceInvariant, IntentInvariant, ThreadOK
  <1>1. /\ \A e \in Digests \ {s.new} : row'[e] = row[e]
        /\ row'[s.new] = [status |-> "retry_pending", id |-> row[s.new].id]
    BY <1>0 DEF SetStatus, TypeOK, RowOK, Placed
  <1>2. ASSUME NEW z, z = [s EXCEPT !.pc = "reinstate"], s.kind = "replace"
        PROVE  Placed(z)'
    <2>1. z.pc = "reinstate" /\ z.old = s.old
      BY <1>2 DEF ThreadStates
    <2>2. row[s.old.digest].status = "replacing" \/ s.new = s.old.digest
      BY <1>0, <1>2 DEF InOrder, OldInForce, NewPcs, RowIs
    <2>3. row'[s.old.digest].status \in Unproved \cup {"replacing"}
      BY <1>0, <1>1, <1>2, <2>2 DEF Unproved, Records
    <2> QED  BY <2>1, <2>3 DEF Placed, Unproved
  <1>3. Placed(StoreFailed(s))'
    <2>1. CASE s.kind = "replace"
      BY <1>2, <2>1 DEF StoreFailed
    <2>2. CASE s.kind # "replace"
      BY <2>2, UnplacedPc DEF StoreFailed, Idle
    <2> QED  BY <2>1, <2>2
  <1> QED  BY <1>0, <1>1, <1>3, RowPlaced DEF PlaceInvariant, NoOrphan

LEMMA OldPlaced ==
    ASSUME TypeOK, OneExecutor, IntentInvariant, PlaceInvariant, NEW t \in Threads,
           \/ MarkOld(t) \/ Reinstate(t) \/ RetireOld(t)
           \/ MarkDone(t) \/ DeleteFailed(t) \/ MarkChecked(t)
    PROVE  PlaceInvariant'
  <1> PICK s \in ThreadStates : s = th[t]
    BY ThreadFacts
  <1> DEFINE d == s.old.digest
  <1>0. /\ s.pc \in {"mark_old", "reinstate", "retire_old", "mark_done", "delete_failed",
                      "mark_absent", "mark_active", "mark_conflict"}
        /\ s.old \in Records /\ d \in Digests /\ Placed(s) /\ InOrder(t, s)
        /\ UNCHANGED <<point, inflight>>
    BY ThreadFacts DEF MarkOld, Reinstate, RetireOld, MarkDone, DeleteFailed, MarkChecked,
         At, OldPcs, NewPcs, PlaceInvariant, IntentInvariant, ThreadOK, Records
  <1>1. \E z : Goto(t, z) /\ Placed(z)'
    <2>1. Placed(After(s))' /\ Placed(Idle)'
      BY AfterPlaced, UnplacedPc DEF Idle
    <2>2. ASSUME NEW z, \/ z = [s EXCEPT !.pc = "read_old"]
                        \/ z = [s EXCEPT !.pc = "look_up"]
                        \/ z = [s EXCEPT !.pc = "read_old", !.new = NoDigest]
          PROVE  Placed(z)'
      <3>1. z.pc \in {"read_old", "look_up"}
        BY <2>2 DEF ThreadStates
      <3> QED  BY <3>1, UnplacedPc
    <2>3. \/ Goto(t, [s EXCEPT !.pc = "read_old"])
          \/ Goto(t, [s EXCEPT !.pc = "look_up"])
          \/ Goto(t, [s EXCEPT !.pc = "read_old", !.new = NoDigest])
          \/ Goto(t, After(s))
          \/ Goto(t, Idle)
      BY DEF MarkOld, Reinstate, RetireOld, MarkDone, DeleteFailed, MarkChecked
    <2> QED  BY <2>1, <2>2, <2>3
  <1>2. PICK st : /\ row' = SetStatus(d, st)
                  /\ st \in {"removed", "replaced"} => s.pc = "mark_done"
    BY DEF MarkOld, Reinstate, RetireOld, MarkDone, DeleteFailed, MarkChecked, At,
           IntentStatus
  <1>3. /\ \A e \in Digests \ {d} : row'[e] = row[e]
        /\ row'[d].id = row[d].id
        /\ row'[d] = row[d] \/ row'[d].status = st
    BY <1>0, <1>2 DEF SetStatus, TypeOK, RowOK
  <1>4. st \in {"removed", "replaced"} => point[row[d].id] # Own(d)
    BY <1>0, <1>2 DEF Placed, InOrder, OldInForce, RemovePcs, RowIs
  <1>5. \A i \in Ids : point[i] = Own(d) => row'[d].id = i
    BY <1>0, <1>3 DEF PlaceInvariant, NoOrphan
  <1> QED  BY <1>0, <1>1, <1>3, <1>4, <1>5, RowPlaced

LEMMA PointPlaced ==
    ASSUME TypeOK, OneExecutor, IntentInvariant, PlaceInvariant,
           \/ \E t \in Threads : InsertApplied(t) \/ DeleteApplied(t)
           \/ Crash \/ ForeignWrite
    PROVE  PlaceInvariant'
  <1>0. UNCHANGED <<row, inflight>>
    BY DEF InsertApplied, DeleteApplied, Crash, ForeignWrite, ledger
  <1>1. ASSUME \A i \in Ids : \A d : point'[i] = Own(d) => point[i] = Own(d)
        PROVE  NoOrphan' /\ RemovedIsGone'
    BY <1>0, <1>1 DEF PlaceInvariant, NoOrphan, RemovedIsGone
  <1>2. ASSUME NEW t \in Threads, InsertApplied(t)
        PROVE  PlaceInvariant'
    <2> PICK s \in ThreadStates : s = th[t]
      BY ThreadFacts
    <2>0. /\ s.pc = "insert" /\ s.new \in Digests /\ s.id \in Ids /\ InOrder(t, s)
          /\ row[s.new] = [status |-> "inserting", id |-> s.id]
          /\ point' = [point EXCEPT ![s.id] = Own(s.new)]
      BY <1>2, ThreadFacts
         DEF InsertApplied, At, NewPcs, IdPcs, PlaceInvariant, Placed, IntentInvariant
    <2>1. ASSUME NEW z, z = OnError(s) \/ z = [s EXCEPT !.pc = "verify", !.tries = 1]
          PROVE  Placed(z)'
      <3>1. z.pc \in {"verify", "mark_retry"} /\ z.new = s.new /\ z.id = s.id
        BY <2>0, <2>1 DEF OnError, StorePcs, InsertPcs, DeletePcs, ThreadStates
      <3> QED  BY <1>0, <2>0, <3>1 DEF Placed
    <2>2. \E z : Goto(t, z) /\ Placed(z)'
      BY <1>2, <2>1 DEF InsertApplied, Verifying
    <2>3. \A i \in Ids : \A d : point'[i] = Own(d) =>
             point[i] = Own(d) \/ (i = s.id /\ d = s.new)
      BY <2>0 DEF TypeOK, Own
    <2>4. NoOrphan' /\ RemovedIsGone'
      BY <1>0, <2>0, <2>3 DEF PlaceInvariant, NoOrphan, RemovedIsGone
    <2> QED  BY <1>0, <2>2, <2>4, NextPlaced DEF PlaceInvariant
  <1>3. ASSUME NEW t \in Threads, DeleteApplied(t)
        PROVE  PlaceInvariant'
    <2> PICK s \in ThreadStates : s = th[t]
      BY ThreadFacts
    <2>1. \A i \in Ids : \A d : point'[i] = Own(d) => point[i] = Own(d)
      BY <1>3 DEF DeleteApplied, TypeOK, Own, NoPoint
    <2>2. ASSUME NEW z, z = DeleteRaised(s) \/ z = [s EXCEPT !.pc = "read_back"]
          PROVE  Placed(z)'
      <3>1. z.pc \in {"idle", "delete_failed", "read_back"}
        BY <2>2 DEF DeleteRaised, Idle, ThreadStates
      <3> QED  BY <3>1, UnplacedPc
    <2>3. \E z : Goto(t, z) /\ Placed(z)'
      BY <1>3, <2>2 DEF DeleteApplied
    <2> QED  BY <1>0, <1>1, <2>1, <2>3, NextPlaced DEF PlaceInvariant
  <1>4. CASE Crash
    <2>1. point' = point /\ th' = [t \in Threads |-> Idle]
      BY <1>4 DEF Crash
    <2>2. (\A t \in Threads : Placed(th[t]))'
      BY <2>1 DEF Placed, Idle
    <2> QED  BY <1>0, <1>1, <2>1, <2>2 DEF PlaceInvariant
  <1>5. CASE ForeignWrite
    <2>1. /\ \A i \in Ids : \A d : point'[i] = Own(d) => point[i] = Own(d)
          /\ th' = th
      BY <1>5 DEF ForeignWrite, TypeOK, Own, Foreign
    <2>2. (\A t \in Threads : Placed(th[t]))'
      <3> SUFFICES ASSUME NEW t \in Threads
                   PROVE  Placed(th[t])'
        OBVIOUS
      <3>1. PICK s \in ThreadStates : s = th[t]
        BY ThreadFacts
      <3>2. Placed(s)'
        BY <1>0, <2>1, <3>1, ThreadFacts, PlacedStays DEF PlaceInvariant
      <3> QED  BY <2>1, <3>1, <3>2 DEF Placed
    <2> QED  BY <1>0, <1>1, <2>1, <2>2 DEF PlaceInvariant
  <1> QED  BY <1>2, <1>3, <1>4, <1>5

LEMMA PlaceStep ==
    ASSUME TypeOK, OneExecutor, IdsInvariant, IntentInvariant, PlaceInvariant,
           Environment \cap {"late_insert", "late_delete"} = {}, [Next]_vars
    PROVE  PlaceInvariant'
  <1>1. CASE UNCHANGED vars
    BY <1>1 DEF vars, PlaceInvariant, Placed, NoOrphan, RemovedIsGone
  <1>2. ASSUME NEW t \in Threads, Step(t)
        PROVE  PlaceInvariant'
    <2>1. CASE Store(t)
      BY <2>1, ReadersPlaced, SavePlaced, PointPlaced, MarkRetryPlaced
         DEF Store, InsertDelayed
    <2>2. CASE Delete(t)
      BY <2>2, ReadersPlaced, PointPlaced, OldPlaced DEF Delete, DeleteDelayed
    <2>3. CASE Reconcile(t)
      BY <2>3, ReadersPlaced, OldPlaced DEF Reconcile
    <2>4. CASE SearchLegacy(t) \/ Adopt(t) \/ MarkOld(t) \/ Reinstate(t) \/ RetireOld(t)
      BY <2>4, ReadersPlaced, AdoptPlaced, OldPlaced
    <2> QED  BY <1>2, <2>1, <2>2, <2>3, <2>4 DEF Step
  <1>3. ASSUME NEW t \in Threads, Request(t) \/ RpcError(t)
        PROVE  PlaceInvariant'
    BY <1>3, ReadersPlaced
  <1>4. ~Land
    BY DEF Land, PlaceInvariant
  <1>5. CASE Crash \/ ForeignWrite
    BY <1>5, PointPlaced
  <1> QED  BY <1>1, <1>2, <1>3, <1>4, <1>5 DEF Next

\* With one executor and nothing landing late, the row of a memory names its
\* only point before that point can exist, through crashes and lost replies.
THEOREM PlaceCorrect ==
    ASSUME OneExecutor, FreshCollection,
           Environment \cap {"late_insert", "late_delete"} = {}
    PROVE  Spec => []PlaceInvariant
  <1>1. Init => PlaceInvariant
    <2>1. ASSUME Init, NEW t \in Threads
          PROVE  Placed(th[t])
      BY <2>1 DEF Init, Placed, Idle
    <2> QED
      BY <2>1 DEF Init, FreshCollection, PlaceInvariant, NoOrphan, RemovedIsGone, Own
  <1>2. TypeOK /\ IdsInvariant /\ IntentInvariant /\ PlaceInvariant /\ [Next]_vars
           => PlaceInvariant'
    BY PlaceStep
  <1>3. NothingSigned /\ "late_delete" \notin Environment
    BY DEF FreshCollection, NothingSigned
  <1> QED  BY <1>1, <1>2, <1>3, TypeCorrect, IdsCorrect, IntentCorrect, PTL DEF Spec

\* Nothing this provider stored is ever out of its reach.
THEOREM NothingOrphaned ==
    ASSUME OneExecutor, FreshCollection,
           Environment \cap {"late_insert", "late_delete"} = {}
    PROVE  Spec => []NoOrphan
  <1>1. PlaceInvariant => NoOrphan
    BY DEF PlaceInvariant
  <1> QED  BY <1>1, PlaceCorrect, PTL

\* What was reported removed or replaced is nowhere in the collection.
THEOREM RemovedAreGone ==
    ASSUME OneExecutor, FreshCollection,
           Environment \cap {"late_insert", "late_delete"} = {}
    PROVE  Spec => []RemovedIsGone
  <1>1. PlaceInvariant => RemovedIsGone
    BY DEF PlaceInvariant
  <1> QED  BY <1>1, PlaceCorrect, PTL

-----------------------------------------------------------------------------
(* The refinement of the memory store.                                      *)

StoreStep == [Memory!Next]_(Memory!storeVars)

\* One row's status was changed: what a status may be followed by.
LEMMA ClaimStep ==
    ASSUME NEW d \in Digests, \A e \in Digests \ {d} : row'[e] = row[e],
           point' = point, IsStored(d)' <=> IsStored(d),
           NEW b, b = ClaimOf(row[d].status), NEW c, c = ClaimOf(row'[d].status),
           \/ c = b
           \/ c = "uncertain"
           \/ c = "stored" /\ IsStored(d)
           \/ c = "replacing" /\ b \in {"stored", "deleting"}
           \/ c = "stored" /\ b \in {"replacing", "uncertain"} /\ Replaces
           \/ c = "deleting" /\ b \in {"stored", "replacing"}
           \/ c = "gone" /\ b = "deleting" /\ ~IsStored(d)
           \/ c = "conflict" /\ b \in {"uncertain", "deleting"}
    PROVE  StoreStep
  <1>1. \A e \in Digests : IsStored(e)' = IsStored(e)
    BY DEF IsStored
  <1>2. Memory!Say(d, c)
    <2>1. \A e \in Digests \ {d} : ClaimOf(row[e].status)' = ClaimOf(row[e].status)
      BY DEF ClaimOf
    <2>2. ClaimOf(row[d].status)' = c
      BY DEF ClaimOf
    <2> QED  BY <1>1, <2>1, <2>2 DEF Memory!Say
  <1>3. CASE c = b
    BY <1>1, <1>2, <1>3 DEF Memory!Say, Memory!storeVars, StoreStep
  <1>4. CASE c # b
    <2>1. \/ Memory!Intend(d) \/ Memory!Confirm(d) \/ Memory!Withdraw(d)
          \/ Memory!Reclaim(d) \/ Memory!Doom(d) \/ Memory!ConfirmGone(d)
          \/ Memory!Dispute(d)
      BY <1>2, <1>4
         DEF Memory!Intend, Memory!Confirm, Memory!Withdraw, Memory!Reclaim,
             Memory!Doom, Memory!ConfirmGone, Memory!Dispute
    <2> QED  BY <2>1 DEF Memory!Next, StoreStep
  <1> QED  BY <1>3, <1>4

\* A point was written or deleted: it came or went under its intent.
LEMMA PresenceStep ==
    ASSUME row' = row, NEW d \in Digests,
           \A e \in Digests \ {d} : IsStored(e)' <=> IsStored(e),
           IsStored(d)' /\ ~IsStored(d) => ClaimOf(row[d].status) = "uncertain",
           ~IsStored(d)' /\ IsStored(d) => ClaimOf(row[d].status) = "deleting"
    PROVE  StoreStep
  <1>1. \A e \in Digests : ClaimOf(row[e].status)' = ClaimOf(row[e].status)
    BY DEF ClaimOf
  <1>2. ASSUME NEW b \in BOOLEAN, IsStored(d)' <=> b
        PROVE  Memory!Make(d, b)
    BY <1>1, <1>2 DEF Memory!Make, IsStored
  <1>3. CASE IsStored(d)' <=> IsStored(d)
    BY <1>1, <1>3 DEF Memory!storeVars, StoreStep, IsStored
  <1>4. CASE IsStored(d)' /\ ~IsStored(d)
    <2>1. Memory!Write(d)
      BY <1>2, <1>4 DEF Memory!Write
    <2> QED  BY <2>1 DEF Memory!Next, StoreStep
  <1>5. CASE ~IsStored(d)' /\ IsStored(d)
    <2>1. Memory!Erase(d)
      BY <1>2, <1>5 DEF Memory!Erase
    <2> QED  BY <2>1 DEF Memory!Next, StoreStep
  <1> QED  BY <1>3, <1>4, <1>5

\* Where nothing was adopted, a memory is stored exactly where it is signed.
LEMMA StoredIsOwn ==
    ASSUME TypeOK, IdsInvariant, NEW d \in Digests
    PROVE  IsStored(d) <=> row[d].id \in Ids /\ point[row[d].id] = Own(d)
  <1>1. row[d].id \in Ids \cup {0}
    BY DEF TypeOK, RowOK
  <1>2. \A i \in Ids : point[i] \notin {Legacy(d), Alien(d)}
    BY DEF IdsInvariant, Legacy, Alien
  <1> QED  BY <1>1, <1>2 DEF IsStored, PointsWith, Ids

LEMMA Claimings ==
    /\ \A st \in Unproved : ClaimOf(st) = "uncertain"
    /\ ClaimOf("active") = "stored"
    /\ ClaimOf("replacing") = "replacing"
    /\ ClaimOf("delete_pending") = "deleting"
    /\ ClaimOf("removed") = "gone" /\ ClaimOf("replaced") = "gone"
    /\ ClaimOf("conflict") = "conflict"
  BY DEF ClaimOf, Unproved

\* Steps that store a row with its id.
LEMMA UpsertClaims ==
    ASSUME TypeOK, IdsInvariant, IntentInvariant, PlaceInvariant, NEW t \in Threads,
           Adopt(t) \/ WriteAhead(t) \/ Commit(t)
    PROVE  StoreStep
  <1> PICK s \in ThreadStates : s = th[t]
    BY ThreadFacts
  <1>0. point' = point
    BY DEF Adopt, WriteAhead, Commit
  <1>1. CASE row' = row
    BY <1>0, <1>1 DEF StoreStep, Memory!storeVars, IsStored, ClaimOf
  <1>2. ASSUME NEW d \in Digests, NEW i \in Ids, row' = Upsert(d, i, "active"),
               row[d].id = i, point[i] = Own(d)
        PROVE  StoreStep
    <2>1. /\ \A e \in Digests \ {d} : row'[e] = row[e]
          /\ row'[d].id = i /\ row'[d].status = "active"
      BY <1>2 DEF Upsert, TypeOK, RowOK
    <2>2. IsStored(d) /\ (IsStored(d)' <=> IsStored(d))
      BY <1>0, <1>2, <2>1 DEF IsStored, PointsWith, Ids
    <2> QED  BY <1>0, <2>1, <2>2, Claimings, ClaimStep
  <1>3. CASE Adopt(t)
    <2>1. PICK r \in s.todo : row' = row \/ row' = Upsert(r.digest, r.id, "active")
      BY <1>3 DEF Adopt
    <2>2. r.digest \in Digests /\ r.id \in Ids /\ Holds(r)
      BY <1>3, ThreadFacts DEF Adopt, At, IntentInvariant, InOrder, TodoInForce, Records
    <2>3. point[r.id] = Own(r.digest)
      BY <2>2 DEF Holds, PointsWith, IdsInvariant, Legacy, Alien
    <2>4. row[r.digest].id = r.id
      BY <2>2, <2>3 DEF PlaceInvariant, NoOrphan
    <2> QED  BY <1>1, <1>2, <2>1, <2>2, <2>3, <2>4
  <1>4. CASE Commit(t)
    <2>1. /\ row' = row \/ row' = Upsert(s.new, s.id, "active")
          /\ s.pc = "commit" /\ s.new \in Digests /\ s.id \in Ids
      BY <1>4, ThreadFacts DEF Commit, At, NewPcs, IdPcs
    <2>2. point[s.id] = Own(s.new)
      BY <2>1 DEF IntentInvariant, InOrder, StillSeen
    <2>3. row[s.new].id = s.id
      BY <2>1, <2>2 DEF PlaceInvariant, NoOrphan
    <2> QED  BY <1>1, <1>2, <2>1, <2>2, <2>3
  <1>5. CASE WriteAhead(t) /\ row' # row
    <2>1. /\ row' = Upsert(s.new, s.id, "inserting")
          /\ s.pc = "write_ahead" /\ s.new \in Digests /\ s.id \in Ids
      BY <1>5, ThreadFacts DEF WriteAhead, At, NewPcs, IdPcs
    <2>2. /\ \A e \in Digests \ {s.new} : row'[e] = row[e]
          /\ row'[s.new].id = s.id /\ row'[s.new].status = "inserting"
      BY <2>1 DEF Upsert, TypeOK, RowOK
    <2>a. Placed(s) /\ NoOrphan
      BY DEF PlaceInvariant
    <2>3. \A i \in Ids : point[i] = Own(s.new) => i = s.id /\ row[s.new].id = i
      BY <2>1, <2>a DEF Placed, NoOrphan
    <2>4. IsStored(s.new)' <=> point[s.id] = Own(s.new)
      BY <1>0, <2>1, <2>2 
         DEF IsStored, PointsWith, IdsInvariant, Legacy, Alien, Ids
    <2>5. IsStored(s.new)' <=> IsStored(s.new)
      BY <2>1, <2>3, <2>4, StoredIsOwn
    <2> QED  BY <1>0, <2>1, <2>2, <2>5, Claimings, ClaimStep DEF Unproved
  <1> QED  BY <1>1, <1>3, <1>4, <1>5

\* Steps that change a status.
LEMMA StatusClaims ==
    ASSUME TypeOK, NEW d \in Digests, NEW st, row' = SetStatus(d, st), point' = point,
           NEW b, b = ClaimOf(row[d].status), row[d].status # "absent",
           \/ ClaimOf(st) = b
           \/ ClaimOf(st) = "stored" /\ IsStored(d)
           \/ ClaimOf(st) = "replacing" /\ b \in {"stored", "deleting"}
           \/ ClaimOf(st) = "stored" /\ b \in {"replacing", "uncertain"} /\ Replaces
           \/ ClaimOf(st) = "deleting" /\ b \in {"stored", "replacing"}
           \/ ClaimOf(st) = "gone" /\ b = "deleting" /\ ~IsStored(d)
           \/ ClaimOf(st) = "conflict" /\ b \in {"uncertain", "deleting"}
    PROVE  StoreStep
  <1>1. /\ \A e \in Digests \ {d} : row'[e] = row[e]
        /\ row'[d].id = row[d].id /\ row'[d].status = st
    BY DEF SetStatus, TypeOK, RowOK
  <1>2. IsStored(d)' <=> IsStored(d)
    BY <1>1 DEF IsStored
  <1> QED  BY <1>1, <1>2, ClaimStep

LEMMA OldClaims ==
    ASSUME TypeOK, IdsInvariant, IntentInvariant, PlaceInvariant, NEW t \in Threads,
           \/ MarkOld(t) \/ Reinstate(t) \/ RetireOld(t)
           \/ MarkDone(t) \/ DeleteFailed(t) \/ MarkChecked(t)
    PROVE  StoreStep
  <1> PICK s \in ThreadStates : s = th[t]
    BY ThreadFacts
  <1> DEFINE d == s.old.digest
             b == row[d].status
  <1>0. /\ s.old \in Records /\ d \in Digests /\ s.old.id \in Ids
        /\ Placed(s) /\ InOrder(t, s) /\ point' = point
    BY ThreadFacts DEF MarkOld, Reinstate, RetireOld, MarkDone, DeleteFailed, MarkChecked,
         At, OldPcs, NewPcs, PlaceInvariant, IntentInvariant, ThreadOK, Records
  <1>1. ASSUME NEW st, row' = SetStatus(d, st), b # "absent",
               \/ ClaimOf(st) = ClaimOf(b)
               \/ st = "active" /\ IsStored(d)
               \/ st = "replacing" /\ b \in {"active", "delete_pending"}
               \/ st = "active" /\ b \in Unproved \cup {"replacing"} /\ Replaces
               \/ st = "delete_pending" /\ b \in {"active", "replacing"}
               \/ st \in {"removed", "replaced"} /\ b = "delete_pending" /\ ~IsStored(d)
               \/ st = "conflict" /\ b \in Unproved \cup {"delete_pending"}
        PROVE  StoreStep
    BY <1>0, <1>1, Claimings, StatusClaims
  <1>2. CASE MarkOld(t)
    BY <1>0, <1>1, <1>2 DEF MarkOld, At, IntentStatus, InOrder, OldInForce, RowIs
  <1>3. CASE Reinstate(t)
    <2>1. s.kind = "replace" /\ Replaces
      BY <1>0, <1>3, KindAt DEF Reinstate, At, Replaces
    <2> QED  BY <1>0, <1>1, <1>3, <2>1 DEF Reinstate, At, Placed, Unproved
  <1>4. CASE RetireOld(t)
    <2>1. s.pc = "retire_old" /\ s.kind = "replace"
      BY <1>0, <1>4, KindAt DEF RetireOld, At
    <2>2. CASE s.new = d
      BY <1>0, <1>1, <1>4, <2>1, <2>2 DEF RetireOld, Placed
    <2>3. CASE s.new # d
      BY <1>0, <1>1, <1>4, <2>1, <2>3 DEF RetireOld, InOrder, OldInForce, NewPcs, RowIs
    <2> QED  BY <2>2, <2>3
  <1>5. CASE MarkDone(t)
    <2>1. /\ s.pc = "mark_done" /\ b = "delete_pending"
          /\ row[d].id = s.old.id /\ point[s.old.id] # Own(d)
      BY <1>0, <1>5 DEF MarkDone, At, InOrder, OldInForce, RemovePcs, RowIs, Placed
    <2>2. ~IsStored(d)
      BY <1>0, <2>1, StoredIsOwn
    <2> QED  BY <1>1, <1>5, <2>1, <2>2 DEF MarkDone, FinalStatus
  <1>6. CASE DeleteFailed(t)
    BY <1>0, <1>1, <1>6 DEF DeleteFailed, At, InOrder, OldInForce, RowIs
  <1>7. CASE MarkChecked(t)
    <2>1. CASE s.pc = "mark_absent" /\ row' = SetStatus(d, "retry_pending")
      <3>1. b \in Unproved
        BY <1>0, <2>1 DEF InOrder, OldInForce, RowIs
      <3> QED  BY <1>1, <2>1, <3>1, Claimings DEF Unproved
    <2>2. CASE s.pc = "mark_active" /\ row' = SetStatus(d, "active")
      <3>1. b \in Unproved /\ row[d].id = s.old.id /\ point[s.old.id] = Own(d)
        BY <1>0, <2>2 DEF InOrder, OldInForce, RowIs, StillSeen
      <3>2. IsStored(d)
        BY <1>0, <3>1, StoredIsOwn
      <3> QED  BY <1>1, <2>2, <3>1, <3>2 DEF Unproved
    <2>3. CASE s.pc = "mark_conflict" /\ row' = SetStatus(d, "conflict")
      <3>1. b \in Unproved \cup {"delete_pending"}
        BY <1>0, <2>3 DEF InOrder, OldInForce, RowIs
      <3> QED  BY <1>1, <2>3, <3>1 DEF Unproved
    <2> QED  BY <1>7, <2>1, <2>2, <2>3 DEF MarkChecked, At
  <1> QED  BY <1>2, <1>3, <1>4, <1>5, <1>6, <1>7

LEMMA RetryClaims ==
    ASSUME TypeOK, IdsInvariant, IntentInvariant, PlaceInvariant, NEW t \in Threads,
           MarkRetry(t)
    PROVE  StoreStep
  <1> PICK s \in ThreadStates : s = th[t]
    BY ThreadFacts
  <1>1. /\ s.pc = "mark_retry" /\ s.new \in Digests /\ row' = SetStatus(s.new, "retry_pending")
        /\ point' = point
    BY ThreadFacts DEF MarkRetry, At, NewPcs
  <1>2. row[s.new].status = "inserting"
    BY <1>1 DEF PlaceInvariant, Placed
  <1> QED  BY <1>1, <1>2, Claimings, StatusClaims DEF Unproved

\* A point comes under the row that names it, and goes under its intent.
LEMMA PointClaims ==
    ASSUME TypeOK, IdsInvariant, IntentInvariant, PlaceInvariant, NEW t \in Threads,
           InsertApplied(t) \/ DeleteApplied(t)
    PROVE  StoreStep
  <1> PICK s \in ThreadStates : s = th[t]
    BY ThreadFacts
  <1>0. row' = row /\ \A e \in Digests : row[e].id \in Ids \cup {0}
    BY DEF InsertApplied, DeleteApplied, ledger, TypeOK, RowOK
  <1>a. Placed(s) /\ InOrder(t, s)
    BY DEF PlaceInvariant, IntentInvariant
  <1>1. CASE InsertApplied(t)
    <2>1. /\ s.pc = "insert" /\ s.new \in Digests /\ s.id \in Ids
          /\ point' = [point EXCEPT ![s.id] = Own(s.new)]
      BY <1>1, ThreadFacts DEF InsertApplied, At, NewPcs, IdPcs
    <2>2. row[s.new] = [status |-> "inserting", id |-> s.id] /\ ClearFor(s.new, s.id)
      BY <1>a, <2>1 DEF Placed, InOrder, StillSeen, HoldingPcs
    <2>3. ClaimOf(row[s.new].status) = "uncertain" /\ IsStored(s.new)'
      BY <1>0, <2>1, <2>2, Claimings
         DEF IsStored, PointsWith, TypeOK, Unproved, Ids
    <2>4. ASSUME NEW e \in Digests \ {s.new}
          PROVE  IsStored(e)' <=> IsStored(e)
      <3>1. CASE row[e].id = s.id
        <4>1. point[s.id] \notin PointsWith(e)
          BY <2>2, Values DEF ClearFor
        <4>2. point'[s.id] \notin PointsWith(e)
          BY <2>1, Values DEF TypeOK
        <4> QED  BY <1>0, <3>1, <4>1, <4>2 DEF IsStored
      <3>2. CASE row[e].id # s.id
        BY <1>0, <2>1, <3>2 DEF IsStored, TypeOK
      <3> QED  BY <3>1, <3>2
    <2> QED  BY <1>0, <2>1, <2>3, <2>4, PresenceStep
  <1>2. CASE DeleteApplied(t)
    <2>1. /\ s.pc = "delete" /\ s.old \in Records /\ s.old.digest \in Digests
          /\ point' = [point EXCEPT ![s.old.id] = NoPoint] /\ s.old.id \in Ids
      BY <1>2, ThreadFacts DEF DeleteApplied, At, OldPcs, DeletePcs, Records
    <2>2. /\ row[s.old.digest].status = "delete_pending" /\ row[s.old.digest].id = s.old.id
          /\ point[s.old.id] \in PointsWith(s.old.digest)
      BY <1>a, <2>1 DEF InOrder, OldInForce, StillSeen, RemovePcs, RowIs, Holds
    <2>3. ClaimOf(row[s.old.digest].status) = "deleting" /\ ~IsStored(s.old.digest)'
      BY <1>0, <2>1, <2>2, Claimings, Values DEF IsStored, TypeOK
    <2>4. ASSUME NEW e \in Digests \ {s.old.digest}
          PROVE  IsStored(e)' <=> IsStored(e)
      <3>1. CASE row[e].id = s.old.id
        <4>1. point[s.old.id] \notin PointsWith(e)
          BY <2>2, Values
        <4>2. point'[s.old.id] \notin PointsWith(e)
          BY <2>1, Values DEF TypeOK
        <4> QED  BY <1>0, <3>1, <4>1, <4>2 DEF IsStored
      <3>2. CASE row[e].id # s.old.id
        BY <1>0, <2>1, <3>2 DEF IsStored, TypeOK
      <3> QED  BY <3>1, <3>2
    <2> QED  BY <1>0, <2>1, <2>3, <2>4, PresenceStep
  <1> QED  BY <1>1, <1>2

\* Every other step says nothing of any memory.
LEMMA SilentStep ==
    ASSUME UNCHANGED <<row, point>>
    PROVE  StoreStep
  BY DEF StoreStep, Memory!storeVars, IsStored, ClaimOf

LEMMA OthersPoint ==
    ASSUME TypeOK, ForeignWrite
    PROVE  StoreStep
  <1>1. row' = row /\ \A e \in Digests : row[e].id \in Ids \cup {0}
    BY DEF ForeignWrite, ledger, TypeOK, RowOK
  <1>2. \A i \in Ids, d \in Digests :
           point'[i] \in PointsWith(d) <=> point[i] \in PointsWith(d)
    BY DEF ForeignWrite, Vacant, TypeOK, PointsWith, Own, Legacy, Alien, Foreign
  <1>3. \A d \in Digests : /\ IsStored(d)' = IsStored(d)
                           /\ ClaimOf(row[d].status)' = ClaimOf(row[d].status)
    BY <1>1, <1>2 DEF IsStored, ClaimOf
  <1> QED  BY <1>3 DEF StoreStep, Memory!storeVars

LEMMA EveryStepMaps ==
    ASSUME TypeOK, IdsInvariant, IntentInvariant, PlaceInvariant, [Next]_vars,
           Environment \cap {"late_insert", "late_delete"} = {}
    PROVE  StoreStep
  <1>1. CASE UNCHANGED vars \/ Crash
    BY <1>1, SilentStep DEF vars, Crash, ledger
  <1>2. CASE Land \/ ForeignWrite
    BY <1>2, OthersPoint DEF Land, PlaceInvariant
  <1>3. ASSUME NEW t \in Threads, Request(t) \/ RpcError(t)
        PROVE  StoreStep
    BY <1>3, SilentStep
       DEF Request, BeginAdd, BeginRemove, BeginReplace, BeginReconcile, RpcError, ledger
  <1>4. ASSUME NEW t \in Threads, Store(t)
        PROVE  StoreStep
    <2>1. CASE WriteAhead(t) \/ Commit(t) \/ MarkRetry(t) \/ InsertApplied(t)
      BY <2>1, UpsertClaims, RetryClaims, PointClaims
    <2>2. CASE \/ LookUp(t) \/ ReadKnown(t) \/ NextExternalId(t)
               \/ ProbeVacant(t) \/ ProbeOccupied(t) \/ VerifyReadback(t)
      BY <2>2, SilentStep DEF LookUp, ReadKnown, NextExternalId, ProbeVacant,
         ProbeOccupied, VerifyReadback, ledger
    <2> QED  BY <1>4, <2>1, <2>2 DEF Store, InsertDelayed
  <1>5. ASSUME NEW t \in Threads, Delete(t)
        PROVE  StoreStep
    <2>1. CASE MarkDone(t) \/ DeleteFailed(t) \/ DeleteApplied(t)
      BY <2>1, OldClaims, PointClaims
    <2>2. CASE ReadOld(t) \/ DeleteRefused(t) \/ ReadBack(t)
      BY <2>2, SilentStep DEF ReadOld, DeleteRefused, ReadBack, ledger
    <2> QED  BY <1>5, <2>1, <2>2 DEF Delete, DeleteDelayed
  <1>6. ASSUME NEW t \in Threads, Reconcile(t)
        PROVE  StoreStep
    <2>1. CASE MarkChecked(t)
      BY <2>1, OldClaims
    <2>2. CASE \/ ListRetries(t) \/ NextPending(t) \/ SkipPending(t)
               \/ ReadPending(t) \/ CheckInsert(t)
      BY <2>2, SilentStep DEF NextPending, ListRetries, SkipPending, ReadPending, CheckInsert, ledger
    <2> QED  BY <1>6, <2>1, <2>2 DEF Reconcile
  <1>7. ASSUME NEW t \in Threads,
               SearchLegacy(t) \/ Adopt(t) \/ MarkOld(t) \/ Reinstate(t) \/ RetireOld(t)
        PROVE  StoreStep
    BY <1>7, SilentStep, UpsertClaims, OldClaims DEF SearchLegacy, ledger
  <1> QED  BY <1>1, <1>2, <1>3, <1>4, <1>5, <1>6, <1>7 DEF Next, Step

\* The mutation paths implement the memory store, for any number of memories,
\* ids, operations and faults: no point comes or goes without its intent, and
\* nothing is called stored or gone unseen except by a failed replace.
THEOREM StoreImplemented ==
    ASSUME OneExecutor, FreshCollection,
           Environment \cap {"late_insert", "late_delete"} = {}
    PROVE  Spec => ImplementsStore
  <1>1. Init => Memory!Init
    <2> SUFFICES ASSUME Init
                 PROVE  Memory!Init
      OBVIOUS
    <2>1. \A d \in Digests : ClaimOf(row[d].status) = "none"
      BY DEF Init, ClaimOf
    <2>2. \A d \in Digests : IsStored(d) = FALSE
      BY DEF Init, IsStored
    <2> QED  BY <2>1, <2>2 DEF Memory!Init
  <1>2. TypeOK /\ IdsInvariant /\ IntentInvariant /\ PlaceInvariant /\ [Next]_vars
           => [Memory!Next]_(Memory!storeVars)
    BY EveryStepMaps DEF StoreStep
  <1>3. NothingSigned /\ "late_delete" \notin Environment
    BY DEF FreshCollection, NothingSigned
  <1> QED
    BY <1>1, <1>2, <1>3, TypeCorrect, IdsCorrect, IntentCorrect, PlaceCorrect, PTL
       DEF Spec, ImplementsStore, Memory!Spec

-----------------------------------------------------------------------------
(* What the memory store promises, the mutation paths keep.                *)

MemoryProof == INSTANCE MemoryStoreProof
    WITH Memories <- Digests,
         Reclaims <- Replaces,
         claim    <- [d \in Digests |-> ClaimOf(row[d].status)],
         present  <- [d \in Digests |-> IsStored(d)]

\* The store of the proofs is the store of the model.
LEMMA SameStore ==
    /\ Memory!Init => MemoryProof!Init
    /\ [Memory!Next]_(Memory!storeVars) => [MemoryProof!Next]_(MemoryProof!storeVars)
  <1>1. Memory!Init => MemoryProof!Init
    BY DEF Memory!Init, MemoryProof!Init
  <1>2. ASSUME NEW m
        PROVE  /\ Memory!Intend(m) => MemoryProof!Intend(m)
               /\ Memory!Write(m) => MemoryProof!Write(m)
               /\ Memory!Confirm(m) => MemoryProof!Confirm(m)
               /\ Memory!Withdraw(m) => MemoryProof!Withdraw(m)
               /\ Memory!Reclaim(m) => MemoryProof!Reclaim(m)
               /\ Memory!Doom(m) => MemoryProof!Doom(m)
               /\ Memory!Erase(m) => MemoryProof!Erase(m)
               /\ Memory!ConfirmGone(m) => MemoryProof!ConfirmGone(m)
               /\ Memory!Dispute(m) => MemoryProof!Dispute(m)
    BY DEF Memory!Say, MemoryProof!Say, Memory!Make, MemoryProof!Make,
           Memory!Intend, MemoryProof!Intend, Memory!Write, MemoryProof!Write,
           Memory!Confirm, MemoryProof!Confirm, Memory!Withdraw, MemoryProof!Withdraw,
           Memory!Reclaim, MemoryProof!Reclaim, Memory!Doom, MemoryProof!Doom,
           Memory!Erase, MemoryProof!Erase, Memory!ConfirmGone, MemoryProof!ConfirmGone,
           Memory!Dispute, MemoryProof!Dispute
  <1>3. Memory!Next => MemoryProof!Next
    BY <1>2 DEF Memory!Next, MemoryProof!Next
  <1> QED  BY <1>1, <1>3 DEF Memory!storeVars, MemoryProof!storeVars

\* No memory the ledger never knew, or reports removed or replaced, is in the
\* collection at the id of its row, signed or legacy; and without replaces, every
\* one it reports active is: the store's promises, through the refinement.
THEOREM PromisesKept ==
    ASSUME OneExecutor, FreshCollection,
           Environment \cap {"late_insert", "late_delete"} = {}
    PROVE  Spec => [](Memory!GoneIsAbsent /\ Memory!StoredIsPresent)
  <1>1. Memory!Spec => MemoryProof!Spec
    BY SameStore, PTL DEF Memory!Spec, MemoryProof!Spec
  <1>2. MemoryProof!Spec => [](MemoryProof!GoneIsAbsent /\ MemoryProof!StoredIsPresent)
    BY MemoryProof!StoreKeepsItsWord
  <1>3. /\ MemoryProof!GoneIsAbsent <=> Memory!GoneIsAbsent
        /\ MemoryProof!StoredIsPresent <=> Memory!StoredIsPresent
    BY DEF Memory!GoneIsAbsent, MemoryProof!GoneIsAbsent,
           Memory!StoredIsPresent, MemoryProof!StoredIsPresent
  <1> QED  BY <1>1, <1>2, <1>3, StoreImplemented, PTL DEF ImplementsStore
=============================================================================
