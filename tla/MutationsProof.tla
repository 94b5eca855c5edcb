--------------------------- MODULE MutationsProof ---------------------------
(* Theorems about the mutation paths, for every value of the constants. *)
EXTENDS MutationsProps, TLAPS

(* A thread's next state is well formed wherever the code can send it. *)

LEMMA IdleOK == ThreadOK(Idle)
  BY DEF ThreadOK, ThreadStates, Idle, Pcs, NoRecord, NewPcs, IdPcs, OldPcs,
         DeletePcs, RpcPcs, StorePcs, InsertPcs, Kinds

LEMMA StoreFailedOK ==
    ASSUME NEW s, ThreadOK(s), s.pc \in NewPcs
    PROVE  ThreadOK(StoreFailed(s))
  BY IdleOK DEF ThreadOK, ThreadStates, Pcs, NewPcs, IdPcs, OldPcs, DeletePcs,
                RpcPcs, StorePcs, InsertPcs, StoreFailed

LEMMA DeleteRaisedOK ==
    ASSUME NEW s, ThreadOK(s), s.pc \in OldPcs
    PROVE  ThreadOK(DeleteRaised(s))
  BY IdleOK DEF ThreadOK, ThreadStates, Pcs, NewPcs, IdPcs, OldPcs, DeletePcs,
                RpcPcs, StorePcs, InsertPcs, DeleteRaised

LEMMA AfterOK ==
    ASSUME NEW s, ThreadOK(s)
    PROVE  ThreadOK(After(s))
  <1>1. CASE s.kind \in {"reconcile_deletes", "reconcile_inserts"}
    <2> DEFINE n == [s EXCEPT !.pc = "next_pending", !.old = NoRecord]
    <2>1. n \in ThreadStates
      BY DEF ThreadOK, ThreadStates, Pcs
    <2>2. n.pc = "next_pending" /\ n.kind = s.kind
      BY DEF ThreadOK, ThreadStates
    <2> QED  BY <1>1, <2>1, <2>2 DEF After, ThreadOK, NewPcs, IdPcs, OldPcs, DeletePcs
  <1>2. CASE s.kind \notin {"reconcile_deletes", "reconcile_inserts"}
    BY <1>2, IdleOK DEF After
  <1> QED  BY <1>1, <1>2

LEMMA OnErrorOK ==
    ASSUME NEW s, ThreadOK(s), s.pc \in RpcPcs
    PROVE  ThreadOK(OnError(s))
  <1>1. CASE s.pc \in StorePcs
    BY <1>1, StoreFailedOK DEF OnError, StorePcs, InsertPcs, DeletePcs, NewPcs
  <1>2. CASE s.pc \in InsertPcs
    BY <1>2 DEF OnError, StorePcs, InsertPcs, ThreadOK, ThreadStates, Pcs,
                NewPcs, IdPcs, OldPcs, DeletePcs, RpcPcs
  <1>3. CASE s.pc \in DeletePcs
    BY <1>3, DeleteRaisedOK DEF OnError, StorePcs, InsertPcs, DeletePcs, OldPcs
  <1>4. CASE s.pc = "check_insert"
    BY <1>4 DEF OnError, StorePcs, InsertPcs, ThreadOK, ThreadStates, Pcs,
                NewPcs, IdPcs, OldPcs, DeletePcs, RpcPcs
  <1>5. CASE s.pc = "search"
    BY <1>5, IdleOK DEF OnError, StorePcs, InsertPcs, DeletePcs
  <1> QED  BY <1>1, <1>2, <1>3, <1>4, <1>5 DEF RpcPcs

(* What a step hands to a thread from the ledger and the collection. *)

LEMMA RecordOfOK ==
    ASSUME RowOK, NEW d \in Digests, row[d].status # "absent"
    PROVE  RecordOf(d) \in Records
  BY DEF RowOK, RecordOf, Records

LEMMA ResolveOK ==
    ASSUME RowOK, NEW n \in SUBSET Digests
    PROVE  Resolve(n) \subseteq Records
  BY RecordOfOK DEF Resolve

LEMMA PendingOK ==
    ASSUME RowOK, NEW st \in Statuses \ {"absent"}
    PROVE  Pending(st) \subseteq Records
  BY RecordOfOK DEF Pending

LEMMA SearchOK ==
    ASSUME RowOK, NEW n \in SUBSET Digests, NEW S \in SearchResults(n)
    PROVE  S \subseteq Records
  <1>1. RemoteMatches(n) \subseteq Records
    BY DEF RemoteMatches, Records
  <1>2. LedgerMatches(n) \subseteq Records
    BY RecordOfOK DEF LedgerMatches
  <1> QED  BY <1>1, <1>2 DEF SearchResults

(* The ledger's statements keep the table well formed. *)

LEMMA SetStatusOK ==
    ASSUME RowOK, NEW d, NEW s \in Statuses \ {"absent"}, row' = SetStatus(d, s)
    PROVE  RowOK'
  <1>1. row' \in [Digests -> [status : Statuses, id : Ids \cup {0}]]
    BY ZenonT(30) DEF RowOK, SetStatus, Statuses
  <1>2. ASSUME NEW e \in Digests
        PROVE  row'[e].id = 0 <=> row'[e].status = "absent"
    BY DEF RowOK, SetStatus
  <1> QED  BY <1>1, <1>2 DEF RowOK

LEMMA UpsertOK ==
    ASSUME RowOK, NEW d, NEW i \in Ids, NEW s \in Statuses \ {"absent"},
           row' = Upsert(d, i, s)
    PROVE  RowOK'
  <1>1. row' \in [Digests -> [status : Statuses, id : Ids \cup {0}]]
    BY DEF RowOK, Upsert
  <1>2. ASSUME NEW e \in Digests
        PROVE  row'[e].id = 0 <=> row'[e].status = "absent"
    BY DEF RowOK, Upsert, Ids
  <1> QED  BY <1>1, <1>2 DEF RowOK

LEMMA GotoOK ==
    ASSUME TypeOK, NEW t \in Threads, NEW s, ThreadOK(s), Goto(t, s)
    PROVE  /\ th' \in [Threads -> ThreadStates]
           /\ \A u \in Threads : ThreadOK(th'[u])
  BY DEF TypeOK, Goto, ThreadOK

-----------------------------------------------------------------------------
(* Every step keeps TypeOK: the thread's next state first, then the rest. *)

LEMMA ResolveOldOK ==
    ASSUME TypeOK, NEW t \in Threads, NEW s \in ThreadStates,
           s.pc = "idle", s.old = NoRecord,
           s.kind = "remove" \/ (s.kind = "replace" /\ s.new \in Digests),
           ResolveOld(t, s)
    PROVE  \E z : ThreadOK(z) /\ Goto(t, z)
  <1>1. Resolve(s.needle) \subseteq Records
    BY ResolveOK DEF ThreadStates, TypeOK
  <1>2. CASE Goto(t, [s EXCEPT !.pc = "search"])
    <2>1. ThreadOK([s EXCEPT !.pc = "search"])
      BY DEF ThreadOK, ThreadStates, Pcs, NewPcs, IdPcs, OldPcs, DeletePcs,
             RpcPcs, StorePcs, InsertPcs
    <2> QED  BY <1>2, <2>1
  <1>3. ASSUME NEW r \in Resolve(s.needle),
               Goto(t, [s EXCEPT !.pc = "mark_old", !.old = r, !.needle = {}])
        PROVE  \E z : ThreadOK(z) /\ Goto(t, z)
    <2>1. ThreadOK([s EXCEPT !.pc = "mark_old", !.old = r, !.needle = {}])
      BY <1>1, <1>3 DEF ThreadOK, ThreadStates, Pcs, NewPcs, IdPcs, OldPcs, DeletePcs,
             RpcPcs, StorePcs, InsertPcs
    <2> QED  BY <1>3, <2>1
  <1>4. CASE Goto(t, Idle)
    BY <1>4, IdleOK
  <1> QED  BY <1>2, <1>3, <1>4 DEF ResolveOld

LEMMA LocalStepOK ==
    ASSUME TypeOK, NEW t \in Threads, \E z : ThreadOK(z) /\ Goto(t, z),
           RowOK', counter' \in Nat \ {0}, point' \in [Ids -> Contents],
           inflight' \subseteq Messages, ops' \in Nat, faults' \in Nat
    PROVE  TypeOK'
  BY GotoOK DEF TypeOK

LEMMA RequestOK ==
    ASSUME TypeOK, NEW t \in Threads, Request(t)
    PROVE  TypeOK'
  <1>1. /\ RowOK' /\ counter' \in Nat \ {0} /\ point' \in [Ids -> Contents]
        /\ inflight' \subseteq Messages /\ faults' \in Nat
    BY DEF TypeOK, RowOK, Request, BeginAdd, BeginRemove, BeginReplace,
           BeginReconcile, ledger
  <1>2. ops' \in Nat
    <2>1. \E k \in Kinds : Begin(t, k)
      BY DEF Request, BeginAdd, BeginRemove, BeginReplace, BeginReconcile, Kinds
    <2> QED  BY <2>1 DEF TypeOK, Begin
  <1>3. ASSUME NEW d \in Digests,
               Goto(t, [Idle EXCEPT !.pc = "look_up", !.kind = "add", !.new = d])
        PROVE  \E z : ThreadOK(z) /\ Goto(t, z)
    <2>1. ThreadOK([Idle EXCEPT !.pc = "look_up", !.kind = "add", !.new = d])
      BY DEF Idle, NoRecord, Kinds, ThreadOK, ThreadStates, Pcs, NewPcs, IdPcs,
             OldPcs, DeletePcs, RpcPcs, StorePcs, InsertPcs
    <2> QED  BY <1>3, <2>1
  <1>4. ASSUME NEW n \in Needles,
               ResolveOld(t, [Idle EXCEPT !.kind = "remove", !.needle = n])
        PROVE  \E z : ThreadOK(z) /\ Goto(t, z)
    <2> DEFINE s == [Idle EXCEPT !.kind = "remove", !.needle = n]
    <2>1. s \in ThreadStates
      BY ConstantsAssumption DEF Idle, ThreadStates, Kinds, Pcs
    <2>2. s.pc = "idle" /\ s.old = NoRecord /\ s.kind = "remove"
      BY DEF Idle
    <2> QED  BY <1>4, <2>1, <2>2, ResolveOldOK
  <1>5. ASSUME NEW n \in Needles, NEW d \in Digests,
               ResolveOld(t, [Idle EXCEPT !.kind = "replace", !.needle = n,
                                          !.new = d])
        PROVE  \E z : ThreadOK(z) /\ Goto(t, z)
    <2> DEFINE s == [Idle EXCEPT !.kind = "replace", !.needle = n, !.new = d]
    <2>1. s \in ThreadStates
      BY ConstantsAssumption DEF Idle, ThreadStates, Kinds, Pcs
    <2>2. s.pc = "idle" /\ s.old = NoRecord /\ s.kind = "replace" /\ s.new = d
      BY DEF Idle
    <2> QED  BY <1>5, <2>1, <2>2, ResolveOldOK
  <1>6. ASSUME NEW k \in {"reconcile_deletes", "reconcile_inserts"},
               NEW pc \in {"next_pending", "list_retries"},
               NEW st \in {"delete_pending", "inserting"},
               Goto(t, [Idle EXCEPT !.pc = pc, !.kind = k, !.todo = Pending(st)])
        PROVE  \E z : ThreadOK(z) /\ Goto(t, z)
    <2>1. Pending(st) \subseteq Records
      BY PendingOK DEF TypeOK, Statuses
    <2>2. ThreadOK([Idle EXCEPT !.pc = pc, !.kind = k, !.todo = Pending(st)])
      BY <1>6, <2>1 DEF Idle, NoRecord, Kinds, ThreadOK, ThreadStates, Pcs,
             NewPcs, IdPcs, OldPcs, DeletePcs, RpcPcs, StorePcs, InsertPcs
    <2> QED  BY <1>6, <2>2
  <1>7. \E z : ThreadOK(z) /\ Goto(t, z)
    BY <1>3, <1>4, <1>5, <1>6
       DEF Request, BeginAdd, BeginRemove, BeginReplace, BeginReconcile
  <1> QED  BY <1>1, <1>2, <1>7, LocalStepOK

LEMMA StoreStepOK ==
    ASSUME TypeOK, NEW t \in Threads, Store(t)
    PROVE  \E z : ThreadOK(z) /\ Goto(t, z)
  <1> DEFINE s == th[t]
  <1>0. ThreadOK(s)
    BY DEF TypeOK
  <1> HIDE DEF s
  <1>1. CASE LookUp(t)
    <2>1. ThreadOK([s EXCEPT !.pc = "next_id"])
      BY <1>0, <1>1
       DEF LookUp, At, s,
          ThreadOK, ThreadStates, Pcs, NewPcs, IdPcs, OldPcs,
          DeletePcs, RpcPcs, StorePcs, InsertPcs
    <2>2. row[s.new].status # "absent" =>
             ThreadOK([s EXCEPT !.pc = "read_known", !.id = row[s.new].id])
      BY ZenonT(30), <1>0, <1>1
       DEF LookUp, At, s, TypeOK, RowOK,
          ThreadOK, ThreadStates, Pcs, NewPcs, IdPcs, OldPcs,
          DeletePcs, RpcPcs, StorePcs, InsertPcs
    <2> QED  BY <1>1, <2>1, <2>2 DEF LookUp, s
  <1>2. CASE ReadKnown(t)
    <2>1. ThreadOK([s EXCEPT !.pc = "write_ahead"])
      BY <1>0, <1>2
       DEF ReadKnown, At, s,
          ThreadOK, ThreadStates, Pcs, NewPcs, IdPcs, OldPcs,
          DeletePcs, RpcPcs, StorePcs, InsertPcs
    <2>2. ThreadOK([s EXCEPT !.pc = "next_id", !.id = 0])
      BY <1>0, <1>2
       DEF ReadKnown, At, s,
          ThreadOK, ThreadStates, Pcs, NewPcs, IdPcs, OldPcs,
          DeletePcs, RpcPcs, StorePcs, InsertPcs
    <2> QED  BY <1>2, <2>1, <2>2 DEF ReadKnown, s
  <1>3. CASE NextExternalId(t)
    <2>1. ThreadOK([s EXCEPT !.pc = "probe", !.id = counter])
      BY <1>0, <1>3
       DEF NextExternalId, At, s,
          ThreadOK, ThreadStates, Pcs, NewPcs, IdPcs, OldPcs,
          DeletePcs, RpcPcs, StorePcs, InsertPcs
    <2> QED  BY <1>3, <2>1 DEF NextExternalId, s
  <1>4. CASE ProbeVacant(t)
    <2>1. ThreadOK([s EXCEPT !.pc = "write_ahead", !.tries = 0])
      BY <1>0, <1>4
       DEF ProbeVacant, At, s,
          ThreadOK, ThreadStates, Pcs, NewPcs, IdPcs, OldPcs,
          DeletePcs, RpcPcs, StorePcs, InsertPcs
    <2> QED  BY <1>4, <2>1 DEF ProbeVacant, s
  <1>5. CASE ProbeOccupied(t)
    <2>0. s.pc = "probe" /\ s.tries + 1 \in Nat
      BY <1>0, <1>5 DEF ProbeOccupied, At, s, ThreadOK, ThreadStates
    <2>1. ThreadOK([s EXCEPT !.pc = "next_id", !.id = 0, !.tries = @ + 1])
      BY <1>0, <2>0
       DEF ThreadOK, ThreadStates, Pcs, NewPcs, IdPcs, OldPcs,
          DeletePcs, RpcPcs, StorePcs, InsertPcs
    <2>2. ThreadOK(StoreFailed(s))
      BY <1>0, <1>5, StoreFailedOK DEF ProbeOccupied, At, s, NewPcs
    <2> QED  BY <1>5, <2>1, <2>2 DEF ProbeOccupied, s
  <1>6. CASE WriteAhead(t)
    <2>1. ThreadOK([s EXCEPT !.pc = "insert"])
      BY <1>0, <1>6
       DEF WriteAhead, At, s,
          ThreadOK, ThreadStates, Pcs, NewPcs, IdPcs, OldPcs,
          DeletePcs, RpcPcs, StorePcs, InsertPcs
    <2> QED  BY <1>6, <2>1, IdleOK DEF WriteAhead, s
  <1>7. CASE InsertApplied(t)
    <2>1. ThreadOK([s EXCEPT !.pc = "verify", !.tries = 1])
      BY <1>0, <1>7
       DEF InsertApplied, At, s,
          ThreadOK, ThreadStates, Pcs, NewPcs, IdPcs, OldPcs,
          DeletePcs, RpcPcs, StorePcs, InsertPcs
    <2>2. ThreadOK(OnError(s))
      BY <1>0, <1>7, OnErrorOK DEF InsertApplied, At, s, RpcPcs, InsertPcs
    <2> QED  BY <1>7, <2>1, <2>2 DEF InsertApplied, s, Verifying
  <1>8. CASE InsertDelayed(t)
    <2>1. ThreadOK([s EXCEPT !.pc = "verify", !.tries = 1])
      BY <1>0, <1>8
       DEF InsertDelayed, At, s,
          ThreadOK, ThreadStates, Pcs, NewPcs, IdPcs, OldPcs,
          DeletePcs, RpcPcs, StorePcs, InsertPcs
    <2>2. ThreadOK(OnError(s))
      BY <1>0, <1>8, OnErrorOK DEF InsertDelayed, At, s, RpcPcs, InsertPcs
    <2> QED  BY <1>8, <2>1, <2>2 DEF InsertDelayed, s, Verifying
  <1>9. CASE VerifyReadback(t)
    <2>1. ThreadOK([s EXCEPT !.pc = "commit", !.tries = 0])
      BY <1>0, <1>9
       DEF VerifyReadback, At, s,
          ThreadOK, ThreadStates, Pcs, NewPcs, IdPcs, OldPcs,
          DeletePcs, RpcPcs, StorePcs, InsertPcs
    <2>2. ThreadOK([s EXCEPT !.tries = IF @ < VerifyAttempts THEN @ + 1 ELSE @])
      BY <1>0, <1>9
       DEF VerifyReadback, At, s,
          ThreadOK, ThreadStates, Pcs, NewPcs, IdPcs, OldPcs,
          DeletePcs, RpcPcs, StorePcs, InsertPcs
    <2>3. ThreadOK(OnError(s))
      BY <1>0, <1>9, OnErrorOK DEF VerifyReadback, At, s, RpcPcs, InsertPcs
    <2> QED  BY <1>9, <2>1, <2>2, <2>3 DEF VerifyReadback, s
  <1>10. CASE Commit(t)
    <2>1. ThreadOK([s EXCEPT !.pc = "retire_old", !.id = 0]) \/ s.kind # "replace"
      BY <1>0, <1>10
       DEF Commit, At, s,
          ThreadOK, ThreadStates, Pcs, NewPcs, IdPcs, OldPcs,
          DeletePcs, RpcPcs, StorePcs, InsertPcs
    <2> QED  BY <1>10, <2>1, IdleOK DEF Commit, s
  <1>11. CASE MarkRetry(t)
    <2>1. ThreadOK(StoreFailed(s))
      BY <1>0, <1>11, StoreFailedOK DEF MarkRetry, At, s, NewPcs
    <2> QED  BY <1>11, <2>1 DEF MarkRetry, s
  <1> QED
    BY <1>1, <1>2, <1>3, <1>4, <1>5, <1>6, <1>7, <1>8, <1>9, <1>10, <1>11 DEF Store

LEMMA DeleteStepOK ==
    ASSUME TypeOK, NEW t \in Threads, Delete(t)
    PROVE  \E z : ThreadOK(z) /\ Goto(t, z)
  <1> DEFINE s == th[t]
  <1>0. ThreadOK(s)
    BY DEF TypeOK
  <1> HIDE DEF s
  <1>1. CASE ReadOld(t)
    <2>1. ThreadOK([s EXCEPT !.pc = "mark_done"])
      BY <1>0, <1>1 DEF ReadOld, At, s,
          ThreadOK, ThreadStates, Pcs, NewPcs, IdPcs, OldPcs,
          DeletePcs, RpcPcs, StorePcs, InsertPcs
    <2>2. ThreadOK([s EXCEPT !.pc = "delete"])
      BY <1>0, <1>1 DEF ReadOld, At, s,
          ThreadOK, ThreadStates, Pcs, NewPcs, IdPcs, OldPcs,
          DeletePcs, RpcPcs, StorePcs, InsertPcs
    <2>3. ThreadOK(DeleteRaised(s))
      BY <1>0, <1>1, DeleteRaisedOK DEF ReadOld, At, s, OldPcs, DeletePcs
    <2> QED  BY <1>1, <2>1, <2>2, <2>3 DEF ReadOld, s
  <1>2. CASE DeleteApplied(t)
    <2>1. ThreadOK([s EXCEPT !.pc = "read_back"])
      BY <1>0, <1>2 DEF DeleteApplied, At, s,
          ThreadOK, ThreadStates, Pcs, NewPcs, IdPcs, OldPcs,
          DeletePcs, RpcPcs, StorePcs, InsertPcs
    <2>2. ThreadOK(DeleteRaised(s))
      BY <1>0, <1>2, DeleteRaisedOK DEF DeleteApplied, At, s, OldPcs, DeletePcs
    <2> QED  BY <1>2, <2>1, <2>2 DEF DeleteApplied, s
  <1>3. CASE DeleteRefused(t)
    <2>1. ThreadOK([s EXCEPT !.pc = "read_back"])
      BY <1>0, <1>3 DEF DeleteRefused, At, s,
          ThreadOK, ThreadStates, Pcs, NewPcs, IdPcs, OldPcs,
          DeletePcs, RpcPcs, StorePcs, InsertPcs
    <2> QED  BY <1>3, <2>1 DEF DeleteRefused, s
  <1>4. CASE DeleteDelayed(t)
    <2>1. ThreadOK(DeleteRaised(s))
      BY <1>0, <1>4, DeleteRaisedOK DEF DeleteDelayed, At, s, OldPcs, DeletePcs
    <2> QED  BY <1>4, <2>1 DEF DeleteDelayed, s
  <1>5. CASE ReadBack(t)
    <2>1. ThreadOK([s EXCEPT !.pc = "mark_done"])
      BY <1>0, <1>5 DEF ReadBack, At, s,
          ThreadOK, ThreadStates, Pcs, NewPcs, IdPcs, OldPcs,
          DeletePcs, RpcPcs, StorePcs, InsertPcs
    <2>2. ThreadOK(DeleteRaised(s))
      BY <1>0, <1>5, DeleteRaisedOK DEF ReadBack, At, s, OldPcs, DeletePcs
    <2> QED  BY <1>5, <2>1, <2>2 DEF ReadBack, s
  <1>6. CASE MarkDone(t)
    <2>1. ThreadOK(After(s))
      BY <1>0, AfterOK
    <2> QED  BY <1>6, <2>1 DEF MarkDone, s
  <1>7. CASE DeleteFailed(t)
    <2>1. ThreadOK(After(s))
      BY <1>0, AfterOK
    <2> QED  BY <1>7, <2>1 DEF DeleteFailed, s
  <1> QED
    BY <1>1, <1>2, <1>3, <1>4, <1>5, <1>6, <1>7 DEF Delete

LEMMA ReconcileStepOK ==
    ASSUME TypeOK, NEW t \in Threads, Reconcile(t)
    PROVE  \E z : ThreadOK(z) /\ Goto(t, z)
  <1> DEFINE s == th[t]
  <1>0. ThreadOK(s)
    BY DEF TypeOK
  <1> HIDE DEF s
  <1>1. CASE NextPending(t)
    <2>1. ASSUME NEW r \in s.todo, NEW pc \in {"pending_read", "check_insert"}
          PROVE  ThreadOK([s EXCEPT !.pc = pc, !.old = r, !.todo = @ \ {r}])
      BY ZenonT(30), <1>0, <2>1
       DEF ThreadOK, ThreadStates, Pcs, NewPcs, IdPcs, OldPcs,
          DeletePcs, RpcPcs, StorePcs, InsertPcs
    <2> QED  BY <1>1, <2>1, IdleOK DEF NextPending, s
  <1>l. CASE ListRetries(t)
    <2>1. Pending("retry_pending") \subseteq Records
      BY PendingOK DEF TypeOK, Statuses
    <2>2. ThreadOK([s EXCEPT !.pc = "next_pending",
                             !.todo = @ \cup Pending("retry_pending")])
      BY <1>0, <2>1 DEF ThreadOK, ThreadStates, Pcs, NewPcs, IdPcs, OldPcs,
                        DeletePcs, RpcPcs, StorePcs, InsertPcs
    <2> QED  BY <1>l, <2>2 DEF ListRetries, s
  <1>2. CASE SkipPending(t)
    <2>1. \A r \in s.todo : ThreadOK([s EXCEPT !.todo = @ \ {r}])
      BY <1>0, <1>2 DEF SkipPending, At, s,
          ThreadOK, ThreadStates, Pcs, NewPcs, IdPcs, OldPcs,
          DeletePcs, RpcPcs, StorePcs, InsertPcs
    <2> QED  BY <1>2, <2>1 DEF SkipPending, s
  <1>3. CASE ReadPending(t)
    <2>1. ThreadOK([s EXCEPT !.pc = "mark_done"])
      BY <1>0, <1>3 DEF ReadPending, At, s,
          ThreadOK, ThreadStates, Pcs, NewPcs, IdPcs, OldPcs,
          DeletePcs, RpcPcs, StorePcs, InsertPcs
    <2>2. ThreadOK([s EXCEPT !.pc = "read_old"])
      BY <1>0, <1>3 DEF ReadPending, At, s,
          ThreadOK, ThreadStates, Pcs, NewPcs, IdPcs, OldPcs,
          DeletePcs, RpcPcs, StorePcs, InsertPcs
    <2>3. ThreadOK([s EXCEPT !.pc = "mark_conflict"])
      BY <1>0, <1>3 DEF ReadPending, At, s,
          ThreadOK, ThreadStates, Pcs, NewPcs, IdPcs, OldPcs,
          DeletePcs, RpcPcs, StorePcs, InsertPcs
    <2> QED  BY <1>3, <2>1, <2>2, <2>3 DEF ReadPending, s
  <1>4. CASE CheckInsert(t)
    <2>1. ThreadOK([s EXCEPT !.pc = "mark_absent"])
      BY <1>0, <1>4 DEF CheckInsert, At, s,
          ThreadOK, ThreadStates, Pcs, NewPcs, IdPcs, OldPcs,
          DeletePcs, RpcPcs, StorePcs, InsertPcs
    <2>2. ThreadOK([s EXCEPT !.pc = "mark_active"])
      BY <1>0, <1>4 DEF CheckInsert, At, s,
          ThreadOK, ThreadStates, Pcs, NewPcs, IdPcs, OldPcs,
          DeletePcs, RpcPcs, StorePcs, InsertPcs
    <2>3. ThreadOK([s EXCEPT !.pc = "mark_conflict"])
      BY <1>0, <1>4 DEF CheckInsert, At, s,
          ThreadOK, ThreadStates, Pcs, NewPcs, IdPcs, OldPcs,
          DeletePcs, RpcPcs, StorePcs, InsertPcs
    <2> QED  BY <1>4, <2>1, <2>2, <2>3 DEF CheckInsert, s
  <1>5. CASE MarkChecked(t)
    <2>1. ThreadOK(After(s))
      BY <1>0, AfterOK
    <2> QED  BY <1>5, <2>1 DEF MarkChecked, s
  <1> QED
    BY <1>1, <1>l, <1>2, <1>3, <1>4, <1>5 DEF Reconcile

LEMMA OtherStepOK ==
    ASSUME TypeOK, NEW t \in Threads,
           \/ SearchLegacy(t) \/ Adopt(t) \/ MarkOld(t)
           \/ Reinstate(t) \/ RetireOld(t) \/ RpcError(t)
    PROVE  \E z : ThreadOK(z) /\ Goto(t, z)
  <1> DEFINE s == th[t]
  <1>0. ThreadOK(s)
    BY DEF TypeOK
  <1> HIDE DEF s
  <1>1. CASE SearchLegacy(t)
    <2>1. PICK found \in SearchResults(s.needle) :
             Goto(t, IF found = {} THEN Idle
                     ELSE [s EXCEPT
                             !.pc = "adopt", !.todo = found, !.needle = {},
                             !.old = IF \E r \in found : found = {r}
                                       THEN CHOOSE r \in found : TRUE
                                       ELSE NoRecord])
      BY <1>1 DEF SearchLegacy, s
    <2>2. found \subseteq Records
      BY <1>0, SearchOK DEF ThreadOK, ThreadStates, TypeOK
    <2>3. ASSUME NEW o \in Records \cup {NoRecord}
          PROVE  ThreadOK([s EXCEPT !.pc = "adopt", !.todo = found,
                                    !.needle = {}, !.old = o])
      BY <1>0, <1>1, <2>2, <2>3 DEF SearchLegacy, At, s,
          ThreadOK, ThreadStates, Pcs, NewPcs, IdPcs, OldPcs,
          DeletePcs, RpcPcs, StorePcs, InsertPcs
    <2>4. found # {} => (CHOOSE r \in found : TRUE) \in Records
      BY <2>2
    <2> QED  BY <2>1, <2>3, <2>4, IdleOK
  <1>2. CASE Adopt(t)
    <2>1. PICK r \in s.todo :
             Goto(t, IF IdFree(r.digest, r.id)
                       THEN CASE s.todo # {r} -> [s EXCEPT !.todo = @ \ {r}]
                              [] s.todo = {r} /\ s.old = r ->
                                   [s EXCEPT !.pc = "mark_old", !.todo = {}]
                              [] OTHER -> Idle
                       ELSE Idle)
      BY <1>2 DEF Adopt, s
    <2>2. ThreadOK([s EXCEPT !.todo = @ \ {r}])
      BY <1>0, <1>2 DEF Adopt, At, s,
          ThreadOK, ThreadStates, Pcs, NewPcs, IdPcs, OldPcs,
          DeletePcs, RpcPcs, StorePcs, InsertPcs
    <2>3. s.old = r => ThreadOK([s EXCEPT !.pc = "mark_old", !.todo = {}])
      BY <1>0, <1>2 DEF Adopt, At, s,
          ThreadOK, ThreadStates, Pcs, NewPcs, IdPcs, OldPcs,
          DeletePcs, RpcPcs, StorePcs, InsertPcs
    <2> QED  BY <2>1, <2>2, <2>3, IdleOK
  <1>3. CASE MarkOld(t)
    <2>1. ThreadOK([s EXCEPT !.pc = IF s.kind = "remove" THEN "read_old"
                                                         ELSE "look_up"])
      BY <1>0, <1>3 DEF MarkOld, At, s,
          ThreadOK, ThreadStates, Pcs, NewPcs, IdPcs, OldPcs,
          DeletePcs, RpcPcs, StorePcs, InsertPcs
    <2> QED  BY <1>3, <2>1 DEF MarkOld, s
  <1>4. CASE Reinstate(t)
    BY <1>4, IdleOK DEF Reinstate
  <1>5. CASE RetireOld(t)
    <2>1. ThreadOK([s EXCEPT !.pc = "read_old", !.new = NoDigest])
      BY <1>0, <1>5 DEF RetireOld, At, s,
          ThreadOK, ThreadStates, Pcs, NewPcs, IdPcs, OldPcs,
          DeletePcs, RpcPcs, StorePcs, InsertPcs
    <2> QED  BY <1>5, <2>1, IdleOK DEF RetireOld, s
  <1>6. CASE RpcError(t)
    <2>1. ThreadOK(OnError(s))
      BY <1>0, <1>6, OnErrorOK DEF RpcError, s
    <2> QED  BY <1>6, <2>1 DEF RpcError, s
  <1> QED  BY <1>1, <1>2, <1>3, <1>4, <1>5, <1>6

(* The variables other than th. *)

Data == /\ RowOK /\ counter \in Nat \ {0} /\ point \in [Ids -> Contents]
        /\ inflight \subseteq Messages /\ ops \in Nat /\ faults \in Nat

LEMMA FaultOK ==
    ASSUME TypeOK
    PROVE  /\ UNCHANGED faults => faults' \in Nat
           /\ Fault => faults' \in Nat
  BY DEF TypeOK, Fault

LEMMA RowStepOK ==
    ASSUME TypeOK, NEW t \in Threads,
           \/ Adopt(t) \/ MarkOld(t) \/ WriteAhead(t) \/ Commit(t)
           \/ MarkRetry(t) \/ Reinstate(t) \/ RetireOld(t) \/ MarkDone(t)
           \/ DeleteFailed(t) \/ MarkChecked(t)
    PROVE  Data'
  <1>0. ThreadOK(th[t]) /\ RowOK
    BY DEF TypeOK
  <1>1. /\ counter' \in Nat \ {0} /\ point' \in [Ids -> Contents]
        /\ inflight' \subseteq Messages /\ ops' \in Nat /\ faults' \in Nat
    BY DEF TypeOK, Adopt, MarkOld, WriteAhead, Commit, MarkRetry, Reinstate,
           RetireOld, MarkDone, DeleteFailed, MarkChecked
  <1>2. row' = row => RowOK'
    BY <1>0 DEF RowOK
  <1>3. ASSUME NEW d, NEW s \in Statuses \ {"absent"}, row' = SetStatus(d, s)
        PROVE  RowOK'
    BY <1>0, <1>3, SetStatusOK
  <1>4. ASSUME NEW d, NEW i \in Ids, NEW s \in Statuses \ {"absent"},
               row' = Upsert(d, i, s)
        PROVE  RowOK'
    BY <1>0, <1>4, UpsertOK
  <1>5. IntentStatus(th[t].kind) \in Statuses \ {"absent"}
        /\ FinalStatus(th[t].kind) \in Statuses \ {"absent"}
    BY DEF IntentStatus, FinalStatus, Statuses
  <1>6. CASE MarkOld(t) \/ MarkRetry(t) \/ Reinstate(t) \/ RetireOld(t)
             \/ MarkDone(t) \/ DeleteFailed(t)
    <2>1. \E d, s : s \in Statuses \ {"absent"} /\ row' = SetStatus(d, s)
      BY <1>5, <1>6 DEF MarkOld, MarkRetry, Reinstate, RetireOld, MarkDone,
                        DeleteFailed, Statuses
    <2> QED  BY <1>1, <1>3, <2>1 DEF Data
  <1>7. CASE MarkChecked(t)
    <2>1. \E s \in Statuses \ {"absent"} : row' = SetStatus(th[t].old.digest, s)
      BY <1>7 DEF MarkChecked, Statuses
    <2> QED  BY <1>1, <1>3, <2>1 DEF Data
  <1>8. CASE Adopt(t)
    <2>1. PICK r \in th[t].todo : row' = Upsert(r.digest, r.id, "active")
                                   \/ row' = row
      BY <1>8 DEF Adopt
    <2>2. r.id \in Ids
      BY <1>0, <2>1 DEF ThreadOK, ThreadStates, Records
    <2> QED  BY <1>1, <1>2, <1>4, <2>1, <2>2 DEF Data, Statuses
  <1>9. CASE WriteAhead(t) \/ Commit(t)
    <2>1. th[t].id \in Ids
      BY <1>0, <1>9 DEF ThreadOK, IdPcs, WriteAhead, Commit, At
    <2>2. \/ row' = row
          \/ row' = Upsert(th[t].new, th[t].id, "inserting")
          \/ row' = Upsert(th[t].new, th[t].id, "active")
      BY <1>9 DEF WriteAhead, Commit
    <2> QED  BY <1>1, <1>2, <1>4, <2>1, <2>2 DEF Data, Statuses
  <1> QED  BY <1>6, <1>7, <1>8, <1>9

LEMMA QuietStepOK ==
    ASSUME TypeOK, NEW t \in Threads,
           \/ SearchLegacy(t) \/ LookUp(t) \/ ReadKnown(t) \/ ProbeVacant(t)
           \/ VerifyReadback(t) \/ ReadOld(t) \/ DeleteRefused(t)
           \/ ReadBack(t) \/ ListRetries(t) \/ NextPending(t) \/ SkipPending(t)
           \/ ReadPending(t) \/ CheckInsert(t) \/ RpcError(t)
    PROVE  Data'
  <1>1. UNCHANGED <<row, counter, point, inflight, ops>>
    BY DEF SearchLegacy, LookUp, ReadKnown, ProbeVacant, VerifyReadback,
           ReadOld, DeleteRefused, ReadBack, NextPending, ListRetries, SkipPending,
           ReadPending, CheckInsert, RpcError, ledger
  <1>2. UNCHANGED faults \/ Fault
    BY DEF SearchLegacy, LookUp, ReadKnown, ProbeVacant, VerifyReadback,
           ReadOld, DeleteRefused, ReadBack, NextPending, ListRetries, SkipPending,
           ReadPending, CheckInsert, RpcError
  <1> QED  BY <1>1, <1>2, FaultOK DEF TypeOK, Data, RowOK

LEMMA DataStepOK ==
    ASSUME TypeOK, NEW t \in Threads,
           \/ NextExternalId(t) \/ ProbeOccupied(t) \/ InsertApplied(t)
           \/ InsertDelayed(t) \/ DeleteApplied(t) \/ DeleteDelayed(t)
    PROVE  Data'
  <1>0. ThreadOK(th[t])
    BY DEF TypeOK
  <1>1. CASE NextExternalId(t) \/ ProbeOccupied(t)
    <2>1. counter' \in Nat \ {0}
      BY <1>0, <1>1, ConstantsAssumption
         DEF TypeOK, NextExternalId, ProbeOccupied, NextCounter, Observe,
             ThreadOK, IdPcs, At, Ids
    <2>2. UNCHANGED <<row, point, inflight, ops, faults>>
      BY <1>1 DEF NextExternalId, ProbeOccupied
    <2> QED  BY <2>1, <2>2 DEF TypeOK, Data, RowOK
  <1>2. CASE InsertApplied(t) \/ DeleteApplied(t)
    <2>1. point' \in [Ids -> Contents]
      BY <1>0, <1>2 DEF TypeOK, InsertApplied, DeleteApplied, At, Own, NoPoint,
           Contents, ThreadOK, NewPcs
    <2>2. UNCHANGED <<row, counter, inflight, ops>>
      BY <1>2 DEF InsertApplied, DeleteApplied, ledger
    <2>3. UNCHANGED faults \/ Fault
      BY <1>2 DEF InsertApplied, DeleteApplied
    <2> QED  BY <2>1, <2>2, <2>3, FaultOK DEF TypeOK, Data, RowOK
  <1>3. CASE InsertDelayed(t) \/ DeleteDelayed(t)
    <2>1. inflight' \subseteq Messages
      BY <1>0, <1>3 DEF TypeOK, InsertDelayed, DeleteDelayed, At, Insertion,
           Messages, Records, ThreadOK, NewPcs, IdPcs, OldPcs, DeletePcs
    <2>2. UNCHANGED <<row, counter, point, ops>> /\ Fault
      BY <1>3 DEF InsertDelayed, DeleteDelayed, ledger
    <2> QED  BY <2>1, <2>2, FaultOK DEF TypeOK, Data, RowOK
  <1> QED  BY <1>1, <1>2, <1>3

LEMMA ThreadStepOK ==
    ASSUME TypeOK, NEW t \in Threads, Step(t) \/ RpcError(t)
    PROVE  TypeOK'
  <1>1. \E z : ThreadOK(z) /\ Goto(t, z)
    BY StoreStepOK, DeleteStepOK, ReconcileStepOK, OtherStepOK DEF Step
  <1>2. Data'
    BY RowStepOK, QuietStepOK, DataStepOK DEF Step, Store, Delete, Reconcile
  <1> QED  BY <1>1, <1>2, LocalStepOK DEF Data

LEMMA EnvironmentOK ==
    ASSUME TypeOK, Land \/ Crash \/ ForeignWrite
    PROVE  TypeOK'
  <1>1. CASE Land
    <2>1. point' \in [Ids -> Contents] /\ inflight' \subseteq Messages
      BY <1>1 DEF TypeOK, Land, Messages, Own, NoPoint, Contents
    <2>2. UNCHANGED <<row, counter, th, ops, faults>>
      BY <1>1 DEF Land, ledger
    <2> QED  BY <2>1, <2>2 DEF TypeOK, RowOK
  <1>2. CASE Crash
    <2>1. th' \in [Threads -> ThreadStates] /\ \A t \in Threads : ThreadOK(th'[t])
      BY <1>2, IdleOK DEF Crash, ThreadOK
    <2>2. UNCHANGED <<row, counter, point, inflight, ops>> /\ Fault
      BY <1>2 DEF Crash, ledger
    <2> QED  BY <2>1, <2>2, FaultOK DEF TypeOK, RowOK
  <1>3. CASE ForeignWrite
    <2>1. point' \in [Ids -> Contents]
      BY <1>3 DEF TypeOK, ForeignWrite, Foreign, Contents
    <2>2. UNCHANGED <<row, counter, inflight, th, ops>> /\ Fault
      BY <1>3 DEF ForeignWrite, ledger
    <2> QED  BY <2>1, <2>2, FaultOK DEF TypeOK, RowOK
  <1> QED  BY <1>1, <1>2, <1>3

LEMMA TypePreserved ==
    ASSUME TypeOK, [Next]_vars
    PROVE  TypeOK'
  <1>1. CASE UNCHANGED vars
    BY <1>1 DEF TypeOK, RowOK, vars
  <1>2. ASSUME NEW t \in Threads, Request(t)
        PROVE  TypeOK'
    BY <1>2, RequestOK
  <1>3. ASSUME NEW t \in Threads, Step(t) \/ RpcError(t)
        PROVE  TypeOK'
    BY <1>3, ThreadStepOK
  <1>4. CASE Land \/ Crash \/ ForeignWrite
    BY <1>4, EnvironmentOK
  <1> QED  BY <1>1, <1>2, <1>3, <1>4 DEF Next

\* Type correctness, for every number of threads, memories and points: a row of
\* the ledger always has its point id, and every step of _apply_memory_event
\* and of the reconciliation passes finds the digest, id and record it uses.
THEOREM TypeCorrect == Spec => []TypeOK
  <1>1. Init => TypeOK
    <2> SUFFICES ASSUME Init PROVE TypeOK
      OBVIOUS
    <2>1. ThreadOK(Idle) /\ Idle \in ThreadStates
      BY IdleOK DEF ThreadOK
    <2>2. row \in [Digests -> [status : Statuses, id : Ids \cup {0}]]
      BY DEF Init, Statuses
    <2>3. RowOK
      BY <2>2 DEF Init, RowOK
    <2> QED  BY <2>1, <2>3, ConstantsAssumption DEF Init, TypeOK
  <1>2. TypeOK /\ [Next]_vars => TypeOK'
    BY TypePreserved
  <1> QED  BY <1>1, <1>2, PTL DEF Spec

-----------------------------------------------------------------------------
(* A point id never stands for two memories, and somebody else's points    *)
(* are never touched.                                                      *)
(*                                                                         *)
(* The argument: a pairing of a digest with an id enters the system only   *)
(* when a probe finds the id vacant (ProbeVacant), or when a built-in      *)
(* memory is adopted.  Every other step only copies pairings between the   *)
(* ledger, the collection, the network and a thread's hands.               *)

\* Pairings that exist before a step.
Known(r) == Claimed(r) \/ point[r.id] \in {Legacy(r.digest), Alien(r.digest)}

\* A thread state that holds known pairings only, and does not probe.
Copies(z) == /\ \A r \in Records : InHand(z, r) => Known(r)
             /\ z.pc # "probe"

(* What stays in a thread's hands when it fails or ends. *)

LEMMA NothingInHand ==
    ASSUME NEW r \in Records
    PROVE  ~InHand(Idle, r)
  BY DEF InHand, Idle, NoRecord, Records, Ids, HoldingPcs

LEMMA IdleCopies == Copies(Idle)
  BY NothingInHand DEF Copies, Idle

LEMMA FailureCopies ==
    ASSUME NEW s \in ThreadStates, \A r \in Records : InHand(s, r) => Known(r)
    PROVE  /\ Copies(StoreFailed(s)) /\ Copies(DeleteRaised(s)) /\ Copies(After(s))
           /\ s.pc \in RpcPcs => Copies(OnError(s))
  <1>1. ASSUME NEW pc \in {"reinstate", "delete_failed", "mark_retry", "mark_absent"}
        PROVE  Copies([s EXCEPT !.pc = pc])
    BY <1>1 DEF Copies, InHand, HoldingPcs, ThreadStates
  <1>2. Copies([s EXCEPT !.pc = "next_pending", !.old = NoRecord])
    BY DEF Copies, InHand, HoldingPcs, ThreadStates, NoRecord, Records, Ids
  <1>3. Copies(StoreFailed(s)) /\ Copies(DeleteRaised(s)) /\ Copies(After(s))
    BY <1>1, <1>2, IdleCopies DEF StoreFailed, DeleteRaised, After
  <1>4. s.pc \in RpcPcs => Copies(OnError(s))
    BY <1>1, <1>3, IdleCopies
       DEF OnError, RpcPcs, StorePcs, InsertPcs, DeletePcs
  <1> QED  BY <1>3, <1>4

LEMMA GotoCopies ==
    ASSUME TypeOK, NEW t \in Threads, NEW z, Goto(t, z),
           NEW r \in Records, NEW u \in Threads, InHand(th'[u], r)
    PROVE  InHand(z, r) \/ InHand(th[u], r)
  BY DEF Goto, TypeOK

LEMMA InHandIsClaimed ==
    ASSUME NEW t \in Threads, NEW r \in Records, InHand(th[t], r)
    PROVE  Claimed(r)
  BY DEF Claimed

(* The ledger's statements add no pairing but the one they are given. *)

LEMMA SetStatusCopies ==
    ASSUME RowOK, NEW d, NEW s, row' = SetStatus(d, s), NEW e \in Digests
    PROVE  row'[e].id = row[e].id
  BY DEF RowOK, SetStatus

LEMMA UpsertCopies ==
    ASSUME RowOK, NEW d, NEW i, NEW s, row' = Upsert(d, i, s), NEW e \in Digests
    PROVE  row'[e].id = row[e].id \/ (e = d /\ row'[e].id = i)
  BY DEF RowOK, Upsert

-----------------------------------------------------------------------------
(* What each step leaves in its thread's hands. *)

\* z differs from s only in what copies nothing new.
Shrinks(s, z) ==
    /\ z.pc # "probe"
    /\ z.old = s.old \/ z.old \in s.todo \/ z.old \notin Records
    /\ z.todo \subseteq s.todo
    /\ z.pc \in HoldingPcs => s.pc \in HoldingPcs /\ z.new = s.new /\ z.id = s.id

LEMMA ShrinkCopies ==
    ASSUME NEW s, NEW z, Shrinks(s, z), \A r \in Records : InHand(s, r) => Known(r)
    PROVE  Copies(z)
  BY DEF Shrinks, Copies, InHand

LEMMA RequestCopies ==
    ASSUME TypeOK, NEW t \in Threads, Request(t)
    PROVE  \E z : Goto(t, z) /\ Copies(z)
  <1>1. ASSUME NEW n \in Needles, NEW r \in Resolve(n)
        PROVE  Claimed(r)
    BY ConstantsAssumption DEF Resolve, RecordOf, Claimed
  <1>2. ASSUME NEW k, NEW r \in Pending(k)
        PROVE  Claimed(r)
    BY DEF Pending, RecordOf, Claimed
  <1>3. ASSUME NEW z, NEW pc \in {"look_up", "search"}, z.pc = pc,
               z.old = NoRecord, z.todo = {}
        PROVE  Copies(z)
    BY <1>3 DEF Copies, InHand, HoldingPcs, NoRecord, Records, Ids
  <1>4. ASSUME NEW n \in Needles, NEW s \in ThreadStates, s.needle = n,
               s.old = NoRecord, s.todo = {}, ResolveOld(t, s)
        PROVE  \E z : Goto(t, z) /\ Copies(z)
    <2>1. CASE Goto(t, [s EXCEPT !.pc = "search"])
      <3>1. Copies([s EXCEPT !.pc = "search"])
        BY <1>3, <1>4 DEF ThreadStates
      <3> QED  BY <2>1, <3>1
    <2>2. ASSUME NEW r \in Resolve(n),
                 Goto(t, [s EXCEPT !.pc = "mark_old", !.old = r, !.needle = {}])
          PROVE  \E z : Goto(t, z) /\ Copies(z)
      <3>1. Copies([s EXCEPT !.pc = "mark_old", !.old = r, !.needle = {}])
        BY <1>1, <1>4 DEF ThreadStates, Copies, InHand, HoldingPcs, Known
      <3> QED  BY <2>2, <3>1
    <2>3. CASE Goto(t, Idle)
      BY <2>3, IdleCopies
    <2> QED  BY <1>4, <2>1, <2>2, <2>3 DEF ResolveOld
  <1>5. CASE BeginAdd(t)
    <2>1. PICK d \in Digests :
             Goto(t, [Idle EXCEPT !.pc = "look_up", !.kind = "add", !.new = d])
      BY <1>5 DEF BeginAdd
    <2>2. Copies([Idle EXCEPT !.pc = "look_up", !.kind = "add", !.new = d])
      BY <1>3 DEF Idle
    <2> QED  BY <2>1, <2>2
  <1>6. CASE BeginRemove(t)
    <2>1. PICK n \in Needles :
             ResolveOld(t, [Idle EXCEPT !.kind = "remove", !.needle = n])
      BY <1>6 DEF BeginRemove
    <2>2. [Idle EXCEPT !.kind = "remove", !.needle = n] \in ThreadStates
      BY ConstantsAssumption DEF Idle, ThreadStates, Kinds, Pcs
    <2> QED  BY <1>4, <2>1, <2>2 DEF Idle
  <1>7. CASE BeginReplace(t)
    <2>1. PICK n \in Needles, d \in Digests :
             ResolveOld(t, [Idle EXCEPT !.kind = "replace", !.needle = n, !.new = d])
      BY <1>7 DEF BeginReplace
    <2>2. [Idle EXCEPT !.kind = "replace", !.needle = n, !.new = d] \in ThreadStates
      BY ConstantsAssumption DEF Idle, ThreadStates, Kinds, Pcs
    <2> QED  BY <1>4, <2>1, <2>2 DEF Idle
  <1>8. CASE BeginReconcile(t)
    <2>1. ASSUME NEW k, NEW st, NEW pc \in {"next_pending", "list_retries"}
          PROVE  Copies([Idle EXCEPT !.pc = pc, !.kind = k, !.todo = Pending(st)])
      BY <1>2 DEF Idle, Copies, InHand, HoldingPcs, Known, NoRecord, Records, Ids
    <2> QED  BY <1>8, <2>1 DEF BeginReconcile
  <1> QED  BY <1>5, <1>6, <1>7, <1>8 DEF Request

LEMMA StoreCopies ==
    ASSUME TypeOK, NEW t \in Threads, Store(t),
           ~NextExternalId(t), ~ProbeVacant(t)
    PROVE  \E z : Goto(t, z) /\ Copies(z)
  <1> DEFINE s == th[t]
  <1>0. ThreadOK(s) /\ s \in ThreadStates
    BY DEF TypeOK
  <1>a. \A r \in Records : InHand(s, r) => Known(r)
    BY InHandIsClaimed DEF Known
  <1>b. s.pc \in RpcPcs => Copies(OnError(s))
    BY <1>0, <1>a, FailureCopies
  <1> HIDE DEF s
  <1>1. CASE LookUp(t)
    <2>1. Shrinks(s, [s EXCEPT !.pc = "next_id"])
          /\ Shrinks(s, [s EXCEPT !.pc = "read_known", !.id = row[s.new].id])
      BY <1>0 DEF Shrinks, HoldingPcs, ThreadStates
    <2> QED  BY <1>a, <1>1, <2>1, ShrinkCopies DEF LookUp, s
  <1>2. CASE ReadKnown(t)
    <2>1. Shrinks(s, [s EXCEPT !.pc = "next_id", !.id = 0])
      BY <1>0 DEF Shrinks, HoldingPcs, ThreadStates
    <2>2. ASSUME Reusable(point[s.id], s.new)
          PROVE  Copies([s EXCEPT !.pc = "write_ahead"])
      <3>1. ASSUME NEW r \in Records, s.new = r.digest, s.id = r.id
            PROVE  Claimed(r)
        BY <2>2, <3>1 DEF Reusable, OwnerMatches, Claimed
      <3> QED  BY <1>0, <1>a, <3>1 DEF Copies, Known, InHand, ThreadStates
    <2> QED  BY <1>a, <1>2, <2>1, <2>2, ShrinkCopies DEF ReadKnown, s
  <1>3. CASE ProbeOccupied(t)
    <2>1. Shrinks(s, [s EXCEPT !.pc = "next_id", !.id = 0, !.tries = @ + 1])
      BY <1>0 DEF Shrinks, HoldingPcs, ThreadStates
    <2> QED
      BY <1>0, <1>a, <1>3, <2>1, ShrinkCopies, FailureCopies DEF ProbeOccupied, s
  <1>4. CASE WriteAhead(t)
    <2>1. Shrinks(s, [s EXCEPT !.pc = "insert"])
      BY <1>0, <1>4 DEF Shrinks, HoldingPcs, ThreadStates, WriteAhead, At, s
    <2> QED  BY <1>a, <1>4, <2>1, ShrinkCopies, IdleCopies DEF WriteAhead, s
  <1>5. CASE InsertApplied(t) \/ InsertDelayed(t)
    <2>1. Shrinks(s, [s EXCEPT !.pc = "verify", !.tries = 1])
      BY <1>0, <1>5
         DEF Shrinks, HoldingPcs, ThreadStates, InsertApplied, InsertDelayed, At, s
    <2>2. s.pc \in RpcPcs
      BY <1>5 DEF InsertApplied, InsertDelayed, At, RpcPcs, InsertPcs, s
    <2> QED
      BY <1>a, <1>b, <1>5, <2>1, <2>2, ShrinkCopies
         DEF InsertApplied, InsertDelayed, Verifying, s
  <1>6. CASE VerifyReadback(t)
    <2>1. s.pc = "verify"
      BY <1>6 DEF VerifyReadback, At, s
    <2>2. Shrinks(s, [s EXCEPT !.pc = "commit", !.tries = 0])
      BY <1>0, <2>1 DEF Shrinks, HoldingPcs, ThreadStates
    <2>3. Shrinks(s, [s EXCEPT !.tries = IF @ < VerifyAttempts THEN @ + 1 ELSE @])
      BY <1>0, <2>1 DEF Shrinks, HoldingPcs, ThreadStates
    <2> QED
      BY <1>a, <1>b, <1>6, <2>1, <2>2, <2>3, ShrinkCopies
         DEF VerifyReadback, RpcPcs, InsertPcs, s
  <1>7. CASE Commit(t)
    <2>1. Shrinks(s, [s EXCEPT !.pc = "retire_old", !.id = 0])
      BY <1>0 DEF Shrinks, HoldingPcs, ThreadStates
    <2> QED  BY <1>a, <1>7, <2>1, ShrinkCopies, IdleCopies DEF Commit, s
  <1>8. CASE MarkRetry(t)
    BY <1>0, <1>a, <1>8, FailureCopies DEF MarkRetry, s
  <1> QED
    BY <1>1, <1>2, <1>3, <1>4, <1>5, <1>6, <1>7, <1>8 DEF Store

LEMMA DeleteCopies ==
    ASSUME TypeOK, NEW t \in Threads, Delete(t)
    PROVE  \E z : Goto(t, z) /\ Copies(z)
  <1> DEFINE s == th[t]
  <1>0. ThreadOK(s) /\ s \in ThreadStates
    BY DEF TypeOK
  <1>a. \A r \in Records : InHand(s, r) => Known(r)
    BY InHandIsClaimed DEF Known
  <1>b. /\ Copies(DeleteRaised(s)) /\ Copies(After(s))
        /\ s.pc \in RpcPcs => Copies(OnError(s))
    BY <1>0, <1>a, FailureCopies
  <1>c. ASSUME NEW pc \in Pcs \ (HoldingPcs \cup {"probe"})
        PROVE  Copies([s EXCEPT !.pc = pc])
    <2>1. Shrinks(s, [s EXCEPT !.pc = pc])
      BY <1>0, <1>c DEF Shrinks, ThreadStates
    <2> QED  BY <1>a, <2>1, ShrinkCopies
  <1> HIDE DEF s
  <1>d. {"mark_done", "delete", "read_back"} \subseteq Pcs \ (HoldingPcs \cup {"probe"})
    BY DEF Pcs, HoldingPcs, RpcPcs, DeletePcs
  <1>1. CASE ReadOld(t)
    BY <1>b, <1>c, <1>d, <1>1 DEF ReadOld, s
  <1>2. CASE DeleteApplied(t) \/ DeleteRefused(t) \/ DeleteDelayed(t)
    BY <1>b, <1>c, <1>d, <1>2 DEF DeleteApplied, DeleteRefused, DeleteDelayed, s
  <1>3. CASE ReadBack(t)
    BY <1>b, <1>c, <1>d, <1>3 DEF ReadBack, s
  <1>4. CASE MarkDone(t) \/ DeleteFailed(t)
    BY <1>b, <1>4 DEF MarkDone, DeleteFailed, s
  <1> QED  BY <1>1, <1>2, <1>3, <1>4 DEF Delete

LEMMA ReconcileCopies ==
    ASSUME TypeOK, NEW t \in Threads, Reconcile(t)
    PROVE  \E z : Goto(t, z) /\ Copies(z)
  <1> DEFINE s == th[t]
  <1>0. ThreadOK(s) /\ s \in ThreadStates
    BY DEF TypeOK
  <1>a. \A r \in Records : InHand(s, r) => Known(r)
    BY InHandIsClaimed DEF Known
  <1>b. /\ Copies(DeleteRaised(s)) /\ Copies(After(s))
        /\ s.pc \in RpcPcs => Copies(OnError(s))
    BY <1>0, <1>a, FailureCopies
  <1>c. ASSUME NEW pc \in Pcs \ (HoldingPcs \cup {"probe"})
        PROVE  Copies([s EXCEPT !.pc = pc])
    <2>1. Shrinks(s, [s EXCEPT !.pc = pc])
      BY <1>0, <1>c DEF Shrinks, ThreadStates
    <2> QED  BY <1>a, <2>1, ShrinkCopies
  <1> HIDE DEF s
  <1>d. {"mark_done", "read_old", "mark_absent", "mark_active", "mark_conflict"}
           \subseteq Pcs \ (HoldingPcs \cup {"probe"})
    BY DEF Pcs, HoldingPcs, RpcPcs, DeletePcs
  <1>1. CASE NextPending(t)
    <2>1. ASSUME NEW r \in s.todo, NEW pc \in {"pending_read", "check_insert"}
          PROVE  Copies([s EXCEPT !.pc = pc, !.old = r, !.todo = @ \ {r}])
      <3>1. Shrinks(s, [s EXCEPT !.pc = pc, !.old = r, !.todo = @ \ {r}])
        BY <1>0, <2>1 DEF Shrinks, HoldingPcs, ThreadStates
      <3> QED  BY <1>a, <3>1, ShrinkCopies
    <2> QED  BY <1>1, <2>1, IdleCopies DEF NextPending, s
  <1>l. CASE ListRetries(t)
    <2>1. \A r \in Pending("retry_pending") : Known(r)
      BY DEF Pending, RecordOf, Known, Claimed
    <2>2. Copies([s EXCEPT !.pc = "next_pending",
                           !.todo = @ \cup Pending("retry_pending")])
      BY <1>0, <1>a, <2>1 DEF Copies, InHand, HoldingPcs, ThreadStates
    <2> QED  BY <1>l, <2>2 DEF ListRetries, s
  <1>2. CASE SkipPending(t)
    <2>1. ASSUME NEW r \in s.todo
          PROVE  Shrinks(s, [s EXCEPT !.todo = @ \ {r}])
      BY <1>0, <1>2 DEF Shrinks, HoldingPcs, ThreadStates, SkipPending, At, s
    <2> QED  BY <1>a, <1>2, <2>1, ShrinkCopies DEF SkipPending, s
  <1>3. CASE ReadPending(t)
    BY <1>c, <1>d, <1>3 DEF ReadPending, s
  <1>4. CASE CheckInsert(t)
    BY <1>c, <1>d, <1>4 DEF CheckInsert, s
  <1>5. CASE MarkChecked(t)
    BY <1>b, <1>5 DEF MarkChecked, s
  <1> QED  BY <1>1, <1>l, <1>2, <1>3, <1>4, <1>5 DEF Reconcile

LEMMA OtherCopies ==
    ASSUME TypeOK, NEW t \in Threads,
           \/ SearchLegacy(t) \/ Adopt(t) \/ MarkOld(t)
           \/ Reinstate(t) \/ RetireOld(t) \/ RpcError(t)
    PROVE  \E z : Goto(t, z) /\ Copies(z)
  <1> DEFINE s == th[t]
  <1>0. ThreadOK(s) /\ s \in ThreadStates
    BY DEF TypeOK
  <1>a. \A r \in Records : InHand(s, r) => Known(r)
    BY InHandIsClaimed DEF Known
  <1>b. /\ Copies(DeleteRaised(s)) /\ Copies(After(s))
        /\ s.pc \in RpcPcs => Copies(OnError(s))
    BY <1>0, <1>a, FailureCopies
  <1>c. ASSUME NEW pc \in Pcs \ (HoldingPcs \cup {"probe"})
        PROVE  Copies([s EXCEPT !.pc = pc])
    <2>1. Shrinks(s, [s EXCEPT !.pc = pc])
      BY <1>0, <1>c DEF Shrinks, ThreadStates
    <2> QED  BY <1>a, <2>1, ShrinkCopies
  <1> HIDE DEF s
  <1>1. CASE SearchLegacy(t)
    <2>1. PICK found \in SearchResults(s.needle) :
             Goto(t, IF found = {} THEN Idle
                     ELSE [s EXCEPT
                             !.pc = "adopt", !.todo = found, !.needle = {},
                             !.old = IF \E r \in found : found = {r}
                                       THEN CHOOSE r \in found : TRUE
                                       ELSE NoRecord])
      BY <1>1 DEF SearchLegacy, s
    <2>2. ASSUME NEW r \in found
          PROVE  Known(r)
      <3>1. CASE r \in RemoteMatches(s.needle)
        <4>1. /\ r.id \in Ids /\ r.digest = point[r.id].digest
              /\ r.digest \in Digests
          BY <1>0, <3>1 DEF RemoteMatches, ThreadStates
        <4>2. point[r.id] \in PointsWith(r.digest)
          BY <4>1, ConstantsAssumption
             DEF TypeOK, Contents, PointsWith, Own, Legacy, Alien
        <4> QED  BY <4>2 DEF Known, Claimed, PointsWith
      <3>2. CASE r \in LedgerMatches(s.needle)
        BY <3>2 DEF LedgerMatches, RecordOf, Known, Claimed
      <3> QED  BY <2>1, <3>1, <3>2 DEF SearchResults
    <2>3. ASSUME NEW o \in found \cup {NoRecord}
          PROVE  Copies([s EXCEPT !.pc = "adopt", !.todo = found,
                                  !.needle = {}, !.old = o])
      BY <1>0, <2>2, <2>3
         DEF Copies, InHand, HoldingPcs, ThreadStates, NoRecord, Records, Ids
    <2>4. found # {} => (CHOOSE r \in found : TRUE) \in found
      OBVIOUS
    <2> QED  BY <2>1, <2>3, <2>4, IdleCopies
  <1>2. CASE Adopt(t)
    <2>1. ASSUME NEW r \in s.todo
          PROVE  /\ Shrinks(s, [s EXCEPT !.todo = @ \ {r}])
                 /\ Shrinks(s, [s EXCEPT !.pc = "mark_old", !.todo = {}])
      BY <1>0, <1>2 DEF Shrinks, HoldingPcs, ThreadStates, Adopt, At, s
    <2>2. PICK r \in s.todo :
             Goto(t, IF IdFree(r.digest, r.id)
                       THEN CASE s.todo # {r} -> [s EXCEPT !.todo = @ \ {r}]
                              [] s.todo = {r} /\ s.old = r ->
                                   [s EXCEPT !.pc = "mark_old", !.todo = {}]
                              [] OTHER -> Idle
                       ELSE Idle)
      BY <1>2 DEF Adopt, s
    <2> QED  BY <1>a, <2>1, <2>2, ShrinkCopies, IdleCopies
  <1>3. CASE MarkOld(t)
    <2>1. {"read_old", "look_up"} \subseteq Pcs \ (HoldingPcs \cup {"probe"})
      BY DEF Pcs, HoldingPcs, RpcPcs, DeletePcs
    <2> QED  BY <1>c, <1>3, <2>1 DEF MarkOld, s
  <1>4. CASE Reinstate(t)
    BY <1>4, IdleCopies DEF Reinstate
  <1>5. CASE RetireOld(t)
    <2>1. Shrinks(s, [s EXCEPT !.pc = "read_old", !.new = NoDigest])
      BY <1>0 DEF Shrinks, HoldingPcs, ThreadStates
    <2> QED  BY <1>a, <1>5, <2>1, ShrinkCopies, IdleCopies DEF RetireOld, s
  <1>6. CASE RpcError(t)
    BY <1>b, <1>6 DEF RpcError, s
  <1> QED  BY <1>1, <1>2, <1>3, <1>4, <1>5, <1>6

-----------------------------------------------------------------------------
(* What each step leaves in the ledger, the collection and the network. *)

Stored(r) ==
    \/ row[r.digest].id = r.id
    \/ point[r.id] = Own(r.digest)
    \/ \E m \in inflight : m.digest = r.digest /\ m.id = r.id

LEMMA ClaimedParts ==
    ASSUME NEW r
    PROVE  Claimed(r) <=> Stored(r) \/ \E t \in Threads : InHand(th[t], r)
  BY DEF Claimed, Stored

LEMMA StatusCopies ==
    ASSUME TypeOK, NEW t \in Threads, NEW r \in Records, Stored(r)',
           \/ MarkOld(t) \/ MarkRetry(t) \/ Reinstate(t) \/ RetireOld(t)
           \/ MarkDone(t) \/ DeleteFailed(t) \/ MarkChecked(t)
    PROVE  Known(r)
  <1>1. UNCHANGED <<point, inflight>> /\ \E d, s : row' = SetStatus(d, s)
    BY DEF MarkOld, MarkRetry, Reinstate, RetireOld, MarkDone, DeleteFailed,
           MarkChecked
  <1>2. row'[r.digest].id = row[r.digest].id
    BY <1>1, SetStatusCopies DEF TypeOK, Records
  <1> QED  BY <1>1, <1>2 DEF Stored, Known, Claimed

LEMMA RowCopies ==
    ASSUME TypeOK, NEW t \in Threads, NEW r \in Records, Stored(r)',
           Adopt(t) \/ WriteAhead(t) \/ Commit(t)
    PROVE  Known(r)
  <1>0. th[t] \in ThreadStates /\ RowOK
    BY DEF TypeOK
  <1>1. UNCHANGED <<point, inflight>>
    BY DEF Adopt, WriteAhead, Commit
  <1>2. CASE row' = row
    BY <1>1, <1>2 DEF Stored, Known, Claimed
  <1>3. ASSUME NEW d \in Digests, NEW i \in Ids, NEW s, row' = Upsert(d, i, s),
               InHand(th[t], [digest |-> d, id |-> i])
        PROVE  Known(r)
    <2>1. row'[r.digest].id = row[r.digest].id
          \/ (r.digest = d /\ row'[r.digest].id = i)
      BY <1>0, <1>3, UpsertCopies DEF Records
    <2>2. r.digest = d /\ r.id = i => r = [digest |-> d, id |-> i]
      BY DEF Records
    <2> QED  BY <1>1, <1>3, <2>1, <2>2, InHandIsClaimed DEF Stored, Known, Claimed
  <1>4. CASE Adopt(t) /\ row' # row
    <2>1. PICK a \in th[t].todo : row' = Upsert(a.digest, a.id, "active")
      BY <1>4 DEF Adopt
    <2>2. /\ a.digest \in Digests /\ a.id \in Ids
          /\ a = [digest |-> a.digest, id |-> a.id]
      BY <1>0, <2>1 DEF ThreadStates, Records
    <2> QED  BY <1>3, <2>1, <2>2 DEF InHand
  <1>5. CASE (WriteAhead(t) \/ Commit(t)) /\ row' # row
    <2>1. \E s : row' = Upsert(th[t].new, th[t].id, s)
      BY <1>5 DEF WriteAhead, Commit
    <2>2. /\ th[t].pc \in HoldingPcs
          /\ th[t].new \in Digests /\ th[t].id \in Ids
      BY <1>5 DEF WriteAhead, Commit, At, HoldingPcs, TypeOK, ThreadOK, NewPcs,
                  IdPcs
    <2> QED  BY <1>3, <2>1, <2>2 DEF InHand
  <1> QED  BY <1>2, <1>4, <1>5

LEMMA WriteCopies ==
    ASSUME TypeOK, NEW t \in Threads, NEW r \in Records, Stored(r)',
           \/ InsertApplied(t) \/ InsertDelayed(t)
           \/ DeleteApplied(t) \/ DeleteDelayed(t)
    PROVE  Known(r)
  <1>0. ThreadOK(th[t])
    BY DEF TypeOK
  <1>1. CASE InsertApplied(t) \/ InsertDelayed(t)
    <2>1. th[t].pc = "insert" /\ th[t].new \in Digests /\ th[t].id \in Ids
      BY <1>0, <1>1 DEF InsertApplied, InsertDelayed, At, ThreadOK, NewPcs, IdPcs
    <2>2. r.digest = th[t].new /\ r.id = th[t].id => Claimed(r)
      BY <2>1 DEF Claimed, InHand, HoldingPcs
    <2>3. row' = row
      BY <1>1 DEF InsertApplied, InsertDelayed, ledger
    <2>4. \/ point' = point
          \/ point' = [point EXCEPT ![th[t].id] = Own(th[t].new)]
      BY <1>1 DEF InsertApplied, InsertDelayed
    <2>5. inflight' \subseteq inflight \cup {Insertion(t)}
      BY <1>1 DEF InsertApplied, InsertDelayed
    <2>6. point'[r.id] = Own(r.digest) =>
             point[r.id] = Own(r.digest) \/ (r.digest = th[t].new /\ r.id = th[t].id)
      BY <2>4 DEF TypeOK, Own, Records
    <2> QED
      BY <2>2, <2>3, <2>5, <2>6 DEF Stored, Known, Claimed, Insertion
  <1>2. CASE DeleteApplied(t) \/ DeleteDelayed(t)
    <2>1. th[t].old \in Records
      BY <1>0, <1>2 DEF DeleteApplied, DeleteDelayed, At, ThreadOK, OldPcs,
                        DeletePcs
    <2>2. r.digest = th[t].old.digest /\ r.id = th[t].old.id => Claimed(r)
      BY <2>1 DEF Claimed, InHand, Records
    <2>3. row' = row
      BY <1>2 DEF DeleteApplied, DeleteDelayed, ledger
    <2>4. point' = point \/ point' = [point EXCEPT ![th[t].old.id] = NoPoint]
      BY <1>2 DEF DeleteApplied, DeleteDelayed
    <2>5. \A m \in inflight' : m \in inflight
             \/ (m.digest = th[t].old.digest /\ m.id = th[t].old.id)
      BY <1>2 DEF DeleteApplied, DeleteDelayed
    <2>6. point'[r.id] = Own(r.digest) => point[r.id] = Own(r.digest)
      BY <2>4 DEF TypeOK, Own, NoPoint, Records
    <2> QED  BY <2>2, <2>3, <2>5, <2>6 DEF Stored, Known, Claimed
  <1> QED  BY <1>1, <1>2

LEMMA QuietCopies ==
    ASSUME NEW r \in Records, Stored(r)', UNCHANGED <<row, point, inflight>>
    PROVE  Known(r)
  BY DEF Stored, Known, Claimed

LEMMA StoredCopies ==
    ASSUME TypeOK, NEW t \in Threads, NEW r \in Records, Stored(r)',
           Request(t) \/ Step(t) \/ RpcError(t)
    PROVE  Known(r)
  <1>1. CASE Request(t)
    BY <1>1, QuietCopies
       DEF Request, BeginAdd, BeginRemove, BeginReplace, BeginReconcile, ledger
  <1>2. CASE \/ SearchLegacy(t) \/ LookUp(t) \/ ReadKnown(t) \/ NextExternalId(t)
             \/ ProbeVacant(t) \/ ProbeOccupied(t) \/ VerifyReadback(t)
             \/ ReadOld(t) \/ DeleteRefused(t) \/ ReadBack(t) \/ NextPending(t)
             \/ ListRetries(t) \/ SkipPending(t) \/ ReadPending(t) \/ CheckInsert(t)
             \/ RpcError(t)
    BY <1>2, QuietCopies
       DEF SearchLegacy, LookUp, ReadKnown, NextExternalId, ProbeVacant,
           ProbeOccupied, VerifyReadback, ReadOld, DeleteRefused, ReadBack,
           NextPending, ListRetries, SkipPending, ReadPending, CheckInsert, RpcError, ledger
  <1>3. CASE \/ Adopt(t) \/ WriteAhead(t) \/ Commit(t)
             \/ MarkOld(t) \/ MarkRetry(t) \/ Reinstate(t) \/ RetireOld(t)
             \/ MarkDone(t) \/ DeleteFailed(t) \/ MarkChecked(t)
             \/ InsertApplied(t) \/ InsertDelayed(t)
             \/ DeleteApplied(t) \/ DeleteDelayed(t)
    BY <1>3, RowCopies, StatusCopies, WriteCopies
  <1> QED  BY <1>1, <1>2, <1>3 DEF Step, Store, Delete, Reconcile

LEMMA LandCopies ==
    ASSUME TypeOK, NEW r \in Records, Stored(r)', Land
    PROVE  Claimed(r)
  <1>1. PICK m \in inflight :
           /\ inflight' = inflight \ {m}
           /\ point' = [point EXCEPT ![m.id] =
                          IF m.op = "insert" THEN Own(m.digest) ELSE NoPoint]
    BY DEF Land
  <1>2. point'[r.id] = Own(r.digest) =>
           point[r.id] = Own(r.digest) \/ (m.digest = r.digest /\ m.id = r.id)
    BY <1>1 DEF TypeOK, Messages, Own, NoPoint, Records
  <1> QED  BY <1>1, <1>2 DEF Land, ledger, Stored, Claimed

-----------------------------------------------------------------------------
(* Where pairings come from, step by step. *)

Copying(t) == /\ Request(t) \/ Step(t) \/ RpcError(t)
              /\ ~NextExternalId(t)
              /\ ~ProbeVacant(t)

LEMMA CopyingStep ==
    ASSUME TypeOK, NEW t \in Threads, Copying(t)
    PROVE  /\ \A r \in Records : Claimed(r)' => Known(r)
           /\ \A u \in Threads : Probing(u)' => Probing(u) /\ th'[u] = th[u]
  <1>1. PICK z : Goto(t, z) /\ Copies(z)
    BY RequestCopies, StoreCopies, DeleteCopies, ReconcileCopies, OtherCopies
       DEF Copying, Step
  <1>2. ASSUME NEW r \in Records, Claimed(r)'
        PROVE  Known(r)
    <2>1. CASE Stored(r)'
      BY <2>1, StoredCopies DEF Copying
    <2>2. ASSUME NEW u \in Threads, InHand(th'[u], r)
          PROVE  Known(r)
      BY <1>1, <2>2, GotoCopies, InHandIsClaimed DEF Copies, Known
    <2> QED  BY <1>2, <2>1, <2>2 DEF Claimed, Stored
  <1>3. ASSUME NEW u \in Threads, Probing(u)'
        PROVE  Probing(u) /\ th'[u] = th[u]
    BY <1>1, <1>3 DEF Goto, Copies, Probing, At, TypeOK
  <1> QED  BY <1>2, <1>3

LEMMA ProbeVacantStep ==
    ASSUME TypeOK, NEW t \in Threads, ProbeVacant(t)
    PROVE  /\ \A r \in Records : Claimed(r)' =>
                 Claimed(r) \/ (r.digest = th[t].new /\ r.id = th[t].id)
           /\ \A u \in Threads : Probing(u)' => u # t /\ Probing(u) /\ th'[u] = th[u]
  <1> DEFINE z == [th[t] EXCEPT !.pc = "write_ahead", !.tries = 0]
  <1>1. th[t] \in ThreadStates /\ Goto(t, z)
    BY DEF TypeOK, ProbeVacant
  <1>2. \A r \in Records : InHand(z, r) =>
           InHand(th[t], r) \/ (r.digest = th[t].new /\ r.id = th[t].id)
    BY <1>1 DEF InHand, ThreadStates
  <1>3. z.pc # "probe"
    BY <1>1 DEF ThreadStates
  <1> HIDE DEF z
  <1>4. ASSUME NEW r \in Records, Claimed(r)'
        PROVE  Claimed(r) \/ (r.digest = th[t].new /\ r.id = th[t].id)
    <2>1. Stored(r)' => Claimed(r)
      BY DEF ProbeVacant, ledger, Stored, Claimed
    <2>2. ASSUME NEW u \in Threads, InHand(th'[u], r)
          PROVE  Claimed(r) \/ (r.digest = th[t].new /\ r.id = th[t].id)
      BY <1>1, <1>2, <2>2, GotoCopies, InHandIsClaimed
    <2> QED  BY <1>4, <2>1, <2>2 DEF Claimed, Stored
  <1>5. \A u \in Threads : Probing(u)' => u # t /\ Probing(u) /\ th'[u] = th[u]
    BY <1>1, <1>3 DEF Goto, Probing, At, TypeOK
  <1> QED  BY <1>4, <1>5

LEMMA NextIdStep ==
    ASSUME TypeOK, NEW t \in Threads, NextExternalId(t)
    PROVE  /\ \A r \in Records : Claimed(r)' => Claimed(r)
           /\ counter \in Ids /\ counter' = counter + 1
           /\ th'[t].id = counter
           /\ \A u \in Threads \ {t} : th'[u] = th[u]
  <1> DEFINE z == [th[t] EXCEPT !.pc = "probe", !.id = counter]
  <1>1. /\ th[t] \in ThreadStates /\ Goto(t, z)
        /\ counter \in Ids /\ counter' = counter + 1
    BY DEF TypeOK, NextExternalId, NextCounter
  <1>2. \A r \in Records : InHand(z, r) => InHand(th[t], r)
    BY <1>1 DEF InHand, HoldingPcs, ThreadStates
  <1>3. z.id = counter
    BY <1>1 DEF ThreadStates
  <1> HIDE DEF z
  <1>4. ASSUME NEW r \in Records, Claimed(r)'
        PROVE  Claimed(r)
    <2>1. Stored(r)' => Claimed(r)
      BY DEF NextExternalId, Stored, Claimed
    <2>2. ASSUME NEW u \in Threads, InHand(th'[u], r)
          PROVE  Claimed(r)
      BY <1>1, <1>2, <2>2, GotoCopies, InHandIsClaimed
    <2> QED  BY <1>4, <2>1, <2>2 DEF Claimed, Stored
  <1>5. th'[t].id = counter /\ \A u \in Threads \ {t} : th'[u] = th[u]
    BY <1>1, <1>3 DEF Goto, TypeOK
  <1> QED  BY <1>1, <1>4, <1>5

LEMMA EnvironmentStep ==
    ASSUME TypeOK, Land \/ Crash \/ ForeignWrite
    PROVE  /\ \A r \in Records : Claimed(r)' => Claimed(r)
           /\ \A u \in Threads : Probing(u)' => Probing(u) /\ th'[u] = th[u]
  <1>1. CASE Land
    <2>1. th' = th
      BY <1>1 DEF Land
    <2> QED  BY <1>1, <2>1, LandCopies DEF Claimed, Stored, Probing, At
  <1>2. CASE Crash
    <2>1. \A r \in Records, u \in Threads : ~InHand(th'[u], r)
      BY <1>2, NothingInHand DEF Crash
    <2>2. \A u \in Threads : ~Probing(u)'
      BY <1>2 DEF Crash, Probing, At, Idle
    <2> QED  BY <1>2, <2>1, <2>2 DEF Crash, ledger, Claimed
  <1>3. CASE ForeignWrite
    <2>1. \A r \in Records : point'[r.id] = Own(r.digest) => point[r.id] = Own(r.digest)
      BY <1>3 DEF ForeignWrite, Foreign, Own, TypeOK, Records
    <2>2. UNCHANGED <<row, inflight, th>>
      BY <1>3 DEF ForeignWrite, ledger
    <2> QED  BY <2>1, <2>2 DEF Claimed, Probing, At
  <1> QED  BY <1>1, <1>2, <1>3

LEMMA CounterGrows ==
    ASSUME TypeOK, [Next]_vars
    PROVE  counter' >= counter
  <1>1. CASE \E t \in Threads : NextExternalId(t)
    BY <1>1 DEF TypeOK, NextExternalId, NextCounter
  <1>2. ASSUME NEW t \in Threads, ProbeOccupied(t)
        PROVE  counter' >= counter
    <2>1. th[t].id \in Nat /\ Stride \in Nat /\ counter \in Nat
      BY <1>2, ConstantsAssumption DEF TypeOK, ThreadStates, Ids
    <2> QED  BY <1>2, <2>1 DEF ProbeOccupied, Observe
  <1>3. UNCHANGED counter => counter' >= counter
    BY DEF TypeOK
  <1>4. CASE /\ \A t \in Threads : ~NextExternalId(t) /\ ~ProbeOccupied(t)
    <2>1. UNCHANGED counter
      BY ZenonT(30), <1>4 DEF Next, Request, BeginAdd, BeginRemove, BeginReplace,
           BeginReconcile, Step, SearchLegacy, Adopt, MarkOld, Reinstate,
           RetireOld, Store, LookUp, ReadKnown, ProbeVacant, WriteAhead,
           InsertApplied, InsertDelayed, VerifyReadback, Commit, MarkRetry,
           Delete, ReadOld, DeleteApplied, DeleteRefused, DeleteDelayed,
           ReadBack, MarkDone, DeleteFailed, Reconcile, NextPending,
           ListRetries, SkipPending, ReadPending, CheckInsert, MarkChecked, RpcError, Land,
           Crash, ForeignWrite, ledger, vars
    <2> QED  BY <1>3, <2>1
  <1> QED  BY <1>1, <1>2, <1>4

(* The four steps that write the collection. *)

LEMMA PointStep ==
    ASSUME TypeOK, [Next]_vars
    PROVE  \/ UNCHANGED point
           \/ \E t \in Threads : InsertApplied(t) \/ DeleteApplied(t)
           \/ Land
           \/ ForeignWrite
  BY ZenonT(30) DEF Next, Request, BeginAdd, BeginRemove, BeginReplace,
           BeginReconcile, Step, SearchLegacy, Adopt, MarkOld, Reinstate,
           RetireOld, Store, LookUp, ReadKnown, NextExternalId, ProbeVacant,
           ProbeOccupied, WriteAhead, InsertDelayed, VerifyReadback, Commit,
           MarkRetry, Delete, ReadOld, DeleteRefused, DeleteDelayed, ReadBack,
           MarkDone, DeleteFailed, Reconcile, NextPending, ListRetries, SkipPending,
           ReadPending, CheckInsert, MarkChecked, RpcError, Crash, ledger, vars

LEMMA PointValues ==
    ASSUME TypeOK, [Next]_vars, NEW i \in Ids
    PROVE  \/ point'[i] = point[i]
           \/ point'[i].kind \in {"own", "none"}
           \/ "foreign_write" \in Environment /\ point'[i] = Foreign
  <1>1. CASE \E t \in Threads : InsertApplied(t) \/ DeleteApplied(t)
    BY <1>1 DEF InsertApplied, DeleteApplied, Own, NoPoint, TypeOK
  <1>2. CASE Land
    BY <1>2 DEF Land, Own, NoPoint, TypeOK
  <1>3. CASE ForeignWrite
    BY <1>3 DEF ForeignWrite, TypeOK
  <1> QED  BY <1>1, <1>2, <1>3, PointStep

-----------------------------------------------------------------------------
(* Ids are not shared. *)

LEMMA NoLegacyStep ==
    ASSUME TypeOK, [Next]_vars, \A i \in Ids : point[i].kind \notin {"legacy", "alien"}
    PROVE  \A i \in Ids : point'[i].kind \notin {"legacy", "alien"}
  BY PointValues DEF Foreign

\* A step that brings in no pairing and no probe.
LEMMA NothingNew ==
    ASSUME TypeOK, IdsInvariant, [Next]_vars,
           \A r \in Records : Claimed(r)' => Claimed(r),
           \A u \in Threads : Probing(u)' => Probing(u) /\ th'[u] = th[u]
    PROVE  IdsInvariant'
  <1>1. counter' >= counter /\ counter \in Nat /\ counter' \in Nat
    BY CounterGrows, TypePreserved DEF TypeOK
  <1>2. \A i \in Ids : point'[i].kind \notin {"legacy", "alien"}
    BY NoLegacyStep DEF IdsInvariant
  <1>3. IdsNotShared'
    BY DEF IdsInvariant, IdsNotShared
  <1>4. \A r \in Records : Claimed(r)' => r.id < counter'
    BY <1>1 DEF IdsInvariant, Records, Ids
  <1>5. ASSUME NEW t \in Threads, Probing(t)'
        PROVE  /\ th'[t].id < counter'
               /\ \A r \in Records : Claimed(r)' => r.id # th'[t].id
               /\ \A u \in Threads : Probing(u)' /\ th'[u].id = th'[t].id => u = t
    <2>1. Probing(t) /\ th'[t] = th[t] /\ th[t].id \in Nat
      BY <1>5 DEF TypeOK, ThreadStates, Ids
    <2> QED  BY <1>1, <2>1 DEF IdsInvariant
  <1> QED  BY <1>2, <1>3, <1>4, <1>5 DEF IdsInvariant

LEMMA IdsStep ==
    ASSUME TypeOK, IdsInvariant, [Next]_vars
    PROVE  IdsInvariant'
  <1>1. CASE UNCHANGED vars
    BY <1>1 DEF vars, IdsInvariant, IdsNotShared, Claimed, Probing, At, InHand
  <1>2. CASE Land \/ Crash \/ ForeignWrite
    BY <1>2, EnvironmentStep, NothingNew
  <1>3. ASSUME NEW t \in Threads, Copying(t)
        PROVE  IdsInvariant'
    <2>1. \A r \in Records : Known(r) => Claimed(r)
      BY DEF IdsInvariant, Known, Legacy, Alien, Records
    <2> QED  BY <1>3, <2>1, CopyingStep, NothingNew
  <1>4. ASSUME NEW t \in Threads, ProbeVacant(t)
        PROVE  IdsInvariant'
    <2> DEFINE New(r) == r.digest = th[t].new /\ r.id = th[t].id
    <2>1. /\ \A r \in Records : Claimed(r)' => Claimed(r) \/ New(r)
          /\ \A u \in Threads :
                Probing(u)' => u # t /\ Probing(u) /\ th'[u] = th[u]
      BY <1>4, ProbeVacantStep
    <2>2. /\ th[t].id < counter
          /\ \A r \in Records : Claimed(r) => r.id # th[t].id
          /\ \A u \in Threads \ {t} : Probing(u) => th[u].id # th[t].id
      BY <1>4 DEF IdsInvariant, Probing, ProbeVacant
    <2>3. counter' = counter /\ point' = point
      BY <1>4 DEF ProbeVacant, ledger
    <2>4. IdsNotShared'
      BY <2>1, <2>2 DEF IdsInvariant, IdsNotShared
    <2>5. \A r \in Records : Claimed(r)' => r.id < counter'
      BY <2>1, <2>2, <2>3 DEF IdsInvariant
    <2>6. ASSUME NEW u \in Threads, Probing(u)'
          PROVE  /\ th'[u].id < counter'
                 /\ \A r \in Records : Claimed(r)' => r.id # th'[u].id
                 /\ \A v \in Threads : Probing(v)' /\ th'[v].id = th'[u].id => v = u
      BY <2>1, <2>2, <2>3, <2>6 DEF IdsInvariant
    <2> QED  BY <2>3, <2>4, <2>5, <2>6 DEF IdsInvariant
  <1>5. ASSUME NEW t \in Threads, NextExternalId(t)
        PROVE  IdsInvariant'
    <2>1. /\ \A r \in Records : Claimed(r)' => Claimed(r)
          /\ counter \in Ids /\ counter' = counter + 1
          /\ th'[t].id = counter
          /\ \A u \in Threads \ {t} : th'[u] = th[u]
      BY <1>5, NextIdStep
    <2>2. point' = point
      BY <1>5 DEF NextExternalId
    <2>3. counter \in Nat /\ \A r \in Records : r.id \in Nat
      BY <2>1 DEF Ids, Records
    <2>4. IdsNotShared'
      BY <2>1 DEF IdsInvariant, IdsNotShared
    <2>5. \A r \in Records : Claimed(r)' => r.id < counter
      BY <2>1 DEF IdsInvariant
    <2>6. ASSUME NEW u \in Threads \ {t}, Probing(u)'
          PROVE  /\ Probing(u) /\ th'[u] = th[u] /\ th[u].id < counter
                 /\ th[u].id \in Nat
                 /\ \A r \in Records : Claimed(r)' => r.id # th[u].id
      BY <2>1, <2>6 DEF IdsInvariant, Probing, At, TypeOK, ThreadStates, Ids
    <2>7. ASSUME NEW u \in Threads, Probing(u)'
          PROVE  /\ th'[u].id < counter'
                 /\ \A r \in Records : Claimed(r)' => r.id # th'[u].id
      BY <2>1, <2>3, <2>5, <2>6, <2>7
    <2>8. ASSUME NEW u \in Threads, NEW v \in Threads, Probing(u)', Probing(v)',
                 th'[v].id = th'[u].id
          PROVE  v = u
      <3>1. CASE u = t \/ v = t
        BY <2>1, <2>3, <2>6, <2>8, <3>1
      <3>2. CASE u # t /\ v # t
        BY <2>6, <2>8, <3>2 DEF IdsInvariant
      <3> QED  BY <3>1, <3>2
    <2>9. \A r \in Records : Claimed(r)' => r.id < counter'
      BY <2>1, <2>3, <2>5
    <2> QED  BY <2>2, <2>4, <2>7, <2>8, <2>9 DEF IdsInvariant
  <1> QED  BY <1>1, <1>2, <1>3, <1>4, <1>5 DEF Next, Copying

LEMMA NothingClaimedAtStart ==
    ASSUME Init, FreshCollection, NEW r \in Records
    PROVE  ~Claimed(r)
  BY NothingInHand DEF Init, FreshCollection, Claimed, Own, Records, Ids

\* _allocate_id, next_external_id and the UNIQUE column keep the ids of any
\* number of memories, stored by any number of threads through crashes, lost
\* and late writes, apart: the inductive invariant, and what follows from it.
THEOREM IdsCorrect ==
    ASSUME FreshCollection
    PROVE  Spec => []IdsInvariant
  <1>1. Init => IdsInvariant
    BY NothingClaimedAtStart
       DEF Init, FreshCollection, IdsInvariant, IdsNotShared, Probing, At, Idle
  <1>2. TypeOK /\ IdsInvariant /\ [Next]_vars => IdsInvariant'
    BY IdsStep
  <1> QED  BY <1>1, <1>2, TypeCorrect, PTL DEF Spec

\* No point id ever stands for two memories.
THEOREM IdsKeptApart ==
    ASSUME FreshCollection
    PROVE  Spec => []IdsNotShared
  <1>1. IdsInvariant => IdsNotShared
    BY DEF IdsInvariant
  <1> QED  BY <1>1, IdsCorrect, PTL

\* The ledger's UNIQUE column never turns down the id that was allocated.
THEOREM StoresAccepted ==
    ASSUME FreshCollection
    PROVE  Spec => []WriteAheadAccepted
  <1>1. TypeOK /\ IdsInvariant => WriteAheadAccepted
    <2> SUFFICES ASSUME TypeOK, IdsInvariant, NEW t \in Threads,
                        At(t, "write_ahead"),
                        NEW e \in Digests \ {th[t].new}, row[e].id = th[t].id
                 PROVE  FALSE
      BY DEF WriteAheadAccepted, IdFree
    <2>1. th[t].new \in Digests /\ th[t].id \in Ids
      BY DEF TypeOK, ThreadOK, NewPcs, IdPcs, At
    <2> DEFINE a == [digest |-> th[t].new, id |-> th[t].id]
               b == [digest |-> e, id |-> th[t].id]
    <2>2. a \in Records /\ b \in Records
      BY <2>1 DEF Records
    <2>3. Claimed(a) /\ Claimed(b)
      BY DEF Claimed, InHand, HoldingPcs, At
    <2> QED  BY <2>2, <2>3 DEF IdsInvariant, IdsNotShared
  <1> QED  BY <1>1, IdsCorrect, TypeCorrect, PTL

-----------------------------------------------------------------------------
(* Somebody else's points. *)

\* What a thread is about to write was vacant or its own when it looked, and
\* what it is about to delete was its own or unsigned.
LEMMA ThreadWrites ==
    ASSUME TypeOK, WritesNotForeign, NEW t \in Threads,
           Request(t) \/ Step(t) \/ RpcError(t)
    PROVE  /\ \A u \in Threads \ {t} : th'[u] = th[u]
           /\ th'[t].pc \in HoldingPcs => ~Others(point[th'[t].id])
           /\ At(t, "delete")' => ~Others(point[th'[t].old.id])
           /\ \A m \in inflight' \ inflight : ~Others(point[m.id])
  <1> DEFINE s == th[t]
  <1>0. /\ th \in [Threads -> ThreadStates]
        /\ s.pc \in HoldingPcs => ~Others(point[s.id])
        /\ s.pc = "delete" => ~Others(point[s.old.id])
    BY DEF TypeOK, WritesNotForeign, At
  <1>i. Idle.pc \notin HoldingPcs \cup {"delete"}
    BY DEF Idle, HoldingPcs
  <1>f. /\ StoreFailed(s).pc \notin HoldingPcs \cup {"delete"}
        /\ DeleteRaised(s).pc \notin HoldingPcs \cup {"delete"}
        /\ After(s).pc \notin HoldingPcs \cup {"delete"}
        /\ s.pc \in RpcPcs => OnError(s).pc \notin HoldingPcs \cup {"delete"}
    BY <1>0, <1>i DEF StoreFailed, DeleteRaised, After, OnError, HoldingPcs,
                      ThreadStates
  <1> DEFINE Harmless(z) == z.pc \notin HoldingPcs \cup {"delete"}
  <1>h. ASSUME NEW z, Goto(t, z), Harmless(z), UNCHANGED inflight
        PROVE  /\ \A u \in Threads \ {t} : th'[u] = th[u]
               /\ th'[t].pc \in HoldingPcs => ~Others(point[th'[t].id])
               /\ At(t, "delete")' => ~Others(point[th'[t].old.id])
               /\ \A m \in inflight' \ inflight : ~Others(point[m.id])
    BY <1>0, <1>h DEF Goto, At
  <1>1. CASE Request(t)
    <2>1. UNCHANGED inflight
      BY <1>1 DEF Request, BeginAdd, BeginRemove, BeginReplace, BeginReconcile
    <2>2. ASSUME NEW z, ResolveOld(t, z), "pc" \in DOMAIN z,
                 z = [f \in DOMAIN z |-> z[f]]
          PROVE  \E y : Goto(t, y) /\ Harmless(y)
      <3>1. \A r : /\ Harmless([z EXCEPT !.pc = "search"])
                   /\ Harmless([z EXCEPT !.pc = "mark_old", !.old = r,
                                         !.needle = {}])
        BY <2>2 DEF HoldingPcs
      <3> QED  BY <1>i, <2>2, <3>1 DEF ResolveOld
    <2>3. CASE BeginAdd(t)
      <3>1. \A d : Harmless([Idle EXCEPT !.pc = "look_up", !.kind = "add", !.new = d])
        BY DEF Idle, HoldingPcs
      <3> QED  BY <1>h, <2>1, <2>3, <3>1 DEF BeginAdd
    <2>4. CASE BeginRemove(t)
      <3>1. PICK n \in Needles :
               ResolveOld(t, [Idle EXCEPT !.kind = "remove", !.needle = n])
        BY <2>4 DEF BeginRemove
      <3> DEFINE z == [Idle EXCEPT !.kind = "remove", !.needle = n]
      <3>2. "pc" \in DOMAIN z /\ z = [f \in DOMAIN z |-> z[f]]
        BY DEF Idle
      <3> QED  BY <1>h, <2>1, <2>2, <3>1, <3>2
    <2>5. CASE BeginReplace(t)
      <3>1. PICK n \in Needles, d \in Digests :
               ResolveOld(t, [Idle EXCEPT !.kind = "replace", !.needle = n,
                                          !.new = d])
        BY <2>5 DEF BeginReplace
      <3> DEFINE z == [Idle EXCEPT !.kind = "replace", !.needle = n, !.new = d]
      <3>2. "pc" \in DOMAIN z /\ z = [f \in DOMAIN z |-> z[f]]
        BY DEF Idle
      <3> QED  BY <1>h, <2>1, <2>2, <3>1, <3>2
    <2>6. CASE BeginReconcile(t)
      <3>1. \A k, S : \A pc \in {"next_pending", "list_retries"} :
               Harmless([Idle EXCEPT !.pc = pc, !.kind = k, !.todo = S])
        BY DEF Idle, HoldingPcs
      <3> QED  BY <1>h, <2>1, <2>6, <3>1 DEF BeginReconcile
    <2> QED  BY <1>1, <2>3, <2>4, <2>5, <2>6 DEF Request
  <1>2. CASE RpcError(t)
    BY <1>0, <1>2, <1>f DEF RpcError, Goto, At
  <1>3. CASE SearchLegacy(t) \/ Adopt(t) \/ MarkOld(t) \/ Reinstate(t) \/ RetireOld(t)
    <2>1. UNCHANGED inflight
      BY <1>3 DEF SearchLegacy, Adopt, MarkOld, Reinstate, RetireOld
    <2>2. CASE SearchLegacy(t)
      <3>1. \A S, o : Harmless([s EXCEPT !.pc = "adopt", !.todo = S,
                                         !.needle = {}, !.old = o])
        BY <1>0 DEF ThreadStates, HoldingPcs
      <3> QED  BY <1>h, <1>i, <2>1, <2>2, <3>1 DEF SearchLegacy
    <2>3. CASE Adopt(t)
      <3>1. \A r : /\ Harmless([s EXCEPT !.todo = @ \ {r}])
                   /\ Harmless([s EXCEPT !.pc = "mark_old", !.todo = {}])
        BY <1>0, <2>3 DEF Adopt, At, ThreadStates, HoldingPcs
      <3> QED  BY <1>h, <1>i, <2>1, <2>3, <3>1 DEF Adopt
    <2>4. CASE MarkOld(t)
      BY <1>0, <1>h, <2>1, <2>4 DEF MarkOld, ThreadStates, HoldingPcs
    <2>5. CASE Reinstate(t)
      BY <1>h, <1>i, <2>1, <2>5 DEF Reinstate
    <2>6. CASE RetireOld(t)
      <3>1. Harmless([s EXCEPT !.pc = "read_old", !.new = NoDigest])
        BY <1>0 DEF ThreadStates, HoldingPcs
      <3> QED  BY <1>h, <1>i, <2>1, <2>6, <3>1 DEF RetireOld
    <2> QED  BY <1>3, <2>2, <2>3, <2>4, <2>5, <2>6
  <1>4. CASE ReadKnown(t) \/ ProbeVacant(t)
    <2>1. UNCHANGED inflight
      BY <1>4 DEF ReadKnown, ProbeVacant
    <2>2. CASE ReadKnown(t)
      <3>1. Harmless([s EXCEPT !.pc = "next_id", !.id = 0])
        BY <1>0 DEF ThreadStates, HoldingPcs
      <3>2. CASE Reusable(point[s.id], s.new)
        <4>1. ~Others(point[s.id])
          BY <3>2 DEF Reusable, OwnerMatches, Others, Own
        <4>2. Goto(t, [s EXCEPT !.pc = "write_ahead"])
          BY <2>2, <3>2 DEF ReadKnown
        <4>3. th'[t] = [s EXCEPT !.pc = "write_ahead"]
              /\ \A u \in Threads \ {t} : th'[u] = th[u]
          BY <1>0, <4>2 DEF Goto
        <4> QED  BY <1>0, <2>1, <4>1, <4>3 DEF ThreadStates, At
      <3>3. CASE ~Reusable(point[s.id], s.new)
        BY <1>h, <2>1, <2>2, <3>1, <3>3 DEF ReadKnown
      <3> QED  BY <3>2, <3>3
    <2>3. CASE ProbeVacant(t)
      <3>1. ~Others(point[s.id])
        BY <2>3 DEF ProbeVacant, Vacant, Others
      <3>2. th'[t] = [s EXCEPT !.pc = "write_ahead", !.tries = 0]
            /\ \A u \in Threads \ {t} : th'[u] = th[u]
        BY <1>0, <2>3 DEF ProbeVacant, Goto
      <3> QED  BY <1>0, <2>1, <3>1, <3>2 DEF ThreadStates, At
    <2> QED  BY <1>4, <2>2, <2>3
  <1>5. CASE LookUp(t) \/ NextExternalId(t) \/ ProbeOccupied(t) \/ MarkRetry(t)
    <2>1. UNCHANGED inflight
      BY <1>5 DEF LookUp, NextExternalId, ProbeOccupied, MarkRetry
    <2>2. \A i, n : /\ Harmless([s EXCEPT !.pc = "next_id"])
                    /\ Harmless([s EXCEPT !.pc = "read_known", !.id = i])
                    /\ Harmless([s EXCEPT !.pc = "probe", !.id = i])
                    /\ Harmless([s EXCEPT !.pc = "next_id", !.id = 0, !.tries = n])
      BY <1>0 DEF ThreadStates, HoldingPcs
    <2> QED
      BY <1>5, <1>f, <1>h, <2>1, <2>2
         DEF LookUp, NextExternalId, ProbeOccupied, MarkRetry
  <1>6. CASE \/ WriteAhead(t) \/ InsertApplied(t) \/ InsertDelayed(t)
             \/ VerifyReadback(t) \/ Commit(t)
    <2>1. s.pc \in HoldingPcs /\ ~Others(point[s.id])
      BY <1>0, <1>6 DEF WriteAhead, InsertApplied, InsertDelayed, VerifyReadback,
                        Commit, At, HoldingPcs
    <2>2. \A m \in inflight' \ inflight : m.id = s.id
      BY <1>6 DEF WriteAhead, InsertApplied, InsertDelayed, Insertion,
                  VerifyReadback, Commit, ledger
    <2>3. s.pc \in InsertPcs => s.pc \in RpcPcs
      BY DEF RpcPcs
    <2>4. \E z : /\ Goto(t, z)
                 /\ z.pc # "delete"
                 /\ z.pc \in HoldingPcs => z.id = s.id
      <3>1. CASE WriteAhead(t)
        <4>1. [s EXCEPT !.pc = "insert"].pc # "delete"
              /\ [s EXCEPT !.pc = "insert"].id = s.id
          BY <1>0 DEF ThreadStates
        <4> QED  BY <1>i, <3>1, <4>1 DEF WriteAhead
      <3>2. CASE InsertApplied(t) \/ InsertDelayed(t)
        <4>1. Verifying(t).pc # "delete" /\ Verifying(t).id = s.id
          BY <1>0 DEF ThreadStates, Verifying
        <4>2. s.pc \in RpcPcs
          BY <2>3, <3>2 DEF InsertApplied, InsertDelayed, At, InsertPcs
        <4> QED  BY <1>f, <3>2, <4>1, <4>2 DEF InsertApplied, InsertDelayed
      <3>3. CASE VerifyReadback(t)
        <4>1. \A n : /\ [s EXCEPT !.pc = "commit", !.tries = n].pc # "delete"
                     /\ [s EXCEPT !.pc = "commit", !.tries = n].id = s.id
                     /\ [s EXCEPT !.tries = n].pc = s.pc
                     /\ [s EXCEPT !.tries = n].id = s.id
          BY <1>0 DEF ThreadStates
        <4>2. s.pc \in RpcPcs /\ s.pc # "delete"
          BY <2>3, <3>3 DEF VerifyReadback, At, InsertPcs
        <4> QED  BY <1>f, <3>3, <4>1, <4>2 DEF VerifyReadback
      <3>4. CASE Commit(t)
        <4>1. [s EXCEPT !.pc = "retire_old", !.id = 0].pc \notin HoldingPcs \cup {"delete"}
          BY <1>0 DEF ThreadStates, HoldingPcs
        <4> QED  BY <1>i, <3>4, <4>1 DEF Commit
      <3> QED  BY <1>6, <3>1, <3>2, <3>3, <3>4
    <2> QED  BY <1>0, <2>1, <2>2, <2>4 DEF Goto, At
  <1>7. CASE ReadOld(t)
    BY <1>0, <1>7, <1>f
       DEF ReadOld, Gone, Deletable, Others, Own, Legacy, Goto, At, HoldingPcs,
           ThreadStates
  <1>8. CASE \/ DeleteApplied(t) \/ DeleteRefused(t) \/ DeleteDelayed(t)
             \/ ReadBack(t) \/ MarkDone(t) \/ DeleteFailed(t)
    BY <1>0, <1>8, <1>f
       DEF DeleteApplied, DeleteRefused, DeleteDelayed, ReadBack, MarkDone,
           DeleteFailed, Goto, At, HoldingPcs, ThreadStates
  <1>9. CASE Reconcile(t)
    <2>1. UNCHANGED inflight
      BY <1>9 DEF Reconcile, NextPending, ListRetries, SkipPending, ReadPending,
                  CheckInsert, MarkChecked
    <2>2. \A S, r, pc : pc \notin HoldingPcs \cup {"delete"} =>
             /\ Harmless([s EXCEPT !.pc = pc, !.old = r, !.todo = S])
             /\ Harmless([s EXCEPT !.pc = pc])
      BY <1>0 DEF ThreadStates
    <2>3. {"pending_read", "check_insert", "mark_done", "read_old",
           "mark_conflict", "mark_absent", "mark_active", "next_pending"}
            \cap (HoldingPcs \cup {"delete"}) = {}
      BY DEF HoldingPcs
    <2>4. CASE NextPending(t)
      BY <1>h, <1>i, <2>1, <2>2, <2>3, <2>4 DEF NextPending
    <2>l. CASE ListRetries(t)
      <3>1. \A S : Harmless([s EXCEPT !.pc = "next_pending", !.todo = S])
        BY <1>0 DEF ThreadStates, HoldingPcs
      <3> QED  BY <1>h, <2>1, <2>l, <3>1 DEF ListRetries
    <2>5. CASE SkipPending(t)
      <3>1. \A S : Harmless([s EXCEPT !.todo = S])
        BY <1>0, <2>5 DEF SkipPending, At, ThreadStates, HoldingPcs
      <3> QED  BY <1>h, <2>1, <2>5, <3>1 DEF SkipPending
    <2>6. CASE ReadPending(t)
      BY <1>h, <2>1, <2>2, <2>3, <2>6 DEF ReadPending
    <2>7. CASE CheckInsert(t)
      BY <1>h, <2>1, <2>2, <2>3, <2>7 DEF CheckInsert
    <2>8. CASE MarkChecked(t)
      BY <1>f, <1>h, <2>1, <2>8 DEF MarkChecked
    <2> QED  BY <1>9, <2>4, <2>l, <2>5, <2>6, <2>7, <2>8 DEF Reconcile
  <1> QED
    BY <1>1, <1>2, <1>3, <1>4, <1>5, <1>6, <1>7, <1>8, <1>9 DEF Step, Store, Delete

LEMMA NotForeignStep ==
    ASSUME TypeOK, WritesNotForeign, [Next]_vars, "foreign_write" \notin Environment
    PROVE  WritesNotForeign'
  <1>1. \A i \in Ids : ~Others(point[i]) => ~Others(point'[i])
    BY PointValues DEF Others
  <1>2. TypeOK'
    BY TypePreserved
  <1>3. /\ \A u \in Threads : /\ th'[u].pc \in HoldingPcs => th'[u].id \in Ids
                              /\ At(u, "delete")' => th'[u].old.id \in Ids
        /\ \A m \in inflight' : m.id \in Ids
    BY <1>2 DEF TypeOK, ThreadOK, HoldingPcs, IdPcs, OldPcs, DeletePcs, At,
                Records, Messages
  <1>4. ASSUME NEW t \in Threads, Request(t) \/ Step(t) \/ RpcError(t)
        PROVE  WritesNotForeign'
    <2>1. ASSUME NEW u \in Threads
          PROVE  /\ th'[u].pc \in HoldingPcs => ~Others(point'[th'[u].id])
                 /\ At(u, "delete")' => ~Others(point'[th'[u].old.id])
      <3>1. CASE u = t
        BY <1>1, <1>3, <1>4, <3>1, ThreadWrites
      <3>2. CASE u # t
        <4>1. th'[u] = th[u]
          BY <1>4, <3>2, ThreadWrites
        <4> QED  BY <1>1, <1>3, <4>1 DEF WritesNotForeign, At
      <3> QED  BY <3>1, <3>2
    <2>2. ASSUME NEW m \in inflight'
          PROVE  ~Others(point'[m.id])
      BY <1>1, <1>3, <1>4, ThreadWrites DEF WritesNotForeign
    <2> QED  BY <2>1, <2>2 DEF WritesNotForeign
  <1>5. CASE Land \/ UNCHANGED vars
    <2>1. th' = th /\ inflight' \subseteq inflight
      BY <1>5 DEF Land, vars
    <2> QED  BY <1>1, <1>3, <2>1 DEF WritesNotForeign, At
  <1>6. CASE Crash
    <2>1. inflight' = inflight /\ \A u \in Threads : th'[u] = Idle
      BY <1>6 DEF Crash
    <2> QED
      BY <1>1, <1>3, <2>1 DEF WritesNotForeign, At, Idle, HoldingPcs
  <1>7. ~ForeignWrite
    BY DEF ForeignWrite
  <1> QED  BY <1>4, <1>5, <1>6, <1>7 DEF Next

LEMMA ForeignStep ==
    ASSUME TypeOK, WritesNotForeign, [Next]_vars, NEW i \in Ids, Others(point[i])
    PROVE  point'[i] = point[i]
  <1>1. ASSUME NEW t \in Threads, InsertApplied(t)
        PROVE  point'[i] = point[i]
    <2>1. th[t].id # i
      BY <1>1 DEF InsertApplied, At, WritesNotForeign, HoldingPcs
    <2> QED  BY <1>1, <2>1 DEF InsertApplied, TypeOK
  <1>2. ASSUME NEW t \in Threads, DeleteApplied(t)
        PROVE  point'[i] = point[i]
    <2>1. th[t].old.id # i
      BY <1>2 DEF DeleteApplied, WritesNotForeign
    <2> QED  BY <1>2, <2>1 DEF DeleteApplied, TypeOK
  <1>3. CASE Land
    <2>1. PICK m \in inflight :
             point' = [point EXCEPT ![m.id] =
                         IF m.op = "insert" THEN Own(m.digest) ELSE NoPoint]
      BY <1>3 DEF Land
    <2>2. m.id # i
      BY DEF WritesNotForeign
    <2> QED  BY <2>1, <2>2 DEF TypeOK
  <1>4. CASE ForeignWrite
    BY <1>4 DEF ForeignWrite, Vacant, Others, TypeOK
  <1> QED  BY <1>1, <1>2, <1>3, <1>4, PointStep

\* As long as nobody else writes the collection meanwhile, no insert or delete
\* of the provider, late or not, ever hits a point that is not its own: not
\* even a point signed by another profile that a search adopted by its content.
THEOREM ForeignSafe ==
    ASSUME "foreign_write" \notin Environment
    PROVE  Spec => ForeignUntouched
  <1>1. Init => WritesNotForeign
    BY DEF Init, WritesNotForeign, Idle, HoldingPcs, At
  <1>2. TypeOK /\ WritesNotForeign /\ [Next]_vars => WritesNotForeign'
    BY NotForeignStep
  <1>3. TypeOK /\ WritesNotForeign /\ [Next]_vars =>
           [\A i \in Ids : Others(point[i]) => point'[i] = point[i]]_vars
    BY ForeignStep
  <1> QED  BY <1>1, <1>2, <1>3, TypeCorrect, PTL DEF Spec, ForeignUntouched
=============================================================================
