----------------------------- MODULE Mutations -----------------------------
(***************************************************************************)
(* The mutation paths of the memory provider, step by step.                *)
(*                                                                         *)
(* A thread (the write worker, or a caller running a tool or initialize)   *)
(* executes one operation at a time: add, remove or replace a memory, or a *)
(* reconciliation pass over the ledger.  Every step is one backend RPC or  *)
(* one ledger transaction, and the steps of different threads interleave.  *)
(* The ledger and the backend survive a crash, a thread's state does not.  *)
(*                                                                         *)
(* Abstracted: a memory's content, target, source and profile scope are    *)
(* its digest; an "old_text" is the set of digests whose content holds it. *)
(* An RPC that reads nothing and writes nothing (health_check, vectorize)  *)
(* is merged with the read or write it accompanies.                        *)
(***************************************************************************)
EXTENDS Integers

CONSTANTS
    Threads,         \* executors of mutations in one process, one ledger
    KindsOf,         \* [Threads -> SUBSET Kinds]: what each may execute
    Digests,         \* logical identities of memories
    NoDigest,        \* not a digest
    Needles,         \* the old_texts requested, as sets of digests
    MaxId,           \* bound: point ids are 1..MaxId
    Initial,         \* [1..MaxId -> Contents]: the collection found at start
    Probes,          \* _collision_probes
    Stride,          \* COLLISION_STRIDE (16 in the code)
    VerifyAttempts,  \* VERIFY_RETRY_ATTEMPTS (3 in the code)
    Environment,     \* what else may happen, a subset of Hazards
    MaxOps,          \* bound on operations begun
    MaxFaults        \* bound on RPC failures, crashes and foreign writes

Kinds == {"add", "remove", "replace", "reconcile_deletes", "reconcile_inserts"}
Hazards == {"crash", "late_insert", "late_delete", "foreign_write"}

Statuses == {"absent", "inserting", "retry_pending", "active", "replacing",
             "replaced", "delete_pending", "removed", "conflict"}

Ids == 1..MaxId

\* What a point slot of the collection holds: nothing, a point signed by this
\* provider for a digest, an unsigned point of the built-in memory with that
\* digest's content, one with that content that another profile or a forgotten
\* key has signed, or a point of somebody else.
NoPoint   == [kind |-> "none",    digest |-> NoDigest]
Foreign   == [kind |-> "foreign", digest |-> NoDigest]
Own(d)    == [kind |-> "own",     digest |-> d]
Legacy(d) == [kind |-> "legacy",  digest |-> d]
Alien(d)  == [kind |-> "alien",   digest |-> d]
Contents  == [kind : {"none", "foreign"}, digest : {NoDigest}]
             \cup [kind : {"own", "legacy", "alien"}, digest : Digests]

Records  == [digest : Digests, id : Ids]
NoRecord == [digest |-> NoDigest, id |-> 0]

ASSUME ConstantsAssumption ==
    /\ NoDigest \notin Digests
    /\ KindsOf \in [Threads -> SUBSET Kinds]
    /\ Needles \subseteq SUBSET Digests
    /\ MaxId \in Nat
    /\ Initial \in [Ids -> Contents]
    /\ Probes \in Nat \ {0}
    /\ Stride \in Nat
    /\ VerifyAttempts \in Nat \ {0}
    /\ Environment \subseteq Hazards
    /\ MaxOps \in Nat
    /\ MaxFaults \in Nat

VARIABLES
    row,       \* ledger table records: digest -> status and external_id
    counter,   \* ledger meta row next_external_id
    point,     \* the collection: id -> contents
    inflight,  \* writes the server may still apply after the client gave up
    th,        \* per thread: where it is in its operation, and its locals
    ops,       \* operations begun
    faults     \* faults spent

vars == <<row, counter, point, inflight, th, ops, faults>>
ledger == <<row, counter>>

-----------------------------------------------------------------------------
(* Locals of a thread: kind of operation, digest being stored (new), record *)
(* being removed (old), needle, id in hand, probe or verify count, and the  *)
(* records still to be visited by a loop.                                   *)

Idle == [pc |-> "idle", kind |-> "none", new |-> NoDigest, old |-> NoRecord,
         needle |-> {}, id |-> 0, tries |-> 0, todo |-> {}]

Goto(t, s) == th' = [th EXCEPT ![t] = s]
At(t, pc) == th[t].pc = pc

\* The operators named Mut... are plausible slips in the code: each is put in
\* place of the operator that follows it, to see which property notices.

(* The ledger's statements. *)
SetStatus(d, s) ==
    [row EXCEPT ![d].status = IF @ = "absent" THEN @ ELSE s]

MutForgetsId(d, i, s) == [row EXCEPT ![d].status = s]
Upsert(d, i, s) == [row EXCEPT ![d] = [status |-> s, id |-> i]]

\* external_id is UNIQUE: an upsert of d at i raises when another row has i.
IdFree(d, i) == \A e \in Digests \ {d} : row[e].id # i

MutIntentSkipped(k) == IF k = "remove" THEN "removed" ELSE "replacing"
IntentStatus(k) == IF k = "remove" THEN "delete_pending" ELSE "replacing"
FinalStatus(k) == IF k = "replace" THEN "replaced" ELSE "removed"

RecordOf(d) == [digest |-> d, id |-> row[d].id]
Resolve(n) == {RecordOf(d) : d \in
                 {e \in n : row[e].status \in {"active", "delete_pending"}}}
Pending(status) == {RecordOf(d) : d \in {e \in Digests : row[e].status = status}}

MutCounterStays(c) == c
NextCounter(c) == c + 1
Observe(i) == IF counter <= i THEN i + 1 ELSE counter

(* What the provider concludes from a point it read. *)
MutOnlyOwnOccupies(p) == p.kind # "own"
Vacant(p) == p.kind = "none"
OwnerMatches(p, d) == p = Own(d)
MutNeverReused(p, d) == FALSE
Reusable(p, d) == OwnerMatches(p, d)
MutByContent(p, d) == p.digest = d
Deletable(p, d) == p \in {Own(d), Legacy(d)}
MutAnyReadback(p, d) == TRUE
ReadbackProves(p, d) == OwnerMatches(p, d)
MutAssumeGone(p) == TRUE
Gone(p) == p.kind = "none"
MutVerifyForever(n) == TRUE
MayVerifyAgain(n) == n < VerifyAttempts

\* What a search for a needle can return, by content alone: nobody looks at the
\* signature here.  Similarity search may miss some points, adds active ledger
\* rows, and returns a content once; only when it returns nothing is the
\* collection scrolled, as far as legacy_scan_limit goes.
RemoteMatches(n) == {[digest |-> point[i].digest, id |-> i] :
                       i \in {j \in Ids : point[j].digest \in n}}
LedgerMatches(n) == {RecordOf(d) : d \in {e \in n : row[e].status = "active"}}
OncePerContent(S) == \A a, b \in S : a.digest = b.digest => a = b
SearchResults(n) ==
    {S \in SUBSET (RemoteMatches(n) \cup LedgerMatches(n)) : OncePerContent(S)}
    \cup SUBSET RemoteMatches(n)

-----------------------------------------------------------------------------
(* Where a ProviderError raised at the thread's current step takes it.      *)

\* _store_content_sync raised: a replace reinstates the old record.
StoreFailed(s) == IF s.kind = "replace" THEN [s EXCEPT !.pc = "reinstate"]
                                        ELSE Idle

\* _delete_verified raised: remove has no handler, the others have one.
DeleteRaised(s) == IF s.kind = "remove" THEN Idle
                                        ELSE [s EXCEPT !.pc = "delete_failed"]

\* The operation ends, or the reconciliation loop takes its next record.
After(s) == IF s.kind \in {"reconcile_deletes", "reconcile_inserts"}
              THEN [s EXCEPT !.pc = "next_pending", !.old = NoRecord]
              ELSE Idle

StorePcs  == {"read_known", "probe"}
InsertPcs == {"insert", "verify"}
DeletePcs == {"pending_read", "read_old", "delete", "read_back"}
RpcPcs == StorePcs \cup InsertPcs \cup DeletePcs \cup {"search", "check_insert"}

OnError(s) ==
    CASE s.pc \in StorePcs     -> StoreFailed(s)
      [] s.pc \in InsertPcs    -> [s EXCEPT !.pc = "mark_retry"]
      [] s.pc \in DeletePcs    -> DeleteRaised(s)
      [] s.pc = "check_insert" -> [s EXCEPT !.pc = "mark_absent"]
      [] OTHER                 -> Idle

Fault == faults < MaxFaults /\ faults' = faults + 1

-----------------------------------------------------------------------------
Init ==
    /\ row = [d \in Digests |-> [status |-> "absent", id |-> 0]]
    /\ counter = 1
    /\ point = Initial
    /\ inflight = {}
    /\ th = [t \in Threads |-> Idle]
    /\ ops = 0
    /\ faults = 0

(* Beginning an operation. *)

Begin(t, k) ==
    /\ At(t, "idle")
    /\ k \in KindsOf[t]
    /\ ops < MaxOps
    /\ ops' = ops + 1

BeginAdd(t) ==
    /\ Begin(t, "add")
    /\ \E d \in Digests :
          Goto(t, [Idle EXCEPT !.pc = "look_up", !.kind = "add", !.new = d])
    /\ UNCHANGED <<ledger, point, inflight, faults>>

\* _resolve_old: exactly one ledger match proceeds, none falls back to the
\* remote search, several are a conflict that ends the operation.
ResolveOld(t, s) ==
    LET found == Resolve(s.needle)
    IN \/ /\ found = {}
          /\ Goto(t, [s EXCEPT !.pc = "search"])
       \/ \E r \in found :
             /\ found = {r}
             /\ Goto(t, [s EXCEPT !.pc = "mark_old", !.old = r, !.needle = {}])
       \/ /\ \E a, b \in found : a # b
          /\ Goto(t, Idle)

BeginRemove(t) ==
    /\ Begin(t, "remove")
    /\ \E n \in Needles :
          ResolveOld(t, [Idle EXCEPT !.kind = "remove", !.needle = n])
    /\ UNCHANGED <<ledger, point, inflight, faults>>

BeginReplace(t) ==
    /\ Begin(t, "replace")
    /\ \E n \in Needles, d \in Digests :
          ResolveOld(t, [Idle EXCEPT !.kind = "replace", !.needle = n, !.new = d])
    /\ UNCHANGED <<ledger, point, inflight, faults>>

\* A pass works from what its query of the ledger returns here.
BeginReconcile(t) ==
    /\ \/ /\ Begin(t, "reconcile_deletes")
          /\ Goto(t, [Idle EXCEPT !.pc = "next_pending",
                                  !.kind = "reconcile_deletes",
                                  !.todo = Pending("delete_pending")])
       \/ /\ Begin(t, "reconcile_inserts")
          /\ Goto(t, [Idle EXCEPT !.pc = "list_retries",
                                  !.kind = "reconcile_inserts",
                                  !.todo = Pending("inserting")])
    /\ UNCHANGED <<ledger, point, inflight, faults>>

(* _resolve_legacy_remote, and the upsert of every match as active. *)

SearchLegacy(t) ==
    /\ At(t, "search")
    /\ \E found \in SearchResults(th[t].needle) :
          Goto(t, IF found = {} THEN Idle
                  ELSE [th[t] EXCEPT
                          !.pc = "adopt", !.todo = found, !.needle = {},
                          !.old = IF \E r \in found : found = {r}
                                    THEN CHOOSE r \in found : TRUE
                                    ELSE NoRecord])
    /\ UNCHANGED <<ledger, point, inflight, ops, faults>>

Adopt(t) ==
    /\ At(t, "adopt")
    /\ \E r \in th[t].todo :
          IF IdFree(r.digest, r.id)
            THEN /\ row' = Upsert(r.digest, r.id, "active")
                 /\ Goto(t, CASE th[t].todo # {r} ->
                                   [th[t] EXCEPT !.todo = @ \ {r}]
                              [] th[t].todo = {r} /\ th[t].old = r ->
                                   [th[t] EXCEPT !.pc = "mark_old", !.todo = {}]
                              [] OTHER -> Idle)
            ELSE row' = row /\ Goto(t, Idle)
    /\ UNCHANGED <<counter, point, inflight, ops, faults>>

(* The old record's write-ahead status, before anything is sent. *)

MarkOld(t) ==
    /\ At(t, "mark_old")
    /\ row' = SetStatus(th[t].old.digest, IntentStatus(th[t].kind))
    /\ Goto(t, [th[t] EXCEPT
                  !.pc = IF th[t].kind = "remove" THEN "read_old" ELSE "look_up"])
    /\ UNCHANGED <<counter, point, inflight, ops, faults>>

(* _allocate_id *)

LookUp(t) ==
    /\ At(t, "look_up")
    /\ Goto(t, IF row[th[t].new].status = "absent"
                 THEN [th[t] EXCEPT !.pc = "next_id"]
                 ELSE [th[t] EXCEPT !.pc = "read_known", !.id = row[th[t].new].id])
    /\ UNCHANGED <<ledger, point, inflight, ops, faults>>

ReadKnown(t) ==
    /\ At(t, "read_known")
    /\ Goto(t, IF Reusable(point[th[t].id], th[t].new)
                 THEN [th[t] EXCEPT !.pc = "write_ahead"]
                 ELSE [th[t] EXCEPT !.pc = "next_id", !.id = 0])
    /\ UNCHANGED <<ledger, point, inflight, ops, faults>>

NextExternalId(t) ==
    /\ At(t, "next_id")
    /\ counter \in Ids
    /\ Goto(t, [th[t] EXCEPT !.pc = "probe", !.id = counter])
    /\ counter' = NextCounter(counter)
    /\ UNCHANGED <<row, point, inflight, ops, faults>>

ProbeVacant(t) ==
    /\ At(t, "probe")
    /\ Vacant(point[th[t].id])
    /\ Goto(t, [th[t] EXCEPT !.pc = "write_ahead", !.tries = 0])
    /\ UNCHANGED <<ledger, point, inflight, ops, faults>>

\* Occupied: jump the counter; CollisionExhausted after the last probe.
ProbeOccupied(t) ==
    /\ At(t, "probe")
    /\ ~Vacant(point[th[t].id])
    /\ counter' = Observe(th[t].id + Stride)
    /\ Goto(t, IF th[t].tries + 1 < Probes
                 THEN [th[t] EXCEPT !.pc = "next_id", !.id = 0, !.tries = @ + 1]
                 ELSE StoreFailed(th[t]))
    /\ UNCHANGED <<row, point, inflight, ops, faults>>

(* _store_content_sync: write-ahead row, insert, verify, commit. *)

\* A UNIQUE violation is no ProviderError: no handler of the store or of the
\* replace runs, the operation just ends.
WriteAhead(t) ==
    /\ At(t, "write_ahead")
    /\ IF IdFree(th[t].new, th[t].id)
         THEN /\ row' = Upsert(th[t].new, th[t].id, "inserting")
              /\ Goto(t, [th[t] EXCEPT !.pc = "insert"])
         ELSE row' = row /\ Goto(t, Idle)
    /\ UNCHANGED <<counter, point, inflight, ops, faults>>

Insertion(t) == [op |-> "insert", digest |-> th[t].new, id |-> th[t].id]
Verifying(t) == [th[t] EXCEPT !.pc = "verify", !.tries = 1]

InsertApplied(t) ==
    /\ At(t, "insert")
    /\ point' = [point EXCEPT ![th[t].id] = Own(th[t].new)]
    /\ \/ Goto(t, Verifying(t)) /\ UNCHANGED faults
       \/ Goto(t, OnError(th[t])) /\ Fault          \* applied, reply lost
    /\ UNCHANGED <<ledger, inflight, ops>>

\* Acknowledged but not visible yet, or past its deadline but still queued.
InsertDelayed(t) ==
    /\ At(t, "insert")
    /\ "late_insert" \in Environment
    /\ inflight' = inflight \cup {Insertion(t)}
    /\ Goto(t, Verifying(t)) \/ Goto(t, OnError(th[t]))
    /\ Fault
    /\ UNCHANGED <<ledger, point, ops>>

VerifyReadback(t) ==
    /\ At(t, "verify")
    /\ Goto(t, CASE ReadbackProves(point[th[t].id], th[t].new) ->
                      [th[t] EXCEPT !.pc = "commit", !.tries = 0]
                 [] ~ReadbackProves(point[th[t].id], th[t].new)
                    /\ MayVerifyAgain(th[t].tries) ->
                      [th[t] EXCEPT !.tries =
                         IF @ < VerifyAttempts THEN @ + 1 ELSE @]
                 [] OTHER -> OnError(th[t]))
    /\ UNCHANGED <<ledger, point, inflight, ops, faults>>

Commit(t) ==
    /\ At(t, "commit")
    /\ IF IdFree(th[t].new, th[t].id)
         THEN /\ row' = Upsert(th[t].new, th[t].id, "active")
              /\ Goto(t, IF th[t].kind = "replace"
                           THEN [th[t] EXCEPT !.pc = "retire_old", !.id = 0]
                           ELSE Idle)
         ELSE row' = row /\ Goto(t, Idle)
    /\ UNCHANGED <<counter, point, inflight, ops, faults>>

MarkRetry(t) ==
    /\ At(t, "mark_retry")
    /\ row' = SetStatus(th[t].new, "retry_pending")
    /\ Goto(t, StoreFailed(th[t]))
    /\ UNCHANGED <<counter, point, inflight, ops, faults>>

(* The rest of a replace. *)

Reinstate(t) ==
    /\ At(t, "reinstate")
    /\ row' = SetStatus(th[t].old.digest, "active")
    /\ Goto(t, Idle)
    /\ UNCHANGED <<counter, point, inflight, ops, faults>>

RetireOld(t) ==
    /\ At(t, "retire_old")
    /\ IF th[t].new = th[t].old.digest
         THEN row' = SetStatus(th[t].old.digest, "active") /\ Goto(t, Idle)
         ELSE /\ row' = SetStatus(th[t].old.digest, "delete_pending")
              /\ Goto(t, [th[t] EXCEPT !.pc = "read_old", !.new = NoDigest])
    /\ UNCHANGED <<counter, point, inflight, ops, faults>>

(* _delete_verified, of th[t].old *)

ReadOld(t) ==
    /\ At(t, "read_old")
    /\ LET p == point[th[t].old.id]
       IN Goto(t, CASE Gone(p) -> [th[t] EXCEPT !.pc = "mark_done"]
                    [] ~Gone(p) /\ Deletable(p, th[t].old.digest) ->
                         [th[t] EXCEPT !.pc = "delete"]
                    [] OTHER -> DeleteRaised(th[t]))       \* MutationConflict
    /\ UNCHANGED <<ledger, point, inflight, ops, faults>>

DeleteApplied(t) ==
    /\ At(t, "delete")
    /\ point' = [point EXCEPT ![th[t].old.id] = NoPoint]
    /\ \/ Goto(t, [th[t] EXCEPT !.pc = "read_back"]) /\ UNCHANGED faults
       \/ Goto(t, DeleteRaised(th[t])) /\ Fault     \* applied, reply lost
    /\ UNCHANGED <<ledger, inflight, ops>>

\* The server answers without deleting: the read-back decides.
DeleteRefused(t) ==
    /\ At(t, "delete")
    /\ Goto(t, [th[t] EXCEPT !.pc = "read_back"])
    /\ Fault
    /\ UNCHANGED <<ledger, point, inflight, ops>>

DeleteDelayed(t) ==
    /\ At(t, "delete")
    /\ "late_delete" \in Environment
    /\ inflight' = inflight \cup
         {[op |-> "delete", digest |-> th[t].old.digest, id |-> th[t].old.id]}
    /\ Goto(t, DeleteRaised(th[t]))
    /\ Fault
    /\ UNCHANGED <<ledger, point, ops>>

ReadBack(t) ==
    /\ At(t, "read_back")
    /\ Goto(t, IF Gone(point[th[t].old.id])
                 THEN [th[t] EXCEPT !.pc = "mark_done"]
                 ELSE DeleteRaised(th[t]))
    /\ UNCHANGED <<ledger, point, inflight, ops, faults>>

MarkDone(t) ==
    /\ At(t, "mark_done")
    /\ row' = SetStatus(th[t].old.digest, FinalStatus(th[t].kind))
    /\ Goto(t, After(th[t]))
    /\ UNCHANGED <<counter, point, inflight, ops, faults>>

DeleteFailed(t) ==
    /\ At(t, "delete_failed")
    /\ row' = SetStatus(th[t].old.digest, "delete_pending")
    /\ Goto(t, After(th[t]))
    /\ UNCHANGED <<counter, point, inflight, ops, faults>>

(* The reconciliation loops. *)

\* The insert pass asks a second time: what another thread moved from one
\* status to the other in between is missed, or found twice (and kept once).
ListRetries(t) ==
    /\ At(t, "list_retries")
    /\ Goto(t, [th[t] EXCEPT !.pc = "next_pending",
                             !.todo = @ \cup Pending("retry_pending")])
    /\ UNCHANGED <<ledger, point, inflight, ops, faults>>

NextPending(t) ==
    /\ At(t, "next_pending")
    /\ \/ \E r \in th[t].todo :
             Goto(t, [th[t] EXCEPT
                        !.pc = IF th[t].kind = "reconcile_deletes"
                                 THEN "pending_read" ELSE "check_insert",
                        !.old = r, !.todo = @ \ {r}])
       \/ /\ th[t].todo = {}
          /\ Goto(t, Idle)
    /\ UNCHANGED <<ledger, point, inflight, ops, faults>>

\* Beyond the LIMIT of the query or, in the delete pass, out of attempts,
\* backing off, or past the time budget.
SkipPending(t) ==
    /\ At(t, "next_pending")
    /\ \E r \in th[t].todo : Goto(t, [th[t] EXCEPT !.todo = @ \ {r}])
    /\ UNCHANGED <<ledger, point, inflight, ops, faults>>

ReadPending(t) ==
    /\ At(t, "pending_read")
    /\ LET p == point[th[t].old.id]
       IN Goto(t, [th[t] EXCEPT
                     !.pc = CASE Gone(p) -> "mark_done"
                              [] OwnerMatches(p, th[t].old.digest) -> "read_old"
                              [] OTHER -> "mark_conflict"])
    /\ UNCHANGED <<ledger, point, inflight, ops, faults>>

CheckInsert(t) ==
    /\ At(t, "check_insert")
    /\ LET p == point[th[t].old.id]
       IN Goto(t, [th[t] EXCEPT
                     !.pc = CASE Gone(p) -> "mark_absent"
                              [] OwnerMatches(p, th[t].old.digest) -> "mark_active"
                              [] OTHER -> "mark_conflict"])
    /\ UNCHANGED <<ledger, point, inflight, ops, faults>>

MarkChecked(t) ==
    /\ \E m \in {[pc |-> "mark_absent",   status |-> "retry_pending"],
                 [pc |-> "mark_active",   status |-> "active"],
                 [pc |-> "mark_conflict", status |-> "conflict"]} :
          /\ At(t, m.pc)
          /\ row' = SetStatus(th[t].old.digest, m.status)
    /\ Goto(t, After(th[t]))
    /\ UNCHANGED <<counter, point, inflight, ops, faults>>

(* Failures. *)

\* The RPC of the current step fails and has no effect.
RpcError(t) ==
    /\ th[t].pc \in RpcPcs
    /\ Goto(t, OnError(th[t]))
    /\ Fault
    /\ UNCHANGED <<ledger, point, inflight, ops>>

\* A write whose sender stopped waiting reaches the collection.
Land ==
    /\ \E m \in inflight :
          /\ inflight' = inflight \ {m}
          /\ point' = [point EXCEPT ![m.id] =
                         IF m.op = "insert" THEN Own(m.digest) ELSE NoPoint]
    /\ UNCHANGED <<ledger, th, ops, faults>>

Crash ==
    /\ "crash" \in Environment
    /\ \E t \in Threads : ~At(t, "idle")
    /\ th' = [t \in Threads |-> Idle]
    /\ Fault
    /\ UNCHANGED <<ledger, point, inflight, ops>>

\* Another client of the collection stores a point of its own.
ForeignWrite ==
    /\ "foreign_write" \in Environment
    /\ \E i \in Ids : /\ Vacant(point[i])
                      /\ point' = [point EXCEPT ![i] = Foreign]
    /\ Fault
    /\ UNCHANGED <<ledger, inflight, th, ops>>

-----------------------------------------------------------------------------
Store(t) ==
    \/ LookUp(t) \/ ReadKnown(t) \/ NextExternalId(t)
    \/ ProbeVacant(t) \/ ProbeOccupied(t)
    \/ WriteAhead(t) \/ InsertApplied(t) \/ InsertDelayed(t)
    \/ VerifyReadback(t) \/ Commit(t) \/ MarkRetry(t)

Delete(t) ==
    \/ ReadOld(t) \/ DeleteApplied(t) \/ DeleteRefused(t) \/ DeleteDelayed(t)
    \/ ReadBack(t) \/ MarkDone(t) \/ DeleteFailed(t)

Reconcile(t) ==
    \/ ListRetries(t) \/ NextPending(t) \/ SkipPending(t) \/ ReadPending(t)
    \/ CheckInsert(t) \/ MarkChecked(t)

Step(t) ==
    \/ SearchLegacy(t) \/ Adopt(t) \/ MarkOld(t)
    \/ Store(t) \/ Reinstate(t) \/ RetireOld(t) \/ Delete(t) \/ Reconcile(t)

Request(t) ==
    \/ BeginAdd(t) \/ BeginRemove(t) \/ BeginReplace(t) \/ BeginReconcile(t)

Next ==
    \/ \E t \in Threads : Request(t) \/ Step(t) \/ RpcError(t)
    \/ Land
    \/ Crash
    \/ ForeignWrite

Spec == Init /\ [][Next]_vars

\* A thread that can take its next step takes it: nothing in the code waits
\* for another thread while an operation is under way.
FairSpec == Spec /\ \A t \in Threads : WF_vars(Step(t))
=============================================================================
