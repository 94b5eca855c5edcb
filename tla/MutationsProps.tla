--------------------------- MODULE MutationsProps ---------------------------
(* What the mutation paths of the provider guarantee. *)
EXTENDS Mutations

Pcs == {"idle", "search", "adopt", "mark_old", "look_up", "next_id",
        "write_ahead", "commit", "mark_retry", "reinstate", "retire_old",
        "mark_done", "delete_failed", "list_retries", "next_pending",
        "mark_absent", "mark_active", "mark_conflict"} \cup RpcPcs

ThreadStates ==
    [pc : Pcs, kind : Kinds \cup {"none"}, new : Digests \cup {NoDigest},
     old : Records \cup {NoRecord}, needle : SUBSET Digests, id : Ids \cup {0},
     tries : Nat, todo : SUBSET Records]

Messages == [op : {"insert", "delete"}, digest : Digests, id : Ids]

\* Steps that store th[t].new, steps at which an id is in hand, and steps that
\* work on the record th[t].old.
NewPcs == {"look_up", "read_known", "next_id", "probe", "write_ahead",
           "insert", "verify", "commit", "mark_retry", "retire_old"}
IdPcs  == {"read_known", "probe", "write_ahead", "insert", "verify", "commit"}
OldPcs == {"mark_old", "reinstate", "retire_old", "mark_done", "delete_failed",
           "mark_absent", "mark_active", "mark_conflict", "check_insert"}
          \cup DeletePcs

ThreadOK(s) ==
    /\ s \in ThreadStates
    /\ s.pc \in NewPcs => s.new \in Digests
    /\ s.pc \in IdPcs => s.id \in Ids
    /\ s.pc \in OldPcs => s.old \in Records
    /\ s.kind = "replace" /\ s.pc \in NewPcs => s.old \in Records
    /\ s.pc \in {"search", "adopt", "mark_old"}
          => s.kind = "remove" \/ (s.kind = "replace" /\ s.new \in Digests)

RowOK ==
    /\ row \in [Digests -> [status : Statuses, id : Ids \cup {0}]]
    /\ \A d \in Digests : row[d].id = 0 <=> row[d].status = "absent"

\* Types, that a ledger row exists exactly when it has an id (no status is ever
\* written for a digest the ledger has not stored with its point id), and that
\* every step finds the digest, id and record it works on.
TypeOK ==
    /\ RowOK
    /\ counter \in Nat \ {0}
    /\ point \in [Ids -> Contents]
    /\ inflight \subseteq Messages
    /\ th \in [Threads -> ThreadStates]
    /\ \A t \in Threads : ThreadOK(th[t])
    /\ ops \in Nat
    /\ faults \in Nat

-----------------------------------------------------------------------------
(* Point ids. *)

\* Every pairing of a digest with a point id that the system can still act on:
\* ledger rows, signed points, writes in flight, records in a thread's hands,
\* and the id under which a thread has started to store.
HoldingPcs == {"write_ahead", "insert", "verify", "commit"}

InHand(s, r) ==
    \/ s.old = r
    \/ r \in s.todo
    \/ s.pc \in HoldingPcs /\ s.new = r.digest /\ s.id = r.id

Claimed(r) ==
    \/ row[r.digest].id = r.id
    \/ point[r.id] = Own(r.digest)
    \/ \E m \in inflight : m.digest = r.digest /\ m.id = r.id
    \/ \E t \in Threads : InHand(th[t], r)

\* A point id never stands for two memories at once, wherever the id is held:
\* otherwise a late step of one operation hits another operation's memory
\* (_allocate_id, next_external_id and the UNIQUE column together).
IdsNotShared ==
    \A a, b \in Records :
       Claimed(a) /\ Claimed(b) /\ a.id = b.id => a.digest = b.digest

\* The id a store allocated is accepted by the ledger: the UNIQUE column never
\* turns a store down (README: unauthenticated points "no longer block stores").
WriteAheadAccepted ==
    \A t \in Threads : At(t, "write_ahead") => IdFree(th[t].new, th[t].id)

\* A point of another client, or of another profile or key of the provider.
Others(p) == p.kind \in {"foreign", "alien"}

\* No step of the provider overwrites or deletes a point of somebody else, not
\* even one whose content it has adopted into its ledger (README 2.8.0:
\* "Unauthenticated points are skipped, never overwritten").
ForeignUntouched ==
    [][\A i \in Ids : Others(point[i]) => point'[i] = point[i]]_vars

\* Why ids are not shared: every id in use is below the counter, and an id that
\* a thread is probing is its own alone and nobody's yet.  This holds as long
\* as the collection held no built-in memories to adopt under their own ids.
Probing(t) == At(t, "probe")
IdsInvariant ==
    /\ IdsNotShared
    /\ \A i \in Ids : point[i].kind \notin {"legacy", "alien"}
    /\ \A r \in Records : Claimed(r) => r.id < counter
    /\ \A t \in Threads : Probing(t) =>
          /\ th[t].id < counter
          /\ \A r \in Records : Claimed(r) => r.id # th[t].id
          /\ \A u \in Threads : Probing(u) /\ th[u].id = th[t].id => u = t

\* A collection where nobody but others has stored anything yet.
FreshCollection == \A i \in Ids : Initial[i].kind \in {"none", "foreign"}

\* What is about to be written or deleted is never a point of somebody else.
WritesNotForeign ==
    /\ \A t \in Threads :
          /\ th[t].pc \in HoldingPcs => ~Others(point[th[t].id])
          /\ At(t, "delete") => ~Others(point[th[t].old.id])
    /\ \A m \in inflight : ~Others(point[m.id])

-----------------------------------------------------------------------------
(* Ledger and collection. *)

\* Every signed point is the one its digest's ledger row names: nothing this
\* provider stored is ever out of its reach, not even after a crash between
\* the write-ahead row and the insert, or a lost reply.
NoOrphan ==
    \A i \in Ids, d \in Digests : point[i] = Own(d) => row[d].id = i

\* The points that hold a memory's content, signed by this provider or adopted.
PointsWith(d) == {Own(d), Legacy(d), Alien(d)}

\* A memory the ledger calls active, and recall serves from the ledger, is
\* stored at the id the ledger names.
ActiveIsStored ==
    \A d \in Digests :
       row[d].status = "active" => point[row[d].id] \in PointsWith(d)

\* A memory, signed or adopted, leaves the collection only while the ledger
\* says that the removal of this very point is under way: the intent is durable
\* before the delete is sent and still in force when it takes effect.
DeleteHasIntent ==
    [][\A i \in Ids, d \in Digests :
          point[i].digest = d /\ point'[i].digest # d
             => row[d] = [status |-> "delete_pending", id |-> i]]_vars

\* A memory reported removed or replaced is nowhere in the collection.
RemovedIsGone ==
    \A d \in Digests : row[d].status \in {"removed", "replaced"}
                         => \A i \in Ids : point[i] # Own(d)

-----------------------------------------------------------------------------
(* Why ledger and collection agree when one operation runs at a time.       *)

OneExecutor == \A t, u \in Threads : t = u
NothingSigned == \A i \in Ids : Initial[i].kind # "own"
Replaces == \E t \in Threads : "replace" \in KindsOf[t]

\* The steps an operation of kind k passes through.
FindPcs   == {"search", "adopt", "mark_old"}
RemovePcs == {"read_old", "delete", "read_back", "mark_done"}
SavePcs   == {"insert", "verify", "commit", "mark_retry", "retire_old"}
PathOf(k) ==
    CASE k = "add"     -> NewPcs \ {"retire_old"}
      [] k = "remove"  -> FindPcs \cup RemovePcs
      [] k = "replace" -> FindPcs \cup NewPcs \cup RemovePcs
                          \cup {"reinstate", "delete_failed"}
      [] k = "reconcile_deletes" ->
            RemovePcs \cup {"next_pending", "pending_read", "mark_conflict",
                            "delete_failed"}
      [] k = "reconcile_inserts" ->
            {"list_retries", "next_pending", "check_insert", "mark_absent",
             "mark_active", "mark_conflict"}
      [] OTHER -> {}

Unproved == {"inserting", "retry_pending"}
RowIs(r, S) == row[r.digest].id = r.id /\ row[r.digest].status \in S
Holds(r) == point[r.id] \in PointsWith(r.digest)

\* A point of d may appear at i: it would replace nobody's memory, and no other
\* write that is still under way goes to the same place.
ClearFor(d, i) ==
    /\ i < counter
    /\ point[i] \in {NoPoint, Foreign, Own(d)}
    /\ \A m \in inflight : m.id = i => m.digest = d

\* The status under which each step works on the record th[t].old, or on the
\* records a pass has still to visit.
OldInForce(s) ==
    /\ s.pc = "mark_old" => RowIs(s.old, {"active", "delete_pending"})
    /\ s.pc \in RemovePcs \cup {"pending_read", "delete_failed"}
          => RowIs(s.old, {"delete_pending"})
    /\ s.pc \in {"check_insert", "mark_absent", "mark_active"}
          => RowIs(s.old, Unproved)
    /\ s.pc = "list_retries" => s.old = NoRecord
    /\ s.pc = "mark_conflict" => RowIs(s.old, Unproved \cup {"delete_pending"})
    /\ s.kind = "replace" /\ s.pc \in NewPcs
          => \/ RowIs(s.old, {"replacing"})
             \/ s.new = s.old.digest /\ s.pc \in SavePcs

TodoInForce(s) ==
    \A r \in s.todo :
       /\ s.pc = "adopt" => Holds(r)
       /\ s.kind = "reconcile_deletes" => r # s.old /\ RowIs(r, {"delete_pending"})
       /\ s.kind = "reconcile_inserts" => r # s.old /\ RowIs(r, Unproved)

\* What each step has seen of the collection, and can still rely on.
StillSeen(s) ==
    /\ s.pc = "search" => \A d \in s.needle : row[d].status # "active"
    /\ s.pc = "probe" => s.id < counter /\ \A m \in inflight : m.id # s.id
    /\ s.pc \in HoldingPcs => ClearFor(s.new, s.id)
    /\ s.pc = "commit" => point[s.id] = Own(s.new)
    /\ s.pc = "delete" => Holds(s.old)
    /\ s.pc = "mark_active" => point[s.old.id] = Own(s.old.digest)

InOrder(t, s) ==
    /\ s.pc # "idle" => s.kind \in KindsOf[t] /\ s.pc \in PathOf(s.kind)
    /\ OldInForce(s) /\ TodoInForce(s) /\ StillSeen(s)

\* Every step still finds the row, the intent and the point that the steps
\* before it left, whatever lands late: no RPC returns into a state where what
\* was read before it no longer holds.
IntentInvariant ==
    /\ \A t \in Threads : InOrder(t, th[t])
    /\ \A m \in inflight : m.op = "insert" /\ ClearFor(m.digest, m.id)
    /\ \A i \in Ids : point[i].kind = "own" => i < counter
    /\ ~Replaces => ActiveIsStored

\* The same for the place of the memory being stored, when nothing lands late:
\* its row names its only point before that point can exist.
Placed(s) ==
    /\ s.pc = "read_known" => row[s.new].id = s.id
    /\ s.pc \in {"next_id", "probe"} => \A i \in Ids : point[i] # Own(s.new)
    /\ s.pc = "write_ahead" => \A i \in Ids : point[i] = Own(s.new) => i = s.id
    /\ s.pc \in {"insert", "verify", "commit"}
          => row[s.new] = [status |-> "inserting", id |-> s.id]
    /\ s.pc = "mark_retry" => row[s.new].status = "inserting"
    /\ s.pc = "retire_old" => row[s.new].status = "active"
    /\ s.pc = "reinstate"
          => row[s.old.digest].status \in Unproved \cup {"replacing"}
    /\ s.pc = "mark_done" => point[s.old.id] # Own(s.old.digest)

PlaceInvariant ==
    /\ \A t \in Threads : Placed(th[t])
    /\ inflight = {}
    /\ NoOrphan
    /\ RemovedIsGone

-----------------------------------------------------------------------------
(* The refinement. *)

\* The abstract memory store: a row's status is its claim, and the point that
\* counts is the one at the id the row names.
ClaimOf(status) ==
    CASE status = "absent"                       -> "none"
      [] status \in {"inserting", "retry_pending"} -> "uncertain"
      [] status = "active"                       -> "stored"
      [] status = "delete_pending"               -> "deleting"
      [] status \in {"removed", "replaced"}      -> "gone"
      [] OTHER                                   -> status

IsStored(d) == row[d].id # 0 /\ point[row[d].id] \in PointsWith(d)

Memory == INSTANCE MemoryStore
    WITH Memories <- Digests,
         Reclaims <- Replaces,
         claim    <- [d \in Digests |-> ClaimOf(row[d].status)],
         present  <- [d \in Digests |-> IsStored(d)]

\* Step by step, the mutation paths keep the write-ahead discipline of the
\* memory store: through failures, lost replies and crashes no point comes or
\* goes without its intent, and nothing is called stored or gone unseen except
\* by a failed replace (_store_content_sync, _delete_verified, both passes).
ImplementsStore == Memory!Spec

\* Every operation ends: the probe, verify and reconciliation loops are
\* bounded, whatever the other threads do meanwhile.
Terminates == \A t \in Threads : ~At(t, "idle") ~> At(t, "idle")
=============================================================================
