-------------------------- MODULE DeleteReconcile --------------------------
(***************************************************************************)
(* Which pending deletions a reconciliation pass attempts: the LIMIT       *)
(* window over the ledger in order of updated_at, the retry table with its *)
(* back-off and its cap on attempts, and initialize's time budget. Passes  *)
(* run on the thread that starts a session and on the operator's, beside   *)
(* the worker and other clients of the collection.                         *)
(*                                                                         *)
(* Abstracted: the RPCs of one deletion, and those of a store, are one     *)
(* step each (module Mutations takes them apart); next_retry_epoch is only *)
(* compared with the clock, so a row is waiting or it is not; an operator's *)
(* call that is a replay or a dry run, and any start of a pass while the   *)
(* collection's contract is not verified, changes nothing and is no step.  *)
(***************************************************************************)
EXTENDS Integers, Sequences, FiniteSets

CONSTANTS
    Digests,       \* memories of the ledger
    Nobody,        \* not a digest
    Starters,      \* threads that run initialize
    Operators,     \* threads that call the operator's tool
    Limit,         \* of the query, _reconcile_limit
    Asked,         \* limits an operator may ask for (1..32 in the code)
    MaxAttempts,   \* _reconcile_max_attempts
    MaxEvents      \* bound on mutations, foreign writes and crashes

ASSUME ReconcileAssumption ==
    /\ Nobody \notin Digests
    /\ Starters \cap Operators = {}
    /\ Limit \in Nat \ {0}
    /\ Asked \subseteq Nat \ {0}
    /\ MaxAttempts \in Nat \ {0}
    /\ MaxEvents \in Nat

VARIABLES
    status,     \* of each row
    pending,    \* the delete_pending rows, by updated_at
    point,      \* at the row's id: "own", "none", or somebody else's "other"
    attempts,   \* of reconciliation_retries; 0 when there is no row
    waiting,    \* rows whose next_retry_epoch has not come
    run,        \* per runner: where it is in its pass
    events      \* mutations, foreign writes and crashes so far

vars == <<status, pending, point, attempts, waiting, run, events>>
records == <<status, pending>>
retries == <<attempts, waiting>>

Runners == Starters \cup Operators

\* "uncertain" stands for inserting and retry_pending.
Statuses == {"active", "uncertain", "delete_pending", "removed", "conflict"}
Resting == [pc |-> "idle", todo |-> <<>>, digest |-> Nobody, begun |-> FALSE,
            moved |-> {}]

Without(q, d) ==
    IF \A i \in DOMAIN q : q[i] # d THEN q
    ELSE LET k == CHOOSE i \in DOMAIN q : q[i] = d
         IN  SubSeq(q, 1, k - 1) \o SubSeq(q, k + 1, Len(q))

\* set_status touches updated_at: a row set to delete_pending becomes the last.
Youngest(q, d) == Append(Without(q, d), d)

SetStatus(d, s) ==
    /\ status' = [status EXCEPT ![d] = s]
    /\ pending' = IF s = "delete_pending" THEN Youngest(pending, d)
                                          ELSE Without(pending, d)

Window(limit) ==
    SubSeq(pending, 1, IF limit < Len(pending) THEN limit ELSE Len(pending))

\* reconciliation_due
MutDueUntilCap(d) == attempts[d] < MaxAttempts - 1 /\ d \notin waiting
Due(d) == attempts[d] < MaxAttempts /\ d \notin waiting

\* The attempts note_reconciliation_retry writes.
MutUncapped(n) == n + 1
NoteRetry(n) == IF n + 1 < MaxAttempts THEN n + 1 ELSE MaxAttempts

\* What a pass may find at the id it read from the row: when a store has moved
\* the memory to another id since, the old one is left to the other clients.
Seen(r) == IF run[r].digest \in run[r].moved THEN {"none", "other"}
                                             ELSE {point[run[r].digest]}

At(r, pc) == run[r].pc = pc
Goto(r, s) == run' = [run EXCEPT ![r] = s]
GotoPc(r, pc) == Goto(r, [run[r] EXCEPT !.pc = pc])

-----------------------------------------------------------------------------
Init ==
    /\ status = [d \in Digests |-> "active"]
    /\ pending = <<>>
    /\ point = [d \in Digests |-> "own"]
    /\ attempts = [d \in Digests |-> 0]
    /\ waiting = {}
    /\ run = [r \in Runners |-> Resting]
    /\ events = 0

(* The passes. *)

\* initialize or the operator's apply; the rows are read once, at the start.
Begin(r) ==
    /\ At(r, "idle")
    /\ \E limit \in IF r \in Operators THEN Asked ELSE {Limit} :
          Goto(r, [Resting EXCEPT !.pc = "next", !.todo = Window(limit)])
    /\ UNCHANGED <<records, point, retries, events>>

Skip(r) ==
    /\ At(r, "next")
    /\ run[r].todo # <<>>
    /\ ~Due(Head(run[r].todo))
    /\ Goto(r, [run[r] EXCEPT !.todo = Tail(@)])
    /\ UNCHANGED <<records, point, retries, events>>

Attempt(r) ==
    /\ At(r, "next")
    /\ run[r].todo # <<>>
    /\ Due(Head(run[r].todo))
    /\ Goto(r, [run[r] EXCEPT !.pc = "read", !.digest = Head(run[r].todo),
                              !.todo = Tail(@), !.begun = TRUE])
    /\ UNCHANGED <<records, point, retries, events>>

\* Only initialize has a budget; at least 0.1 s, it covers one attempt.
BudgetSpent(r) ==
    /\ r \in Starters
    /\ At(r, "next")
    /\ run[r].todo # <<>> /\ run[r].begun
    /\ Goto(r, Resting)
    /\ UNCHANGED <<records, point, retries, events>>

\* get_points found nothing, or somebody else's point.
FindNotOurs(r) ==
    /\ At(r, "read")
    /\ \/ "none" \in Seen(r)  /\ GotoPc(r, "removed")
       \/ "other" \in Seen(r) /\ GotoPc(r, "conflict")
    /\ UNCHANGED <<records, point, retries, events>>

DeleteVerified(r) ==
    /\ At(r, "read")
    /\ "own" \in Seen(r)
    /\ point' = [point EXCEPT ![run[r].digest] = "none"]
    /\ GotoPc(r, "removed")
    /\ UNCHANGED <<records, retries, events>>

\* A call raised: without effect, or the delete had one.
RpcRaises(r) ==
    /\ At(r, "read")
    /\ \/ point' = point
       \/ /\ "own" \in Seen(r)
          /\ point' = [point EXCEPT ![run[r].digest] = "none"]
    /\ GotoPc(r, "note")
    /\ UNCHANGED <<records, retries, events>>

\* The row is settled: its status first, its retries in another transaction.
Settle(r) ==
    /\ run[r].pc \in {"removed", "conflict"}
    /\ SetStatus(run[r].digest, run[r].pc)
    /\ GotoPc(r, "clear")
    /\ UNCHANGED <<point, retries, events>>

ClearRetry(r) ==
    /\ At(r, "clear")
    /\ attempts' = [attempts EXCEPT ![run[r].digest] = 0]
    /\ waiting' = waiting \ {run[r].digest}
    /\ Goto(r, [run[r] EXCEPT !.pc = "next", !.digest = Nobody])
    /\ UNCHANGED <<records, point, events>>

Note(r) ==
    /\ At(r, "note")
    /\ attempts' = [attempts EXCEPT ![run[r].digest] = NoteRetry(@)]
    /\ waiting' = waiting \cup {run[r].digest}
    /\ GotoPc(r, "requeue")
    /\ UNCHANGED <<records, point, events>>

Requeue(r) ==
    /\ At(r, "requeue")
    /\ SetStatus(run[r].digest, "delete_pending")
    /\ Goto(r, [run[r] EXCEPT !.pc = "next", !.digest = Nobody])
    /\ UNCHANGED <<point, retries, events>>

Finish(r) ==
    /\ At(r, "next")
    /\ run[r].todo = <<>>
    /\ Goto(r, Resting)
    /\ UNCHANGED <<records, point, retries, events>>

DelayPasses(d) ==
    /\ d \in waiting
    /\ waiting' = waiting \ {d}
    /\ UNCHANGED <<records, point, attempts, run, events>>

Event == events < MaxEvents /\ events' = events + 1

(* The worker's mutations: they never touch the retry table. *)

\* A memory that is not at its row's id is stored under a new one, while a pass
\* may be working from the row as it was.
Works(r, d) == run[r].digest = d \/ \E i \in DOMAIN run[r].todo : run[r].todo[i] = d
Moves(d) ==
    run' = [r \in Runners |->
              IF Works(r, d) /\ point[d] # "own"
                THEN [run[r] EXCEPT !.moved = @ \cup {d}] ELSE run[r]]

Stored ==
    /\ Event
    /\ \E d \in Digests : /\ SetStatus(d, "active")
                          /\ point' = [point EXCEPT ![d] = "own"]
                          /\ Moves(d)
    /\ UNCHANGED retries

\* The write-ahead row, and the row of a store that failed, is no pending
\* deletion any more; the insert may have had its effect.
StoreFails ==
    /\ Event
    /\ \E d \in Digests :
          /\ SetStatus(d, "uncertain")
          /\ \/ point' = [point EXCEPT ![d] = "own"]
             \/ point[d] # "own" /\ point' = [point EXCEPT ![d] = "none"]
          /\ Moves(d)
    /\ UNCHANGED retries

Removable(d) == status[d] \in {"active", "delete_pending"}

Removed ==
    /\ Event
    /\ \E d \in Digests :
          /\ Removable(d) /\ point[d] # "other"
          /\ SetStatus(d, "removed")
          /\ point' = [point EXCEPT ![d] = "none"]
    /\ UNCHANGED <<retries, run>>

\* The delete raised, with or without effect: the intent stays.
RemoveFails ==
    /\ Event
    /\ \E d \in Digests :
          /\ Removable(d)
          /\ SetStatus(d, "delete_pending")
          /\ \/ point' = point
             \/ point[d] # "other" /\ point' = [point EXCEPT ![d] = "none"]
    /\ UNCHANGED <<retries, run>>

(* The rest of the world. *)

\* Another client of the collection takes a vacant id.
Occupy ==
    /\ Event
    /\ \E d \in Digests : /\ point[d] = "none"
                          /\ point' = [point EXCEPT ![d] = "other"]
    /\ UNCHANGED <<records, retries, run>>

Crash ==
    /\ Event
    /\ run' = [r \in Runners |-> Resting]
    /\ UNCHANGED <<records, point, retries>>

Pass(r) ==
    \/ Skip(r) \/ Attempt(r) \/ BudgetSpent(r)
    \/ FindNotOurs(r) \/ DeleteVerified(r) \/ RpcRaises(r)
    \/ Settle(r) \/ ClearRetry(r) \/ Note(r) \/ Requeue(r) \/ Finish(r)

Mutation == Stored \/ StoreFails \/ Removed \/ RemoveFails

Next ==
    \/ \E r \in Runners : Begin(r) \/ Pass(r)
    \/ \E d \in Digests : DelayPasses(d)
    \/ Mutation
    \/ Occupy
    \/ Crash

Spec == Init /\ [][Next]_vars

\* Sessions begin again and again with a verified contract, a pass that has
\* begun goes on, and time passes. No operator need ever call.
FairSpec ==
    /\ Spec
    /\ \A r \in Starters : WF_vars(Begin(r))
    /\ \A r \in Runners : WF_vars(Pass(r))
    /\ \A d \in Digests : WF_vars(DelayPasses(d))

-----------------------------------------------------------------------------
Exhausted == {d \in Digests : status[d] = "delete_pending"
                              /\ attempts[d] = MaxAttempts}

\* Types: attempts stay within the cap; and every step of a pass has a row of
\* the ledger in hand, whatever was settled, stored or removed meanwhile.
TypeOK ==
    /\ status \in [Digests -> Statuses]
    /\ pending \in Seq(Digests)
    /\ \A d \in Digests : status[d] = "delete_pending"
                          <=> \E i \in DOMAIN pending : pending[i] = d
    /\ \A i, j \in DOMAIN pending : pending[i] = pending[j] => i = j
    /\ point \in [Digests -> {"own", "none", "other"}]
    /\ attempts \in [Digests -> 0..MaxAttempts]
    /\ waiting \subseteq Digests
    /\ run \in [Runners -> [pc : {"idle", "next", "read", "removed", "conflict",
                                  "clear", "note", "requeue"},
                            todo : Seq(Digests), digest : Digests \cup {Nobody},
                            begun : BOOLEAN, moved : SUBSET Digests]]
    /\ \A r \in Runners :
          run[r].pc \notin {"idle", "next"} => run[r].digest \in Digests
    /\ events \in 0..MaxEvents

\* A pending deletion is settled or given up in the end (README: "authenticated
\* `delete_pending` reconciles on reconnect"), unless rows given up for good
\* fill the window of the query.
Served ==
    \A d \in Digests :
       status[d] = "delete_pending" ~>
          \/ status[d] # "delete_pending"
          \/ d \in Exhausted
          \/ Cardinality(Exhausted) >= Limit
=============================================================================
