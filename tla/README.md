# Verification of the HyperspaceDB memory provider

TLA+ models of `src/`, the Hermes memory provider for HyperspaceDB, the TLC
runs that check them and the TLAPS proofs about them. `PROJECT.json` maps every
definition to the lines it models.

## 1. The system

The provider mirrors an agent's memory into a remote vector collection. A local
SQLite *ledger* records what was stored where and what is under way; a point of
the collection carries an HMAC signature that says whose it is.

| Part | State | Operations | Runs on |
|---|---|---|---|
| Mutations (`_provider.py` 888-1293, `_mutations.py`) | ledger rows, points | add, remove, replace, `hyperspace_store`, batch | write worker; callers of tools |
| Reconciliation (`_provider.py` 1177-1247, 1469-1501) | ledger rows, retry table, receipts | delete pass, insert pass | `initialize`'s caller, an operator's tool call |
| Ledger (`_ledger.py`) | `records`, `meta`, `mutation_failures`, `reconciliation_retries`, `operator_receipts` | one transaction each under an RLock | every thread |
| Write queue (`_provider.py` 1295-1366, 1998-2027) | bounded queue, `_stop_event`, `_shutdown` | `on_memory_write`, worker loop, `flush_writes`, `shutdown` | host, worker |
| Client pool (`_provider.py` 453-567, `_rpc.py`) | `_client`, `_client_inflight`, `_retired_clients` | `_call`: acquire, RPC with deadline, drop on error, release | every thread |
| Collection contract (`_provider.py` 604-711, `_lifecycle.py`) | `_collection_contract_verified` | `initialize`, re-check before use | caller, worker |
| Session switch (713-731) | ledger handle, scope, capabilities | `on_session_switch` | host |
| Capability handles (`_capabilities.py`) | handle table with expiry | mint, resolve, clear | callers |
| Event observer (1383-1452) | buffer, seen set, own client | start, stop, ingest | its own thread |
| Retrieval (`_retrieval.py`), prefetch | none | search, ledger fallback, trust filter | callers |
| Graph, hierarchy, geometry, admin tools | none | one RPC each, reshaped | callers |
| Config, content scan, errors, helpers | none | pure functions | all |

How they interact: the host puts mirrored writes on the queue; the worker takes
one at a time and runs its mutation; a mutation alternates backend RPCs (each
through the pool) with ledger transactions. Tool calls and `initialize` run the
same mutation code, or a reconciliation pass, on *their own* thread, with no
lock shared with the worker. `shutdown` flushes, joins and closes what the
worker uses; the last release in the pool may close the ledger.

Hard behaviours: interleavings of worker and callers on one ledger and one
collection; RPCs that fail, whose reply is lost, or that take effect after the
client stopped waiting; a crash between two steps of a mutation (ledger and
collection survive); snapshots read before RPCs and used after them; the queue
at its limit; an exception in an exception handler; resources closed while in
use; a session switched under running tools and writes; flags and cached answers
read without a lock. `PROJECT.json` lists each at its line ("hazards"), with the property that
would notice it or the reason none does yet.

What makes each part correct:

- *Mutations*: an id never stands for two memories; nothing stored gets out of
  the ledger's reach; "active" memories are stored; "removed" ones are gone;
  nothing is deleted without a durable, still valid intent; nobody else's point
  is touched; every operation ends.
- *Queue*: order is kept, every offered write is accounted for, `flush_writes`
  tells the truth, accepted writes are served.
- *Pool*: no call on a closed client, no leak, no double close.
- *Passes*: a pending deletion is attempted until it is settled or given up.
- *Sessions*: a write belongs to the session it was made in; a handle never
  resolves in a later session than its own.
- *Contract*: a collection that was never seen to match is never trusted, and a
  session recovers once the backend does.
- *Observer*: no client of its two threads is forgotten unclosed, and it ends.

## 2. Modules

| Module | Contents |
|---|---|
| `Mutations` | Mutation paths and passes, one action per RPC or ledger transaction |
| `MutationsProps` | Type invariant and properties of `Mutations` |
| `MCMutations` | Instances: who may do what, collections found at start, needles |
| `MutationsProof` | `TypeCorrect` and id allocation, for any number of threads |
| `SerialProof` | What holds for one executor, and that the mutation paths implement `MemoryStore` |
| `MemoryStore` | Abstract specification: a write-ahead store of claims and points; `MemoryStoreProof` |
| `ClientPool` | Client pool, with its properties; `MCClientPool`, `ClientPoolProof` |
| `WriteQueue` | Queue, worker, shutdown and sessions, composed with `ClientPool` (`Pool == INSTANCE ClientPool`); `MCWriteQueue`, `WriteQueueProof` |
| `DeleteReconcile` | LIMIT window, retry table and time budget of the delete passes; `MCDeleteReconcile`, `DeleteReconcileProof` |
| `CapabilityStore` | Handles, their expiry and eviction, and the session switch; `MCCapabilityStore`, `CapabilityProof` |
| `EventObserver` | The observer's thread and who starts and stops it |
| `CollectionContract` | Health and contract, extends `EventObserver`; `MCCollectionContract`, `CollectionContractProof` |

### Mutations

State: `row` is the table `records` (digest to status and external id),
`counter` the meta row `next_external_id`, `point` the collection, `inflight`
the writes the server may still apply, `th[t]` thread *t*'s place in the code
and its local variables. `ops` and `faults` only count towards the bounds
`MaxOps` and `MaxFaults`; `MaxId` bounds the points.

A memory is its *digest* (content, target, source and scope together, as in
`logical_digest`); an `old_text` is the set of digests whose content holds it.
A point slot holds nothing, a point `Own(d)` signed for *d*, an unsigned point
`Legacy(d)` of the built-in memory with *d*'s content, a point `Alien(d)` with
that content that another profile or a forgotten key has signed, or a `Foreign`
one. The search for a memory the ledger does not know goes by content alone, so
`SearchResults` may return any of them but the last, and `Adopt` records what it
returned as active; only `_delete_verified` and `_allocate_id` look at the
signature (`Deletable`, `Reusable`).

| Code | Actions |
|---|---|
| `_resolve_old`, `_resolve_legacy_remote` | `ResolveOld` (in `BeginRemove`, `BeginReplace`), `SearchLegacy`, `Adopt` |
| `_allocate_id` | `LookUp`, `ReadKnown`, `NextExternalId`, `ProbeVacant`, `ProbeOccupied` |
| `_store_content_sync` | `WriteAhead`, `InsertApplied`/`InsertDelayed`, `VerifyReadback`, `Commit`, `MarkRetry` |
| `_delete_verified` | `ReadOld`, `DeleteApplied`/`DeleteRefused`/`DeleteDelayed`, `ReadBack` |
| status writes of `_apply_memory_event` | `MarkOld`, `Reinstate`, `RetireOld`, `MarkDone`, `DeleteFailed` |
| both passes | `BeginReconcile` (query), `ListRetries` (second query of the insert pass), `NextPending`, `SkipPending`, `ReadPending`, `CheckInsert`, `MarkChecked` |
| any failing RPC (`_call`, `_classify_exception`) | `RpcError`, which goes where the code's handlers go (`OnError`) |
| outside | `Land` (late write), `Crash`, `ForeignWrite` |

A UNIQUE violation is a `sqlite3.IntegrityError`, no `ProviderError`: no handler
of a store or a replace runs, so `WriteAhead`, `Commit` and `Adopt` then simply
end the operation.

### MemoryStore

What the mutation paths promise of one memory, without ids, RPCs and threads:
`claim` is what the ledger says, `present` whether the point named by the claim
is there. A point appears only while it is claimed that it may be stored
(`Intend`, `Write`), goes only while it is claimed to be deleted (`Doom`,
`Erase`), and is called stored or gone only when it was seen to be (`Confirm`,
`ConfirmGone`). `MutationsProps` defines the mapping (`ClaimOf`, `IsStored`) and
`ImplementsStore == Memory!Spec`. The one departure the code makes, a replace
that calls the old memory active without looking, is a step of its own
(`Reclaim`), allowed only where replaces run.

### ClientPool

One action per section under `_client_lock`, plus the fingerprint computed
before the lock is taken. Clients are never reused objects, so the set
`Clients` bounds how often one is built.

### WriteQueue

`fate[e]` follows the *e*-th offered write: queued, taken, applied, recorded in
`mutation_failures`, counted in `_failed_writes`, or raised to the host. What a
mutation does is abstracted to any number of calls through the pool, then a last
ledger transaction or a failure. What the code reads and then acts on is two
steps: `_shutdown` and the put (`Offer`, `Put`); `queue.Empty` and the look at
`_stop_event` (`GetTimesOut`, then `Exit` or `GetAgain`); the handler's check of
the ledger and its use; shutdown's flag, its look at the worker and its sentinel
(`ShutdownStops`, `ShutdownFindsWorker`, `ShutdownPutsSentinel`). `unseen` holds
the writes put since the worker's last get timed out.

The host may leave a session, by `on_session_switch` (`SwitchScope`,
`SwitchClosesLedger`, `SwitchOpensLedger`) or by another `initialize`
(`InitializeScope`, `InitializeLedger`, `InitializeWorker`, which starts a worker
if none is alive), with the worker anywhere. `origin[e]` is the session a write
was made in, `into[e]` the one it was written down in, or `Torn` when scopes or
ledgers of two sessions met in it: a queued event carries no scope, and
`_apply_memory_event` reads `_profile_scope` and `_ledger` again and again
(`UsesScope`, `UsesLedger`), whichever are in force; `under` gathers the sessions
they belonged to. `hasty` holds the sessions the host left with writes unfinished.

### CapabilityStore

An entry is a handle with the point, scope and session it was issued for and the
time it expires; `minted` remembers all that were issued. A tool call reads the
scope (`BeginMint`, `BeginResolve`), the session id (`ReadSession`) and the clock
(`ReadClock`) and only then takes the store's lock, for all of `mint`
(`MintKnown`, `MintNew`) or all of `resolve_many` (`ResolveAll`,
`ResolveForbidden`). The tools that take handles hold `_handle_op_lock` from
`BeginResolve` to `Return`; those that only mint do not.
`on_session_switch` changes the id, the scope and the store in three steps
(`SwitchSession`, `SwitchScope`, `Clear`); a later `initialize` changes the id and
the scope (`InitializeScope`) and clears nothing.

### EventObserver and CollectionContract

`EventObserver` has one action per statement of `_event_observer_loop` and
`_stop_event_observer` that reads or writes `_event_client`, which the two share
without a lock. `CollectionContract` adds the host's `initialize` (probe, verify,
mark; then, if verified, the reconcile passes with RPCs that may fail, and only
after them the start of the observer, `HostObserve`, which does not look at the
verification again), tools that verify on demand (`ToolRequire`, `ToolVerify`) or
probe (`ToolAskHealth`, `ToolProbed`), the worker's `_mark_error` of a write the
provider refuses (`RefuseWrite`), and a `backend` that changes. `saw[t]` is the
answer in a thread's hands, which may be stale when it is used.

### DeleteReconcile

`pending` is the result of the query without its LIMIT: the `delete_pending`
rows in order of `updated_at`, so `SetStatus` moves a row to its end.
`attempts[d]` is 0 when the retry table has no row for *d*, `waiting` holds the
rows whose back-off is not over. A pass (`Begin` to `Finish`) works through the
window it read when it began, `Limit` rows for `initialize` and what an operator
`Asked` for otherwise; `moved` are the rows that a store gave another id
since, for which the pass still asks at the old one. What `Mutations` checks
step by step is one step here (`DeleteVerified`, `RpcRaises`, `Stored`,
`StoreFails`, `Removed`, `RemoveFails`), and what `Mutations` leaves open in
`SkipPending` is decided here (`Due`, `Window`, `BudgetSpent`). A pass that does
not find the contract verified changes nothing and is not a step.

`Mut...` operators in these modules are plausible slips; each is put in place of
the operator after it to see that the property named in `PROJECT.json` fails.

## 3. Runs

| Run | Instance | Shows |
|---|---|---|
| `MutationsSerial` | one executor of everything, 2 digests, 5 ids, 5 operations, 3 faults, crashes, foreign writes | `NoOrphan`, `RemovedIsGone`, `IntentInvariant`, `PlaceInvariant`, `DeleteHasIntent`, `ImplementsStore` |
| `MutationsLate` | one executor without replace, 2 legacy points of one content, an alien and a foreign one, late inserts, crashes, 4 operations, 2 faults | `ActiveIsStored`, `IntentInvariant`, `DeleteHasIntent`, `ForeignUntouched`, `Terminates` |
| `MutationsConcurrent` | worker and caller, a foreign point, late inserts and deletes, crashes, 3 operations, 1 fault | `TypeOK`, `IdsNotShared`, `IdsInvariant`, `WriteAheadAccepted`, `ForeignUntouched`, `Terminates` |
| `ClientPool` | 2 threads, 3 clients, 2 fingerprints | `TypeOK`, `NeverClosedInUse`, `ClosedExactlyOnce`, `PoolInvariant`, `RetiredGetClosed` |
| `WriteQueue` | worker and another caller, 1 client, 3 writes, queue of 2, 2 sessions | `TypeOK`, `FlushMeansDone`, `Ordered`, `Accounted`, `InItsSession`, `Drains` |
| `DeleteReconcile` | `initialize` and one operator, 2 digests, windows of 2 and of 1, 2 attempts, 3 mutations, crashes or foreign points | `TypeOK`, `Served` |
| `Capabilities` | 2 threads, 2 points of one collection, room for 2 handles, 3 handles issued, 2 sessions, time to live and clock up to 2 | `CapTypeOK`, `OneHandle`, `Bounded`, `OldHandlesDie`, `KeptForCause` |
| `CollectionContract` | the host, a tool, the observer with 2 clients, 2 changes of the backend or refused writes | `TypeOK`, `NeverUnproved`, `NoStreamLeaks`, `Recovers`, `ObserverEnds` |

Why these bounds are enough: two digests make a clash of two memories possible,
and five operations are add, remove, add again, replace and a pass over the
result. Two or three faults are a lost reply, a crash and a failed retry; with two
threads it is one, a write that lands late or a crash; `IdsCorrect` and
`ForeignSafe` are about any number. With
at most two digests in play, five to eight ids let every store be probed past an
occupied id (`Probes` and `VerifyAttempts` are 2 and `Stride` is 1 so that both
ends of each loop occur; the code has 64, 3 and 16). A run that exhausts the ids
stops that store in its tracks, which is why deadlock is not checked there; an
idle, exhausted system really stops too. The queue holds fewer writes than are
offered. In `DeleteReconcile` two attempts tell a first failure from the last,
and three events let a row be pending, stored again and pending once more while
a pass is under way; `initialize`'s window holds all rows, so `Served` there says
that each deletion is served, while the operator's window of one row leaves some
out. (With a window of one row for `initialize` too, `Served` fails without its
last line: the starvation named below.) In `Capabilities` the third handle needs an eviction among
entries of different age, and every handle can expire; more sessions or threads
are covered by the proofs. In `CollectionContract` two changes let the backend
fail and come back, or come to match after a stale answer; two clients let the
observer reconnect once while it is being stopped. `ClientPool` checks deadlock: a thread can always begin a call.

Assumptions of the runs, all named in the configurations:

- `MutationsSerial` and `MutationsLate` let one operation run at a time: what the
  README calls the ordered pipeline. The runs below show what happens without.
- `ActiveIsStored` is checked without replace, `NoOrphan` without late inserts
  and `ForeignUntouched` without other clients writing meanwhile: each is false
  otherwise. The first is a finding; the others are limits of a backend that has
  no conditional insert (a late insert after the ledger moved the memory to
  another id leaves a second, unnamed copy).
- `Overlap = FALSE`: the host does not call `shutdown` while it is inside
  `on_memory_write`; with `TRUE`, `Accounted` fails (a write queued after the
  worker has gone).
- `Terminates` is checked for two threads in a collection with nothing to adopt,
  and with legacy points to adopt for one: no step of an adoption is another's.
- `ImplementsStore` is checked for one executor, from an empty collection and
  without late writes: a late insert makes a point appear under no claim.
- `InItsSession` is about sessions the host left with `flush_writes` answering
  True (what `hasty` does not hold). A host that switches without it may find a
  write under the next session's scope, or half under each.
- The host neither leaves a session nor shuts down inside `on_memory_write`, and
  does not return to an earlier session id.
- `NoStreamLeaks` and `ObserverEnds` need that no session begins after `shutdown`.

Fairness. `Mutations`: a thread under way takes its next step (`WF` on `Step`);
nothing in the code waits for another thread inside a mutation, and every RPC
returns within its deadline. `ClientPool`: the same for calls
(`_install_deadlines`). `WriteQueue`: the worker's thread and its calls go on,
and a mutation, which makes finitely many calls, ends or fails (`SF` on
`Apply \/ ApplyFails`: it is possible only between calls). Nothing is assumed of
the host, of shutdown or of the other callers' wish to call. `DeleteReconcile`:
sessions begin again and again (what "on reconnect" presupposes), a pass under
way goes on, and back-offs end; no operator need ever call. `CollectionContract`:
the host initializes again and again until it shuts down (the README's recovery
without a restart is about the next `initialize`), its steps and the tools'
verification go on because every RPC has a deadline, and the observer's thread is
scheduled. The stream ends too, with an event, an error or its deadline:
`_DeadlineStubProxy` (`_rpc.py` 69) gives every call of a stub one, the stream's
included (`shutdown` itself waits one second only).

### Disagreements found

| Run | What happens |
|---|---|
| `MutationsStaleDelete` | The worker removes a memory, its delete fails, the row is `delete_pending`. A pass on the caller's thread takes its snapshot. The worker stores the memory again: active, verified. The pass deletes the point and sets the row to `removed`, one step after the other. |
| `MutationsReinstate` | A remove deletes the point but the reply is lost. A replace resolves the same `delete_pending` row, fails to store the new memory, and sets the old one to active: recall serves a memory the collection does not hold. |
| `MutationsLegacyClash` | A legacy point at id *n* is adopted and removed. The counter reaches *n*, the probe finds it vacant, and the ledger refuses the row: a store by the worker is then recorded as `BACKEND_UNAVAILABLE` (the default of `_classify_exception`), and out of `_tool_store` the `IntegrityError` escapes. |
| `QueueLedgerClosed` | `shutdown` raises its flag while the worker is in an RPC: the release of that RPC closes the ledger, the mutation's status write fails, and the failure handler can only count it. |

Four more facts of the code that the passing properties exclude by name:

- A mutation fails, recording the failure raises too (a locked database), and
  the worker's thread ends, while `on_memory_write` keeps accepting until the
  next `initialize`: the exception of `Drains` and the "lost" of `Accounted`. The
  comment at `_provider.py` 669-674 calls such a state out.
- A write is put after the worker's get has timed out and before the worker looks
  at `_stop_event`. If `flush_writes` then gives up and `shutdown` raises the flag
  before the worker looks, it leaves in good order with the write in the queue:
  the `unseen` of `Accounted` and of `Drains`.
- A deletion that used up its attempts is read and skipped by every pass; with
  a window full of such rows (16 by default, and nothing ever takes them out) no
  later deletion is attempted: the last line of `Served`.
- A pass, a tool or a call after `shutdown` may build a client that nobody closes
  (`ClosedExactlyOnce` counts the current client as in use).

## 4. Proofs

All for every value of the constants; assumptions are `ConstantsAssumption`,
`PoolAssumption`, `QueueAssumption`, `ReconcileAssumption`,
`CapabilityAssumption`, `ObserverAssumption` and `ContractAssumption` (finitely
many threads, non-empty sets, typed bounds). What a theorem needs beyond these
is an `ASSUME` of its own and is named below.

- `TypeCorrect`: `Spec => []TypeOK`. The inductive invariant is `TypeOK` itself,
  strengthened by `ThreadOK`: which local variables are set at which step. One
  lemma per group of actions.
- `IdsCorrect`: from a collection without built-in memories to adopt
  (`FreshCollection`), `IdsInvariant` holds. `IdsNotShared` alone is not
  inductive: an id just handed out might be in a late write's hands. The
  invariant adds that every pairing of a memory with an id that anyone still
  holds (`Claimed`: rows, signed points, writes in flight, threads' variables,
  snapshots) is below the counter, and that an id being probed is nobody's yet
  and one thread's alone. The proof first shows that every step but two only
  *copies* pairings (`CopyingStep`); the two are `NextExternalId`, which opens a
  fresh id, and `ProbeVacant`, which turns a probed id into a pairing.
  `IdsKeptApart` and `StoresAccepted` follow. `MutationsLegacyClash` shows that
  `FreshCollection` is needed.
- `ForeignSafe`: if no other client writes meanwhile, `ForeignUntouched` holds,
  for points that a search by content has adopted as well. What is about to be
  inserted or deleted, by a thread or by a write still in flight, is never a
  point of somebody else (`WritesNotForeign`, inductive given `TypeOK`;
  `IdsInvariant` is not needed): an insert was probed for (`Vacant`, `Reusable`),
  a delete was read for (`Deletable`), and nobody else's point appears meanwhile.
- `IntentCorrect`: with `OneExecutor`, nothing signed at the start and no delete
  that lands late, `IntentInvariant` holds. It says of each step what the code
  took for granted when it went on: the operation is one this thread runs and
  its step is on that operation's path; the row an old record was read from, and
  the rows a pass has still to visit, are as they were read (`OldInForce`,
  `TodoInForce`); what an RPC has just shown is still so (`StillSeen`): a probed id
  is below the counter and no late write's, the id in hand holds no other memory,
  a verified point is there. The last parts are about what is out of the
  executor's hands: a late insert can only hit the id it was meant for
  (`ClearFor`), and no signed point is at or above the counter. Without them a
  late insert could replace the point a later step relies on. `ActiveStored` (no
  replace either, see `MutationsReinstate`) and `DeletesIntended` follow, the
  latter action by action (`LeavesByIntent`). `MutationsStaleDelete` shows that
  one executor is needed.
- `PlaceCorrect`: with one executor, `FreshCollection` and nothing landing late,
  `PlaceInvariant` holds. `NoOrphan` is not inductive: the write-ahead row must
  have moved to the new id before the insert, and a new id is taken only when no
  point of that memory is left (`Placed`), which rests on `IdsInvariant` and
  `IntentInvariant`. `NothingOrphaned` and `RemovedAreGone` follow.
- `StoreImplemented`: under the same hypotheses `Spec => ImplementsStore`. Each
  action is shown to be a step of `MemoryStore` or a stutter; most are silent
  (`SilentStep`), the rest are grouped by what they do to a row's claim or to the
  point it names. `StoreKeepsItsWord` proves the promises of the abstract store
  (what is said to be gone is absent, and what is said to be stored is present
  unless claims are made unseen), and `PromisesKept` draws them through the
  refinement.
- `PoolTypesCorrect`, `PoolCorrect`: `TypeOK /\ PoolInvariant` is inductive. The count of calls is
  the cardinality of the threads that hold the client, so the last release is
  really the last; a client is closed exactly when it is neither current nor
  used, and set aside exactly when not current but used.
  `PoolNeverClosesInUse` and `PoolClosesOnce` follow.
- `FlushTellsTheTruth`, `WritesInOrder`, `WritesInTheirSession`: three
  invariants, each inductive given the one before. `QueueOK`: the count of
  unfinished writes is the length of the queue, plus one while the worker is
  busy. `OrderOK`: the queue ascends, "queued" means in it, "taken" in the worker's
  hands, and everything after the write being offered is new. `SessionOK`: a
  session left without haste has only writes that are over, and no write of the
  session in force exists while its scope or ledger is being changed. The steps
  are first sorted (`StepCases`) into those that touch the queue and those
  elsewhere, so the client pool is never unfolded.
- `WritesAccountedFor`: with `~Overlap` (no write is offered while `shutdown`
  runs; TLC finds `Accounted` violated otherwise), `ShutdownOK` is inductive: the
  sentinel stands last in the queue, because nothing is put once shutdown has
  begun, and a worker that leaves saw the queue empty, so what it leaves behind
  was put after that (`unseen`), whatever the order of its two looks and of
  `shutdown`'s three steps.
- `QueueTypesCorrect`, `PoolSafeUnderQueue`: the worker, the host's switches and
  shutdown change the pool's variables only through the pool's own steps
  (`PoolSteps`), so `PoolUnderQueue` carries the pool's inductive invariant over
  without proving it again. `TypeOK` adds that the worker calls only while it applies an
  event.
- `ReconcileTypesCorrect`: `TypeOK` of `DeleteReconcile` is more than types: a
  pass that is not between two rows has a row of the ledger in hand, no row has
  more attempts than the cap, and a row is in the query's result when it is
  pending and not otherwise, while several passes take rows out and put them back
  at its end. `ListOK` carries the last, with `WithoutLists` and `YoungestLists`
  for the two operators on the list; `PassOK` the first. `Without` cuts by index:
  `SelectSeq` is recursive, and what it does is out of the prover's reach.
- `CapTypesCorrect`, `CapOneHandle`, `CapBounded`, `CapOldHandlesDie`,
  `CapKeptForCause`: one inductive invariant, `StoreOK` about the entries and
  `CallOK` about the locals of each call. `OldHandlesDie` needs that a handle was
  issued once only and that the session a call resolves under was read after the
  call began; `OneHandle` that what a mint purges and what it looks for are judged
  by the same clock, however old.
- `ContractNeverUnproved`: whatever says "match" (a flag, an answer in
  someone's hands, a running observer) was told so by the backend once.
  `ObserverLeaksNothing`: the loop knows of no client when it builds one, and once
  the flag is up it builds no other between the stop's test and its assignment.

Model-checked only: liveness (`Terminates`, `RetiredGetClosed`, `Drains`,
`Served`, `Recovers`, `ObserverEnds`), which needs fairness and `ENABLED` and is
beyond the prover. Every safety property of a passing run is proved, where it
has hypotheses under those named above. What the hypotheses exclude is excluded
by the runs too: `NoOrphan`, `RemovedIsGone`, `DeleteHasIntent` and the refinement are
neither checked nor proved for two executors (the code takes no lock per memory,
and `MutationsStaleDelete` shows what follows) nor with a delete that lands late,
against which fresh ids guard *other* memories only (`IdsKeptApart`).

## 5. Not modelled

`PROJECT.json` gives the reason for each component. In short:

- two processes on one ledger file; schema migrations and snapshots; a refused
  upsert that leaves a transaction open (one connection, one process here);
- operator tokens and receipts: two calls with one token run two passes, which
  are two runners of `DeleteReconcile`, and only the answers differ;
- `_ingest_event` and the event tool: a filter into a bounded buffer under one
  lock. The buffer survives a session switch, and an event may be delivered twice
  once 4096 were seen; no document promises otherwise;
- what search ranks and prefetch shows, the graph, hierarchy, geometry and admin
  tools: functions of one RPC's answer, numeric or by wording, with no state;
- parsing, formatting, content scanning, the form of arguments.

## 6. What could follow

1. The part of `PlaceInvariant` that survives inserts landing late: what can still
   be said of a memory removed after its insert had timed out.
2. `DeleteReconcile`'s window as a function of the ledger of `Mutations`, instead of
   the two views of one pass.
3. Two processes on one ledger file: `next_external_id` and the receipts under
   SQLite's locks.
4. `Retrieval`: the merge of search results and ledger rows against a reference
   definition.
