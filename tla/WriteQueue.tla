----------------------------- MODULE WriteQueue -----------------------------
(***************************************************************************)
(* The ordered write queue: on_memory_write on the host's thread, the      *)
(* write worker, flush_writes and shutdown, together with the client pool  *)
(* whose last release may close the ledger, and the host's on_session_-    *)
(* switch and later initialize, which put a new ledger and a new profile   *)
(* scope under a worker that may be busy.                                  *)
(*                                                                         *)
(* Abstracted: what a mutation does (module Mutations) is any number of    *)
(* calls through the pool followed by a last ledger transaction, or a      *)
(* failure.  Waiting times (flush, join) are choices.                      *)
(***************************************************************************)
EXTENDS Integers, Sequences, FiniteSets

CONSTANTS
    Threads, Clients, NoClient, Fingerprints,   \* of the client pool
    Worker,        \* the write worker, one of Threads
    MaxEvents,     \* bound on writes offered by the host
    QueueSize,     \* maxsize of _write_queue
    Overlap,       \* may the host call shutdown while a write is offered?
    LedgerFaults,  \* may a ledger write raise (locked or full disk)?
    MaxSessions    \* bound on sessions begun

VARIABLES
    fingerprint, current, currentFp, built, inflight, retired, closes, call,
    using, fp, phase, ledger                    \* of the client pool

poolVars == <<fingerprint, current, currentFp, built, inflight, retired,
              closes, call, using, fp, phase, ledger>>

Pool == INSTANCE ClientPool

ASSUME QueueAssumption ==
    /\ IsFiniteSet(Threads) /\ NoClient \notin Clients /\ Fingerprints # {}
    /\ Worker \in Threads
    /\ MaxEvents \in Nat
    /\ QueueSize \in Nat \ {0}
    /\ Overlap \in BOOLEAN /\ LedgerFaults \in BOOLEAN
    /\ MaxSessions \in Nat \ {0}

VARIABLES
    queue,        \* _write_queue: events, and the Sentinel
    unfinished,   \* its unfinished_tasks
    fate,         \* what became of each event
    offering,     \* the event on_memory_write is about to put, or NoEvent
    wpc,          \* step of the worker
    event,        \* the event in the worker's hands, or NoEvent
    under,        \* sessions whose scope or ledger its mutation has used so far
    unseen,       \* events put since the worker's get last timed out
    stop,         \* _stop_event
    spc,          \* step of shutdown
    session,      \* the session whose id and profile scope are in force
    hpc,          \* step of the host's switch or initialize
    origin,       \* the session each event was offered in
    into,         \* the session it was written down in
    hasty         \* sessions the host left with writes unfinished

queueVars == <<queue, unfinished, fate, offering, wpc, event, under, unseen,
               stop, spc, session, hpc, origin, into, hasty>>
workerVars == <<wpc, event, under, unseen>>
sessionVars == <<session, hpc, origin, into, hasty>>
vars == <<poolVars, queueVars>>

Events == 1..MaxEvents
NoEvent == 0
Sentinel == 0          \* None in the queue

Sessions == 1..MaxSessions
NoSession == 0
Torn == MaxSessions + 1    \* one session's scope in another's ledger

\* "recorded": in mutation_failures; "counted": in _failed_writes only;
\* "raised": the host was told.  "lost": gone with the worker's thread.
Handled == {"applied", "recorded", "counted", "raised"}
Fates == {"new", "offered", "queued", "taken", "lost"} \cup Handled

WorkerAlive == wpc \notin {"exited", "died"}
\* on_session_switch closes the ledger before it has another one to use.
LedgerUsable == ledger = "open" /\ hpc # "closed"

\* The scope in force is the session's; the ledger changes after it.
LedgerSession == IF hpc \in {"switched", "initializing"} THEN session - 1 ELSE session

\* Where a write goes that used the scopes and ledgers of the sessions in S.
PlaceOf(S) == IF \E s \in Sessions : S = {s} THEN CHOOSE s \in S : TRUE ELSE Torn
Place == PlaceOf({session, LedgerSession})

Busy == wpc \in {"apply", "handler", "recording"}

-----------------------------------------------------------------------------
(* Plausible slips, put in place of the operator that follows. *)
MutNewest(q) == q[Len(q)]
Oldest(q) == Head(q)
MutUnbounded == TRUE
HasRoom == Len(queue) < QueueSize
MutCountedAtTake == TRUE
DoneWhenTaken == FALSE
MutDropsWhenFull(e) == fate' = [fate EXCEPT ![e] = "queued"]
\* The queue is full: the failure goes to the ledger, or to a counter.
RefuseFull(e) ==
    fate' = [fate EXCEPT ![e] = IF ledger = "open" THEN "recorded" ELSE "counted"]
MutExitAtOnce == wpc \in {"wait", "empty"} /\ stop
MayExit == wpc = "empty" /\ stop

-----------------------------------------------------------------------------
Init ==
    /\ Pool!Init
    /\ queue = <<>>
    /\ unfinished = 0
    /\ fate = [e \in Events |-> "new"]
    /\ offering = NoEvent
    /\ wpc = "wait"
    /\ event = NoEvent
    /\ under = {} /\ unseen = {}
    /\ stop = FALSE
    /\ spc = "up"
    /\ session = 1
    /\ hpc = "free"
    /\ origin = [e \in Events |-> NoSession]
    /\ into = [e \in Events |-> NoSession]
    /\ hasty = {}

(* on_memory_write: the shutdown check, then put_nowait. *)

Offer ==
    /\ offering = NoEvent
    /\ hpc = "free"
    /\ \E e \in Events :
          /\ fate[e] = "new"
          /\ \A f \in Events : f < e => fate[f] # "new"
          /\ IF phase = "up"
               THEN fate' = [fate EXCEPT ![e] = "offered"] /\ offering' = e
               ELSE fate' = [fate EXCEPT ![e] = "counted"] /\ offering' = NoEvent
          /\ origin' = [origin EXCEPT ![e] = session]
    /\ UNCHANGED <<poolVars, queue, unfinished, workerVars, stop, spc, session,
                   hpc, into, hasty>>

Put ==
    /\ offering # NoEvent
    /\ HasRoom
    /\ queue' = Append(queue, offering)
    /\ unfinished' = unfinished + 1
    /\ fate' = [fate EXCEPT ![offering] = "queued"]
    /\ unseen' = IF wpc = "empty" THEN unseen \cup {offering} ELSE unseen
    /\ offering' = NoEvent
    /\ UNCHANGED <<poolVars, wpc, event, under, stop, spc, sessionVars>>

PutFull ==
    /\ offering # NoEvent
    /\ ~HasRoom
    /\ \/ RefuseFull(offering)
       \/ LedgerFaults /\ fate' = [fate EXCEPT ![offering] = "raised"]
    /\ into' = [into EXCEPT ![offering] =
                  IF fate'[offering] = "recorded" THEN Place ELSE @]
    /\ offering' = NoEvent
    /\ UNCHANGED <<poolVars, queue, unfinished, workerVars, stop, spc, session,
                   hpc, origin, hasty>>

(* _write_worker *)

\* The worker executes its own code only between calls through the pool.
WorkerAt(step) == wpc = step /\ call[Worker] = "idle"

Take ==
    /\ WorkerAt("wait")
    /\ queue # <<>>
    /\ queue' = Tail(queue)
    /\ IF Oldest(queue) = Sentinel
         THEN /\ wpc' = "exited"
              /\ unfinished' = unfinished - 1
              /\ UNCHANGED <<fate, event>>
         ELSE /\ wpc' = "apply"
              /\ event' = Oldest(queue)
              /\ fate' = [fate EXCEPT ![Oldest(queue)] = "taken"]
              /\ unfinished' = IF DoneWhenTaken THEN unfinished - 1 ELSE unfinished
    /\ UNCHANGED <<poolVars, offering, under, unseen, stop, spc, sessionVars>>

\* get raises queue.Empty; only then is _stop_event looked at.
GetTimesOut ==
    /\ WorkerAt("wait")
    /\ queue = <<>>
    /\ wpc' = "empty"
    /\ UNCHANGED <<poolVars, queue, unfinished, fate, offering, event, under, unseen,
                   stop, spc, sessionVars>>

GetAgain ==
    /\ WorkerAt("empty")
    /\ ~stop
    /\ wpc' = "wait"
    /\ unseen' = {}
    /\ UNCHANGED <<poolVars, queue, unfinished, fate, offering, event, under, stop, spc,
                   sessionVars>>

Exit ==
    /\ call[Worker] = "idle"
    /\ MayExit
    /\ wpc' = "exited"
    /\ UNCHANGED <<poolVars, queue, unfinished, fate, offering, event, under, unseen,
                   stop, spc, sessionVars>>

\* task_done in the finally clause, then the next event or the thread's end.
Finish(outcome, place, next) ==
    /\ fate' = [fate EXCEPT ![event] = outcome]
    /\ into' = [into EXCEPT ![event] = place]
    /\ unfinished' = IF DoneWhenTaken THEN unfinished ELSE unfinished - 1
    /\ event' = NoEvent /\ under' = {}
    /\ wpc' = next
    /\ UNCHANGED <<poolVars, queue, offering, unseen, stop, spc, session, hpc, origin,
                   hasty>>

\* _profile_scope and _ledger are read where they are needed, again and again.
Uses(s) ==
    /\ WorkerAt("apply")
    /\ under' = under \cup {s}
    /\ UNCHANGED <<poolVars, queue, unfinished, fate, offering, wpc, event, unseen, stop,
                   spc, sessionVars>>

UsesScope == Uses(session)
UsesLedger == LedgerUsable /\ Uses(LedgerSession)

\* The mutation's last ledger transaction.
Apply ==
    /\ WorkerAt("apply")
    /\ under # {} /\ LedgerUsable
    /\ Finish("applied", PlaceOf(under \cup {LedgerSession}), "wait")

\* Any exception: a ProviderError, or the ledger is gone.
ApplyFails ==
    /\ WorkerAt("apply")
    /\ wpc' = "handler" /\ under' = {}
    /\ UNCHANGED <<poolVars, queue, unfinished, fate, offering, event, unseen, stop, spc,
                   sessionVars>>

\* The handler tests that self._ledger is there, then uses it.
HandlerSeesLedger ==
    /\ WorkerAt("handler")
    /\ ledger = "open"
    /\ wpc' = "recording"
    /\ UNCHANGED <<poolVars, queue, unfinished, fate, offering, event, under, unseen,
                   stop, spc, sessionVars>>

HandlerCounts ==
    /\ WorkerAt("handler")
    /\ ledger # "open"
    /\ Finish("counted", into[event], "wait")

Record ==
    /\ WorkerAt("recording")
    /\ LedgerUsable
    /\ Finish("recorded", Place, "wait")

\* An exception in the handler ends the worker's thread.
RecordRaises ==
    /\ WorkerAt("recording")
    /\ LedgerFaults \/ ~LedgerUsable
    /\ Finish("lost", into[event], "died")

WorkerCalls ==
    /\ wpc = "apply"
    /\ Pool!ReadFingerprint(Worker) \/ Pool!Call(Worker)
    /\ UNCHANGED queueVars

OthersCall ==
    /\ \E t \in Threads \ {Worker} : Pool!ReadFingerprint(t) \/ Pool!Call(t)
    /\ UNCHANGED queueVars

(* on_session_switch, and initialize of a session after the first. *)

\* The host leaves a session when it is not offering a write nor shutting
\* down; nothing makes it flush first.
EnterSession(step) ==
    /\ hpc = "free" /\ offering = NoEvent /\ spc = "up"
    /\ session < MaxSessions
    /\ session' = session + 1
    /\ hasty' = IF unfinished = 0 THEN hasty ELSE hasty \cup {session}
    /\ hpc' = step
    /\ UNCHANGED <<poolVars, queue, unfinished, fate, offering, workerVars, stop,
                   spc, origin, into>>

SwitchScope == EnterSession("switched")
InitializeScope == EnterSession("initializing")

HostGoes(from, to) ==
    /\ hpc = from
    /\ hpc' = to
    /\ UNCHANGED <<poolVars, queue, unfinished, fate, offering, event, under, spc,
                   session, origin, into, hasty>>

SwitchClosesLedger == HostGoes("switched", "closed") /\ UNCHANGED <<wpc, unseen, stop>>
SwitchOpensLedger == HostGoes("closed", "free") /\ UNCHANGED <<wpc, unseen, stop>>

\* The old ledger is dropped without being closed.
InitializeLedger == HostGoes("initializing", "starting") /\ UNCHANGED <<wpc, unseen, stop>>

\* A worker is started if none is alive.
InitializeWorker ==
    /\ HostGoes("starting", "free")
    /\ IF WorkerAlive THEN UNCHANGED <<wpc, unseen, stop>>
                      ELSE wpc' = "wait" /\ unseen' = {} /\ stop' = FALSE

(* shutdown *)

ShutdownBegins ==
    /\ spc = "up"
    /\ Overlap \/ offering = NoEvent
    /\ hpc = "free"
    /\ Pool!ShutdownFlag
    /\ spc' = "flush"
    /\ UNCHANGED <<queue, unfinished, fate, offering, workerVars, stop, sessionVars>>

\* flush_writes returned, drained or timed out: the worker is told to stop, and
\* if it is alive and the queue has room for it, a sentinel is put.
ShutdownStops ==
    /\ spc = "flush"
    /\ stop' = TRUE
    /\ spc' = "stopping"
    /\ UNCHANGED <<poolVars, queue, unfinished, fate, offering, workerVars, sessionVars>>

ShutdownFindsWorker ==
    /\ spc = "stopping"
    /\ spc' = IF WorkerAlive THEN "sentinel" ELSE "join"
    /\ UNCHANGED <<poolVars, queue, unfinished, fate, offering, workerVars, stop,
                   sessionVars>>

ShutdownPutsSentinel ==
    /\ spc = "sentinel"
    /\ IF HasRoom THEN queue' = Append(queue, Sentinel) /\ unfinished' = unfinished + 1
                  ELSE UNCHANGED <<queue, unfinished>>
    /\ spc' = "join"
    /\ UNCHANGED <<poolVars, fate, offering, workerVars, stop, sessionVars>>

ShutdownTimesOut ==
    /\ spc = "join"
    /\ WorkerAlive
    /\ Pool!ShutdownTimesOut
    /\ spc' = "returned"
    /\ UNCHANGED <<queue, unfinished, fate, offering, workerVars, stop, sessionVars>>

ShutdownCloses ==
    /\ spc = "join"
    /\ ~WorkerAlive
    /\ Pool!ShutdownCloses
    /\ spc' = "returned"
    /\ UNCHANGED <<queue, unfinished, fate, offering, workerVars, stop, sessionVars>>

WorkerSteps ==
    \/ Take \/ GetTimesOut \/ GetAgain \/ Exit
    \/ UsesScope \/ UsesLedger \/ Apply \/ ApplyFails
    \/ HandlerSeesLedger \/ HandlerCounts \/ Record \/ RecordRaises

Host == Offer \/ Put \/ PutFull
Shutdown ==
    \/ ShutdownBegins \/ ShutdownStops \/ ShutdownFindsWorker
    \/ ShutdownPutsSentinel \/ ShutdownTimesOut \/ ShutdownCloses

NextSession ==
    \/ SwitchScope \/ SwitchClosesLedger \/ SwitchOpensLedger
    \/ InitializeScope \/ InitializeLedger \/ InitializeWorker

Next == Host \/ NextSession \/ WorkerSteps \/ WorkerCalls \/ OthersCall \/ Shutdown

Spec == Init /\ [][Next]_vars

\* The worker's thread is scheduled, its calls return within their deadlines,
\* and a mutation makes finitely many of them: it ends or fails in the end.
FairSpec ==
    /\ Spec
    /\ WF_vars(Put \/ PutFull)
    /\ WF_vars(Take \/ GetTimesOut)
    /\ WF_vars(GetAgain \/ Exit)
    /\ WF_vars(HandlerSeesLedger \/ HandlerCounts \/ Record \/ RecordRaises)
    /\ WF_vars(WorkerCalls /\ call[Worker] # "idle")
    /\ SF_vars(Apply \/ ApplyFails)

-----------------------------------------------------------------------------
TypeOK ==
    /\ Pool!TypeOK
    /\ queue \in Seq(Events \cup {Sentinel}) /\ Len(queue) <= QueueSize
    /\ unfinished \in Nat
    /\ fate \in [Events -> Fates]
    /\ offering \in Events \cup {NoEvent}
    /\ wpc \in {"wait", "empty", "apply", "handler", "recording", "exited", "died"}
    /\ event \in Events \cup {NoEvent}
    /\ Busy <=> event # NoEvent
    /\ under \subseteq Sessions /\ (under # {} => wpc = "apply")
    /\ unseen \subseteq Events /\ (unseen # {} => wpc \in {"empty", "exited"})
    /\ call[Worker] # "idle" => wpc = "apply"
    /\ stop \in BOOLEAN
    /\ spc \in {"up", "flush", "stopping", "sentinel", "join", "returned"}
    /\ session \in Sessions
    /\ hpc \in {"free", "switched", "closed", "initializing", "starting"}
    /\ origin \in [Events -> Sessions \cup {NoSession}]
    /\ into \in [Events -> Sessions \cup {NoSession, Torn}]
    /\ hasty \subseteq Sessions

\* flush_writes tells the truth: when it answers that nothing is unfinished,
\* no accepted write is still waiting or half applied.
FlushMeansDone ==
    unfinished = 0 => /\ queue = <<>>
                      /\ ~Busy

\* Mirrored writes are applied in the order they were accepted: none is begun
\* before every earlier one is over (README: "Ordered mutation pipeline").
Ordered ==
    \A e, f \in Events :
       e < f /\ fate[f] \in {"taken", "applied"} => fate[e] \notin {"queued", "taken"}

\* When the worker left in good order and shutdown closed everything, each
\* write the host offered was applied, or its failure is on record, counted or
\* told to the host (README, problem 1: "Silent write drops").  Two exceptions:
\* the write whose own failure could not be recorded goes with the worker's
\* thread, and one put after the worker's last get had timed out is left behind
\* if the worker then sleeps through flush_writes and wakes to a raised
\* _stop_event.
Accounted ==
    phase = "closed" /\ wpc = "exited" =>
        \A e \in Events : fate[e] \in Handled \cup {"new", "lost"} \/ e \in unseen

\* A write made in a session that ended with flush_writes answering True is
\* written down in that session's ledger and under its profile scope, never in
\* a later session's and never half in each.  (A queued event carries no scope,
\* _apply_memory_event reads the one in force: after a hasty end it may be.)
InItsSession ==
    \A e \in Events :
       fate[e] \in {"applied", "recorded"} /\ origin[e] \notin hasty
          => into[e] = origin[e]

\* An accepted write is handled in the end, unless the worker's thread is gone:
\* an exception in its failure handler ends it, and the host, which goes on
\* offering, only starts another when it initializes again; or it left and had
\* not seen the write (Accounted).
Drains ==
    \A e \in Events :
       fate[e] = "queued" ~>
          \/ fate[e] \in Handled
          \/ wpc = "died"
          \/ wpc = "exited" /\ e \in unseen

\* The ledger is never closed while the worker is in the middle of a mutation
\* (shutdown's SHUTDOWN_TIMEOUT: "client and ledger retained to avoid
\* use-after-close").
LedgerOutlivesWorker == Busy => ledger = "open"
=============================================================================
