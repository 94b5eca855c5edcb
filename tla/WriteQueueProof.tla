-------------------------- MODULE WriteQueueProof --------------------------
(***************************************************************************)
(* flush_writes, the order of mirrored writes and the session they are     *)
(* written down in, for any number of writes, threads, clients and         *)
(* sessions and any size of the queue.  Three invariants, each resting on  *)
(* the one before: QueueOK counts, OrderOK says where each write is,       *)
(* SessionOK says which writes a session may leave behind.  The client     *)
(* pool's steps change none of this, so nothing of it is unfolded.         *)
(***************************************************************************)
EXTENDS WriteQueue, TLAPS

PoolProof == INSTANCE ClientPoolProof

QueueOK ==
    /\ queue \in Seq(Events \cup {Sentinel})
    /\ unfinished = Len(queue) + (IF Busy THEN 1 ELSE 0)
    /\ fate \in [Events -> Fates]
    /\ offering \in Events \cup {NoEvent}
    /\ event \in Events \cup {NoEvent}
    /\ Busy <=> event # NoEvent

Queued(e) == \E i \in 1..Len(queue) : queue[i] = e

OrderOK ==
    /\ \A i, j \in 1..Len(queue) :
          i < j /\ queue[i] # Sentinel /\ queue[j] # Sentinel => queue[i] < queue[j]
    /\ \A e \in Events : fate[e] = "queued" <=> Queued(e)
    /\ \A e \in Events : fate[e] = "taken" <=> e = event
    /\ \A e \in Events : fate[e] = "offered" <=> e = offering
    /\ \A e, f \in Events : e < f /\ fate[e] \in {"new", "offered"} => fate[f] = "new"
    /\ Ordered

Over == Handled \cup {"lost"}

\* From the new scope until the new ledger is in use.
InBetween == {"switched", "closed", "initializing"}

SessionOK ==
    /\ session \in Nat \ {0} /\ session \in Sessions
    /\ hasty \subseteq 1..(session - 1)
    /\ origin \in [Events -> 0..session]
    /\ into \in [Events -> Int]
    /\ \A e \in Events : fate[e] = "new" <=> origin[e] = NoSession
    /\ hpc \in InBetween => session > 1 /\ \A e \in Events : origin[e] # session
    /\ offering # NoEvent => hpc = "free" /\ origin[offering] = session
    /\ \A e \in Events :
          origin[e] \notin hasty \cup {NoSession, session} => fate[e] \in Over
    /\ under # {} => wpc = "apply"
    /\ event # NoEvent /\ origin[event] \notin hasty => under \subseteq {origin[event]}
    /\ InItsSession

Inv == QueueOK /\ OrderOK /\ SessionOK

-----------------------------------------------------------------------------
(* The steps, sorted by what they do to the queue and to the session. *)

Elsewhere ==
    \/ WorkerCalls \/ OthersCall \/ GetTimesOut \/ GetAgain \/ Exit
    \/ UsesScope \/ UsesLedger \/ ApplyFails \/ HandlerSeesLedger
    \/ SwitchClosesLedger \/ SwitchOpensLedger \/ InitializeLedger \/ InitializeWorker
    \/ ShutdownBegins \/ ShutdownStops \/ ShutdownFindsWorker \/ ShutdownTimesOut
    \/ ShutdownCloses
    \/ UNCHANGED vars

Enter == SwitchScope \/ InitializeScope

\* The worker is done with its event.
PlaceFor(outcome) ==
    IF outcome = "applied" THEN PlaceOf(under \cup {LedgerSession})
    ELSE IF outcome = "recorded" THEN Place ELSE into[event]

Done(outcome, next) ==
    /\ Busy
    /\ outcome = "applied" => under # {}
    /\ Finish(outcome, PlaceFor(outcome), next)

LEMMA StepCases ==
  ASSUME [Next]_vars
  PROVE  \/ Elsewhere \/ Enter \/ Offer \/ Put \/ PutFull \/ Take \/ ShutdownPutsSentinel
         \/ \E outcome \in Over, next \in {"wait", "died"} : Done(outcome, next)
<1>1. ASSUME Apply \/ HandlerCounts \/ Record \/ RecordRaises
      PROVE  \E outcome \in Over, next \in {"wait", "died"} : Done(outcome, next)
  <2>1. CASE Apply
    <3>1. Done("applied", "wait")
      BY <2>1 DEF Apply, WorkerAt, Done, PlaceFor, Busy
    <3> QED
      BY <3>1 DEF Over, Handled
  <2>2. CASE HandlerCounts
    <3>1. Done("counted", "wait")
      BY <2>2 DEF HandlerCounts, WorkerAt, Done, PlaceFor, Busy
    <3> QED
      BY <3>1 DEF Over, Handled
  <2>3. CASE Record
    <3>1. Done("recorded", "wait")
      BY <2>3 DEF Record, WorkerAt, Done, PlaceFor, Busy
    <3> QED
      BY <3>1 DEF Over, Handled
  <2>4. CASE RecordRaises
    <3>1. Done("lost", "died")
      BY <2>4 DEF RecordRaises, WorkerAt, Done, PlaceFor, Busy
    <3> QED
      BY <3>1 DEF Over, Handled
  <2> QED
    BY <1>1, <2>1, <2>2, <2>3, <2>4
<1>2. CASE Next
  BY <1>1, <1>2 DEF Next, Host, NextSession, WorkerSteps, Shutdown, Elsewhere, Enter
<1> QED
  BY <1>2 DEF Elsewhere

\* What the steps elsewhere leave alone.
LEMMA ElsewhereKeeps ==
  ASSUME Elsewhere
  PROVE  /\ UNCHANGED <<queue, unfinished, fate, offering, event, session,
                        origin, into, hasty>>
         /\ Busy' <=> Busy
         /\ hpc' \in InBetween => hpc \in InBetween
         /\ hpc = "free" => hpc' = "free"
         /\ \/ under' = {} \/ UNCHANGED <<under, wpc>>
            \/ wpc # "apply" /\ UNCHANGED under
            \/ /\ wpc = "apply" /\ UNCHANGED wpc
               /\ under' \subseteq under \cup {session, LedgerSession}
<1>1. CASE WorkerCalls \/ OthersCall \/ UNCHANGED vars
  BY <1>1 DEF WorkerCalls, OthersCall, queueVars, vars, Busy
<1>2. CASE GetTimesOut \/ GetAgain \/ Exit \/ ApplyFails \/ HandlerSeesLedger
  BY <1>2 DEF GetTimesOut, GetAgain, Exit, MayExit, ApplyFails, HandlerSeesLedger, WorkerAt,
              sessionVars, Busy
<1>5. CASE UsesScope \/ UsesLedger
  BY <1>5 DEF UsesScope, UsesLedger, Uses, WorkerAt, sessionVars, Busy
<1>3. CASE SwitchClosesLedger \/ SwitchOpensLedger \/ InitializeLedger \/ InitializeWorker
  BY <1>3 DEF SwitchClosesLedger, SwitchOpensLedger, InitializeLedger,
              InitializeWorker, HostGoes, WorkerAlive, Busy, InBetween
<1>4. CASE \/ ShutdownBegins \/ ShutdownStops \/ ShutdownFindsWorker \/ ShutdownTimesOut
           \/ ShutdownCloses
  BY <1>4 DEF ShutdownBegins, ShutdownStops, ShutdownFindsWorker, ShutdownTimesOut,
              ShutdownCloses, workerVars, sessionVars, Busy
<1> QED
  BY <1>1, <1>2, <1>3, <1>4, <1>5 DEF Elsewhere

-----------------------------------------------------------------------------
LEMMA InvInit == Init => Inv
<1> SUFFICES ASSUME Init PROVE Inv
  OBVIOUS
<1>1. QueueOK
  BY DEF Init, QueueOK, Busy, Fates, Handled, NoEvent, Events
<1>2. OrderOK
  BY DEF Init, OrderOK, Queued, Ordered, NoEvent, Events
<1>3. SessionOK
  BY QueueAssumption
     DEF Init, SessionOK, InItsSession, NoSession, NoEvent, InBetween, Events, Sessions
<1> QED
  BY <1>1, <1>2, <1>3 DEF Inv

LEMMA EventsAreNumbers == Events \subseteq Nat \ {0} /\ Sentinel \notin Events
                            /\ NoEvent \notin Events
BY QueueAssumption DEF Events, Sentinel, NoEvent

\* unfinished_tasks counts the queue and the event in the worker's hands.
LEMMA QueueStep == ASSUME QueueOK, [Next]_vars PROVE QueueOK'
<1> USE EventsAreNumbers
<1>1. CASE Elsewhere
  BY <1>1, ElsewhereKeeps DEF QueueOK
<1>2. CASE Enter
  BY <1>2 DEF QueueOK, Enter, SwitchScope, InitializeScope, EnterSession, workerVars, Busy
<1>3. CASE Offer
  <2>1. fate' \in [Events -> Fates] /\ offering' \in Events \cup {NoEvent}
    BY <1>3 DEF QueueOK, Offer, Fates, Handled
  <2> QED
    BY <1>3, <2>1 DEF QueueOK, Offer, workerVars, Busy
<1>4. CASE Put
  <2>1. offering \in Events
    BY <1>4 DEF Put, QueueOK
  <2>2. queue' \in Seq(Events \cup {Sentinel}) /\ Len(queue') = Len(queue) + 1
    BY <1>4, <2>1 DEF QueueOK, Put
  <2>3. fate' \in [Events -> Fates]
    BY <1>4 DEF QueueOK, Put, Fates
  <2>4. unfinished' = Len(queue') + (IF Busy' THEN 1 ELSE 0)
    BY <1>4, <2>2 DEF QueueOK, Put, Busy
  <2> QED
    BY <1>4, <2>2, <2>3, <2>4 DEF QueueOK, Put, Busy
<1>5. CASE PutFull
  <2>1. fate' \in [Events -> Fates]
    BY <1>5 DEF QueueOK, PutFull, RefuseFull, Fates, Handled
  <2> QED
    BY <1>5, <2>1 DEF QueueOK, PutFull, workerVars, Busy
<1>6. CASE Take
  <2>1. Head(queue) \in Events \cup {Sentinel}
        /\ Tail(queue) \in Seq(Events \cup {Sentinel})
        /\ Len(Tail(queue)) = Len(queue) - 1 /\ Len(queue) \in Nat
    BY <1>6 DEF QueueOK, Take
  <2>2. ~Busy
    BY <1>6 DEF Take, WorkerAt, Busy
  <2>3. CASE Oldest(queue) = Sentinel
    <3>1. /\ wpc' = "exited" /\ queue' = Tail(queue) /\ unfinished' = unfinished - 1
          /\ UNCHANGED <<fate, event, offering>>
      BY <1>6, <2>3 DEF Take
    <3>2. unfinished' = Len(queue')
      BY <2>1, <2>2, <3>1 DEF QueueOK
    <3> QED
      BY <2>1, <2>2, <3>1, <3>2 DEF QueueOK, Busy
  <2>4. CASE Oldest(queue) # Sentinel
    <3>1. fate' \in [Events -> Fates] /\ event' \in Events
      BY <1>6, <2>1, <2>4 DEF QueueOK, Take, Oldest, Fates
    <3>2. /\ wpc' = "apply" /\ queue' = Tail(queue) /\ UNCHANGED <<unfinished, offering>>
      BY <1>6, <2>4 DEF Take, DoneWhenTaken
    <3>3. unfinished' = Len(queue') + 1
      BY <2>1, <2>2, <3>2 DEF QueueOK
    <3> QED
      BY <2>1, <3>1, <3>2, <3>3 DEF QueueOK, Busy
  <2> QED
    BY <2>3, <2>4
<1>7. CASE ShutdownPutsSentinel
  <2>1. UNCHANGED <<fate, offering, wpc, event>>
    BY <1>7 DEF ShutdownPutsSentinel, workerVars, sessionVars
  <2>2. /\ queue' \in Seq(Events \cup {Sentinel})
        /\ unfinished' - Len(queue') = unfinished - Len(queue)
        /\ unfinished' \in Nat /\ Len(queue') \in Nat
    <3>1. queue \in Seq(Events \cup {Sentinel}) /\ unfinished \in Nat /\ Len(queue) \in Nat
      BY DEF QueueOK
    <3>2. CASE queue' = Append(queue, Sentinel) /\ unfinished' = unfinished + 1
      BY <3>1, <3>2
    <3>3. CASE UNCHANGED <<queue, unfinished>>
      BY <3>1, <3>3
    <3> QED
      BY <1>7, <3>2, <3>3 DEF ShutdownPutsSentinel, workerVars, sessionVars
  <2>3. unfinished' = Len(queue') + (IF Busy' THEN 1 ELSE 0)
    <3>1. unfinished = Len(queue) + (IF Busy THEN 1 ELSE 0) /\ Len(queue) \in Nat
      BY DEF QueueOK
    <3>2. Busy' <=> Busy
      BY <2>1 DEF Busy
    <3> QED
      BY <2>2, <3>1, <3>2
  <2> QED
    BY <2>1, <2>2, <2>3 DEF QueueOK, Busy
<1>8. ASSUME NEW outcome \in Over, NEW next \in {"wait", "died"}, Done(outcome, next)
      PROVE  QueueOK'
  <2>1. fate' \in [Events -> Fates]
    BY <1>8 DEF QueueOK, Done, Finish, Over, Fates
  <2>2. unfinished' = Len(queue') + (IF Busy' THEN 1 ELSE 0)
    BY <1>8 DEF QueueOK, Done, Finish, Busy, DoneWhenTaken
  <2> QED
    BY <1>8, <2>1, <2>2 DEF QueueOK, Done, Finish, Busy
<1> QED
  BY <1>1, <1>2, <1>3, <1>4, <1>5, <1>6, <1>7, <1>8, StepCases

LEMMA FlushTold == QueueOK => FlushMeansDone
BY DEF QueueOK, FlushMeansDone

-----------------------------------------------------------------------------
\* The queue holds the accepted writes in the order of their offering; those
\* before them are over or in the worker's hands, those after them are new.
LEMMA OrderStep == ASSUME QueueOK, OrderOK, [Next]_vars PROVE OrderOK'
<1> USE EventsAreNumbers
<1>1. CASE UNCHANGED <<queue, fate, offering, event>>
  BY <1>1 DEF OrderOK, Ordered, Queued
<1>2. CASE Elsewhere
  BY <1>1, <1>2, ElsewhereKeeps
<1>3. CASE Enter
  BY <1>1, <1>3 DEF Enter, SwitchScope, InitializeScope, EnterSession, workerVars
<1>4. CASE Offer
  <2>1. PICK e \in Events :
           /\ fate[e] = "new" /\ offering = NoEvent
           /\ \A f \in Events : f < e => fate[f] # "new"
           /\ \/ fate' = [fate EXCEPT ![e] = "offered"] /\ offering' = e
              \/ fate' = [fate EXCEPT ![e] = "counted"] /\ offering' = NoEvent
           /\ UNCHANGED <<queue, event>>
    BY <1>4 DEF Offer, workerVars
  <2>2. /\ \A f \in Events : f # e => fate'[f] = fate[f]
        /\ fate'[e] \in {"offered", "counted"}
        /\ fate'[e] = "offered" <=> offering' = e
    BY <2>1 DEF QueueOK
  <2>3. \A f \in Events : fate[f] # "offered"
    BY <2>1 DEF OrderOK
  <2>4. \A f \in Events : fate'[f] = "offered" <=> f = offering'
    BY <2>1, <2>2, <2>3
  <2>5. \A f \in Events : (fate'[f] = "queued" <=> Queued(f)')
                          /\ (fate'[f] = "taken" <=> f = event')
    BY <2>1, <2>2 DEF OrderOK, Queued
  <2>6. \A d, f \in Events : d < f /\ fate'[d] \in {"new", "offered"} => fate'[f] = "new"
    BY <2>1, <2>2, <2>3 DEF OrderOK
  <2>7. Ordered'
    BY <2>1, <2>2 DEF OrderOK, Ordered
  <2> QED
    BY <2>1, <2>4, <2>5, <2>6, <2>7 DEF OrderOK
<1>5. CASE Put
  <2> DEFINE n == Len(queue)
  <2>0. PICK o \in Events : o = offering
    BY <1>5 DEF Put, QueueOK
  <2>1. /\ offering = o /\ offering' = NoEvent /\ event' = event
        /\ n \in Nat /\ Len(queue') = n + 1
        /\ \A i \in 1..n : queue'[i] = queue[i] /\ queue[i] \in Events \cup {Sentinel}
        /\ queue'[n + 1] = offering
        /\ fate' = [fate EXCEPT ![offering] = "queued"]
    BY <1>5, <2>0 DEF Put, QueueOK
  <2>2. fate'[o] = "queued" /\ fate[o] = "offered"
        /\ \A f \in Events : f # o => fate'[f] = fate[f]
    BY <2>1 DEF QueueOK, OrderOK
  <2>3. \A i \in 1..n : queue[i] # Sentinel => queue[i] < o
    <3> SUFFICES ASSUME NEW i \in 1..n, queue[i] # Sentinel PROVE queue[i] < o
      OBVIOUS
    <3>1. queue[i] \in Events /\ fate[queue[i]] = "queued"
      BY <2>1 DEF OrderOK, Queued
    <3>2. ~(o < queue[i]) /\ o # queue[i]
      BY <2>1, <2>2, <3>1 DEF OrderOK
    <3>3. queue[i] \in Nat /\ o \in Nat
      BY <3>1
    <3> QED
      BY <3>2, <3>3
  <2>4. \A i, j \in 1..Len(queue') :
          i < j /\ queue'[i] # Sentinel /\ queue'[j] # Sentinel => queue'[i] < queue'[j]
    <3> SUFFICES ASSUME NEW i \in 1..(n + 1), NEW j \in 1..(n + 1), i < j,
                        queue'[i] # Sentinel, queue'[j] # Sentinel
                 PROVE  queue'[i] < queue'[j]
      BY <2>1
    <3>1. CASE j = n + 1
      BY <2>1, <2>3, <3>1
    <3>2. CASE j \in 1..n
      BY <2>1, <3>2 DEF OrderOK
    <3> QED
      BY <2>1, <3>1, <3>2
  <2>5. \A f \in Events : Queued(f)' <=> Queued(f) \/ f = o
    <3>1. \A f \in Events : Queued(f) => Queued(f)'
      BY <2>1 DEF Queued
    <3>2. Queued(o)'
      BY <2>1 DEF Queued
    <3>3. ASSUME NEW f \in Events, Queued(f)', f # o PROVE Queued(f)
      <4>1. PICK i \in 1..(n + 1) : queue'[i] = f
        BY <2>1, <3>3 DEF Queued
      <4> QED
        BY <2>1, <3>3, <4>1 DEF Queued
    <3> QED
      BY <3>1, <3>2, <3>3
  <2>6. \A f \in Events : (fate'[f] = "queued" <=> Queued(f)')
                          /\ (fate'[f] = "taken" <=> f = event')
    BY <2>1, <2>2, <2>5 DEF OrderOK
  <2>7. \A f \in Events : fate'[f] = "offered" <=> f = offering'
    BY <2>1, <2>2 DEF OrderOK
  <2>8. \A d, f \in Events : d < f /\ fate'[d] \in {"new", "offered"} => fate'[f] = "new"
    BY <2>1, <2>2 DEF OrderOK
  <2>9. Ordered'
    <3> SUFFICES ASSUME NEW d \in Events, NEW f \in Events, d < f,
                        fate'[f] \in {"taken", "applied"}
                 PROVE  fate'[d] \notin {"queued", "taken"}
      BY DEF Ordered
    <3>1. f # o
      BY <2>2
    <3>2. d # o
      BY <2>2, <3>1 DEF OrderOK
    <3> QED
      BY <2>2, <3>1, <3>2 DEF OrderOK, Ordered
  <2> QED
    BY <2>4, <2>6, <2>7, <2>8, <2>9 DEF OrderOK
<1>6. CASE PutFull
  <2>1. /\ offering \in Events /\ offering' = NoEvent /\ UNCHANGED <<queue, event>>
        /\ \E o \in {"recorded", "counted", "raised"} :
              fate' = [fate EXCEPT ![offering] = o]
    BY <1>6 DEF PutFull, RefuseFull, QueueOK, workerVars
  <2>2. /\ fate'[offering] \in {"recorded", "counted", "raised"}
        /\ fate[offering] = "offered"
        /\ \A f \in Events : f # offering => fate'[f] = fate[f]
    BY <2>1 DEF QueueOK, OrderOK
  <2> QED
    BY <2>1, <2>2 DEF OrderOK, Ordered, Queued
<1>7. CASE Take
  <2> DEFINE n == Len(queue)
  <2>0. PICK h \in Events \cup {Sentinel} : h = queue[1]
    <3>1. Len(queue) \in Nat \ {0}
      BY <1>7 DEF Take, QueueOK
    <3>2. queue[1] \in Events \cup {Sentinel}
      BY <3>1 DEF QueueOK
    <3> QED
      BY <3>2
  <2>1. /\ n \in Nat \ {0} /\ Len(queue') = n - 1
        /\ \A i \in 1..(n - 1) : queue'[i] = queue[i + 1]
        /\ h = Oldest(queue) /\ h = queue[1]
        /\ offering' = offering
    BY <1>7, <2>0 DEF Take, QueueOK, Oldest
  <2>2. event = NoEvent
    BY <1>7 DEF Take, WorkerAt, Busy, QueueOK
  <2>3. \A i, j \in 1..Len(queue') :
          i < j /\ queue'[i] # Sentinel /\ queue'[j] # Sentinel => queue'[i] < queue'[j]
    <3> SUFFICES ASSUME NEW i \in 1..(n - 1), NEW j \in 1..(n - 1), i < j,
                        queue'[i] # Sentinel, queue'[j] # Sentinel
                 PROVE  queue'[i] < queue'[j]
      BY <2>1
    <3>1. i + 1 \in 1..n /\ j + 1 \in 1..n /\ i + 1 < j + 1
      BY <2>1
    <3> QED
      BY <2>1, <3>1 DEF OrderOK
  <2>4. \A f \in Events : Queued(f) <=> Queued(f)' \/ f = h
    <3>1. ASSUME NEW f \in Events, Queued(f) PROVE Queued(f)' \/ f = h
      <4>1. PICK i \in 1..n : queue[i] = f
        BY <3>1 DEF Queued
      <4>2. CASE i # 1
        <5>1. i - 1 \in 1..(n - 1) /\ queue'[i - 1] = f
          BY <2>1, <4>1, <4>2
        <5> QED
          BY <2>1, <5>1 DEF Queued
      <4> QED
        BY <2>1, <4>1, <4>2
    <3>2. ASSUME NEW f \in Events, Queued(f)' PROVE Queued(f)
      <4>1. PICK i \in 1..(n - 1) : queue'[i] = f
        BY <2>1, <3>2 DEF Queued
      <4>2. i + 1 \in 1..n /\ queue[i + 1] = f
        BY <2>1, <4>1
      <4> QED
        BY <4>2 DEF Queued
    <3>3. h \in Events => Queued(h)
      BY <2>1 DEF Queued
    <3> QED
      BY <3>1, <3>2, <3>3
  <2>5. CASE h = Sentinel
    <3>1. UNCHANGED <<fate, event>>
      BY <1>7, <2>1, <2>5 DEF Take
    <3> QED
      BY <2>1, <2>3, <2>4, <2>5, <3>1 DEF OrderOK, Ordered
  <2>6. CASE h # Sentinel
    <3>1. h \in Events /\ event' = h /\ fate' = [fate EXCEPT ![h] = "taken"]
      BY <1>7, <2>1, <2>6 DEF Take
    <3>2. /\ fate'[h] = "taken" /\ fate[h] = "queued"
          /\ \A f \in Events : f # h => fate'[f] = fate[f]
      BY <2>4, <3>1 DEF QueueOK, OrderOK
    <3>3. ~Queued(h)'
      <4> SUFFICES ASSUME NEW i \in 1..(n - 1), queue'[i] = h PROVE FALSE
        BY <2>1 DEF Queued
      <4>1. i + 1 \in 1..n /\ 1 \in 1..n /\ 1 < i + 1 /\ queue[i + 1] = h
        BY <2>1
      <4>2. queue[1] < queue[i + 1]
        BY <2>1, <2>6, <4>1 DEF OrderOK
      <4> QED
        BY <2>1, <3>1, <4>1, <4>2
    <3>4. \A f \in Events : (fate'[f] = "queued" <=> Queued(f)')
                            /\ (fate'[f] = "taken" <=> f = event')
      BY <2>2, <2>4, <3>1, <3>2, <3>3 DEF OrderOK
    <3>5. \A f \in Events : fate'[f] = "offered" <=> f = offering'
      BY <2>1, <3>1, <3>2 DEF OrderOK
    <3>6. \A d, f \in Events : d < f /\ fate'[d] \in {"new", "offered"} => fate'[f] = "new"
      BY <3>1, <3>2 DEF OrderOK
    <3>7. Ordered'
      <4> SUFFICES ASSUME NEW d \in Events, NEW f \in Events, d < f,
                          fate'[f] \in {"taken", "applied"},
                          fate'[d] \in {"queued", "taken"}
                   PROVE  FALSE
        BY DEF Ordered
      <4>1. CASE f = h
        <5>1. fate'[d] = "queued"
          BY <3>1, <3>2, <3>4, <4>1
        <5>2. PICK i \in 1..n : queue[i] = d
          BY <2>4, <3>4, <5>1 DEF Queued
        <5>3. i # 1
          BY <2>1, <3>1, <4>1, <5>2
        <5>4. 1 \in 1..n /\ 1 < i
          BY <2>1, <5>3
        <5>5. queue[1] < queue[i]
          BY <2>1, <2>6, <5>2, <5>4 DEF OrderOK
        <5> QED
          BY <2>1, <3>1, <4>1, <5>2, <5>5
      <4>2. CASE f # h
        <5>1. fate[f] \in {"taken", "applied"}
          BY <3>2, <4>2
        <5>2. fate[d] \in {"queued", "taken"}
          BY <3>2
        <5> QED
          BY <5>1, <5>2 DEF OrderOK, Ordered
      <4> QED
        BY <4>1, <4>2
    <3> QED
      BY <2>3, <3>4, <3>5, <3>6, <3>7 DEF OrderOK
  <2> QED
    BY <2>5, <2>6
<1>8. CASE ShutdownPutsSentinel
  <2>1. UNCHANGED <<fate, offering, event>>
    BY <1>8 DEF ShutdownPutsSentinel, workerVars, sessionVars
  <2>2. CASE UNCHANGED queue
    BY <1>1, <2>1, <2>2
  <2>3. CASE queue' = Append(queue, Sentinel)
    <3> DEFINE n == Len(queue)
    <3>1. /\ n \in Nat /\ Len(queue') = n + 1 /\ queue'[n + 1] = Sentinel
          /\ \A i \in 1..n : queue'[i] = queue[i]
      BY <2>3 DEF QueueOK
    <3>2. \A f \in Events : Queued(f)' <=> Queued(f)
      BY <3>1 DEF Queued
    <3>3. \A i, j \in 1..Len(queue') :
            i < j /\ queue'[i] # Sentinel /\ queue'[j] # Sentinel => queue'[i] < queue'[j]
      BY <3>1 DEF OrderOK
    <3> QED
      BY <2>1, <3>2, <3>3 DEF OrderOK, Ordered
  <2> QED
    BY <1>8, <2>2, <2>3 DEF ShutdownPutsSentinel, workerVars, sessionVars
<1>9. ASSUME NEW outcome \in Over, NEW next \in {"wait", "died"}, Done(outcome, next)
      PROVE  OrderOK'
  <2>1. /\ event \in Events /\ event' = NoEvent /\ UNCHANGED <<queue, offering>>
        /\ fate' = [fate EXCEPT ![event] = outcome]
    BY <1>9 DEF Done, Finish, QueueOK
  <2>2. /\ fate'[event] = outcome /\ fate[event] = "taken"
        /\ \A f \in Events : f # event => fate'[f] = fate[f]
    BY <2>1 DEF QueueOK, OrderOK
  <2>3. outcome \notin {"new", "offered", "queued", "taken"}
    BY DEF Over, Handled
  <2> QED
    BY <2>1, <2>2, <2>3 DEF OrderOK, Ordered, Queued
<1> QED
  BY <1>2, <1>3, <1>4, <1>5, <1>6, <1>7, <1>8, <1>9, StepCases

-----------------------------------------------------------------------------
LEMMA PlaceOfOne ==
  /\ \A s \in Sessions : PlaceOf({s}) = s
  /\ \A S : PlaceOf(S) \in Sessions \cup {Torn}
<1>1. ASSUME NEW s \in Sessions PROVE PlaceOf({s}) = s
  BY DEF PlaceOf
<1>2. ASSUME NEW S PROVE PlaceOf(S) \in Sessions \cup {Torn}
  <2>1. CASE \E s \in Sessions : S = {s}
    BY <1>1, <2>1
  <2>2. CASE ~\E s \in Sessions : S = {s}
    BY <2>2 DEF PlaceOf
  <2> QED
    BY <2>1, <2>2
<1> QED
  BY <1>1, <1>2

\* A session the host leaves with nothing unfinished has nothing left to write; a
\* write of the session in force finds its scope and its ledger in place, because
\* none is offered while they are being changed.
LEMMA SessionStep ==
  ASSUME QueueOK, OrderOK, SessionOK, [Next]_vars PROVE SessionOK'
<1> USE EventsAreNumbers
<1>1. CASE Elsewhere
  <2>1. hpc' \in InBetween => session' > 1 /\ \A e \in Events : origin'[e] # session'
    BY <1>1, ElsewhereKeeps DEF SessionOK
  <2>2. offering' # NoEvent => hpc' = "free" /\ origin'[offering'] = session'
    BY <1>1, ElsewhereKeeps DEF SessionOK
  <2>3. under' # {} => wpc' = "apply"
    BY <1>1, ElsewhereKeeps DEF SessionOK
  <2>4. ASSUME event' # NoEvent, origin'[event'] \notin hasty'
        PROVE  under' \subseteq {origin'[event']}
    <3>1. /\ UNCHANGED <<event, origin, session>> /\ event \in Events
          /\ under \subseteq {origin[event]} /\ fate[event] = "taken"
      BY <1>1, <2>4, ElsewhereKeeps DEF SessionOK, QueueOK, OrderOK
    <3>2. origin[event] = session /\ LedgerSession = session
      BY <2>4, <3>1, <1>1, ElsewhereKeeps
         DEF SessionOK, Over, Handled, LedgerSession, InBetween
    <3>3. under' \subseteq under \cup {session, LedgerSession}
      BY <1>1, ElsewhereKeeps
    <3> QED
      BY <3>1, <3>2, <3>3
  <2> QED
    BY <1>1, <2>1, <2>2, <2>3, <2>4, ElsewhereKeeps DEF SessionOK, InItsSession
<1>2. CASE Enter
  <2>1. /\ offering = NoEvent /\ session' = session + 1
        /\ hasty' = IF unfinished = 0 THEN hasty ELSE hasty \cup {session}
        /\ UNCHANGED <<fate, offering, origin, into, event, under, wpc>>
        /\ session < MaxSessions
    BY <1>2 DEF Enter, SwitchScope, InitializeScope, EnterSession, workerVars
  <2>2. session \in Nat \ {0} /\ hasty \subseteq hasty' /\ hasty' \subseteq hasty \cup {session}
        /\ hasty \subseteq 1..(session - 1) /\ origin \in [Events -> 0..session]
    BY <2>1 DEF SessionOK
  <2>3. session' \in Nat \ {0} /\ session' > 1 /\ session' \in Sessions /\ hasty' \subseteq 1..(session' - 1)
        /\ origin' \in [Events -> 0..session'] /\ \A e \in Events : origin'[e] # session'
    BY <2>1, <2>2, QueueAssumption DEF Sessions
  <2>4. ASSUME NEW e \in Events, origin[e] \notin hasty' \cup {NoSession, session'}
        PROVE  fate[e] \in Over
    <3>1. CASE origin[e] # session
      BY <2>2, <2>4, <3>1 DEF SessionOK
    <3>2. CASE origin[e] = session
      <4>1. unfinished = 0
        BY <2>1, <2>4, <3>2
      <4>2. queue = <<>> /\ ~Busy
        BY <4>1, FlushTold DEF FlushMeansDone
      <4>3. fate[e] \notin {"queued", "taken", "offered"}
        BY <2>1, <4>2 DEF OrderOK, Queued, QueueOK
      <4>4. fate[e] # "new" /\ fate[e] \in Fates
        BY <2>4 DEF SessionOK, QueueOK
      <4> QED
        BY <4>3, <4>4 DEF Fates, Over
    <3> QED
      BY <3>1, <3>2
  <2>5. InItsSession'
    BY <2>1, <2>2 DEF SessionOK, InItsSession
  <2>6. /\ into' \in [Events -> Int]
        /\ \A e \in Events : fate'[e] = "new" <=> origin'[e] = NoSession
    BY <2>1 DEF SessionOK
  <2>7. \A e \in Events :
          origin'[e] \notin hasty' \cup {NoSession, session'} => fate'[e] \in Over
    BY <2>1, <2>4
  <2>8. /\ under' # {} => wpc' = "apply"
        /\ event' # NoEvent /\ origin'[event'] \notin hasty' => under' \subseteq {origin'[event']}
    BY <2>1, <2>2 DEF SessionOK
  <2> QED
    BY <2>1, <2>3, <2>5, <2>6, <2>7, <2>8 DEF SessionOK
<1>3. CASE Offer
  <2>1. PICK e \in Events :
           /\ fate[e] = "new" /\ hpc = "free"
           /\ \/ fate' = [fate EXCEPT ![e] = "offered"] /\ offering' = e
              \/ fate' = [fate EXCEPT ![e] = "counted"] /\ offering' = NoEvent
           /\ origin' = [origin EXCEPT ![e] = session]
           /\ UNCHANGED <<session, hpc, into, hasty, event, under, wpc>>
    BY <1>3 DEF Offer, workerVars
  <2>2. /\ fate'[e] \in {"offered", "counted"} /\ origin'[e] = session
        /\ \A f \in Events : f # e => fate'[f] = fate[f] /\ origin'[f] = origin[f]
        /\ session \in Nat \ {0}
    BY <2>1 DEF QueueOK, SessionOK
  <2>3. origin' \in [Events -> 0..session']
    BY <2>1, <2>2 DEF SessionOK
  <2>4. \A f \in Events : fate'[f] = "new" <=> origin'[f] = NoSession
    BY <2>2 DEF SessionOK, NoSession
  <2>5. hpc' \notin InBetween
        /\ (offering' # NoEvent => hpc' = "free" /\ origin'[offering'] = session')
    BY <2>1, <2>2 DEF InBetween
  <2>6. \A f \in Events :
          origin'[f] \notin hasty' \cup {NoSession, session'} => fate'[f] \in Over
    BY <2>1, <2>2 DEF SessionOK
  <2>7. InItsSession'
    BY <2>1, <2>2 DEF SessionOK, InItsSession
  <2>8. event # NoEvent => event # e
    BY <2>1 DEF OrderOK
  <2>9. /\ under' # {} => wpc' = "apply"
        /\ event' # NoEvent /\ origin'[event'] \notin hasty' => under' \subseteq {origin'[event']}
    BY <2>1, <2>2, <2>8 DEF SessionOK, QueueOK
  <2> QED
    BY <2>1, <2>2, <2>3, <2>4, <2>5, <2>6, <2>7, <2>9 DEF SessionOK
<1>4. CASE Put
  <2>1. PICK o \in Events :
           /\ o = offering /\ offering' = NoEvent
           /\ fate' = [fate EXCEPT ![o] = "queued"]
           /\ UNCHANGED <<session, hpc, origin, into, hasty, event, under, wpc>>
    BY <1>4 DEF Put, QueueOK, sessionVars
  <2>2. /\ fate'[o] = "queued" /\ fate[o] = "offered" /\ origin[o] = session
        /\ \A f \in Events : f # o => fate'[f] = fate[f]
    BY <2>1 DEF QueueOK, OrderOK, SessionOK
  <2> QED
    BY <2>1, <2>2 DEF SessionOK, InItsSession
<1>5. CASE PutFull
  <2>1. PICK o \in Events, r \in {"recorded", "counted", "raised"} :
           /\ o = offering /\ offering' = NoEvent
           /\ fate' = [fate EXCEPT ![o] = r]
           /\ into' = [into EXCEPT ![o] = IF fate'[o] = "recorded" THEN Place ELSE @]
           /\ UNCHANGED <<session, hpc, origin, hasty, event, under, wpc>>
    BY <1>5 DEF PutFull, RefuseFull, QueueOK, workerVars
  <2>2. /\ fate'[o] = r /\ fate[o] = "offered" /\ origin[o] = session /\ hpc = "free"
        /\ \A f \in Events : f # o => fate'[f] = fate[f]
    BY <2>1 DEF QueueOK, OrderOK, SessionOK
  <2>3. Place = session
    <3>1. {session, LedgerSession} = {session} /\ session \in Sessions
      BY <2>2 DEF LedgerSession, SessionOK
    <3> QED
      BY <3>1, PlaceOfOne DEF Place
  <2>4. /\ into' \in [Events -> Int]
        /\ r = "recorded" => into'[o] = session
        /\ \A f \in Events : f # o => into'[f] = into[f]
    BY <2>1, <2>2, <2>3 DEF SessionOK
  <2>5. InItsSession'
    BY <2>1, <2>2, <2>4 DEF SessionOK, InItsSession
  <2>6. r \in Over \cup {"raised"} /\ r # "new" /\ r \in Over
    BY DEF Over, Handled
  <2> QED
    BY <2>1, <2>2, <2>4, <2>5, <2>6 DEF SessionOK
<1>6. CASE Take
  <2>1. CASE Oldest(queue) = Sentinel
    BY <1>6, <2>1 DEF Take, WorkerAt, SessionOK, InItsSession, sessionVars
  <2>2. CASE Oldest(queue) # Sentinel
    <3>0. under' = {}
      BY <1>6 DEF Take, WorkerAt, SessionOK
    <3>1. PICK h \in Events :
             /\ h = queue[1] /\ Len(queue) >= 1
             /\ fate' = [fate EXCEPT ![h] = "taken"]
             /\ UNCHANGED <<offering, session, hpc, origin, into, hasty>>
      BY <1>6, <2>2 DEF Take, QueueOK, Oldest, sessionVars
    <3>2. fate[h] = "queued"
      BY <3>1 DEF OrderOK, Queued, QueueOK
    <3>3. fate'[h] = "taken" /\ \A f \in Events : f # h => fate'[f] = fate[f]
      BY <3>1 DEF QueueOK
    <3>4. fate[h] \notin Over
      BY <3>2 DEF Over, Handled
    <3> QED
      BY <3>0, <3>1, <3>2, <3>3, <3>4 DEF SessionOK, InItsSession
  <2> QED
    BY <2>1, <2>2
<1>7. CASE ShutdownPutsSentinel
  BY <1>7 DEF ShutdownPutsSentinel, SessionOK, InItsSession, workerVars, sessionVars
<1>8. ASSUME NEW outcome \in Over, NEW next \in {"wait", "died"}, Done(outcome, next)
      PROVE  SessionOK'
  <2>1. PICK t \in Events :
           /\ t = event
           /\ fate' = [fate EXCEPT ![t] = outcome]
           /\ into' = [into EXCEPT ![t] = PlaceFor(outcome)]
           /\ outcome = "applied" => under # {}
           /\ under' = {} /\ event' = NoEvent
           /\ UNCHANGED <<offering, session, hpc, origin, hasty>>
    BY <1>8 DEF Done, Finish, QueueOK
  <2>2. /\ fate'[t] = outcome /\ fate[t] = "taken"
        /\ \A f \in Events : f # t => fate'[f] = fate[f]
    BY <2>1 DEF QueueOK, OrderOK
  <2>3. origin[t] # NoSession /\ fate[t] \notin Over
    BY <2>2 DEF SessionOK, Over, Handled
  <2>4. ASSUME origin[t] \notin hasty, outcome \in {"applied", "recorded"}
        PROVE  PlaceFor(outcome) = origin[t]
    <3>1. origin[t] = session /\ LedgerSession = session
      BY <2>3, <2>4 DEF SessionOK, LedgerSession, InBetween
    <3>2. under \subseteq {session}
      BY <2>1, <2>4, <3>1 DEF SessionOK
    <3>3. PlaceOf({session}) = session
      BY PlaceOfOne DEF SessionOK
    <3>4. under \cup {LedgerSession} = {session} /\ {session, LedgerSession} = {session}
      BY <3>1, <3>2
    <3> QED
      BY <2>4, <3>1, <3>3, <3>4 DEF PlaceFor, Place
  <2>5. PlaceFor(outcome) \in Int
    <3>1. Sessions \cup {Torn} \subseteq Int
      BY QueueAssumption DEF Sessions, Torn
    <3>2. into[event] \in Int
      BY <2>1 DEF SessionOK
    <3> QED
      BY <3>1, <3>2, PlaceOfOne DEF PlaceFor, Place
  <2>6. /\ into' \in [Events -> Int]
        /\ into'[t] = PlaceFor(outcome)
        /\ \A f \in Events : f # t => into'[f] = into[f]
    BY <2>1, <2>5 DEF SessionOK
  <2>7. InItsSession'
    BY <2>1, <2>2, <2>4, <2>6 DEF SessionOK, InItsSession
  <2>8. outcome # "new"
    BY DEF Over, Handled
  <2> QED
    BY <2>1, <2>2, <2>3, <2>6, <2>7, <2>8 DEF SessionOK
<1> QED
  BY <1>1, <1>2, <1>3, <1>4, <1>5, <1>6, <1>7, <1>8, StepCases

LEMMA InvAlways == Spec => []Inv
<1>1. Inv /\ [Next]_vars => Inv'
  BY QueueStep, OrderStep, SessionStep DEF Inv
<1> QED
  BY InvInit, <1>1, PTL DEF Spec

-----------------------------------------------------------------------------
\* flush_writes tells the truth: its unfinished_tasks is zero only when the queue
\* is empty and the worker has nothing in its hands.
THEOREM FlushTellsTheTruth == Spec => []FlushMeansDone
<1>1. Inv => FlushMeansDone
  BY FlushTold DEF Inv
<1> QED
  BY <1>1, InvAlways, PTL

\* No mirrored write is begun before the accepted ones ahead of it are over, for
\* however many sessions, restarted workers and full queues.
THEOREM WritesInOrder == Spec => []Ordered
<1>1. Inv => Ordered
  BY DEF Inv, OrderOK
<1> QED
  BY <1>1, InvAlways, PTL

\* A host that flushes before it switches or initializes finds every write of a
\* session under that session's scope and ledger.
THEOREM WritesInTheirSession == Spec => []InItsSession
<1>1. Inv => InItsSession
  BY DEF Inv, SessionOK
<1> QED
  BY <1>1, InvAlways, PTL
-----------------------------------------------------------------------------
(* Shutdown: when the host offers nothing while it shuts down (~Overlap),  *)
(* what a worker that left in good order did not handle is what was put    *)
(* after its last get had found the queue empty.                           *)

Stopping == spc \notin {"up", "flush"}
Stopped == spc \in {"join", "returned"}

\* What the worker may walk away from.
AllUnseen == \A i \in 1..Len(queue) : queue[i] \in unseen \cup {Sentinel}

ShutdownOK ==
    /\ phase = "up" <=> spc = "up"
    /\ spc # "up" => offering = NoEvent /\ hpc = "free"
    /\ stop <=> Stopping
    /\ \A i \in 1..Len(queue) : queue[i] = Sentinel => i = Len(queue) /\ Stopped
    /\ wpc = "empty" => AllUnseen
    /\ wpc = "exited" => Stopping /\ AllUnseen

LEMMA CallsKeepPhase == ASSUME NEW t, Pool!ReadFingerprint(t) \/ Pool!Call(t)
                        PROVE  phase' = phase
BY DEF Pool!ReadFingerprint, Pool!Call, Pool!AcquireCurrent, Pool!AcquireNew,
       Pool!BuildFails, Pool!Answer, Pool!Drop, Pool!Release

LEMMA ShutdownStep ==
  ASSUME ~Overlap, QueueOK, ShutdownOK, [Next]_vars PROVE ShutdownOK'
<1> USE EventsAreNumbers
<1> USE DEF Stopping, Stopped, AllUnseen
<1>1. CASE WorkerCalls \/ OthersCall \/ UNCHANGED vars
  <2>1. UNCHANGED <<phase, spc, offering, hpc, stop, queue, wpc, unseen>>
    BY <1>1, CallsKeepPhase DEF WorkerCalls, OthersCall, vars, poolVars, queueVars
  <2> QED
    BY <2>1 DEF ShutdownOK
<1>2. CASE GetTimesOut \/ GetAgain \/ Exit \/ ApplyFails \/ HandlerSeesLedger
  <2>1. /\ UNCHANGED <<phase, spc, offering, hpc, stop, queue>>
        /\ \/ wpc' = "empty" /\ queue = <<>>
           \/ wpc' \in {"wait", "handler", "recording"}
           \/ wpc = "empty" /\ stop /\ UNCHANGED unseen
    BY <1>2 DEF GetTimesOut, GetAgain, Exit, MayExit, ApplyFails, HandlerSeesLedger,
                poolVars, sessionVars
  <2> QED
    BY <2>1 DEF ShutdownOK
<1>3. CASE UsesScope \/ UsesLedger
  BY <1>3 DEF UsesScope, UsesLedger, Uses, ShutdownOK, poolVars, sessionVars
<1>4. CASE SwitchClosesLedger \/ SwitchOpensLedger \/ InitializeLedger
  BY <1>4 DEF SwitchClosesLedger, SwitchOpensLedger, InitializeLedger, HostGoes,
              ShutdownOK, poolVars
<1>5. CASE InitializeWorker
  <2>1. /\ spc = "up" /\ UNCHANGED <<phase, spc, offering, queue>>
        /\ \/ UNCHANGED <<wpc, unseen, stop>>
           \/ wpc' = "wait" /\ stop' = FALSE
    BY <1>5 DEF InitializeWorker, HostGoes, ShutdownOK, poolVars
  <2> QED
    BY <2>1 DEF ShutdownOK
<1>6. CASE ShutdownBegins
  BY <1>6 DEF ShutdownBegins, Pool!ShutdownFlag, ShutdownOK, workerVars, sessionVars
<1>7. CASE ShutdownStops \/ ShutdownFindsWorker
  BY <1>7 DEF ShutdownStops, ShutdownFindsWorker, ShutdownOK, workerVars, poolVars, sessionVars
<1>8. CASE ShutdownPutsSentinel
  <2>1. /\ spc' = "join" /\ spc = "sentinel"
        /\ UNCHANGED <<phase, offering, hpc, wpc, stop, unseen>>
    BY <1>8 DEF ShutdownPutsSentinel, poolVars, workerVars, sessionVars
  <2>2. \A i \in 1..Len(queue) : queue[i] # Sentinel
    BY <2>1 DEF ShutdownOK
  <2>3. /\ \A i \in 1..Len(queue') : queue'[i] = Sentinel => i = Len(queue')
        /\ AllUnseen => AllUnseen'
    <3>1. CASE queue' = Append(queue, Sentinel)
      <4> DEFINE n == Len(queue)
      <4>1. /\ n \in Nat /\ Len(queue') = n + 1 /\ queue'[n + 1] = Sentinel
            /\ \A i \in 1..n : queue'[i] = queue[i]
        BY <3>1 DEF QueueOK
      <4> QED
        BY <2>1, <2>2, <4>1
    <3>2. CASE UNCHANGED queue
      BY <2>1, <2>2, <3>2
    <3> QED
      BY <1>8, <3>1, <3>2 DEF ShutdownPutsSentinel
  <2> QED
    BY <2>1, <2>3 DEF ShutdownOK
<1>9. CASE ShutdownTimesOut \/ ShutdownCloses
  BY <1>9 DEF ShutdownTimesOut, ShutdownCloses, Pool!ShutdownTimesOut,
              Pool!ShutdownCloses, ShutdownOK, workerVars, sessionVars
<1>10. CASE Enter
  BY <1>10 DEF Enter, SwitchScope, InitializeScope, EnterSession, ShutdownOK, workerVars,
               poolVars
<1>11. CASE Offer
  BY <1>11 DEF Offer, ShutdownOK, workerVars, poolVars
<1>12. CASE Put
  <2> DEFINE n == Len(queue)
  <2>1. /\ offering \in Events /\ offering # Sentinel /\ spc = "up" /\ hpc' = hpc
        /\ UNCHANGED <<phase, spc, stop, wpc>> /\ offering' = NoEvent
    BY <1>12 DEF Put, QueueOK, ShutdownOK, poolVars, sessionVars
  <2>2. /\ n \in Nat /\ Len(queue') = n + 1 /\ queue'[n + 1] = offering
        /\ \A i \in 1..n : queue'[i] = queue[i]
    BY <1>12, <2>1 DEF Put, QueueOK
  <2>3. \A i \in 1..Len(queue') : queue'[i] # Sentinel
    BY <2>1, <2>2 DEF ShutdownOK
  <2>4. wpc = "empty" => AllUnseen'
    <3> SUFFICES ASSUME wpc = "empty", NEW i \in 1..(n + 1)
                 PROVE  queue'[i] \in unseen' \cup {Sentinel}
      BY <2>2
    <3>1. unseen' = unseen \cup {offering}
      BY <1>12 DEF Put
    <3> QED
      BY <2>2, <3>1 DEF ShutdownOK
  <2> QED
    BY <2>1, <2>3, <2>4 DEF ShutdownOK
<1>13. CASE PutFull
  BY <1>13 DEF PutFull, ShutdownOK, workerVars, poolVars
<1>14. CASE Take
  <2> DEFINE n == Len(queue)
  <2>1. /\ n \in Nat \ {0} /\ Len(queue') = n - 1
        /\ \A i \in 1..(n - 1) : queue'[i] = queue[i + 1]
        /\ Oldest(queue) = queue[1] /\ queue' \in Seq(Events \cup {Sentinel})
    BY <1>14 DEF Take, QueueOK, Oldest
  <2>2. UNCHANGED <<phase, spc, offering, hpc, stop>> /\ wpc' \in {"apply", "exited"}
    BY <1>14 DEF Take, poolVars, sessionVars
  <2>3. \A i \in 1..Len(queue') :
           queue'[i] = Sentinel => i = Len(queue') /\ Stopped
    <3> SUFFICES ASSUME NEW i \in 1..(n - 1), queue'[i] = Sentinel
                 PROVE  i = n - 1 /\ Stopped
      BY <2>1
    <3>1. i + 1 \in 1..n /\ queue[i + 1] = Sentinel
      BY <2>1
    <3> QED
      BY <2>1, <3>1 DEF ShutdownOK
  <2>4. wpc' = "exited" => Stopping /\ AllUnseen'
    <3> SUFFICES ASSUME wpc' = "exited" PROVE Stopping /\ n = 1
      <4>1. n = 1 => AllUnseen'
        BY <2>1
      <4> QED
        BY <2>2, <4>1
    <3>1. queue[1] = Sentinel
      BY <1>14, <2>1 DEF Take
    <3> QED
      BY <2>1, <3>1 DEF ShutdownOK
  <2> QED
    BY <2>2, <2>3, <2>4 DEF ShutdownOK
<1>15. ASSUME NEW outcome \in Over, NEW next \in {"wait", "died"}, Done(outcome, next)
       PROVE  ShutdownOK'
  BY <1>15 DEF Done, Finish, ShutdownOK, poolVars
<1> QED
  BY <1>1, <1>2, <1>3, <1>4, <1>5, <1>6, <1>7, <1>8, <1>9, <1>10, <1>11, <1>12,
     <1>13, <1>14, <1>15, StepCases DEF Elsewhere

\* Once the worker has left in good order, each write the host offered before it
\* began to shut down is applied, recorded, counted or told to the host, or it was
\* put while the worker, having found the queue empty, had not yet looked at its
\* stop flag: only those may be left behind.
THEOREM WritesAccountedFor == ASSUME ~Overlap PROVE Spec => []Accounted
<1>1. Init => ShutdownOK
  BY DEF Init, Pool!Init, ShutdownOK, Stopping
<1>2. Inv /\ ShutdownOK /\ [Next]_vars => ShutdownOK'
  BY ShutdownStep DEF Inv
<1>3. Inv /\ ShutdownOK => Accounted
  <2> SUFFICES ASSUME Inv, ShutdownOK, wpc = "exited", NEW e \in Events, phase = "closed",
                      e \notin unseen
               PROVE  fate[e] \in Handled \cup {"new", "lost"}
    BY DEF Accounted
  <2>1. AllUnseen /\ offering = NoEvent /\ event = NoEvent
    BY DEF ShutdownOK, Stopping, Inv, QueueOK, Busy
  <2>2. ~Queued(e)
    BY <2>1, EventsAreNumbers DEF Queued, AllUnseen
  <2>3. fate[e] \notin {"queued", "taken", "offered"}
    BY <2>1, <2>2, EventsAreNumbers DEF Inv, OrderOK
  <2> QED
    BY <2>3 DEF Inv, QueueOK, Fates
<1> QED
  BY <1>1, <1>2, <1>3, InvAlways, PTL DEF Spec

-----------------------------------------------------------------------------
(* The worker and the host use the pool only through its own steps, so     *)
(* what is proved of the pool alone holds of it in the provider.           *)

LEMMA PoolSteps == [Next]_vars => [Pool!Next]_poolVars
<1> SUFFICES ASSUME [Next]_vars PROVE [Pool!Next]_poolVars
  OBVIOUS
<1>1. CASE WorkerCalls \/ OthersCall
  BY <1>1, QueueAssumption DEF WorkerCalls, OthersCall, Pool!Next
<1>2. CASE ShutdownBegins \/ ShutdownTimesOut \/ ShutdownCloses
  BY <1>2 DEF ShutdownBegins, ShutdownTimesOut, ShutdownCloses, Pool!Next
<1>3. CASE Host \/ WorkerSteps
  BY <1>3 DEF Host, WorkerSteps, Offer, Put, PutFull, Take, GetTimesOut, GetAgain, Exit,
              UsesScope, UsesLedger, Uses, Apply, ApplyFails, HandlerSeesLedger,
              HandlerCounts, Record, RecordRaises, Finish
<1>5. CASE ShutdownStops \/ ShutdownFindsWorker \/ ShutdownPutsSentinel
  BY <1>5 DEF ShutdownStops, ShutdownFindsWorker, ShutdownPutsSentinel
<1>4. CASE NextSession
  BY <1>4 DEF NextSession, EnterSession, SwitchScope, InitializeScope, HostGoes,
              SwitchClosesLedger, SwitchOpensLedger, InitializeLedger, InitializeWorker
<1> QED
  BY <1>1, <1>2, <1>3, <1>4, <1>5 DEF Next, Shutdown, vars

LEMMA SameRetire ==
  /\ \A c : Pool!Retire(c) => PoolProof!Retire(c)
  /\ Pool!RetireCurrent => PoolProof!RetireCurrent
<1>1. \A c : Pool!Retire(c) => PoolProof!Retire(c)
  BY DEF Pool!Retire, PoolProof!Retire
<1> QED
  BY <1>1 DEF Pool!RetireCurrent, PoolProof!RetireCurrent

\* The pool of the proofs is the pool of the model.
LEMMA SamePool ==
  /\ PoolProof!TypeOK <=> Pool!TypeOK
  /\ Pool!Init => PoolProof!Init
  /\ Pool!Next => PoolProof!Next
<1> USE DEF Pool!Usable, PoolProof!Usable, Pool!Hold, PoolProof!Hold
<1>1. PoolProof!TypeOK <=> Pool!TypeOK
  BY DEF Pool!TypeOK, PoolProof!TypeOK, Pool!Callers, PoolProof!Callers,
         Pool!Cardinality, PoolProof!Cardinality
<1>2. Pool!Init => PoolProof!Init
  BY DEF Pool!Init, PoolProof!Init
<1>3. \A t : Pool!ReadFingerprint(t) => PoolProof!ReadFingerprint(t)
  BY DEF Pool!ReadFingerprint, PoolProof!ReadFingerprint
<1>4. \A t : Pool!AcquireCurrent(t) => PoolProof!AcquireCurrent(t)
  BY DEF Pool!AcquireCurrent, PoolProof!AcquireCurrent
<1>5. \A t : Pool!AcquireNew(t) => PoolProof!AcquireNew(t)
  BY SameRetire DEF Pool!AcquireNew, PoolProof!AcquireNew
<1>6. \A t : Pool!BuildFails(t) => PoolProof!BuildFails(t)
  BY SameRetire DEF Pool!BuildFails, PoolProof!BuildFails
<1>7. \A t : Pool!Answer(t) => PoolProof!Answer(t)
  BY DEF Pool!Answer, PoolProof!Answer
<1>8. \A t : Pool!Drop(t) => PoolProof!Drop(t)
  BY SameRetire DEF Pool!Drop, PoolProof!Drop
<1>9. \A t : Pool!Release(t) => PoolProof!Release(t)
  BY DEF Pool!Release, PoolProof!Release, Pool!LastUse, PoolProof!LastUse
<1>10. /\ Pool!Reconfigure => PoolProof!Reconfigure
       /\ Pool!ShutdownFlag => PoolProof!ShutdownFlag
       /\ Pool!ShutdownTimesOut => PoolProof!ShutdownTimesOut
       /\ Pool!ShutdownCloses => PoolProof!ShutdownCloses
  BY DEF Pool!Reconfigure, PoolProof!Reconfigure, Pool!ShutdownFlag,
         PoolProof!ShutdownFlag, Pool!ShutdownTimesOut, PoolProof!ShutdownTimesOut,
         Pool!ShutdownCloses, PoolProof!ShutdownCloses
<1>11. Pool!Next => PoolProof!Next
  BY <1>3, <1>4, <1>5, <1>6, <1>7, <1>8, <1>9, <1>10
     DEF Pool!Next, PoolProof!Next, Pool!Call, PoolProof!Call
<1> QED
  BY <1>1, <1>2, <1>11

LEMMA PoolUnderQueue == Spec => [](Pool!TypeOK /\ PoolProof!PoolInvariant)
<1>1. Init => PoolProof!Init
  BY SamePool DEF Init
<1>2. [Next]_vars => [PoolProof!Next]_(PoolProof!poolVars)
  BY PoolSteps, SamePool DEF PoolProof!poolVars, poolVars
<1>3. Spec => PoolProof!Spec
  BY <1>1, <1>2, PTL DEF Spec, PoolProof!Spec
<1>4. PoolProof!Spec => [](PoolProof!TypeOK /\ PoolProof!PoolInvariant)
  BY PoolProof!PoolCorrect, QueueAssumption DEF PoolProof!IsFiniteSet, IsFiniteSet
<1>5. PoolProof!TypeOK <=> Pool!TypeOK
  BY SamePool
<1> QED
  BY <1>3, <1>4, <1>5, PTL

\* No call of the worker, the host or a tool runs on a closed client, and no client
\* leaks or is closed twice, whatever the queue, the sessions and shutdown do.
THEOREM PoolSafeUnderQueue == Spec => [](Pool!NeverClosedInUse /\ Pool!ClosedExactlyOnce)
<1>1. Pool!TypeOK /\ PoolProof!PoolInvariant => Pool!NeverClosedInUse
  <2> SUFFICES ASSUME Pool!TypeOK, PoolProof!PoolInvariant, NEW t \in Threads,
                      using[t] # NoClient
               PROVE  closes[using[t]] = 0
    BY DEF Pool!NeverClosedInUse
  <2>1. using[t] \in Clients /\ PoolProof!Callers(using[t]) # {}
    BY DEF Pool!TypeOK, PoolProof!Callers
  <2> QED
    BY <2>1 DEF PoolProof!PoolInvariant
<1>2. Pool!TypeOK /\ PoolProof!PoolInvariant => Pool!ClosedExactlyOnce
  BY DEF Pool!TypeOK, PoolProof!PoolInvariant, Pool!ClosedExactlyOnce,
         Pool!Callers, PoolProof!Callers
<1> QED
  BY <1>1, <1>2, PoolUnderQueue, PTL

\* The rest of TypeOK: the queue within its bound, and calls of the worker only
\* while it applies an event.
QueueTypes ==
    /\ Len(queue) <= QueueSize
    /\ wpc \in {"wait", "empty", "apply", "handler", "recording", "exited", "died"}
    /\ under \subseteq Sessions /\ (under # {} => wpc = "apply")
    /\ unseen \subseteq Events /\ (unseen # {} => wpc \in {"empty", "exited"})
    /\ call[Worker] # "idle" => wpc = "apply"
    /\ stop \in BOOLEAN
    /\ spc \in {"up", "flush", "stopping", "sentinel", "join", "returned"}
    /\ session \in Sessions
    /\ hpc \in {"free", "switched", "closed", "initializing", "starting"}
    /\ origin \in [Events -> Sessions \cup {NoSession}]
    /\ into \in [Events -> Sessions \cup {NoSession, Torn}]
    /\ hasty \subseteq Sessions

LEMMA OthersKeepMine ==
  ASSUME Pool!TypeOK, NEW t \in Threads \ {Worker}, Pool!ReadFingerprint(t) \/ Pool!Call(t)
  PROVE  call'[Worker] = call[Worker]
<1>1. \E s : call' = [call EXCEPT ![t] = s]
  BY DEF Pool!ReadFingerprint, Pool!Call, Pool!AcquireCurrent, Pool!AcquireNew,
         Pool!BuildFails, Pool!Answer, Pool!Drop, Pool!Release, Pool!Hold
<1> QED
  BY <1>1, QueueAssumption DEF Pool!TypeOK

LEMMA QueueTypesStep ==
  ASSUME Pool!TypeOK, QueueOK, SessionOK, QueueTypes, [Next]_vars PROVE QueueTypes'
<1>1. CASE WorkerCalls \/ OthersCall \/ UNCHANGED vars
  <2>1. UNCHANGED queueVars
    BY <1>1 DEF WorkerCalls, OthersCall, vars
  <2>2. call'[Worker] # "idle" => wpc = "apply"
    BY <1>1, OthersKeepMine DEF WorkerCalls, OthersCall, vars, poolVars, QueueTypes
  <2> QED
    BY <2>1, <2>2 DEF QueueTypes, queueVars
<1>2. CASE GetTimesOut \/ GetAgain \/ Exit \/ ApplyFails \/ HandlerSeesLedger
  BY <1>2 DEF GetTimesOut, GetAgain, Exit, MayExit, ApplyFails, HandlerSeesLedger, WorkerAt,
              QueueTypes, poolVars, sessionVars
<1>14. CASE UsesScope \/ UsesLedger
  <2>1. /\ under' \subseteq under \cup {session, LedgerSession} /\ wpc = "apply"
        /\ UsesLedger => under' = under \cup {LedgerSession}
        /\ UsesScope => under' = under \cup {session}
    BY <1>14 DEF UsesScope, UsesLedger, Uses, WorkerAt
  <2>2. UsesLedger => LedgerSession \in Sessions
    BY QueueAssumption DEF LedgerSession, SessionOK, InBetween, Sessions
  <2> QED
    BY <1>14, <2>1, <2>2 DEF UsesScope, UsesLedger, Uses, QueueTypes, poolVars, sessionVars
<1>3. CASE SwitchClosesLedger \/ SwitchOpensLedger \/ InitializeLedger \/ InitializeWorker
  BY <1>3 DEF SwitchClosesLedger, SwitchOpensLedger, InitializeLedger, InitializeWorker,
              HostGoes, WorkerAlive, QueueTypes, poolVars
<1>4. CASE \/ ShutdownBegins \/ ShutdownStops \/ ShutdownFindsWorker \/ ShutdownTimesOut
           \/ ShutdownCloses
  BY <1>4 DEF ShutdownBegins, ShutdownStops, ShutdownFindsWorker, ShutdownTimesOut,
              ShutdownCloses, Pool!ShutdownFlag, Pool!ShutdownTimesOut, Pool!ShutdownCloses,
              QueueTypes, poolVars, workerVars, sessionVars
<1>5. CASE Enter
  <2>1. session' \in Sessions
    BY <1>5, QueueAssumption
       DEF Enter, SwitchScope, InitializeScope, EnterSession, QueueTypes, Sessions
  <2>2. hasty' \subseteq Sessions
    BY <1>5 DEF Enter, SwitchScope, InitializeScope, EnterSession, QueueTypes
  <2> QED
    BY <1>5, <2>1, <2>2
       DEF Enter, SwitchScope, InitializeScope, EnterSession, QueueTypes, workerVars, poolVars
<1>6. CASE Offer
  <2>1. origin' \in [Events -> Sessions \cup {NoSession}]
    BY <1>6 DEF Offer, QueueTypes
  <2> QED
    BY <1>6, <2>1 DEF Offer, QueueTypes, workerVars, poolVars
<1>7. CASE Put
  <2>1. Len(queue') = Len(queue) + 1 /\ Len(queue) \in Nat
    BY <1>7 DEF Put, QueueOK
  <2>2. Len(queue') <= QueueSize
    BY <1>7, <2>1, QueueAssumption DEF Put, HasRoom
  <2>3. unseen' \subseteq Events /\ (unseen' # {} => wpc' \in {"empty", "exited"})
    BY <1>7 DEF Put, QueueOK, QueueTypes
  <2> QED
    BY <1>7, <2>2, <2>3 DEF Put, QueueTypes, poolVars, sessionVars
<1>8. Place \in Sessions \cup {NoSession, Torn}
  BY PlaceOfOne DEF Place
<1>9. CASE PutFull
  <2>1. into' \in [Events -> Sessions \cup {NoSession, Torn}]
    BY <1>8, <1>9 DEF PutFull, QueueTypes
  <2> QED
    BY <1>9, <2>1 DEF PutFull, QueueTypes, workerVars, poolVars
<1>10. CASE Take
  <2>1. Len(queue') = Len(queue) - 1 /\ Len(queue) \in Nat
    BY <1>10 DEF Take, QueueOK
  <2>2. Len(queue') <= QueueSize
    BY <2>1, QueueAssumption DEF QueueTypes
  <2> QED
    BY <1>10, <2>2 DEF Take, WorkerAt, QueueTypes, poolVars, sessionVars
<1>11. CASE ShutdownPutsSentinel
  <2>1. Len(queue') <= QueueSize
    <3>1. CASE HasRoom /\ queue' = Append(queue, Sentinel)
      <4>1. Len(queue') = Len(queue) + 1 /\ Len(queue) \in Nat
        BY <3>1 DEF QueueOK
      <4> QED
        BY <3>1, <4>1, QueueAssumption DEF HasRoom
    <3>2. CASE UNCHANGED queue
      BY <3>2 DEF QueueTypes
    <3> QED
      BY <1>11, <3>1, <3>2 DEF ShutdownPutsSentinel
  <2> QED
    BY <1>11, <2>1 DEF ShutdownPutsSentinel, QueueTypes, poolVars, workerVars, sessionVars
<1>12. ASSUME WorkerAt(wpc), NEW outcome, NEW next \in {"wait", "died"},
              Done(outcome, next)
       PROVE  QueueTypes'
  <2>1. event \in Events
    BY <1>12 DEF Done, QueueOK
  <2>2. PlaceFor(outcome) \in Sessions \cup {NoSession, Torn}
    BY <1>8, <2>1, PlaceOfOne DEF PlaceFor, QueueTypes
  <2>3. into' \in [Events -> Sessions \cup {NoSession, Torn}]
    BY <1>12, <2>2 DEF Done, Finish, QueueTypes
  <2>4. ~(wpc \in {"empty", "exited"}) /\ unseen = {}
    BY <1>12 DEF Done, Busy, QueueTypes
  <2> QED
    BY <1>12, <2>3, <2>4 DEF Done, Finish, WorkerAt, QueueTypes, poolVars
<1>13. CASE Apply \/ HandlerCounts \/ Record \/ RecordRaises
  BY <1>12, <1>13 DEF Apply, HandlerCounts, Record, RecordRaises, WorkerAt, Done, PlaceFor,
                     Busy
<1> QED
  BY <1>1, <1>2, <1>3, <1>4, <1>5, <1>6, <1>7, <1>9, <1>10, <1>11, <1>13, <1>14
     DEF Next, Host, NextSession, WorkerSteps, Shutdown, Enter

\* The queue never outgrows its maxsize, the worker calls the database only while it
\* applies an event, and the pool counts its calls right under both.
THEOREM QueueTypesCorrect == Spec => []TypeOK
<1>1. Init => QueueTypes
  <2> SUFFICES ASSUME Init PROVE QueueTypes
    OBVIOUS
  <2>1. Len(queue) <= QueueSize /\ session \in Sessions
    BY QueueAssumption DEF Init, Sessions
  <2>2. call[Worker] = "idle"
    BY QueueAssumption DEF Init, Pool!Init
  <2> QED
    BY <2>1, <2>2 DEF Init, QueueTypes
<1>2. Inv /\ Pool!TypeOK /\ QueueTypes /\ [Next]_vars => QueueTypes'
  BY QueueTypesStep DEF Inv
<1>3. Inv /\ Pool!TypeOK /\ QueueTypes => TypeOK
  BY DEF Inv, QueueOK, QueueTypes, TypeOK
<1> QED
  BY <1>1, <1>2, <1>3, InvAlways, PoolUnderQueue, PTL DEF Spec
=============================================================================
