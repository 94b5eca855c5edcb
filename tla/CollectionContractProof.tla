---------------------- MODULE CollectionContractProof ----------------------
(***************************************************************************)
(* Types, what the provider takes as verified, and the observer's clients, *)
(* for any number of tools and clients and any number of changes of the    *)
(* backend.                                                                *)
(***************************************************************************)
EXTENDS CollectionContract, TLAPS

\* Whatever says "match" was told so by the backend once.
ProofOK ==
    /\ backend = "match" => matched
    /\ \A t \in Tools \cup {Host} : saw[t] = "match" => matched
    /\ verified => matched
    /\ hpc \in {"pass", "verify_again", "passes"} => matched
    /\ Alive => matched

\* Who may still need _event_client: the loop knows of none before it builds one,
\* and once the flag is up it builds no other behind the back of the stop.
ObserverOK ==
    /\ made \subseteq closed \cup {eventClient}
    /\ thread \in {"none", "test", "build"} => eventClient = NoClient
    /\ thread = "forget" => eventClient \in closed \cup {NoClient}
    /\ stopping # "no" => eventStop /\ hpc = "shutdown"
    /\ stopping \in {"close", "forget"} => thread # "build"
    /\ stopping = "forget" => eventClient \in closed \cup {NoClient}

-----------------------------------------------------------------------------
\* The verification and the health that come of an answer.
LEMMA VerifyOutcome ==
  ASSUME TypeOK, NEW a \in Answers, Verify(a) \/ Mark(a)
  PROVE  /\ verified' \in BOOLEAN
         /\ verified' => verified \/ a = "match"
         /\ health' \in {"NOT_PROBED", "SERVING", "DEGRADED", "CONFIGURATION_ERROR"}
<1>1. verified \in BOOLEAN
      /\ health \in {"NOT_PROBED", "SERVING", "DEGRADED", "CONFIGURATION_ERROR"}
  BY DEF TypeOK
<1>2. CASE a = "match"
  BY <1>1, <1>2 DEF Verify, Mark, Proves
<1>3. CASE a = "mismatch"
  BY <1>1, <1>3 DEF Verify, Mark, Proves
<1>4. CASE a = "silent"
  BY <1>1, <1>4 DEF Verify, Mark, Proves
<1>5. CASE a = "down"
  BY <1>1, <1>5 DEF Verify, Mark, Proves
<1> QED
  BY <1>2, <1>3, <1>4, <1>5 DEF Answers

LEMMA TypeInit == Init => TypeOK
<1> SUFFICES ASSUME Init PROVE TypeOK
  OBVIOUS
<1>1. ObserverTypeOK
  BY DEF Init, ObserverInit, ObserverTypeOK
<1>2. matched \in BOOLEAN
  BY DEF Init
<1>3. changes \in 0..MaxChanges
  BY ContractAssumption DEF Init
<1> QED
  BY <1>1, <1>2, <1>3 DEF Init, TypeOK, Answers

LEMMA TypeStep == TypeOK /\ [Next]_vars => TypeOK'
<1> SUFFICES ASSUME TypeOK, [Next]_vars PROVE TypeOK'
  OBVIOUS
<1>0. ASSUME UNCHANGED observerVars PROVE ObserverTypeOK'
  BY <1>0 DEF TypeOK, ObserverTypeOK, observerVars
<1>1. CASE Initialize
  BY <1>0, <1>1 DEF TypeOK, Initialize, HostGoes
<1>2. CASE AskHealth \/ Probed \/ HostRequire
  BY <1>0, <1>2 DEF TypeOK, AskHealth, Probed, HostRequire, HostGoes, Ask, HealthWhenServed
<1>3. CASE HostVerify \/ HostMark
  <2>1. saw[Host] \in Answers
    BY DEF TypeOK
  <2>2. /\ verified' \in BOOLEAN
        /\ health' \in {"NOT_PROBED", "SERVING", "DEGRADED", "CONFIGURATION_ERROR"}
    BY <1>3, <2>1, VerifyOutcome DEF HostVerify, HostMark
  <2> QED
    BY <1>0, <1>3, <2>2 DEF TypeOK, HostVerify, HostMark, HostGoes
<1>4. CASE HostDecide \/ HostPassFails
  BY <1>0, <1>4 DEF TypeOK, HostDecide, HostPassFails, HostGoes
<1>11. CASE HostObserve
  <2>1. ObserverTypeOK'
    BY <1>11 DEF TypeOK, HostObserve, Start, clientVars, ObserverTypeOK
  <2> QED
    BY <1>11, <2>1 DEF TypeOK, HostObserve, HostGoes
<1>5. CASE HostShutdown
  <2>1. ObserverTypeOK'
    BY <1>5 DEF TypeOK, HostShutdown, StopFlag, StopGoes, clientVars, ObserverTypeOK
  <2> QED
    BY <1>5, <2>1 DEF TypeOK, HostShutdown, HostGoes
<1>6. CASE HostStops
  <2>1. ObserverTypeOK'
    BY <1>6 DEF TypeOK, HostStops, Stop, StopTest, StopClose, StopForget, StopReturns,
                StopGoes, CloseCurrent, clientVars, ObserverTypeOK
  <2> QED
    BY <1>6, <2>1 DEF TypeOK, HostStops, contractVars
<1>7. ASSUME NEW t \in Tools, ToolSteps(t) PROVE TypeOK'
  <2>1. CASE ToolRequire(t)
    BY <1>0, <2>1 DEF TypeOK, ToolRequire, ToolGoes, Ask
  <2>2. CASE ToolVerify(t)
    <3>1. saw[t] \in Answers
      BY DEF TypeOK
    <3>2. /\ verified' \in BOOLEAN
          /\ health' \in {"NOT_PROBED", "SERVING", "DEGRADED", "CONFIGURATION_ERROR"}
      BY <2>2, <3>1, VerifyOutcome DEF ToolVerify
    <3> QED
      BY <1>0, <2>2, <3>2 DEF TypeOK, ToolVerify, ToolGoes
  <2>3. CASE ToolAskHealth(t)
    BY <1>0, <2>3 DEF TypeOK, ToolAskHealth, ToolGoes, Ask
  <2>4. CASE ToolProbed(t)
    BY <1>0, <2>4 DEF TypeOK, ToolProbed, ToolGoes, HealthWhenServed
  <2> QED
    BY <1>7, <2>1, <2>2, <2>3, <2>4 DEF ToolSteps, ToolAnswered
<1>8. CASE RefuseWrite \/ BackendChanges
  <2>1. changes' \in 0..MaxChanges
    BY <1>8, ContractAssumption DEF TypeOK, RefuseWrite, BackendChanges
  <2>2. matched' \in BOOLEAN
    BY <1>8 DEF TypeOK, RefuseWrite, BackendChanges
  <2> QED
    BY <1>0, <1>8, <2>1, <2>2 DEF TypeOK, RefuseWrite, BackendChanges
<1>9. CASE Observe
  <2>1. ObserverTypeOK'
    BY <1>9 DEF TypeOK, Observe, Loop, Listen, LoopTest, Build, BuildFails, Subscribe,
                NoStream, FinallyTest, FinallyClose, FinallyForget, EventArrives,
                StreamEnds, ThreadGoes, AfterFinally, StopSeen, CloseCurrent, clientVars,
                ObserverTypeOK
  <2> QED
    BY <1>9, <2>1 DEF TypeOK, Observe, contractVars
<1>10. CASE UNCHANGED vars
  BY <1>0, <1>10 DEF TypeOK, vars, contractVars
<1> QED
  BY <1>1, <1>2, <1>3, <1>4, <1>5, <1>6, <1>7, <1>8, <1>9, <1>10, <1>11
  DEF Next, InitializeSteps

-----------------------------------------------------------------------------
LEMMA ProofInit == Init => ProofOK
BY DEF Init, ObserverInit, ProofOK, Alive

LEMMA ProofStep == TypeOK /\ ProofOK /\ [Next]_vars => ProofOK'
<1> SUFFICES ASSUME TypeOK, ProofOK, [Next]_vars PROVE ProofOK'
  OBVIOUS
<1>0. saw \in [Tools \cup {Host} -> Answers]
  BY DEF TypeOK
<1> USE DEF ProofOK, Alive
<1>1. CASE Initialize \/ AskHealth \/ Probed \/ HostRequire
  BY <1>0, <1>1 DEF Initialize, AskHealth, Probed, HostRequire, HostGoes, Ask, observerVars
<1>2. CASE HostVerify \/ HostMark
  <2>1. verified' => verified \/ saw[Host] = "match"
    BY <1>0, <1>2, VerifyOutcome DEF HostVerify, HostMark
  <2> QED
    BY <1>2, <2>1 DEF HostVerify, HostMark, HostGoes, observerVars
<1>3. CASE HostDecide \/ HostPassFails \/ HostObserve
  BY <1>3 DEF HostDecide, HostPassFails, HostObserve, HostGoes, Start, observerVars
<1>4. CASE HostShutdown \/ HostStops
  BY <1>4 DEF HostShutdown, HostStops, HostGoes, StopFlag, Stop, StopTest, StopClose,
              StopForget, StopReturns, StopGoes, contractVars
<1>5. ASSUME NEW t \in Tools, ToolSteps(t) PROVE ProofOK'
  <2>1. CASE ToolRequire(t)
    BY <1>0, <2>1 DEF ToolRequire, ToolGoes, Ask, observerVars
  <2>2. CASE ToolVerify(t)
    <3>1. verified' => verified \/ saw[t] = "match"
      BY <1>0, <2>2, VerifyOutcome DEF ToolVerify
    <3> QED
      BY <2>2, <3>1 DEF ToolVerify, ToolGoes, observerVars
  <2>3. CASE ToolAskHealth(t)
    BY <1>0, <2>3 DEF ToolAskHealth, ToolGoes, Ask, observerVars
  <2>4. CASE ToolProbed(t)
    BY <2>4 DEF ToolProbed, ToolGoes, observerVars
  <2> QED
    BY <1>5, <2>1, <2>2, <2>3, <2>4 DEF ToolSteps, ToolAnswered
<1>6. CASE RefuseWrite
  BY <1>6 DEF RefuseWrite, observerVars
<1>7. CASE BackendChanges
  <2>1. (matched => matched') /\ (backend' = "match" => matched')
    BY <1>7 DEF BackendChanges
  <2>2. UNCHANGED <<verified, saw, hpc, thread>>
    BY <1>7 DEF BackendChanges, observerVars
  <2> QED
    BY <2>1, <2>2
<1>8. CASE Observe
  BY <1>8 DEF Observe, Loop, Listen, LoopTest, Build, BuildFails, Subscribe, NoStream,
              FinallyTest, FinallyClose, FinallyForget, EventArrives, StreamEnds,
              ThreadGoes, contractVars
<1>9. CASE UNCHANGED vars
  BY <1>9 DEF vars, contractVars, observerVars
<1> QED
  BY <1>1, <1>2, <1>3, <1>4, <1>5, <1>6, <1>7, <1>8, <1>9 DEF Next, InitializeSteps

-----------------------------------------------------------------------------
LEMMA ObserverOKInit == Init => ObserverOK
BY DEF Init, ObserverInit, ObserverOK

\* Steps that leave the observer alone: only the host's begin of a shutdown, which
\* is not one of them, leaves its place there.
LEMMA ObserverUntouched ==
  ASSUME ObserverOK, UNCHANGED observerVars, hpc = "shutdown" => hpc' = "shutdown"
  PROVE  ObserverOK'
BY DEF ObserverOK, observerVars

LEMMA ObserverStep == TypeOK /\ ObserverOK /\ [Next]_vars => ObserverOK'
<1> SUFFICES ASSUME TypeOK, ObserverOK, [Next]_vars PROVE ObserverOK'
  OBVIOUS
<1>0. NoClient \notin made /\ eventClient \in made \cup {NoClient}
  BY ObserverAssumption DEF TypeOK, ObserverTypeOK
<1>1. CASE \/ Initialize \/ AskHealth \/ Probed \/ HostRequire \/ HostVerify
           \/ HostMark \/ HostDecide \/ HostPassFails
  BY <1>1, ObserverUntouched
  DEF Initialize, AskHealth, Probed, HostRequire, HostVerify, HostMark, HostDecide,
      HostPassFails, HostGoes
<1>2. CASE HostObserve
  <2>1. stopping = "no"
    BY <1>2 DEF HostObserve, HostGoes, ObserverOK
  <2>2. Start
    BY <1>2 DEF HostObserve
  <2> QED
    BY <2>1, <2>2 DEF Start, clientVars, Alive, ObserverOK
<1>3. CASE HostShutdown
  BY <1>3 DEF HostShutdown, HostGoes, StopFlag, StopGoes, clientVars, ObserverOK
<1>4. CASE HostStops
  <2>1. UNCHANGED <<thread, hpc>>
    BY <1>4 DEF HostStops, Stop, StopTest, StopClose, StopForget, StopReturns, StopGoes,
                contractVars
  <2>2. CASE StopTest
    BY <1>0, <2>1, <2>2 DEF StopTest, StopGoes, clientVars, ObserverOK
  <2>3. CASE StopClose
    BY <1>0, <2>1, <2>3 DEF StopClose, StopGoes, CloseCurrent, ObserverOK
  <2>4. CASE StopForget
    BY <1>0, <2>1, <2>4 DEF StopForget, StopGoes, ObserverOK
  <2>5. CASE StopReturns
    BY <2>1, <2>5 DEF StopReturns, StopGoes, clientVars, ObserverOK
  <2> QED
    BY <1>4, <2>2, <2>3, <2>4, <2>5 DEF HostStops, Stop
<1>5. ASSUME NEW t \in Tools, ToolSteps(t) PROVE ObserverOK'
  BY <1>5, ObserverUntouched
  DEF ToolSteps, ToolAnswered, ToolRequire, ToolVerify, ToolAskHealth, ToolProbed,
      ToolGoes
<1>6. CASE RefuseWrite \/ BackendChanges
  BY <1>6, ObserverUntouched DEF RefuseWrite, BackendChanges
<1>7. CASE Observe
  <2>1. UNCHANGED <<hpc, eventStop, stopping>>
    BY <1>7 DEF Observe, Loop, Listen, LoopTest, Build, BuildFails, Subscribe, NoStream,
                FinallyTest, FinallyClose, FinallyForget, EventArrives, StreamEnds,
                ThreadGoes, contractVars
  <2>2. CASE LoopTest
    BY <2>1, <2>2 DEF LoopTest, ThreadGoes, StopSeen, clientVars, ObserverOK
  <2>3. CASE Build
    BY <1>0, <2>1, <2>3 DEF Build, ThreadGoes, ObserverOK
  <2>4. CASE BuildFails \/ NoStream \/ StreamEnds \/ EventArrives
    BY <2>1, <2>4 DEF BuildFails, NoStream, StreamEnds, EventArrives, ThreadGoes,
                      clientVars, ObserverOK
  <2>5. CASE Subscribe
    BY <2>1, <2>5 DEF Subscribe, ThreadGoes, ObserverOK
  <2>6. CASE FinallyTest
    BY <2>1, <2>6 DEF FinallyTest, ThreadGoes, AfterFinally, clientVars, ObserverOK
  <2>7. CASE FinallyClose
    BY <1>0, <2>1, <2>7 DEF FinallyClose, ThreadGoes, CloseCurrent, ObserverOK
  <2>8. CASE FinallyForget
    BY <1>0, <2>1, <2>8 DEF FinallyForget, ThreadGoes, AfterFinally, ObserverOK
  <2> QED
    BY <1>7, <2>2, <2>3, <2>4, <2>5, <2>6, <2>7, <2>8 DEF Observe, Loop, Listen
<1>8. CASE UNCHANGED vars
  BY <1>8, ObserverUntouched DEF vars, contractVars
<1> QED
  BY <1>1, <1>2, <1>3, <1>4, <1>5, <1>6, <1>7, <1>8 DEF Next, InitializeSteps

-----------------------------------------------------------------------------
\* Type correctness of initialize, the tools' verification, _mark_error and the
\* observer's thread.
THEOREM ContractTypes == Spec => []TypeOK
BY TypeInit, TypeStep, PTL DEF Spec

\* No order of initialize, tools, refused writes and late answers makes the provider
\* take a collection as verified, or observe it, that never matched.
THEOREM ContractNeverUnproved == Spec => []NeverUnproved
<1>1. ProofOK => NeverUnproved
  BY DEF ProofOK, NeverUnproved
<1> QED
  BY <1>1, ContractTypes, ProofInit, ProofStep, PTL DEF Spec

\* _event_observer_loop and _stop_event_observer forget no client unclosed,
\* although they share _event_client without a lock.
THEOREM ObserverLeaksNothing == Spec => []NoStreamLeaks
<1>1. TypeOK /\ ObserverOK => NoStreamLeaks
  BY ObserverAssumption DEF TypeOK, ObserverTypeOK, ObserverOK, NoStreamLeaks, Alive
<1> QED
  BY <1>1, ContractTypes, ObserverOKInit, ObserverStep, PTL DEF Spec
=============================================================================
