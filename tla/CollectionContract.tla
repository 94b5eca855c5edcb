------------------------- MODULE CollectionContract -------------------------
(***************************************************************************)
(* What the provider knows of its backend: health, and whether the         *)
(* collection was verified to have the configured metric and dimension.    *)
(* The host initializes sessions, tools verify on demand, the worker marks *)
(* errors, all without a lock, while the backend comes and goes; a session *)
(* that was verified starts the event observer, and shutdown stops it.     *)
(*                                                                         *)
(* Abstracted: which RPC tells the metric and the dimension.  The answer   *)
(* is what the backend is when it is asked.                                *)
(***************************************************************************)
EXTENDS EventObserver

CONSTANTS
    Tools,       \* threads that run tools
    MaxChanges   \* bound on changes of the backend and on refused writes

ASSUME ContractAssumption == MaxChanges \in Nat

VARIABLES
    backend,    \* what an RPC finds, one of Answers
    matched,    \* has the collection ever been the configured one?
    verified,   \* _collection_contract_verified
    health,     \* _health
    hpc,        \* step of the host: of initialize or shutdown
    tpc,        \* per tool: its step
    saw,        \* per thread: the answer in its hands
    changes     \* changes spent

contractVars == <<backend, matched, verified, health, hpc, tpc, saw, changes>>
vars == <<contractVars, observerVars>>

Host == "host"   \* the thread that calls initialize and shutdown

\* "silent": nothing in the stats, the list of collections or a stored point
\* tells the metric and the dimension.
Answers == {"match", "mismatch", "silent", "down"}

\* Plausible slips, put in place of the operator that follows.
MutSilenceIsConsent(a) == a \in {"match", "silent"}
Proves(a) == a = "match"
MutErrorSticks == IF health = "CONFIGURATION_ERROR" THEN health ELSE "SERVING"
HealthWhenServed == "SERVING"

-----------------------------------------------------------------------------
Init ==
    /\ ObserverInit
    /\ backend \in Answers
    /\ matched = (backend = "match")
    /\ verified = FALSE
    /\ health = "NOT_PROBED"
    /\ hpc = "free"
    /\ tpc = [t \in Tools |-> "free"]
    /\ saw = [t \in Tools \cup {Host} |-> "down"]
    /\ changes = 0

\* _verify_collection_contract, from the answer in hand; an RPC that failed has
\* only marked its error.
Verify(a) ==
    /\ verified' = (IF a = "down" THEN verified ELSE Proves(a))
    /\ health' = CASE a = "match"    -> health
                   [] a = "mismatch" -> "CONFIGURATION_ERROR"
                   [] OTHER          -> "DEGRADED"

\* _mark_error of what came of the answer: a ConfigurationError takes the
\* verification back, a BackendMalformed changes nothing.
Mark(a) ==
    /\ verified' = (IF a = "mismatch" THEN FALSE ELSE verified)
    /\ health' = CASE a = "mismatch" -> "CONFIGURATION_ERROR"
                   [] a = "down"     -> "DEGRADED"
                   [] OTHER          -> health

Ask(t) == saw' = [saw EXCEPT ![t] = backend]

(* initialize *)

HostGoes(from, to) ==
    /\ hpc = from
    /\ hpc' = to
    /\ UNCHANGED <<backend, matched, tpc, changes>>

Initialize ==
    /\ HostGoes("free", "probe")
    /\ verified' = FALSE
    /\ UNCHANGED <<health, saw, observerVars>>

\* _probe_health: the RPC, then the new health; an error ends the probing.
AskHealth ==
    /\ HostGoes("probe", "probed")
    /\ Ask(Host)
    /\ UNCHANGED <<verified, health, observerVars>>

Probed ==
    /\ HostGoes("probed", IF saw[Host] = "down" THEN "mark" ELSE "require")
    /\ health' = IF saw[Host] = "down" THEN "DEGRADED" ELSE HealthWhenServed
    /\ UNCHANGED <<verified, saw, observerVars>>

\* _require_collection_contract, of initialize and of the pass over deletes it
\* starts; an error there only ends that pass.
HostRequire ==
    /\ \/ HostGoes("require", IF verified THEN "decide" ELSE "verify")
       \/ HostGoes("pass", IF verified THEN "passes" ELSE "verify_again")
    /\ IF verified THEN saw' = saw ELSE Ask(Host)
    /\ UNCHANGED <<verified, health, observerVars>>

HostVerify ==
    /\ \/ HostGoes("verify", IF Proves(saw[Host]) THEN "decide" ELSE "mark")
       \/ HostGoes("verify_again", "passes")
    /\ Verify(saw[Host])
    /\ UNCHANGED <<saw, observerVars>>

\* initialize catches the error and marks it once more.
HostMark ==
    /\ HostGoes("mark", "decide")
    /\ Mark(saw[Host])
    /\ UNCHANGED <<saw, observerVars>>

\* Not verified: the session goes on without the observer.
HostDecide ==
    /\ HostGoes("decide", IF verified THEN "pass" ELSE "free")
    /\ UNCHANGED <<verified, health, saw, observerVars>>

\* An RPC of the two reconcile passes fails; the pass goes on.
HostPassFails ==
    /\ HostGoes("passes", "passes")
    /\ backend = "down"
    /\ health' = "DEGRADED"
    /\ UNCHANGED <<verified, saw, observerVars>>

\* The passes are over, or this session makes none: the verification is not looked
\* at again.
HostObserve ==
    /\ HostGoes("pass", "free") \/ HostGoes("passes", "free")
    /\ Start
    /\ UNCHANGED <<verified, health, saw>>

(* shutdown, as far as the observer goes *)

HostShutdown ==
    /\ HostGoes("free", "shutdown")
    /\ StopFlag
    /\ UNCHANGED <<verified, health, saw>>

HostStops == Stop /\ UNCHANGED contractVars

(* A tool that needs the contract; it takes no lock. *)

ToolGoes(t, from, to) ==
    /\ tpc[t] = from
    /\ tpc' = [tpc EXCEPT ![t] = to]
    /\ UNCHANGED <<backend, matched, hpc, changes, observerVars>>

ToolRequire(t) ==
    /\ ~verified
    /\ ToolGoes(t, "free", "verify")
    /\ Ask(t)
    /\ UNCHANGED <<verified, health>>

ToolVerify(t) ==
    /\ ToolGoes(t, "verify", "free")
    /\ Verify(saw[t])
    /\ UNCHANGED saw

\* hyperspace_status probes the health, whatever is verified: the RPC, then the
\* new health.
ToolAskHealth(t) ==
    /\ ToolGoes(t, "free", "status")
    /\ Ask(t)
    /\ UNCHANGED <<verified, health>>

ToolProbed(t) ==
    /\ ToolGoes(t, "status", "free")
    /\ health' = IF saw[t] = "down" THEN "DEGRADED" ELSE HealthWhenServed
    /\ UNCHANGED <<verified, saw>>

\* A write the provider itself refuses (no content, too long) is a
\* ConfigurationError too, which the worker marks.
RefuseWrite ==
    /\ changes < MaxChanges /\ changes' = changes + 1
    /\ verified' = FALSE
    /\ health' = "CONFIGURATION_ERROR"
    /\ UNCHANGED <<backend, matched, hpc, tpc, saw, observerVars>>

BackendChanges ==
    /\ changes < MaxChanges /\ changes' = changes + 1
    /\ backend' \in Answers \ {backend}
    /\ matched' = (matched \/ backend' = "match")
    /\ UNCHANGED <<verified, health, hpc, tpc, saw, observerVars>>

InitializeSteps ==
    \/ AskHealth \/ Probed \/ HostRequire \/ HostVerify \/ HostMark
    \/ HostDecide \/ HostObserve

ToolAnswered(t) == ToolVerify(t) \/ ToolProbed(t)

ToolSteps(t) == ToolRequire(t) \/ ToolAskHealth(t) \/ ToolAnswered(t)

Observe == (Loop \/ Listen) /\ UNCHANGED contractVars

Next ==
    \/ Initialize \/ InitializeSteps \/ HostPassFails
    \/ HostShutdown \/ HostStops
    \/ \E t \in Tools : ToolSteps(t)
    \/ RefuseWrite \/ BackendChanges
    \/ Observe

Spec == Init /\ [][Next]_vars

\* Threads are scheduled; RPCs return within their deadlines, and so does the
\* stream, on which _DeadlineStubProxy puts one as on any call of a stub; a pass
\* has a bounded number of RPCs; and the host begins a session again and again
\* until it shuts down.
FairSpec ==
    /\ Spec
    /\ WF_vars(InitializeSteps) /\ WF_vars(Initialize) /\ WF_vars(HostStops)
    /\ \A t \in Tools : WF_vars(ToolAnswered(t))
    /\ WF_vars(Loop /\ UNCHANGED contractVars)
    /\ WF_vars(Listen /\ UNCHANGED contractVars)

-----------------------------------------------------------------------------
TypeOK ==
    /\ ObserverTypeOK
    /\ backend \in Answers /\ matched \in BOOLEAN /\ verified \in BOOLEAN
    /\ health \in {"NOT_PROBED", "SERVING", "DEGRADED", "CONFIGURATION_ERROR"}
    /\ hpc \in {"free", "probe", "probed", "require", "verify", "mark",
                "decide", "pass", "verify_again", "passes", "shutdown"}
    /\ tpc \in [Tools -> {"free", "verify", "status"}]
    /\ saw \in [Tools \cup {Host} -> Answers]
    /\ changes \in 0..MaxChanges

\* A collection that was never seen to match is never taken as verified, nor
\* observed: not by silence, not by a stale answer, not by who asked first
\* (README: "Dimension or metric mismatch | Fail startup initialization").
NeverUnproved == ~matched => ~verified /\ ~Alive

\* A session recovers once the backend returns for good: however late errors
\* and stale answers arrive, a later initialize finds the provider verified and
\* serving (README: "no agent restart required").
Recovers ==
    <>[](backend = "match" /\ hpc # "shutdown")
       => []<>(verified /\ health = "SERVING")

\* The observer's thread ends after shutdown, whichever step it was at when the
\* flag was raised: also if it subscribes after stop found nothing to close.
ObserverEnds == hpc = "shutdown" ~> ~Alive
=============================================================================
