--------------------------- MODULE EventObserver ---------------------------
(***************************************************************************)
(* The event observer: a thread with a client of its own that listens to   *)
(* the collection's stream, and the host that starts and stops it.  Both   *)
(* test, close and forget the one field _event_client, without a lock.     *)
(*                                                                         *)
(* Abstracted: the events, and what _ingest_event keeps of them.           *)
(***************************************************************************)
EXTENDS Integers

CONSTANTS
    Clients,    \* client objects the observer can build (bound)
    NoClient    \* None

ASSUME ObserverAssumption == NoClient \notin Clients

VARIABLES
    eventStop,    \* _event_stop
    eventClient,  \* _event_client
    thread,       \* step of _event_observer_loop, "none" when it is not alive
    leaving,      \* has the loop been left by a break?
    stream,       \* the client whose stream the thread reads
    made,         \* client objects that exist
    closed,       \* those that were closed
    stopping      \* step of _stop_event_observer

observerVars == <<eventStop, eventClient, thread, leaving, stream, made,
                  closed, stopping>>
clientVars == <<eventClient, stream, made, closed>>

Alive == thread # "none"

\* Plausible slips, put in place of the operator that follows.
MutClosesNothing == closed
MutClosesNone == closed \cup {eventClient}
CloseCurrent == closed \cup ({eventClient} \ {NoClient})
MutListensOn == FALSE
StopSeen == eventStop

-----------------------------------------------------------------------------
ObserverInit ==
    /\ eventStop = FALSE
    /\ eventClient = NoClient
    /\ thread = "none"
    /\ leaving = FALSE
    /\ stream = NoClient
    /\ made = {}
    /\ closed = {}
    /\ stopping = "no"

\* _start_event_observer: a thread that is alive is left alone, stopped or not.
Start ==
    /\ IF Alive THEN UNCHANGED <<eventStop, thread, leaving>>
                ELSE eventStop' = FALSE /\ thread' = "test" /\ leaving' = FALSE
    /\ UNCHANGED <<clientVars, stopping>>

(* _event_observer_loop *)

ThreadGoes(from, to) == thread = from /\ thread' = to /\ UNCHANGED <<eventStop, stopping>>

LoopTest ==
    /\ ThreadGoes("test", IF StopSeen THEN "none" ELSE "build")
    /\ UNCHANGED <<clientVars, leaving>>

Build ==
    /\ ThreadGoes("build", "subscribe")
    /\ \E c \in Clients \ made : made' = made \cup {c} /\ eventClient' = c
    /\ UNCHANGED <<stream, closed, leaving>>

BuildFails ==
    /\ ThreadGoes("build", "finally")
    /\ UNCHANGED <<clientVars, leaving>>

Subscribe ==
    /\ eventClient # NoClient
    /\ ThreadGoes("subscribe", "listen")
    /\ stream' = eventClient
    /\ UNCHANGED <<eventClient, made, closed, leaving>>

\* The client was taken away meanwhile, or knows no streams: break.
NoStream ==
    /\ ThreadGoes("subscribe", "finally")
    /\ leaving' = TRUE
    /\ UNCHANGED clientVars

\* An event is ingested, unless the stop flag is up: then the thread leaves the
\* stream, and the loop when it tests the flag again.
EventArrives ==
    /\ stream \notin closed
    /\ ThreadGoes("listen", IF StopSeen THEN "finally" ELSE "listen")
    /\ UNCHANGED <<clientVars, leaving>>

\* The stream ends or raises, as it does once its client is closed.
StreamEnds ==
    /\ ThreadGoes("listen", "finally")
    /\ UNCHANGED <<clientVars, leaving>>

AfterFinally == IF leaving THEN "none" ELSE "test"

FinallyTest ==
    /\ ThreadGoes("finally", IF eventClient = NoClient THEN AfterFinally ELSE "close")
    /\ UNCHANGED <<clientVars, leaving>>

FinallyClose ==
    /\ ThreadGoes("close", "forget")
    /\ closed' = CloseCurrent
    /\ UNCHANGED <<eventClient, stream, made, leaving>>

FinallyForget ==
    /\ ThreadGoes("forget", AfterFinally)
    /\ eventClient' = NoClient
    /\ UNCHANGED <<stream, made, closed, leaving>>

(* _stop_event_observer *)

StopGoes(from, to) == stopping = from /\ stopping' = to /\ UNCHANGED <<thread, leaving>>

StopFlag ==
    /\ StopGoes("no", "test")
    /\ eventStop' = TRUE
    /\ UNCHANGED clientVars

StopTest ==
    /\ StopGoes("test", IF eventClient = NoClient THEN "join" ELSE "close")
    /\ UNCHANGED <<clientVars, eventStop>>

StopClose ==
    /\ StopGoes("close", "forget")
    /\ closed' = CloseCurrent
    /\ UNCHANGED <<eventClient, stream, made, eventStop>>

StopForget ==
    /\ StopGoes("forget", "join")
    /\ eventClient' = NoClient
    /\ UNCHANGED <<stream, made, closed, eventStop>>

\* The thread ended, or the second is over.
StopReturns ==
    /\ StopGoes("join", "returned")
    /\ UNCHANGED <<clientVars, eventStop>>

Loop ==
    \/ LoopTest \/ Build \/ BuildFails \/ Subscribe \/ NoStream
    \/ FinallyTest \/ FinallyClose \/ FinallyForget

Listen == EventArrives \/ StreamEnds

Stop == StopTest \/ StopClose \/ StopForget \/ StopReturns

-----------------------------------------------------------------------------
ObserverTypeOK ==
    /\ eventStop \in BOOLEAN /\ leaving \in BOOLEAN
    /\ eventClient \in made \cup {NoClient} /\ stream \in made \cup {NoClient}
    /\ thread \in {"none", "test", "build", "subscribe", "listen", "finally",
                   "close", "forget"}
    /\ made \subseteq Clients
    /\ closed \subseteq made
    /\ stopping \in {"no", "test", "close", "forget", "join", "returned"}

\* Every client the observer built is closed, except the one it is using:
\* whichever of the two threads finds _event_client first, and whatever stop
\* overwrites, no client is forgotten without being closed.
NoStreamLeaks ==
    /\ made \subseteq closed \cup {eventClient}
    /\ ~Alive => made \subseteq closed
=============================================================================
