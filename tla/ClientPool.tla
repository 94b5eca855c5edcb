----------------------------- MODULE ClientPool -----------------------------
(***************************************************************************)
(* The shared RPC client of the provider: built on demand, rotated when    *)
(* host or credentials change, dropped on a transport error, and closed    *)
(* only when the last call that uses it returns.  Every action under       *)
(* _client_lock is one step.                                               *)
(*                                                                         *)
(* Abstracted: what a call asks and answers; a call ends with an answer or *)
(* with an error, and only Timeout, Unavailable and Auth errors drop the   *)
(* client.  A client object is never reused, so Clients bounds how many    *)
(* are built.                                                              *)
(***************************************************************************)
EXTENDS Integers, FiniteSets

CONSTANTS
    Threads,       \* threads that make calls
    Clients,       \* client objects that can be built (bound)
    NoClient,      \* None
    Fingerprints   \* values of _current_fingerprint

ASSUME PoolAssumption ==
    /\ IsFiniteSet(Threads)
    /\ NoClient \notin Clients
    /\ Fingerprints # {}

VARIABLES
    fingerprint,   \* of the configuration and credentials in force
    current,       \* _client
    currentFp,     \* _client_fingerprint
    built,         \* client objects that exist
    inflight,      \* _client_inflight: calls in flight per client
    retired,       \* _retired_clients
    closes,        \* how often each client was closed
    call,          \* per thread: step of its call
    using,         \* per thread: the client its call holds
    fp,            \* per thread: the fingerprint its call computed
    phase,         \* of shutdown: "up", "flagged", "closed" or "timed_out"
    ledger         \* "open", or "closed"

poolVars == <<fingerprint, current, currentFp, built, inflight, retired,
              closes, call, using, fp, phase, ledger>>

-----------------------------------------------------------------------------
(* Plausible slips in the code, put in place of the operator that follows. *)
MutReleaseLast(n) == n <= 2
MutNeverLast(n) == n <= 0
LastUse(n) == n <= 1

MutCloseAtOnce(c) ==
    /\ closes' = [closes EXCEPT ![c] = @ + 1]
    /\ retired' = retired
\* _retire_client_locked: a client in use is set aside, an unused one closed.
Retire(c) ==
    IF inflight[c] > 0
      THEN retired' = retired \cup {c} /\ closes' = closes
      ELSE closes' = [closes EXCEPT ![c] = @ + 1] /\ retired' = retired

RetireCurrent ==
    IF current = NoClient THEN UNCHANGED <<retired, closes>> ELSE Retire(current)

-----------------------------------------------------------------------------
Init ==
    /\ fingerprint \in Fingerprints
    /\ current = NoClient
    /\ currentFp \in Fingerprints
    /\ built = {}
    /\ inflight = [c \in Clients |-> 0]
    /\ retired = {}
    /\ closes = [c \in Clients |-> 0]
    /\ call = [t \in Threads |-> "idle"]
    /\ using = [t \in Threads |-> NoClient]
    /\ fp \in [Threads -> Fingerprints]
    /\ phase = "up"
    /\ ledger = "open"

\* Host, credentials or timeouts change under the provider.
Reconfigure ==
    /\ fingerprint' \in Fingerprints \ {fingerprint}
    /\ UNCHANGED <<current, currentFp, built, inflight, retired, closes, call,
                   using, fp, phase, ledger>>

\* The fingerprint is computed before the lock is taken.
ReadFingerprint(t) ==
    /\ call[t] = "idle"
    /\ fp' = [fp EXCEPT ![t] = fingerprint]
    /\ call' = [call EXCEPT ![t] = "acquire"]
    /\ UNCHANGED <<fingerprint, current, currentFp, built, inflight, retired,
                   closes, using, phase, ledger>>

Usable(t) == current # NoClient /\ currentFp = fp[t]

Hold(t, c) ==
    /\ using' = [using EXCEPT ![t] = c]
    /\ inflight' = [inflight EXCEPT ![c] = @ + 1]
    /\ call' = [call EXCEPT ![t] = "rpc"]

AcquireCurrent(t) ==
    /\ call[t] = "acquire"
    /\ Usable(t)
    /\ Hold(t, current)
    /\ UNCHANGED <<fingerprint, current, currentFp, built, retired, closes, fp,
                   phase, ledger>>

\* No client, or one for another fingerprint: retire it and build.
AcquireNew(t) ==
    /\ call[t] = "acquire"
    /\ ~Usable(t)
    /\ RetireCurrent
    /\ \E c \in Clients \ built :
          /\ built' = built \cup {c}
          /\ current' = c
          /\ currentFp' = fp[t]
          /\ Hold(t, c)
    /\ UNCHANGED <<fingerprint, fp, phase, ledger>>

\* _build_client raises: the old client is retired, no call is made.
BuildFails(t) ==
    /\ call[t] = "acquire"
    /\ ~Usable(t)
    /\ RetireCurrent
    /\ current' = NoClient
    /\ call' = [call EXCEPT ![t] = "idle"]
    /\ UNCHANGED <<fingerprint, currentFp, built, inflight, using, fp, phase, ledger>>

\* The call answered, or failed without implicating the connection.
Answer(t) ==
    /\ call[t] = "rpc"
    /\ call' = [call EXCEPT ![t] = "release"]
    /\ UNCHANGED <<fingerprint, current, currentFp, built, inflight, retired,
                   closes, using, fp, phase, ledger>>

\* Timeout, Unavailable or Auth error: nobody else gets this client.
Drop(t) ==
    /\ call[t] = "rpc"
    /\ current' = IF current = using[t] THEN NoClient ELSE current
    /\ Retire(using[t])
    /\ call' = [call EXCEPT ![t] = "release"]
    /\ UNCHANGED <<fingerprint, currentFp, built, inflight, using, fp, phase, ledger>>

\* _release_client: the last call to return closes a retired client, and after
\* shutdown has begun, the last call of all closes the ledger.
Release(t) ==
    /\ call[t] = "release"
    /\ LET c == using[t]
           last == LastUse(inflight[c])
       IN /\ inflight' = [inflight EXCEPT ![c] = IF last THEN 0 ELSE @ - 1]
          /\ IF last /\ c \in retired
               THEN /\ retired' = retired \ {c}
                    /\ closes' = [closes EXCEPT ![c] = @ + 1]
               ELSE UNCHANGED <<retired, closes>>
          /\ ledger' = IF last /\ phase # "up" /\ \A d \in Clients : inflight'[d] = 0
                         THEN "closed" ELSE ledger
    /\ using' = [using EXCEPT ![t] = NoClient]
    /\ call' = [call EXCEPT ![t] = "idle"]
    /\ UNCHANGED <<fingerprint, current, currentFp, built, fp, phase>>

\* shutdown: raise the flag, wait for the worker, then close or give up.
ShutdownFlag ==
    /\ phase = "up"
    /\ phase' = "flagged"
    /\ UNCHANGED <<fingerprint, current, currentFp, built, inflight, retired,
                   closes, call, using, fp, ledger>>

ShutdownTimesOut ==
    /\ phase = "flagged"
    /\ phase' = "timed_out"
    /\ UNCHANGED <<fingerprint, current, currentFp, built, inflight, retired,
                   closes, call, using, fp, ledger>>

ShutdownCloses ==
    /\ phase = "flagged"
    /\ phase' = "closed"
    /\ current' = NoClient
    /\ LET toRetire == retired \cup ({current} \ {NoClient})
           unused   == {c \in toRetire : inflight[c] = 0}
       IN /\ closes' = [c \in Clients |->
                          IF c \in unused THEN closes[c] + 1 ELSE closes[c]]
          /\ retired' = retired \cup (toRetire \ unused)
    /\ ledger' = "closed"
    /\ UNCHANGED <<fingerprint, currentFp, built, inflight, call, using, fp>>

Call(t) ==
    \/ AcquireCurrent(t) \/ AcquireNew(t) \/ BuildFails(t)
    \/ Answer(t) \/ Drop(t) \/ Release(t)

Next ==
    \/ \E t \in Threads : ReadFingerprint(t) \/ Call(t)
    \/ Reconfigure
    \/ ShutdownFlag \/ ShutdownTimesOut \/ ShutdownCloses

Spec == Init /\ [][Next]_poolVars

\* Every RPC carries a deadline (_install_deadlines), so a call returns.
FairSpec == Spec /\ \A t \in Threads : WF_poolVars(Call(t))

-----------------------------------------------------------------------------
Callers(c) == {t \in Threads : using[t] = c}

\* Types, that a thread holds a client exactly while it is in a call, and that
\* _client_inflight counts exactly the calls that hold a client.
TypeOK ==
    /\ fingerprint \in Fingerprints /\ currentFp \in Fingerprints
    /\ current \in built \cup {NoClient}
    /\ built \subseteq Clients
    /\ inflight = [c \in Clients |-> Cardinality(Callers(c))]
    /\ retired \subseteq Clients
    /\ closes \in [Clients -> Nat]
    /\ call \in [Threads -> {"idle", "acquire", "rpc", "release"}]
    /\ using \in [Threads -> Clients \cup {NoClient}]
    /\ \A t \in Threads : using[t] \in built <=> call[t] \in {"rpc", "release"}
    /\ \A t \in Threads : using[t] = NoClient <=> call[t] \in {"idle", "acquire"}
    /\ fp \in [Threads -> Fingerprints]
    /\ phase \in {"up", "flagged", "closed", "timed_out"}
    /\ ledger \in {"open", "closed"}

\* No call ever runs on a closed client: neither rotation, nor another call's
\* transport error, nor shutdown closes a client under a call that uses it.
NeverClosedInUse == \A t \in Threads : using[t] # NoClient => closes[using[t]] = 0

\* A client is closed exactly once, at the moment it is neither the current
\* one nor in use: no leak over rotations and errors, and no double close.
ClosedExactlyOnce ==
    \A c \in built :
       closes[c] = IF c = current \/ Callers(c) # {} THEN 0 ELSE 1

\* Why: a client has been closed exactly when it is out of use, and is set
\* aside in _retired_clients exactly when its last calls are still running.
PoolInvariant ==
    \A c \in Clients :
       LET gone == c \in built /\ c # current
       IN /\ closes[c] = IF gone /\ Callers(c) = {} THEN 1 ELSE 0
          /\ c \in retired <=> gone /\ Callers(c) # {}

\* A retired client is closed in the end: it is always in use by some call, and
\* that call returns.
RetiredGetClosed ==
    \A c \in Clients : c \in retired ~> closes[c] = 1
=============================================================================
