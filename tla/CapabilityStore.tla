-------------------------- MODULE CapabilityStore --------------------------
(***************************************************************************)
(* Capability handles for points (CapabilityStore), minted and resolved by *)
(* tool calls while the host switches the session under them.  A call      *)
(* reads the profile scope, the session id and the clock one after the     *)
(* other, and only then takes the lock of the store; on_session_switch     *)
(* changes the session id, then the scope, then clears the store; a second *)
(* initialize changes the session id and the scope and clears nothing.     *)
(*                                                                         *)
(* Abstracted: a point of a collection is a slot; a handle is its serial   *)
(* number; a session id is its serial number, as ids are never reused.     *)
(***************************************************************************)
EXTENDS Integers, FiniteSets

CONSTANTS
    Callers,       \* threads that run tools
    Slots,         \* points that handles are minted for
    Collections,   \* the collections a caller may name
    CollectionOf,  \* [Slots -> Collections]
    Scopes,        \* profile scopes
    MaxEntries,    \* _CAPABILITY_MAX_ENTRIES (512 in the code)
    TTL,           \* _CAPABILITY_TTL_SECONDS (300 in the code)
    MaxSessions,   \* bound on sessions
    MaxHandles,    \* bound on handles minted
    MaxTime        \* bound on the clock

ASSUME CapabilityAssumption ==
    /\ CollectionOf \in [Slots -> Collections]
    /\ Scopes # {}
    /\ MaxEntries \in Nat \ {0} /\ TTL \in Nat \ {0}
    /\ MaxSessions \in Nat /\ MaxHandles \in Nat /\ MaxTime \in Nat

VARIABLES
    session,   \* _session_id
    scope,     \* _profile_scope
    switch,    \* on_session_switch at "scope" or "clear", initialize at
               \* "new_scope", or "done"
    caps,      \* _capabilities: the entries
    clock,     \* time.monotonic()
    minted,    \* handles ever minted: the entries as they were issued
    call       \* per caller: the step of its tool call, and its locals

capVars == <<session, scope, switch, caps, clock, minted, call>>

Handles == 1..MaxHandles
Entries == [handle : Handles, slot : Slots, scope : Scopes, session : Nat,
            expires : Nat]

\* "since": the session in force when the call began, which the code does not
\* record.
Idle == [pc |-> "idle", slots |-> {}, collection |-> "none", handles |-> {},
         since |-> 0, scope |-> "none", session |-> 0, now |-> 0]

Step(c, from, s) == call[c].pc = from /\ call' = [call EXCEPT ![c] = s]

-----------------------------------------------------------------------------
(* Plausible slips, put in place of the operator that follows. *)
MutNeverPurged(now) == caps
Unexpired(now) == {e \in caps : e.expires > now}

MutAnySession(e, s) == e.scope = s.scope /\ e.expires > s.now
\* An entry counts for a call of the same profile scope and session.
Valid(e, s) == e.scope = s.scope /\ e.session = s.session /\ e.expires > s.now

MutMakesRoomLate(S) == Cardinality(S) > MaxEntries
Full(S) == Cardinality(S) >= MaxEntries

MutNewest(S) == {e \in S : \A f \in S : f.expires <= e.expires}
Oldest(S) == {e \in S : \A f \in S : e.expires <= f.expires}

MutUsedNow == {e.handle : e \in caps}
Used == {e.handle : e \in minted}

-----------------------------------------------------------------------------
CapInit ==
    /\ session = 1
    /\ scope \in Scopes
    /\ switch = "done"
    /\ caps = {}
    /\ clock = 0
    /\ minted = {}
    /\ call = [c \in Callers |-> Idle]

(* A tool call that mints a handle for a point it has read, or resolves the *)
(* handles it was given: it reads the scope, the session id and the clock.  *)

BeginMint(c) ==
    /\ \E p \in Slots :
          Step(c, "idle", [Idle EXCEPT !.pc = "mint_session", !.slots = {p},
                                       !.scope = scope])
    /\ UNCHANGED <<session, scope, switch, caps, clock, minted>>

\* The tools that take handles run one at a time (_handle_op_lock).
BeginResolve(c) ==
    /\ \A d \in Callers : call[d].handles = {}
    /\ \E H \in SUBSET Used \ {{}}, k \in Collections :
          Step(c, "idle", [Idle EXCEPT !.pc = "resolve_session", !.handles = H,
                                       !.collection = k, !.scope = scope,
                                       !.since = session])
    /\ UNCHANGED <<session, scope, switch, caps, clock, minted>>

ReadSession(c) ==
    /\ \/ Step(c, "mint_session",
               [call[c] EXCEPT !.pc = "mint_now", !.session = session])
       \/ Step(c, "resolve_session",
               [call[c] EXCEPT !.pc = "resolve_now", !.session = session])
    /\ UNCHANGED <<session, scope, switch, caps, clock, minted>>

ReadClock(c) ==
    /\ \/ Step(c, "mint_now", [call[c] EXCEPT !.pc = "mint", !.now = clock])
       \/ Step(c, "resolve_now", [call[c] EXCEPT !.pc = "resolve", !.now = clock])
    /\ UNCHANGED <<session, scope, switch, caps, clock, minted>>

(* mint, under the lock: purge, reuse, or evict and insert. *)

Known(c) == {e \in Unexpired(call[c].now) :
               Valid(e, call[c]) /\ e.slot \in call[c].slots}

MintKnown(c) ==
    /\ Known(c) # {}
    /\ Step(c, "mint", Idle)
    /\ caps' = Unexpired(call[c].now)
    /\ UNCHANGED <<session, scope, switch, clock, minted>>

NewEntry(c, h, p) ==
    [handle |-> h, slot |-> p, scope |-> call[c].scope,
     session |-> call[c].session, expires |-> call[c].now + TTL]

\* A token never drawn before; which one makes no difference.
Fresh == {h \in Handles \ Used : 1..(h - 1) \subseteq Used}

MintNew(c) ==
    /\ Known(c) = {}
    /\ \E h \in Fresh, p \in call[c].slots :
          /\ Step(c, "mint", Idle)
          /\ minted' = minted \cup {NewEntry(c, h, p)}
          /\ LET kept == Unexpired(call[c].now)
             IN \/ /\ ~Full(kept)
                   /\ caps' = kept \cup {NewEntry(c, h, p)}
                \/ /\ Full(kept)
                   /\ \E e \in Oldest(kept) :
                         caps' = (kept \ {e}) \cup {NewEntry(c, h, p)}
    /\ UNCHANGED <<session, scope, switch, clock>>

(* resolve_many, under the lock: all of the handles, or none. *)

Accepts(e, s) == Valid(e, s) /\ CollectionOf[e.slot] = s.collection

ResolveAll(c) ==
    /\ \A h \in call[c].handles :
          \E e \in caps : e.handle = h /\ Accepts(e, call[c])
    /\ Step(c, "resolve",
            [Idle EXCEPT !.pc = "resolved", !.handles = call[c].handles,
                         !.since = call[c].since])
    /\ UNCHANGED <<session, scope, switch, caps, clock, minted>>

\* CapabilityForbidden at the first bad handle: it is forgotten, if known.
ResolveForbidden(c) ==
    /\ \E h \in call[c].handles :
          /\ \A e \in caps : e.handle = h => ~Accepts(e, call[c])
          /\ caps' = {e \in caps : e.handle # h}
    /\ Step(c, "resolve", Idle)
    /\ UNCHANGED <<session, scope, switch, clock, minted>>

\* The tool has used the points it got.
Return(c) ==
    /\ Step(c, "resolved", Idle)
    /\ UNCHANGED <<session, scope, switch, caps, clock, minted>>

(* on_session_switch and initialize: the host runs one of them at a time. *)

SwitchSession ==
    /\ switch = "done"
    /\ session < MaxSessions
    /\ session' = session + 1
    /\ switch' \in {"scope", "new_scope"}
    /\ UNCHANGED <<scope, caps, clock, minted, call>>

SwitchScope ==
    /\ switch = "scope"
    /\ scope' \in Scopes
    /\ switch' = "clear"
    /\ UNCHANGED <<session, caps, clock, minted, call>>

\* initialize has no use for the store: the entries of the old session stay.
InitializeScope ==
    /\ switch = "new_scope"
    /\ scope' \in Scopes
    /\ switch' = "done"
    /\ UNCHANGED <<session, caps, clock, minted, call>>

Clear ==
    /\ switch = "clear"
    /\ caps' = {}
    /\ switch' = "done"
    /\ UNCHANGED <<session, scope, clock, minted, call>>

Tick ==
    /\ clock < MaxTime
    /\ clock' = clock + 1
    /\ UNCHANGED <<session, scope, switch, caps, minted, call>>

Switch == SwitchSession \/ SwitchScope \/ InitializeScope \/ Clear

Tool(c) ==
    \/ BeginMint(c) \/ BeginResolve(c)
    \/ ReadSession(c) \/ ReadClock(c)
    \/ MintKnown(c) \/ MintNew(c)
    \/ ResolveAll(c) \/ ResolveForbidden(c) \/ Return(c)

CapNext == (\E c \in Callers : Tool(c)) \/ Switch \/ Tick

CapSpec == CapInit /\ [][CapNext]_capVars
-----------------------------------------------------------------------------
Pcs == {"idle", "mint_session", "mint_now", "mint",
        "resolve_session", "resolve_now", "resolve", "resolved"}

Calls == [pc : Pcs, slots : SUBSET Slots, collection : Collections \cup {"none"},
          handles : SUBSET Handles, since : Nat, scope : Scopes \cup {"none"},
          session : Nat, now : Nat]

\* Types, that every entry of the store was issued, and that a handle was issued
\* for one point only.
CapTypeOK ==
    /\ session \in Nat /\ scope \in Scopes /\ clock \in Nat
    /\ switch \in {"done", "scope", "new_scope", "clear"}
    /\ caps \subseteq minted
    /\ minted \subseteq Entries
    /\ \A e, f \in minted : e.handle = f.handle => e = f
    /\ call \in [Callers -> Calls]

\* Within a session a point has one handle, however calls and expiry interleave:
\* asking again returns the same handle (tests/test_mutation_semantics.py:77).
OneHandle ==
    \A e, f \in caps :
       e.slot = f.slot /\ e.scope = f.scope /\ e.session = f.session => e = f

\* The store never outgrows _CAPABILITY_MAX_ENTRIES.
Bounded == Cardinality(caps) <= MaxEntries

\* A call obtains no point through a handle of an earlier session than the one
\* it began in, even if the handle was stored after the store was cleared, by a
\* call that had read the old session id before the switch, or the store was not
\* cleared at all, as the new session came with initialize
\* (tests/test_hermes_contract.py:183: "old capability must not survive session
\* switch").
OldHandlesDie ==
    \A c \in Callers : call[c].pc = "resolved" =>
       \A e \in minted : e.handle \in call[c].handles => e.session >= call[c].since

KeptOrCause ==
    \A e \in caps \ caps' :
       \/ e.expires <= clock
       \/ switch = "clear"
       \/ Full(caps) /\ \A f \in caps \cap caps' : e.expires <= f.expires
       \/ \E c \in Callers : /\ call[c].pc = "resolve"
                            /\ e.handle \in call[c].handles
                            /\ ~Accepts(e, call[c])

\* A handle is good for its TTL: it leaves the store before its time only with
\* the session, when it was named where it does not belong, or for want of room,
\* and then no entry that stays expires before it.
KeptForCause == [][KeptOrCause]_capVars
=============================================================================
