-------------------------- MODULE CapabilityProof --------------------------
(***************************************************************************)
(* The properties of CapabilityStore, for any number of threads, points,   *)
(* scopes and sessions and any capacity and time to live.  Everything      *)
(* follows from one inductive invariant: StoreOK about the entries, CallOK *)
(* about the locals of each call.                                          *)
(***************************************************************************)
EXTENDS CapabilityStore, FiniteSetTheorems, TLAPS

StoreOK ==
    /\ session \in Nat /\ scope \in Scopes /\ clock \in Nat
    /\ switch \in {"done", "scope", "new_scope", "clear"}
    /\ caps \subseteq minted
    /\ minted \subseteq Entries
    /\ \A e, f \in minted : e.handle = f.handle => e = f
    /\ OneHandle
    /\ IsFiniteSet(caps)
    /\ Bounded

InMint == {"mint_session", "mint_now", "mint"}
InResolve == {"resolve_session", "resolve_now", "resolve"}

CallOK(c) ==
    /\ call[c] \in Calls
    /\ call[c].now <= clock
    /\ call[c].since <= session
    /\ call[c].handles \subseteq Used
    /\ call[c].pc \in InMint \cup InResolve => call[c].scope \in Scopes
    /\ call[c].pc \in {"resolve_now", "resolve"} => call[c].since <= call[c].session
    /\ call[c].pc = "resolved" =>
          \A e \in minted : e.handle \in call[c].handles => e.session >= call[c].since

CapInv ==
    /\ StoreOK
    /\ call \in [Callers -> Calls]
    /\ \A c \in Callers : CallOK(c)

\* The steps of a call that leave the store alone.
Locals(c) == BeginMint(c) \/ BeginResolve(c) \/ ReadSession(c) \/ ReadClock(c)
                 \/ Return(c)

-----------------------------------------------------------------------------
LEMMA CapInvHolds == CapInv => CapTypeOK /\ OneHandle /\ Bounded /\ OldHandlesDie
BY DEF CapInv, StoreOK, CallOK, CapTypeOK, OldHandlesDie

LEMMA IdleIsCall == Idle \in Calls
BY DEF Idle, Calls, Pcs

LEMMA CapInvInit == CapInit => CapInv
<1> SUFFICES ASSUME CapInit PROVE CapInv
  OBVIOUS
<1>1. IsFiniteSet(caps) /\ Cardinality(caps) = 0
  BY FS_EmptySet DEF CapInit
<1>2. StoreOK
  BY <1>1, CapabilityAssumption DEF CapInit, StoreOK, OneHandle, Bounded
<1>3. \A c \in Callers : CallOK(c)
  BY IdleIsCall DEF CapInit, CallOK, Idle, InMint, InResolve, Used
<1> QED
  BY <1>2, <1>3, IdleIsCall DEF CapInv, CapInit

\* Taking entries out of the store keeps it in order.
LEMMA StoreShrinks ==
  ASSUME StoreOK, caps' \subseteq caps, minted' = minted,
         session' \in Nat, scope' \in Scopes, clock' \in Nat,
         switch' \in {"done", "scope", "new_scope", "clear"}
  PROVE  StoreOK'
<1>1. IsFiniteSet(caps') /\ Cardinality(caps') <= Cardinality(caps)
  BY FS_Subset DEF StoreOK
<1>2. Cardinality(caps) \in Nat /\ Cardinality(caps') \in Nat
  BY <1>1, FS_CardinalityType DEF StoreOK
<1>3. Bounded'
  BY <1>1, <1>2, CapabilityAssumption DEF StoreOK, Bounded
<1>4. OneHandle'
  BY DEF StoreOK, OneHandle
<1> QED
  BY <1>1, <1>3, <1>4 DEF StoreOK

\* A call that takes no step keeps its invariant when the session and the clock
\* go forward and new entries have new handles.
LEMMA CallWaits ==
  ASSUME StoreOK, NEW c \in Callers, CallOK(c),
         call'[c] = call[c], session' \in Nat, session <= session',
         clock' \in Nat, clock <= clock', minted \subseteq minted',
         \A e \in minted' \ minted : e.handle \notin Used
  PROVE  CallOK(c)'
<1>1. Used \subseteq Used'
  BY DEF Used
<1>2. call[c].now \in Nat /\ call[c].since \in Nat
  BY DEF CallOK, Calls
<1>3. call[c].now <= clock' /\ call[c].since <= session'
  BY <1>2 DEF CallOK, StoreOK
<1>4. ASSUME call[c].pc = "resolved", NEW e \in minted', e.handle \in call[c].handles
      PROVE  e.session >= call[c].since
  BY <1>4 DEF CallOK
<1> QED
  BY <1>1, <1>3, <1>4 DEF CallOK

\* The step of one call: its invariant follows from the new value of its locals.
LEMMA OneCallSteps ==
  ASSUME CapInv, NEW c \in Callers, NEW s \in Calls,
         call' = [call EXCEPT ![c] = s],
         session' = session, clock' = clock, minted \subseteq minted',
         \A e \in minted' \ minted : e.handle \notin Used,
         StoreOK',
         s.now <= clock, s.since <= session, s.handles \subseteq Used,
         s.pc \in InMint \cup InResolve => s.scope \in Scopes,
         s.pc \in {"resolve_now", "resolve"} => s.since <= s.session,
         s.pc = "resolved" =>
            \A e \in minted : e.handle \in s.handles => e.session >= s.since
  PROVE  CapInv'
<1>1. call' \in [Callers -> Calls] /\ call'[c] = s
  BY DEF CapInv
<1>2. Used \subseteq Used'
  BY DEF Used
<1>3. CallOK(c)'
  <2>1. s.pc = "resolved" =>
          \A e \in minted' : e.handle \in s.handles => e.session >= s.since
    OBVIOUS
  <2> QED
    BY <1>1, <1>2, <2>1 DEF CallOK
<1>4. ASSUME NEW d \in Callers, d # c PROVE CallOK(d)'
  <2>1. call'[d] = call[d]
    BY <1>4 DEF CapInv
  <2>2. session <= session' /\ clock <= clock' /\ session' \in Nat /\ clock' \in Nat
    BY DEF CapInv, StoreOK
  <2> QED
    BY <2>1, <2>2, CallWaits DEF CapInv
<1> QED
  BY <1>1, <1>3, <1>4 DEF CapInv

LEMMA LocalsKeep == ASSUME CapInv, NEW c \in Callers, Locals(c) PROVE CapInv'
<1> DEFINE s == call'[c]
<1>1. call[c] \in Calls /\ CallOK(c) /\ call \in [Callers -> Calls]
  BY DEF CapInv
<1>2. UNCHANGED <<session, scope, switch, caps, clock, minted>>
  BY DEF Locals, BeginMint, BeginResolve, ReadSession, ReadClock, Return
<1>3. StoreOK'
  BY <1>2, StoreShrinks DEF CapInv, StoreOK
<1>4. session \in Nat /\ clock \in Nat /\ scope \in Scopes
  BY DEF CapInv, StoreOK
<1>5. /\ call' = [call EXCEPT ![c] = s]
      /\ s \in Calls
      /\ s.now <= clock /\ s.since <= session /\ s.handles \subseteq Used
      /\ s.pc \in InMint \cup InResolve => s.scope \in Scopes
      /\ s.pc \in {"resolve_now", "resolve"} => s.since <= s.session
      /\ s.pc # "resolved"
  <2>1. CASE BeginMint(c)
    <3>1. PICK p \in Slots :
             Step(c, "idle", [Idle EXCEPT !.pc = "mint_session", !.slots = {p},
                                          !.scope = scope])
      BY <2>1 DEF BeginMint
    <3> DEFINE r == [Idle EXCEPT !.pc = "mint_session", !.slots = {p}, !.scope = scope]
    <3>2. call' = [call EXCEPT ![c] = r] /\ s = r
      BY <1>1, <3>1 DEF Step
    <3>3. r \in Calls /\ r.now = 0 /\ r.since = 0 /\ r.handles = {} /\ r.scope = scope
          /\ r.pc = "mint_session"
      BY <1>4 DEF Idle, Calls, Pcs
    <3> HIDE DEF r, s
    <3> QED
      BY <1>4, <3>2, <3>3
  <2>2. CASE BeginResolve(c)
    <3>1. PICK H \in SUBSET Used \ {{}}, k \in Collections :
             Step(c, "idle", [Idle EXCEPT !.pc = "resolve_session", !.handles = H,
                                          !.collection = k, !.scope = scope,
                                          !.since = session])
      BY <2>2 DEF BeginResolve
    <3> DEFINE r == [Idle EXCEPT !.pc = "resolve_session", !.handles = H,
                                 !.collection = k, !.scope = scope, !.since = session]
    <3>2. call' = [call EXCEPT ![c] = r] /\ s = r
      BY <1>1, <3>1 DEF Step
    <3>3. H \subseteq Used /\ Used \subseteq Handles
      BY DEF Used, CapInv, StoreOK, Entries
    <3>4. r \in Calls /\ r.now = 0 /\ r.since = session /\ r.handles = H
          /\ r.scope = scope /\ r.pc = "resolve_session"
      BY <1>4, <3>3 DEF Idle, Calls, Pcs
    <3> HIDE DEF r, s
    <3> QED
      BY <1>4, <3>2, <3>3, <3>4
  <2>3. CASE ReadSession(c)
    <3>1. PICK to \in {"mint_now", "resolve_now"} :
             /\ call[c].pc \in InMint \cup InResolve
             /\ call' = [call EXCEPT ![c] = [call[c] EXCEPT !.pc = to, !.session = session]]
      BY <2>3 DEF ReadSession, Step, InMint, InResolve
    <3> DEFINE r == [call[c] EXCEPT !.pc = to, !.session = session]
    <3>2. call' = [call EXCEPT ![c] = r] /\ s = r
      BY <1>1, <3>1
    <3>3. r \in Calls /\ r.now = call[c].now /\ r.since = call[c].since
          /\ r.handles = call[c].handles /\ r.scope = call[c].scope
          /\ r.pc = to /\ r.session = session
      BY <1>1, <1>4 DEF Calls, Pcs
    <3> HIDE DEF r, s
    <3> QED
      BY <1>1, <3>1, <3>2, <3>3 DEF CallOK
  <2>4. CASE ReadClock(c)
    <3>1. PICK to \in {"mint", "resolve"} :
             /\ call[c].pc \in InMint \cup InResolve
             /\ to = "resolve" => call[c].pc = "resolve_now"
             /\ call' = [call EXCEPT ![c] = [call[c] EXCEPT !.pc = to, !.now = clock]]
      BY <2>4 DEF ReadClock, Step, InMint, InResolve
    <3> DEFINE r == [call[c] EXCEPT !.pc = to, !.now = clock]
    <3>2. call' = [call EXCEPT ![c] = r] /\ s = r
      BY <1>1, <3>1
    <3>3. r \in Calls /\ r.now = clock /\ r.since = call[c].since
          /\ r.handles = call[c].handles /\ r.scope = call[c].scope
          /\ r.pc = to /\ r.session = call[c].session
      BY <1>1, <1>4 DEF Calls, Pcs
    <3> HIDE DEF r, s
    <3>4. s.now <= clock /\ s.since <= session /\ s.handles \subseteq Used
      BY <1>1, <1>4, <3>2, <3>3 DEF CallOK
    <3>5. s.scope \in Scopes /\ s.pc # "resolved"
      BY <1>1, <3>1, <3>2, <3>3 DEF CallOK
    <3>6. s.pc \in {"resolve_now", "resolve"} => s.since <= s.session
      BY <1>1, <3>1, <3>2, <3>3 DEF CallOK
    <3> QED
      BY <3>2, <3>3, <3>4, <3>5, <3>6
  <2>5. CASE Return(c)
    <3>1. call' = [call EXCEPT ![c] = Idle] /\ s = Idle
      BY <1>1, <2>5 DEF Return, Step
    <3>2. Idle.now = 0 /\ Idle.since = 0 /\ Idle.handles = {} /\ Idle.pc = "idle"
      BY DEF Idle
    <3> HIDE DEF s
    <3> QED
      BY <1>4, <3>1, <3>2, IdleIsCall DEF InMint, InResolve
  <2> QED
    BY <2>1, <2>2, <2>3, <2>4, <2>5 DEF Locals
<1> HIDE DEF s
<1> QED
  BY <1>2, <1>3, <1>5, OneCallSteps

\* A call that ends: its locals are idle again.
LEMMA CallEnds ==
  ASSUME CapInv, NEW c \in Callers, call' = [call EXCEPT ![c] = Idle],
         session' = session, clock' = clock, minted \subseteq minted',
         \A e \in minted' \ minted : e.handle \notin Used,
         StoreOK'
  PROVE  CapInv'
<1>1. /\ Idle.now = 0 /\ Idle.since = 0 /\ Idle.handles = {}
      /\ Idle.pc \notin InMint \cup InResolve /\ Idle.pc # "resolved"
      /\ Idle.pc \notin {"resolve_now", "resolve"}
  BY DEF Idle, InMint, InResolve
<1>2. 0 <= clock /\ 0 <= session
  BY DEF CapInv, StoreOK
<1> QED
  BY <1>1, <1>2, IdleIsCall, OneCallSteps

LEMMA MintKnownKeeps == ASSUME CapInv, NEW c \in Callers, MintKnown(c) PROVE CapInv'
<1>1. StoreOK'
  <2>1. caps' \subseteq caps
    BY DEF MintKnown, Unexpired
  <2> QED
    BY <2>1, StoreShrinks DEF CapInv, StoreOK, MintKnown
<1> QED
  BY <1>1, CallEnds DEF MintKnown, Step

LEMMA ForbiddenKeeps ==
  ASSUME CapInv, NEW c \in Callers, ResolveForbidden(c) PROVE CapInv'
<1>1. StoreOK'
  <2>1. caps' \subseteq caps
    BY DEF ResolveForbidden
  <2> QED
    BY <2>1, StoreShrinks DEF CapInv, StoreOK, ResolveForbidden
<1> QED
  BY <1>1, CallEnds DEF ResolveForbidden, Step

\* The points a call obtains are those of entries of its own session, and no other
\* entry ever had these handles.
LEMMA ResolveKeeps == ASSUME CapInv, NEW c \in Callers, ResolveAll(c) PROVE CapInv'
<1> DEFINE s == [Idle EXCEPT !.pc = "resolved", !.handles = call[c].handles,
                             !.since = call[c].since]
<1>1. CallOK(c) /\ call[c].pc = "resolve" /\ call[c].session \in Nat
      /\ call[c].since \in Nat /\ call[c].handles \in SUBSET Handles
  BY DEF CapInv, ResolveAll, Step, Calls
<1>2. StoreOK'
  BY StoreShrinks DEF CapInv, StoreOK, ResolveAll
<1>3. s \in Calls /\ s.now = 0 /\ s.since = call[c].since
      /\ s.handles = call[c].handles /\ s.pc = "resolved"
  BY <1>1 DEF Idle, Calls, Pcs
<1>4. ASSUME NEW e \in minted, e.handle \in call[c].handles
      PROVE  e.session >= call[c].since
  <2>1. PICK f \in caps : f.handle = e.handle /\ Accepts(f, call[c])
    BY <1>4 DEF ResolveAll
  <2>2. e = f
    BY <2>1 DEF CapInv, StoreOK
  <2>3. e.session = call[c].session
    BY <2>1, <2>2 DEF Accepts, Valid
  <2>4. call[c].since <= call[c].session
    BY <1>1 DEF CallOK
  <2> QED
    BY <1>1, <2>3, <2>4
<1>5. 0 <= clock
  BY DEF CapInv, StoreOK
<1>6. call' = [call EXCEPT ![c] = s] /\ UNCHANGED <<session, clock, minted>>
  BY DEF ResolveAll, Step
<1>7. s.pc \notin InMint \cup InResolve /\ s.pc \notin {"resolve_now", "resolve"}
  BY <1>3 DEF InMint, InResolve
<1>8. s.now <= clock /\ s.since <= session /\ s.handles \subseteq Used
  BY <1>1, <1>3, <1>5 DEF CallOK
<1> HIDE DEF s
<1> QED
  BY <1>2, <1>3, <1>4, <1>6, <1>7, <1>8, OneCallSteps

-----------------------------------------------------------------------------
\* What mint knows of the purged store when it adds an entry.
LEMMA PurgedStore ==
  ASSUME StoreOK, NEW now
  PROVE  /\ Unexpired(now) \subseteq caps
         /\ IsFiniteSet(Unexpired(now))
         /\ Cardinality(Unexpired(now)) \in Nat
         /\ Cardinality(Unexpired(now)) <= Cardinality(caps)
         /\ Cardinality(Unexpired(now)) <= MaxEntries
<1>1. Unexpired(now) \subseteq caps
  BY DEF Unexpired
<1>2. IsFiniteSet(Unexpired(now)) /\ Cardinality(Unexpired(now)) <= Cardinality(caps)
  BY <1>1, FS_Subset DEF StoreOK
<1>3. Cardinality(Unexpired(now)) \in Nat /\ Cardinality(caps) \in Nat
  BY <1>2, FS_CardinalityType DEF StoreOK
<1> QED
  BY <1>1, <1>2, <1>3, CapabilityAssumption DEF StoreOK, Bounded

LEMMA MintNewKeeps == ASSUME CapInv, NEW c \in Callers, MintNew(c) PROVE CapInv'
<1> DEFINE kept == Unexpired(call[c].now)
<1>1. PICK h \in Fresh, p \in call[c].slots :
         /\ Step(c, "mint", Idle)
         /\ minted' = minted \cup {NewEntry(c, h, p)}
         /\ \/ /\ ~Full(kept)
               /\ caps' = kept \cup {NewEntry(c, h, p)}
            \/ /\ Full(kept)
               /\ \E e \in Oldest(kept) : caps' = (kept \ {e}) \cup {NewEntry(c, h, p)}
  BY DEF MintNew
<1> DEFINE new == NewEntry(c, h, p)
<1>2. UNCHANGED <<session, scope, switch, clock>> /\ Known(c) = {}
  BY DEF MintNew
<1>3. CallOK(c) /\ call[c].pc = "mint" /\ call[c] \in Calls
  BY <1>1 DEF CapInv, Step
<1>4. call[c].scope \in Scopes
  BY <1>3 DEF CallOK, InMint
<1>5. h \in Handles /\ h \notin Used
  BY DEF Fresh
<1>6. /\ new \in Entries
      /\ new.handle = h /\ new.slot = p
      /\ new.scope = call[c].scope /\ new.session = call[c].session
  BY <1>3, <1>4, <1>5, CapabilityAssumption DEF NewEntry, Entries, Calls
<1> HIDE DEF new
<1>7. StoreOK
  BY DEF CapInv
<1>8. /\ kept \subseteq caps /\ IsFiniteSet(kept) /\ Cardinality(kept) \in Nat
      /\ Cardinality(kept) <= MaxEntries
  BY <1>7, PurgedStore
<1>9. PICK rest \in SUBSET kept :
         /\ caps' = rest \cup {new}
         /\ IsFiniteSet(rest) /\ Cardinality(rest) \in Nat
         /\ Cardinality(rest) < MaxEntries
  <2>1. CASE ~Full(kept) /\ caps' = kept \cup {new}
    BY <1>8, <2>1, CapabilityAssumption DEF Full
  <2>2. ASSUME NEW e \in Oldest(kept), caps' = (kept \ {e}) \cup {new}
        PROVE  \E rest \in SUBSET kept :
                 /\ caps' = rest \cup {new}
                 /\ IsFiniteSet(rest) /\ Cardinality(rest) \in Nat
                 /\ Cardinality(rest) < MaxEntries
    <3>1. e \in kept
      BY DEF Oldest
    <3>2. IsFiniteSet(kept \ {e}) /\ Cardinality(kept \ {e}) = Cardinality(kept) - 1
      BY <1>8, <3>1, FS_RemoveElement
    <3>3. Cardinality(kept \ {e}) \in Nat
      BY <3>2, FS_CardinalityType
    <3>4. Cardinality(kept \ {e}) < MaxEntries
      BY <1>8, <3>2, <3>3, CapabilityAssumption
    <3> QED
      BY <2>2, <3>2, <3>3, <3>4
  <2> QED
    BY <1>1, <2>1, <2>2 DEF new
<1>10. \A e \in kept : e.slot = p /\ e.scope = new.scope => e.session # new.session
  <2> SUFFICES ASSUME NEW e \in kept, e.slot = p, e.scope = new.scope,
                      e.session = new.session
               PROVE  FALSE
    OBVIOUS
  <2>1. e.expires > call[c].now
    BY DEF Unexpired
  <2> QED
    BY <1>2, <1>6, <2>1 DEF Known, Valid
<1>11. OneHandle'
  <2> SUFFICES ASSUME NEW e \in caps', NEW f \in caps',
                      e.slot = f.slot, e.scope = f.scope, e.session = f.session
               PROVE  e = f
    BY DEF OneHandle
  <2>1. CASE e \in rest /\ f \in rest
    BY <1>7, <1>8, <2>1 DEF StoreOK, OneHandle
  <2>2. CASE e = new \/ f = new
    BY <1>6, <1>9, <1>10, <2>2
  <2> QED
    BY <1>9, <2>1, <2>2
<1>12. IsFiniteSet(caps') /\ Bounded'
  <2>1. /\ IsFiniteSet(rest \cup {new})
        /\ \/ Cardinality(rest \cup {new}) = Cardinality(rest)
           \/ Cardinality(rest \cup {new}) = Cardinality(rest) + 1
    BY <1>9, FS_AddElement, Zenon
  <2>2. Cardinality(rest \cup {new}) <= MaxEntries
    BY <1>9, <2>1, CapabilityAssumption
  <2> QED
    BY <1>9, <2>1, <2>2 DEF Bounded
<1>13. minted' = minted \cup {new}
  BY <1>1 DEF new
<1>14. \A e, f \in minted' : e.handle = f.handle => e = f
  BY <1>5, <1>6, <1>7, <1>13 DEF StoreOK, Used
<1>15. caps' \subseteq minted' /\ minted' \subseteq Entries
  BY <1>6, <1>7, <1>8, <1>9, <1>13 DEF StoreOK
<1>16. StoreOK'
  BY <1>2, <1>7, <1>11, <1>12, <1>14, <1>15 DEF StoreOK
<1>17. \A e \in minted' \ minted : e.handle \notin Used
  BY <1>5, <1>6, <1>13
<1> QED
  BY <1>1, <1>2, <1>13, <1>16, <1>17, CallEnds DEF Step

-----------------------------------------------------------------------------
LEMMA OthersKeep == ASSUME CapInv, Switch \/ Tick PROVE CapInv'
<1>1. /\ session' \in Nat /\ session <= session' /\ scope' \in Scopes
      /\ clock' \in Nat /\ clock <= clock'
      /\ switch' \in {"done", "scope", "new_scope", "clear"}
      /\ caps' \subseteq caps /\ UNCHANGED <<minted, call>>
  BY DEF CapInv, StoreOK, Switch, SwitchSession, SwitchScope, InitializeScope, Clear, Tick
<1>2. StoreOK'
  BY <1>1, StoreShrinks DEF CapInv
<1>3. ASSUME NEW c \in Callers PROVE CallOK(c)'
  BY <1>1, CallWaits DEF CapInv
<1> QED
  BY <1>1, <1>2, <1>3 DEF CapInv

LEMMA CapInvStep == CapInv /\ [CapNext]_capVars => CapInv'
<1> SUFFICES ASSUME CapInv, [CapNext]_capVars PROVE CapInv'
  OBVIOUS
<1>1. ASSUME NEW c \in Callers, Tool(c) PROVE CapInv'
  BY <1>1, LocalsKeep, MintKnownKeeps, MintNewKeeps, ResolveKeeps, ForbiddenKeeps
  DEF Tool, Locals
<1>2. CASE Switch \/ Tick
  BY <1>2, OthersKeep
<1>3. CASE UNCHANGED capVars
  BY <1>3 DEF capVars, CapInv, StoreOK, CallOK, OneHandle, Bounded, Used
<1> QED
  BY <1>1, <1>2, <1>3 DEF CapNext

\* Purging takes what is out of time by the clock a call has read, eviction what
\* expires first of the rest.
LEMMA MintKeepsOrCause ==
  ASSUME CapInv, NEW c \in Callers, MintKnown(c) \/ MintNew(c) PROVE KeptOrCause
<1> DEFINE kept == Unexpired(call[c].now)
<1>1. /\ StoreOK /\ CallOK(c)
      /\ call[c].now \in Nat /\ call[c].now <= clock /\ clock \in Nat
  BY DEF CapInv, CallOK, Calls, StoreOK
<1> SUFFICES ASSUME NEW e \in caps, e \notin caps', e.expires > clock
             PROVE  Full(caps) /\ \A f \in caps \cap caps' : e.expires <= f.expires
  <2>1. \A e \in caps : e.expires \in Nat
    BY <1>1 DEF StoreOK, Entries
  <2>2. \A e \in caps : e.expires > clock \/ e.expires <= clock
    BY <1>1, <2>1
  <2> QED
    BY <2>2 DEF KeptOrCause
<1>2. e \in kept
  <2>1. e.expires \in Nat
    BY <1>1 DEF StoreOK, Entries
  <2> QED
    BY <1>1, <2>1 DEF Unexpired
<1>3. MintNew(c)
  BY <1>2 DEF MintKnown
<1>4. PICK h \in Fresh, p \in call[c].slots :
         \/ caps' = kept \cup {NewEntry(c, h, p)}
         \/ /\ Full(kept)
            /\ \E o \in Oldest(kept) : caps' = (kept \ {o}) \cup {NewEntry(c, h, p)}
  BY <1>3 DEF MintNew
<1>5. PICK o \in Oldest(kept) :
         Full(kept) /\ caps' = (kept \ {o}) \cup {NewEntry(c, h, p)}
  BY <1>2, <1>4
<1>6. e = o
  BY <1>2, <1>5
<1>7. Full(caps)
  <2>1. /\ Cardinality(kept) \in Nat /\ Cardinality(caps) \in Nat
        /\ Cardinality(kept) <= Cardinality(caps)
    BY <1>1, PurgedStore, FS_CardinalityType DEF StoreOK
  <2> QED
    BY <1>5, <2>1, CapabilityAssumption DEF Full
<1>8. NewEntry(c, h, p) \notin caps
  BY <1>1 DEF Fresh, Used, StoreOK, NewEntry
<1>9. ASSUME NEW f \in caps \cap caps' PROVE e.expires <= f.expires
  <2>1. f \in kept
    BY <1>5, <1>8
  <2> QED
    BY <1>6, <2>1 DEF Oldest
<1> QED
  BY <1>7, <1>9

LEMMA KeptStep == CapInv /\ [CapNext]_capVars => [KeptOrCause]_capVars
<1> SUFFICES ASSUME CapInv, CapNext PROVE KeptOrCause
  OBVIOUS
<1>1. ASSUME NEW c \in Callers, Locals(c) \/ ResolveAll(c) PROVE KeptOrCause
  BY <1>1 DEF KeptOrCause, Locals, BeginMint, BeginResolve, ReadSession, ReadClock,
              Return, ResolveAll
<1>2. ASSUME NEW c \in Callers, MintKnown(c) \/ MintNew(c) PROVE KeptOrCause
  BY <1>2, MintKeepsOrCause
<1>3. ASSUME NEW c \in Callers, ResolveForbidden(c) PROVE KeptOrCause
  BY <1>3 DEF KeptOrCause, ResolveForbidden, Step
<1>4. CASE Switch \/ Tick
  BY <1>4 DEF KeptOrCause, Switch, SwitchSession, SwitchScope, InitializeScope, Clear, Tick
<1> QED
  BY <1>1, <1>2, <1>3, <1>4 DEF CapNext, Tool, Locals

LEMMA CapInvAlways == CapSpec => []CapInv
BY CapInvInit, CapInvStep, PTL DEF CapSpec

-----------------------------------------------------------------------------
\* Every entry of the store was issued, and a token (secrets.token_urlsafe in mint)
\* stands for one point only.
THEOREM CapTypesCorrect == CapSpec => []CapTypeOK
BY CapInvAlways, CapInvHolds, PTL

\* mint gives a point one handle per scope and session, however many threads mint.
THEOREM CapOneHandle == CapSpec => []OneHandle
BY CapInvAlways, CapInvHolds, PTL

\* mint's eviction loop keeps the store within _CAPABILITY_MAX_ENTRIES.
THEOREM CapBounded == CapSpec => []Bounded
BY CapInvAlways, CapInvHolds, PTL

\* resolve_many gives no call a point of a session older than the call, although
\* on_session_switch and mint take no lock in common until the store itself, and
\* initialize does not even clear the store.
THEOREM CapOldHandlesDie == CapSpec => []OldHandlesDie
BY CapInvAlways, CapInvHolds, PTL

\* mint, resolve_many and clear drop no handle before its time without cause.
THEOREM CapKeptForCause == CapSpec => KeptForCause
BY CapInvInit, CapInvStep, KeptStep, PTL DEF CapSpec, KeptForCause
=============================================================================
