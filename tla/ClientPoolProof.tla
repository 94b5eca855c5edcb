--------------------------- MODULE ClientPoolProof ---------------------------
(***************************************************************************)
(* The client pool closes every client once, and none under a call, for    *)
(* any number of threads, clients and rotations.  The argument counts: in  *)
(* _client_inflight the pool knows exactly which clients are still in use. *)
(***************************************************************************)
EXTENDS ClientPool, FiniteSetTheorems, TLAPS

(* _client_inflight counts the calls that hold a client. *)

LEMMA Counting ==
    ASSUME TypeOK, NEW c \in Clients
    PROVE  /\ IsFiniteSet(Callers(c))
           /\ inflight[c] = Cardinality(Callers(c)) /\ inflight[c] \in Nat
           /\ inflight[c] = 0 <=> Callers(c) = {}
  <1>1. IsFiniteSet(Callers(c))
    <2>1. Callers(c) \in SUBSET Threads
      BY DEF Callers
    <2> QED  BY <2>1, PoolAssumption, FS_Subset
  <1>2. Cardinality(Callers(c)) \in Nat
        /\ (Cardinality(Callers(c)) = 0 <=> Callers(c) = {})
    BY <1>1, FS_CardinalityType, FS_EmptySet
  <1>3. inflight[c] = Cardinality(Callers(c))
    BY DEF TypeOK
  <1> QED  BY <1>1, <1>2, <1>3

LEMMA HoldCounts ==
    ASSUME TypeOK, NEW t \in Threads, call[t] = "acquire", NEW c \in Clients,
           Hold(t, c)
    PROVE  /\ \A d \in Clients : Callers(d)' =
                IF d = c THEN Callers(d) \cup {t} ELSE Callers(d)
           /\ inflight' = [d \in Clients |-> Cardinality(Callers(d)')]
  <1>1. using[t] = NoClient /\ c # NoClient
    BY PoolAssumption DEF TypeOK
  <1>2. \A d \in Clients : Callers(d)' =
           IF d = c THEN Callers(d) \cup {t} ELSE Callers(d)
    BY <1>1, PoolAssumption DEF TypeOK, Hold, Callers
  <1>3. t \notin Callers(c)
    BY <1>1 DEF Callers
  <1>4. Cardinality(Callers(c) \cup {t}) = Cardinality(Callers(c)) + 1
    BY <1>3, Counting, FS_AddElement
  <1>5. inflight = [d \in Clients |-> Cardinality(Callers(d))]
        /\ inflight' = [inflight EXCEPT ![c] = @ + 1]
    BY DEF TypeOK, Hold
  <1>6. ASSUME NEW d \in Clients
        PROVE  inflight'[d] = Cardinality(Callers(d)')
    BY <1>2, <1>4, <1>5
  <1> QED  BY <1>2, <1>5, <1>6

LEMMA ReleaseCounts ==
    ASSUME TypeOK, NEW t \in Threads, Release(t), NEW c, c = using[t]
    PROVE  /\ c \in Clients
           /\ \A d \in Clients : Callers(d)' =
                IF d = c THEN Callers(d) \ {t} ELSE Callers(d)
           /\ LastUse(inflight[c]) <=> Callers(c)' = {}
           /\ inflight' = [d \in Clients |-> Cardinality(Callers(d)')]
  <1>1. c \in Clients /\ c # NoClient
    BY PoolAssumption DEF TypeOK, Release
  <1>2. \A d \in Clients : Callers(d)' =
           IF d = c THEN Callers(d) \ {t} ELSE Callers(d)
    BY <1>1, PoolAssumption DEF TypeOK, Release, Callers
  <1>3. t \in Callers(c)
    BY DEF Callers
  <1>4. IsFiniteSet(Callers(c) \ {t})
        /\ Cardinality(Callers(c) \ {t}) = inflight[c] - 1
    BY <1>1, <1>3, Counting, FS_RemoveElement
  <1>5. inflight[c] \in Nat /\ inflight[c] # 0
        /\ (inflight[c] - 1 = 0 <=> Callers(c) \ {t} = {})
    BY <1>1, <1>3, <1>4, Counting, FS_EmptySet
  <1>6. inflight = [d \in Clients |-> Cardinality(Callers(d))]
        /\ inflight' = [inflight EXCEPT ![c] = IF LastUse(inflight[c]) THEN 0 ELSE @ - 1]
    BY DEF TypeOK, Release
  <1>7. LastUse(inflight[c]) <=> Callers(c) \ {t} = {}
    BY <1>5 DEF LastUse
  <1>8. ASSUME NEW d \in Clients
        PROVE  inflight'[d] = Cardinality(Callers(d)')
    <2>1. CASE d = c
      <3>1. inflight'[c] = inflight[c] - 1
        BY <1>1, <1>5, <1>6 DEF LastUse
      <3> QED  BY <1>1, <1>2, <1>4, <2>1, <3>1
    <2>2. CASE d # c
      BY <1>2, <1>6, <2>2
    <2> QED  BY <2>1, <2>2
  <1>9. inflight' = [d \in Clients |-> Cardinality(Callers(d)')]
    BY <1>6, <1>8
  <1> QED  BY <1>1, <1>2, <1>7, <1>9

LEMMA RetireUses ==
    ASSUME TypeOK, NEW c \in Clients, Retire(c)
    PROVE  /\ retired' = IF Callers(c) = {} THEN retired ELSE retired \cup {c}
           /\ closes' = IF Callers(c) = {} THEN [closes EXCEPT ![c] = @ + 1]
                                           ELSE closes
  BY Counting DEF Retire

LEMMA RetireCurrentOK ==
    ASSUME TypeOK, RetireCurrent
    PROVE  /\ retired' \subseteq Clients /\ closes' \in [Clients -> Nat]
           /\ \A d \in Clients :
                /\ d \in retired' <=> d \in retired \/ (d = current /\ Callers(d) # {})
                /\ closes'[d] = IF d = current /\ Callers(d) = {} THEN closes[d] + 1
                                                                  ELSE closes[d]
  <1>1. CASE current = NoClient
    BY <1>1, PoolAssumption DEF RetireCurrent, TypeOK
  <1>2. CASE current # NoClient
    <2>1. current \in Clients /\ Retire(current)
      BY <1>2 DEF RetireCurrent, TypeOK
    <2> QED  BY <2>1, RetireUses DEF TypeOK
  <1> QED  BY <1>1, <1>2

(* TypeOK without the count, which the lemmas above take care of. *)

PoolTypes ==
    /\ fingerprint \in Fingerprints /\ currentFp \in Fingerprints
    /\ current \in built \cup {NoClient}
    /\ built \subseteq Clients
    /\ retired \subseteq Clients
    /\ closes \in [Clients -> Nat]
    /\ call \in [Threads -> {"idle", "acquire", "rpc", "release"}]
    /\ using \in [Threads -> Clients \cup {NoClient}]
    /\ \A t \in Threads : using[t] \in built <=> call[t] \in {"rpc", "release"}
    /\ \A t \in Threads : using[t] = NoClient <=> call[t] \in {"idle", "acquire"}
    /\ fp \in [Threads -> Fingerprints]
    /\ phase \in {"up", "flagged", "closed", "timed_out"}
    /\ ledger \in {"open", "closed"}

Counted == inflight = [c \in Clients |-> Cardinality(Callers(c))]

LEMMA TypeParts == TypeOK <=> PoolTypes /\ Counted
  BY DEF TypeOK, PoolTypes, Counted

\* What PoolInvariant says of one client.
InvariantOf(c) ==
    /\ closes[c] = IF c \in built /\ c # current /\ Callers(c) = {} THEN 1 ELSE 0
    /\ c \in retired <=> c \in built /\ c # current /\ Callers(c) # {}

LEMMA InvariantByClient == PoolInvariant <=> \A c \in Clients : InvariantOf(c)
  BY DEF PoolInvariant, InvariantOf

LEMMA UnbuiltUnused ==
    ASSUME TypeOK, NEW c \in Clients \ built
    PROVE  Callers(c) = {} /\ c # current
  BY PoolAssumption DEF TypeOK, Callers

LEMMA SameUsers ==
    ASSUME Counted, UNCHANGED <<using, inflight>>
    PROVE  Counted' /\ \A c \in Clients : Callers(c)' = Callers(c)
  BY DEF Counted, Callers

-----------------------------------------------------------------------------
(* One lemma per kind of step. *)

LEMMA QuietStep ==
    ASSUME TypeOK, PoolInvariant,
           UNCHANGED <<current, built, inflight, retired, closes, using>>,
           PoolTypes'
    PROVE  TypeOK' /\ PoolInvariant'
  <1>1. Counted' /\ \A c \in Clients : Callers(c)' = Callers(c)
    BY TypeParts, SameUsers
  <1>2. TypeOK'
    BY <1>1, TypeParts DEF PoolTypes, Counted, TypeOK
  <1>3. PoolInvariant'
    BY <1>1 DEF PoolInvariant
  <1> QED  BY <1>2, <1>3

LEMMA AcquireStep ==
    ASSUME TypeOK, PoolInvariant, NEW t \in Threads,
           AcquireCurrent(t) \/ AcquireNew(t)
    PROVE  TypeOK' /\ PoolInvariant'
  <1>1. CASE AcquireCurrent(t)
    <2>1. current \in Clients /\ current \in built /\ current # NoClient
      BY <1>1, PoolAssumption DEF AcquireCurrent, Usable, TypeOK
    <2>2. /\ \A d \in Clients : Callers(d)' =
               IF d = current THEN Callers(d) \cup {t} ELSE Callers(d)
          /\ Counted'
      BY <1>1, <2>1, HoldCounts DEF AcquireCurrent, Counted
    <2>3. PoolTypes'
      BY <1>1, <2>1 DEF AcquireCurrent, Hold, PoolTypes, TypeOK
    <2>4. PoolInvariant'
      BY <1>1, <2>2 DEF AcquireCurrent, PoolInvariant
    <2> QED  BY <2>2, <2>3, <2>4 DEF TypeOK, PoolTypes, Counted
  <1>2. CASE AcquireNew(t)
    <2>1. PICK c \in Clients \ built :
             /\ built' = built \cup {c} /\ current' = c /\ currentFp' = fp[t]
             /\ Hold(t, c)
      BY <1>2 DEF AcquireNew
    <2>2. call[t] = "acquire" /\ RetireCurrent
          /\ UNCHANGED <<fingerprint, fp, phase, ledger>>
      BY <1>2 DEF AcquireNew
    <2>3. /\ \A d \in Clients : Callers(d)' =
               IF d = c THEN Callers(d) \cup {t} ELSE Callers(d)
          /\ Counted'
      BY <2>1, <2>2, HoldCounts DEF Counted
    <2>4. Callers(c) = {} /\ c # current
      BY <2>1, UnbuiltUnused
    <2>5. PoolTypes'
      BY <2>1, <2>2, RetireCurrentOK, PoolAssumption DEF Hold, PoolTypes, TypeOK
    <2>6. ASSUME NEW d \in Clients
          PROVE  InvariantOf(d)'
      <3>1. InvariantOf(d)
        BY InvariantByClient
      <3>2. CASE d = c
        <4>1. closes[c] = 0 /\ c \notin retired
          BY <2>1, <2>4, <3>1, <3>2 DEF InvariantOf
        <4>2. closes'[c] = 0 /\ c \notin retired'
          BY <2>1, <2>2, <2>4, <4>1, RetireCurrentOK
        <4> QED  BY <2>1, <3>2, <4>2 DEF InvariantOf
      <3>3. CASE d # c
        <4>1. /\ Callers(d)' = Callers(d) /\ d # current'
              /\ d \in built' <=> d \in built
          BY <2>1, <2>3, <3>3
        <4>2. d = current => d \in built
          BY PoolAssumption DEF TypeOK
        <4>3. /\ d \in retired' <=> d \in retired \/ (d = current /\ Callers(d) # {})
              /\ closes'[d] = IF d = current /\ Callers(d) = {} THEN closes[d] + 1
                                                               ELSE closes[d]
          BY <2>2, RetireCurrentOK
        <4> QED  BY <3>1, <4>1, <4>2, <4>3 DEF InvariantOf
      <3> QED  BY <3>2, <3>3
    <2>7. PoolInvariant'
      BY <2>6 DEF PoolInvariant, InvariantOf
    <2> QED  BY <2>3, <2>5, <2>7 DEF TypeOK, PoolTypes, Counted
  <1> QED  BY <1>1, <1>2

LEMMA FailedBuildStep ==
    ASSUME TypeOK, PoolInvariant, NEW t \in Threads, BuildFails(t)
    PROVE  TypeOK' /\ PoolInvariant'
  <1>1. /\ RetireCurrent /\ current' = NoClient /\ call[t] = "acquire"
        /\ UNCHANGED <<built, inflight, using>>
    BY DEF BuildFails
  <1>2. Counted' /\ \A c \in Clients : Callers(c)' = Callers(c)
    BY <1>1, TypeParts, SameUsers
  <1>3. PoolTypes'
    BY <1>1, RetireCurrentOK DEF BuildFails, PoolTypes, TypeOK
  <1>4. ASSUME NEW d \in Clients
        PROVE  InvariantOf(d)'
    <2>1. InvariantOf(d) /\ d # NoClient
      BY InvariantByClient, PoolAssumption
    <2> QED
      BY <1>1, <1>2, <2>1, RetireCurrentOK DEF InvariantOf, TypeOK
  <1>5. PoolInvariant'
    BY <1>4 DEF PoolInvariant, InvariantOf
  <1> QED  BY <1>2, <1>3, <1>5 DEF TypeOK, PoolTypes, Counted

\* The caller that drops the client still uses it, so it is set aside.
LEMMA DropStep ==
    ASSUME TypeOK, PoolInvariant, NEW t \in Threads, Drop(t)
    PROVE  TypeOK' /\ PoolInvariant'
  <1> DEFINE c == using[t]
  <1>1. /\ c \in Clients /\ c \in built /\ c # NoClient
        /\ t \in Callers(c)
    BY PoolAssumption DEF Drop, TypeOK, Callers
  <1>2. /\ Retire(c) /\ current' = IF current = c THEN NoClient ELSE current
        /\ UNCHANGED <<built, inflight, using>>
    BY DEF Drop
  <1>3. retired' = retired \cup {c} /\ closes' = closes
    BY <1>1, <1>2, RetireUses
  <1>4. Counted' /\ \A d \in Clients : Callers(d)' = Callers(d)
    BY <1>2, TypeParts, SameUsers
  <1>5. PoolTypes'
    BY <1>1, <1>3 DEF Drop, PoolTypes, TypeOK
  <1> HIDE DEF c
  <1>6. ASSUME NEW d \in Clients
        PROVE  InvariantOf(d)'
    <2>1. InvariantOf(d) /\ d # NoClient
      BY InvariantByClient, PoolAssumption
    <2> QED  BY <1>1, <1>2, <1>3, <1>4, <2>1 DEF InvariantOf
  <1>7. PoolInvariant'
    BY <1>6 DEF PoolInvariant, InvariantOf
  <1> QED  BY <1>4, <1>5, <1>7 DEF TypeOK, PoolTypes, Counted

LEMMA ReleaseStep ==
    ASSUME TypeOK, PoolInvariant, NEW t \in Threads, Release(t)
    PROVE  TypeOK' /\ PoolInvariant'
  <1>1. PICK c : c = using[t]
    OBVIOUS
  <1>2. /\ c \in Clients
        /\ \A d \in Clients : Callers(d)' =
             IF d = c THEN Callers(d) \ {t} ELSE Callers(d)
        /\ LastUse(inflight[c]) <=> Callers(c)' = {}
        /\ Counted'
    BY <1>1, ReleaseCounts DEF Counted
  <1>3. /\ UNCHANGED <<current, built>>
        /\ IF LastUse(inflight[c]) /\ c \in retired
             THEN /\ retired' = retired \ {c}
                  /\ closes' = [closes EXCEPT ![c] = @ + 1]
             ELSE UNCHANGED <<retired, closes>>
    BY <1>1 DEF Release
  <1>4. Callers(c) # {} /\ c \in built
    BY <1>1, <1>2, PoolAssumption DEF TypeOK, Callers, Release
  <1>5. PoolTypes'
    <2>1. closes' \in [Clients -> Nat] /\ retired' \subseteq Clients
      BY <1>3 DEF TypeOK
    <2>2. /\ using' = [using EXCEPT ![t] = NoClient]
          /\ call' = [call EXCEPT ![t] = "idle"]
          /\ UNCHANGED <<fingerprint, current, currentFp, built, fp, phase>>
          /\ ledger' \in {ledger, "closed"}
      BY DEF Release
    <2>3. NoClient \notin built
      BY PoolAssumption DEF TypeOK
    <2> QED  BY <2>1, <2>2, <2>3 DEF PoolTypes, TypeOK
  <1>6. ASSUME NEW d \in Clients
        PROVE  InvariantOf(d)'
    <2>1. InvariantOf(d) /\ closes[d] \in Nat
      BY InvariantByClient DEF TypeOK
    <2>2. CASE d = c
      BY <1>2, <1>3, <1>4, <2>1, <2>2 DEF InvariantOf, TypeOK
    <2>3. CASE d # c
      <3>1. Callers(d)' = Callers(d)
        BY <1>2, <2>3
      <3>2. closes'[d] = closes[d] /\ (d \in retired' <=> d \in retired)
        BY <1>3, <2>3 DEF TypeOK
      <3> QED  BY <1>3, <2>1, <3>1, <3>2 DEF InvariantOf
    <2> QED  BY <2>2, <2>3
  <1>7. PoolInvariant'
    BY <1>6 DEF PoolInvariant, InvariantOf
  <1> QED  BY <1>2, <1>5, <1>7 DEF TypeOK, PoolTypes, Counted

LEMMA ShutdownStep ==
    ASSUME TypeOK, PoolInvariant, ShutdownCloses
    PROVE  TypeOK' /\ PoolInvariant'
  <1> DEFINE toRetire == retired \cup ({current} \ {NoClient})
             unused   == {c \in toRetire : inflight[c] = 0}
  <1>1. /\ current' = NoClient /\ UNCHANGED <<built, using, inflight>>
        /\ closes' = [c \in Clients |-> IF c \in unused THEN closes[c] + 1
                                                       ELSE closes[c]]
        /\ retired' = retired \cup (toRetire \ unused)
    BY DEF ShutdownCloses
  <1>2. Counted' /\ \A c \in Clients : Callers(c)' = Callers(c)
    BY <1>1, TypeParts, SameUsers
  <1>3. toRetire \subseteq built /\ built \subseteq Clients
    <2>1. \A c \in Clients : c \in retired => c \in built
      BY DEF PoolInvariant
    <2> QED  BY <2>1 DEF TypeOK
  <1>4. closes' \in [Clients -> Nat]
    BY <1>1 DEF TypeOK
  <1>5. PoolTypes'
    BY <1>1, <1>3, <1>4 DEF ShutdownCloses, PoolTypes, TypeOK
  <1>6. ASSUME NEW d \in Clients
        PROVE  InvariantOf(d)'
    <2>1. InvariantOf(d) /\ d # NoClient
      BY InvariantByClient, PoolAssumption
    <2>2. d \in toRetire => (d \in unused <=> Callers(d) = {})
      BY Counting
    <2>3. d \in toRetire <=> d \in retired \/ d = current
      BY <2>1
    <2>4. /\ d \in retired' <=> d \in retired \/ (d \in toRetire /\ d \notin unused)
          /\ closes'[d] = IF d \in unused THEN closes[d] + 1 ELSE closes[d]
          /\ d \in unused => d \in toRetire
          /\ d \in toRetire => d \in built
      BY <1>1, <1>3
    <2> HIDE DEF toRetire, unused
    <2> QED  BY <1>1, <1>2, <2>1, <2>2, <2>3, <2>4 DEF InvariantOf
  <1>7. PoolInvariant'
    BY <1>6 DEF PoolInvariant, InvariantOf
  <1> QED  BY <1>2, <1>5, <1>7 DEF TypeOK, PoolTypes, Counted

LEMMA PoolStep ==
    ASSUME TypeOK, PoolInvariant, [Next]_poolVars
    PROVE  TypeOK' /\ PoolInvariant'
  <1>1. CASE UNCHANGED poolVars
    BY <1>1, QuietStep DEF poolVars, PoolTypes, TypeOK
  <1>2. CASE Reconfigure \/ ShutdownFlag \/ ShutdownTimesOut
    BY <1>2, QuietStep
       DEF Reconfigure, ShutdownFlag, ShutdownTimesOut, PoolTypes, TypeOK
  <1>3. CASE ShutdownCloses
    BY <1>3, ShutdownStep
  <1>4. ASSUME NEW t \in Threads, ReadFingerprint(t) \/ Answer(t)
        PROVE  TypeOK' /\ PoolInvariant'
    <2>1. PoolTypes'
      BY <1>4 DEF ReadFingerprint, Answer, PoolTypes, TypeOK
    <2> QED  BY <1>4, <2>1, QuietStep DEF ReadFingerprint, Answer
  <1>5. ASSUME NEW t \in Threads,
               \/ AcquireCurrent(t) \/ AcquireNew(t) \/ BuildFails(t)
               \/ Drop(t) \/ Release(t)
        PROVE  TypeOK' /\ PoolInvariant'
    BY <1>5, AcquireStep, FailedBuildStep, DropStep, ReleaseStep
  <1> QED  BY <1>1, <1>2, <1>3, <1>4, <1>5 DEF Next, Call

-----------------------------------------------------------------------------
LEMMA PoolStart ==
    ASSUME Init
    PROVE  TypeOK /\ PoolInvariant
  <1>1. \A c \in Clients : Callers(c) = {}
    BY PoolAssumption DEF Init, Callers
  <1>2. Counted
    BY <1>1, FS_EmptySet DEF Init, Counted
  <1>3. PoolTypes
    BY DEF Init, PoolTypes
  <1>4. PoolInvariant
    BY <1>1 DEF Init, PoolInvariant
  <1> QED  BY <1>2, <1>3, <1>4, TypeParts

\* _client_inflight counts exactly the calls under way, and a client is closed
\* exactly when it is out of use: the inductive invariant of the pool.
THEOREM PoolCorrect == Spec => [](TypeOK /\ PoolInvariant)
  <1>1. Init => TypeOK /\ PoolInvariant
    BY PoolStart
  <1>2. (TypeOK /\ PoolInvariant) /\ [Next]_poolVars => (TypeOK /\ PoolInvariant)'
    BY PoolStep
  <1> QED  BY <1>1, <1>2, PTL DEF Spec

\* _client_inflight never miscounts, over rotations, failed builds and shutdown.
THEOREM PoolTypesCorrect == Spec => []TypeOK
  <1>1. TypeOK /\ PoolInvariant => TypeOK
    OBVIOUS
  <1> QED  BY <1>1, PoolCorrect, PTL

\* No call ever runs on a closed client, whatever rotates, fails or shuts down.
THEOREM PoolNeverClosesInUse == Spec => []NeverClosedInUse
  <1>1. TypeOK /\ PoolInvariant => NeverClosedInUse
    <2> SUFFICES ASSUME TypeOK, PoolInvariant, NEW t \in Threads,
                        using[t] # NoClient
                 PROVE  closes[using[t]] = 0
      BY DEF NeverClosedInUse
    <2>1. using[t] \in Clients /\ Callers(using[t]) # {}
      BY DEF TypeOK, Callers
    <2> QED  BY <2>1 DEF PoolInvariant
  <1> QED  BY <1>1, PoolCorrect, PTL

\* Every client is closed once it is out of use, and once only: rotations and
\* errors leak no connection.
THEOREM PoolClosesOnce == Spec => []ClosedExactlyOnce
  <1>1. TypeOK /\ PoolInvariant => ClosedExactlyOnce
    BY DEF TypeOK, PoolInvariant, ClosedExactlyOnce
  <1> QED  BY <1>1, PoolCorrect, PTL
=============================================================================
