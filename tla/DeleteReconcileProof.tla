------------------------ MODULE DeleteReconcileProof ------------------------
(***************************************************************************)
(* Whatever passes, mutations, other clients and crashes interleave, every *)
(* step of a pass has a row of the ledger in hand, and the attempts counted *)
(* for a row stay within the cap.                                          *)
(***************************************************************************)
EXTENDS DeleteReconcile, SequenceTheorems, TLAPS

Lists(q, d) == \E i \in DOMAIN q : q[i] = d
Injective(q) == \A i, j \in DOMAIN q : q[i] = q[j] => i = j

LEMMA Front ==
  ASSUME NEW q \in Seq(Digests), NEW k \in Nat, k <= Len(q)
  PROVE  /\ SubSeq(q, 1, k) \in Seq(Digests) /\ Len(SubSeq(q, 1, k)) = k
         /\ \A i \in 1..k : SubSeq(q, 1, k)[i] = q[i]
BY SubSeqProperties

\* What is left of a list when its k-th row is taken out.
LEMMA CutOut ==
  ASSUME NEW q \in Seq(Digests), NEW n \in Nat, n = Len(q), NEW k \in 1..n
  PROVE  \E w \in Seq(Digests) :
            /\ w = SubSeq(q, 1, k - 1) \o SubSeq(q, k + 1, n)
            /\ Len(w) = n - 1
            /\ \A i \in 1..(n - 1) : w[i] = IF i < k THEN q[i] ELSE q[i + 1]
<1> DEFINE front == SubSeq(q, 1, k - 1)
           back  == SubSeq(q, k + 1, n)
<1>1. PICK a \in Seq(Digests) :
         /\ a = front /\ Len(a) = k - 1
         /\ \A i \in 1..(k - 1) : a[i] = q[i]
  <2>1. k - 1 \in Nat /\ k - 1 <= Len(q)
    OBVIOUS
  <2>2. /\ front \in Seq(Digests) /\ Len(front) = k - 1
        /\ \A i \in 1..(k - 1) : front[i] = q[i]
    BY <2>1, Front
  <2> HIDE DEF front
  <2> QED
    BY <2>2
<1>2. PICK b \in Seq(Digests) :
         /\ b = back /\ Len(b) = n - k
         /\ \A i \in 1..(n - k) : b[i] = q[k + i]
  <2>1. k + 1 \in Int /\ n \in Int /\ \A i \in (k + 1)..n : q[i] \in Digests
    OBVIOUS
  <2>2. /\ back \in Seq(Digests)
        /\ Len(back) = IF k + 1 <= n THEN n - (k + 1) + 1 ELSE 0
        /\ \A i \in 1..(n - (k + 1) + 1) : back[i] = q[k + 1 + i - 1]
    BY <2>1, SubSeqProperties
  <2> HIDE DEF back
  <2>3. Len(back) = n - k
    BY <2>2
  <2>4. ASSUME NEW i \in 1..(n - k) PROVE back[i] = q[k + i]
    <3>1. i \in 1..(n - (k + 1) + 1) /\ k + 1 + i - 1 = k + i
      OBVIOUS
    <3> QED
      BY <2>2, <3>1
  <2> QED
    BY <2>2, <2>3, <2>4
<1> HIDE DEF front, back
<1>3. PICK w \in Seq(Digests) :
         /\ w = a \o b
         /\ Len(w) = n - 1
         /\ \A i \in 1..(n - 1) : w[i] = IF i <= k - 1 THEN a[i] ELSE b[i - (k - 1)]
  <2>1. /\ a \o b \in Seq(Digests) /\ Len(a \o b) = Len(a) + Len(b)
        /\ \A i \in 1..(Len(a) + Len(b)) :
              (a \o b)[i] = IF i <= Len(a) THEN a[i] ELSE b[i - Len(a)]
    BY ConcatProperties
  <2>2. Len(a) + Len(b) = n - 1 /\ Len(a) = k - 1
    BY <1>1, <1>2
  <2> QED
    BY <2>1, <2>2
<1>5. ASSUME NEW i \in 1..(n - 1) PROVE w[i] = IF i < k THEN q[i] ELSE q[i + 1]
  <2>1. CASE i < k
    <3>1. i \in 1..(k - 1) /\ i <= k - 1
      BY <2>1
    <3> QED
      BY <1>1, <1>3, <2>1, <3>1
  <2>2. CASE ~(i < k)
    <3>1. PICK j \in 1..(n - k) : j = i - (k - 1)
      BY <2>2
    <3>2. k + j = i + 1 /\ ~(i <= k - 1)
      BY <2>2, <3>1
    <3>3. w[i] = b[j]
      BY <1>3, <3>1, <3>2
    <3> QED
      BY <1>2, <2>2, <3>2, <3>3
  <2> QED
    BY <2>1, <2>2
<1> QED
  BY <1>1, <1>2, <1>3, <1>5 DEF front, back

\* Taking a row off the list leaves the others, each once.
LEMMA WithoutLists ==
  ASSUME NEW q \in Seq(Digests), Injective(q), NEW d
  PROVE  /\ Without(q, d) \in Seq(Digests) /\ Injective(Without(q, d))
         /\ \A e \in Digests : Lists(Without(q, d), e) <=> Lists(q, e) /\ e # d
<1>1. CASE \A i \in DOMAIN q : q[i] # d
  BY <1>1 DEF Without, Lists
<1>2. CASE \E i \in DOMAIN q : q[i] = d
  <2>1. PICK n \in Nat : n = Len(q) /\ DOMAIN q = 1..n
    OBVIOUS
  <2>2. PICK k \in 1..n :
           q[k] = d /\ Without(q, d) = SubSeq(q, 1, k - 1) \o SubSeq(q, k + 1, n)
    BY <1>2, <2>1 DEF Without
  <2>3. PICK w \in Seq(Digests) :
           /\ w = Without(q, d) /\ Len(w) = n - 1
           /\ \A i \in 1..(n - 1) : w[i] = IF i < k THEN q[i] ELSE q[i + 1]
    <3>1. \E w \in Seq(Digests) :
             /\ w = SubSeq(q, 1, k - 1) \o SubSeq(q, k + 1, n)
             /\ Len(w) = n - 1
             /\ \A i \in 1..(n - 1) : w[i] = IF i < k THEN q[i] ELSE q[i + 1]
      BY <2>1, CutOut
    <3> QED
      BY <2>2, <3>1
  <2>4. DOMAIN w = 1..(n - 1)
    BY <2>3
  <2>5. \A i \in 1..n : q[i] = d => i = k
    BY <2>1, <2>2 DEF Injective
  <2>6. ASSUME NEW i \in 1..(n - 1), NEW j \in 1..(n - 1), w[i] = w[j] PROVE i = j
    <3>1. PICK f \in 1..n, g \in 1..n :
             f = (IF i < k THEN i ELSE i + 1) /\ g = (IF j < k THEN j ELSE j + 1)
      OBVIOUS
    <3>2. w[i] = q[f] /\ w[j] = q[g]
      BY <2>3, <3>1
    <3>3. f = g
      BY <2>1, <2>6, <3>2 DEF Injective
    <3> QED
      BY <3>1, <3>3
  <2>7. ASSUME NEW i \in 1..(n - 1) PROVE w[i] # d /\ \E j \in 1..n : q[j] = w[i]
    <3>1. PICK f \in 1..n : f = (IF i < k THEN i ELSE i + 1)
      OBVIOUS
    <3>2. w[i] = q[f] /\ f # k
      BY <2>3, <3>1
    <3> QED
      BY <2>5, <3>2
  <2>8. ASSUME NEW j \in 1..n, q[j] # d PROVE \E i \in 1..(n - 1) : w[i] = q[j]
    <3>1. j # k
      BY <2>2, <2>8
    <3>2. PICK i \in 1..(n - 1) : j = (IF i < k THEN i ELSE i + 1)
      <4>1. CASE j < k
        <5>1. j \in 1..(n - 1)
          BY <4>1
        <5> QED
          BY <4>1, <5>1
      <4>2. CASE j > k
        <5>1. j - 1 \in 1..(n - 1) /\ ~(j - 1 < k) /\ j = (j - 1) + 1
          BY <4>2
        <5> QED
          BY <5>1
      <4> QED
        BY <3>1, <4>1, <4>2
    <3> QED
      BY <2>3, <3>2
  <2>9. \A e \in Digests : Lists(w, e) <=> Lists(q, e) /\ e # d
    <3> SUFFICES ASSUME NEW e \in Digests PROVE Lists(w, e) <=> Lists(q, e) /\ e # d
      OBVIOUS
    <3>1. Lists(w, e) <=> \E i \in 1..(n - 1) : w[i] = e
      BY <2>4 DEF Lists
    <3>2. Lists(q, e) <=> \E j \in 1..n : q[j] = e
      BY <2>1 DEF Lists
    <3> QED
      BY <2>7, <2>8, <3>1, <3>2
  <2>10. Injective(w)
    BY <2>4, <2>6 DEF Injective
  <2> QED
    BY <2>3, <2>9, <2>10
<1> QED
  BY <1>1, <1>2

\* A row put last is on the list, once, with the others.
LEMMA YoungestLists ==
  ASSUME NEW q \in Seq(Digests), Injective(q), NEW d \in Digests
  PROVE  /\ Youngest(q, d) \in Seq(Digests) /\ Injective(Youngest(q, d))
         /\ \A e \in Digests : Lists(Youngest(q, d), e) <=> Lists(q, e) \/ e = d
<1> DEFINE w == Without(q, d)
           n == Len(w)
           y == Append(w, d)
<1>1. /\ w \in Seq(Digests) /\ Injective(w)
      /\ \A e \in Digests : Lists(w, e) <=> Lists(q, e) /\ e # d
  BY WithoutLists
<1>2. Youngest(q, d) = y
  BY DEF Youngest
<1> HIDE DEF w
<1>3. /\ n \in Nat /\ DOMAIN w = 1..n /\ y \in Seq(Digests)
      /\ DOMAIN y = 1..(n + 1) /\ y[n + 1] = d
      /\ \A i \in 1..n : y[i] = w[i]
  BY <1>1
<1>4. \A i \in 1..n : w[i] # d
  BY <1>1, <1>3 DEF Lists
<1> HIDE DEF y
<1>5. Injective(y)
  <2> SUFFICES ASSUME NEW i \in 1..(n + 1), NEW j \in 1..(n + 1), y[i] = y[j]
               PROVE  i = j
    BY <1>3 DEF Injective
  <2>1. CASE i \in 1..n /\ j \in 1..n
    BY <1>1, <1>3, <2>1 DEF Injective
  <2>2. CASE i = n + 1 \/ j = n + 1
    BY <1>3, <1>4, <2>2
  <2> QED
    BY <1>3, <2>1, <2>2
<1>6. ASSUME NEW e \in Digests PROVE Lists(y, e) <=> Lists(w, e) \/ e = d
  <2>1. Lists(w, e) => Lists(y, e)
    BY <1>3 DEF Lists
  <2>2. e = d => Lists(y, e)
    BY <1>3 DEF Lists
  <2>3. ASSUME NEW i \in 1..(n + 1), y[i] = e, e # d PROVE Lists(w, e)
    BY <1>3, <2>3 DEF Lists
  <2> QED
    BY <1>3, <2>1, <2>2, <2>3 DEF Lists
<1> QED
  BY <1>1, <1>2, <1>3, <1>5, <1>6

-----------------------------------------------------------------------------
\* The ledger's half of TypeOK: its rows, and the list the query runs over.
ListOK ==
    /\ status \in [Digests -> Statuses]
    /\ pending \in Seq(Digests) /\ Injective(pending)
    /\ \A d \in Digests : status[d] = "delete_pending" <=> Lists(pending, d)

Pcs == {"idle", "next", "read", "removed", "conflict", "clear", "note", "requeue"}
Steps == [pc : Pcs, todo : Seq(Digests), digest : Digests \cup {Nobody},
          begun : BOOLEAN, moved : SUBSET Digests]

\* The other half, with the digest each step of a pass works on.
PassOK ==
    /\ point \in [Digests -> {"own", "none", "other"}]
    /\ attempts \in [Digests -> 0..MaxAttempts]
    /\ waiting \subseteq Digests
    /\ run \in [Runners -> Steps]
    /\ \A r \in Runners : run[r].pc \notin {"idle", "next"} => run[r].digest \in Digests
    /\ events \in 0..MaxEvents

LEMMA TypeHalves == ListOK /\ PassOK => TypeOK
BY DEF ListOK, PassOK, TypeOK, Lists, Injective, Pcs, Steps

LEMMA SetStatusKeeps ==
  ASSUME ListOK, NEW d \in Digests, NEW s \in Statuses, SetStatus(d, s)
  PROVE  ListOK'
<1>1. status' = [status EXCEPT ![d] = s]
  BY DEF SetStatus
<1>2. status' \in [Digests -> Statuses]
      /\ \A e \in Digests : status'[e] = IF e = d THEN s ELSE status[e]
  BY <1>1 DEF ListOK
<1>3. CASE s = "delete_pending"
  <2>1. pending' = Youngest(pending, d)
    BY <1>3 DEF SetStatus
  <2> QED
    BY <1>2, <1>3, <2>1, YoungestLists DEF ListOK
<1>4. CASE s # "delete_pending"
  <2>1. pending' = Without(pending, d)
    BY <1>4 DEF SetStatus
  <2> QED
    BY <1>2, <1>4, <2>1, WithoutLists DEF ListOK
<1> QED
  BY <1>3, <1>4

\* Which steps write the ledger's rows.
LEMMA ListStep == ASSUME ListOK, PassOK, [Next]_vars PROVE ListOK'
<1>1. CASE UNCHANGED records
  BY <1>1 DEF records, ListOK, Lists, Injective
<1>2. ASSUME NEW r \in Runners, Settle(r) PROVE ListOK'
  <2>1. run[r].digest \in Digests /\ run[r].pc \in Statuses
    BY <1>2 DEF Settle, PassOK, Statuses
  <2> QED
    BY <1>2, <2>1, SetStatusKeeps DEF Settle
<1>3. ASSUME NEW r \in Runners, Requeue(r) PROVE ListOK'
  <2>1. run[r].digest \in Digests
    BY <1>3 DEF Requeue, At, PassOK
  <2> QED
    BY <1>3, <2>1, SetStatusKeeps DEF Requeue, Statuses
<1>4. CASE Mutation
  BY <1>4, SetStatusKeeps DEF Mutation, Stored, StoreFails, Removed, RemoveFails, Statuses
<1>5. ASSUME NEW r \in Runners, Begin(r) \/ Pass(r) PROVE ListOK'
  <2>1. UNCHANGED records \/ Settle(r) \/ Requeue(r)
    BY <1>5 DEF Pass, Begin, Skip, Attempt, BudgetSpent, FindNotOurs, DeleteVerified,
                RpcRaises, ClearRetry, Note, Finish
  <2> QED
    BY <1>1, <1>2, <1>3, <2>1
<1>6. CASE Occupy \/ Crash \/ \E d \in Digests : DelayPasses(d)
  BY <1>1, <1>6 DEF Occupy, Crash, DelayPasses
<1> QED
  BY <1>1, <1>4, <1>5, <1>6 DEF Next, vars, records

-----------------------------------------------------------------------------
\* A pass that moves to another step with a digest in hand, where it needs one.
LEMMA GotoKeeps ==
  ASSUME PassOK, NEW r \in Runners, NEW s \in Steps, Goto(r, s),
         s.pc \notin {"idle", "next"} => s.digest \in Digests
  PROVE  /\ run' \in [Runners -> Steps]
         /\ \A u \in Runners : run'[u].pc \notin {"idle", "next"} => run'[u].digest \in Digests
BY DEF PassOK, Goto

LEMMA RestingStep == Resting \in Steps
BY DEF Resting, Steps, Pcs

LEMMA WindowIsList ==
  ASSUME ListOK, NEW limit \in Nat
  PROVE  Window(limit) \in Seq(Digests)
<1> DEFINE k == IF limit < Len(pending) THEN limit ELSE Len(pending)
<1>1. k \in 0..Len(pending)
  BY DEF ListOK
<1> QED
  BY <1>1 DEF ListOK, Window

LEMMA EventCounted == ASSUME PassOK, Event PROVE events' \in 0..MaxEvents
BY ReconcileAssumption DEF PassOK, Event

LEMMA PassStep == ASSUME ListOK, PassOK, [Next]_vars PROVE PassOK'
<1>1. ASSUME NEW r \in Runners, Begin(r) PROVE PassOK'
  <2>0. PICK limit \in Nat : Goto(r, [Resting EXCEPT !.pc = "next",
                                                    !.todo = Window(limit)])
    BY <1>1, ReconcileAssumption DEF Begin
  <2> DEFINE s == [Resting EXCEPT !.pc = "next", !.todo = Window(limit)]
  <2>1. s \in Steps /\ s.pc = "next"
    BY WindowIsList DEF Resting, Steps, Pcs
  <2>2. Goto(r, s) /\ UNCHANGED <<point, retries, events>>
    BY <1>1, <2>0 DEF Begin
  <2> QED
    BY <2>1, <2>2, GotoKeeps DEF PassOK, retries
<1>2. ASSUME NEW r \in Runners, Pass(r) PROVE PassOK'
  <2>1. PICK z \in Steps : z = run[r]
    BY DEF PassOK
  <2>2. z.pc \notin {"idle", "next"} => z.digest \in Digests
    BY <2>1 DEF PassOK
  <2>3. ASSUME NEW pc \in Pcs, GotoPc(r, pc), z.pc \notin {"idle", "next"}
        PROVE  /\ run' \in [Runners -> Steps]
               /\ \A u \in Runners :
                     run'[u].pc \notin {"idle", "next"} => run'[u].digest \in Digests
    <3>1. [z EXCEPT !.pc = pc] \in Steps /\ [z EXCEPT !.pc = pc].digest \in Digests
      BY <2>2, <2>3 DEF Steps
    <3> QED
      BY <2>1, <2>3, <3>1, GotoKeeps DEF GotoPc
  <2>4. CASE Skip(r)
    <3> DEFINE s == [z EXCEPT !.todo = Tail(@)]
    <3>1. z.pc = "next" /\ z.todo # <<>> /\ Goto(r, s)
      BY <2>1, <2>4 DEF Skip, At
    <3>2. Tail(z.todo) \in Seq(Digests)
      BY <3>1 DEF Steps
    <3>3. s \in Steps /\ s.pc = "next"
      BY <3>1, <3>2 DEF Steps
    <3> QED
      BY <2>4, <3>1, <3>3, GotoKeeps DEF Skip, PassOK, retries
  <2>5. CASE Attempt(r)
    <3> DEFINE s == [z EXCEPT !.pc = "read", !.digest = Head(z.todo),
                              !.todo = Tail(@), !.begun = TRUE]
    <3>1. z.todo # <<>> /\ Goto(r, s)
      BY <2>1, <2>5 DEF Attempt
    <3>2. Head(z.todo) \in Digests /\ Tail(z.todo) \in Seq(Digests)
      BY <3>1 DEF Steps
    <3>3. s \in Steps /\ s.digest \in Digests
      BY <3>2 DEF Steps, Pcs
    <3> QED
      BY <2>5, <3>1, <3>3, GotoKeeps DEF Attempt, PassOK, retries
  <2>6. CASE BudgetSpent(r) \/ Finish(r)
    BY <2>6, RestingStep, GotoKeeps DEF BudgetSpent, Finish, Resting, PassOK, retries
  <2>7. CASE FindNotOurs(r)
    <3>1. z.pc = "read" /\ \E pc \in Pcs : GotoPc(r, pc)
      BY <2>1, <2>7 DEF FindNotOurs, At, Pcs
    <3> QED
      BY <2>3, <2>7, <3>1 DEF FindNotOurs, PassOK, retries
  <2>8. CASE DeleteVerified(r) \/ RpcRaises(r)
    <3>1. z.pc = "read" /\ \E pc \in Pcs : GotoPc(r, pc)
      BY <2>1, <2>8 DEF DeleteVerified, RpcRaises, At, Pcs
    <3>2. point' \in [Digests -> {"own", "none", "other"}]
      BY <2>8 DEF DeleteVerified, RpcRaises, PassOK
    <3> QED
      BY <2>3, <2>8, <3>1, <3>2 DEF DeleteVerified, RpcRaises, PassOK, retries
  <2>9. CASE Settle(r)
    <3>1. z.pc \notin {"idle", "next"} /\ GotoPc(r, "clear") /\ "clear" \in Pcs
      BY <2>1, <2>9 DEF Settle, Pcs
    <3> QED
      BY <2>3, <2>9, <3>1 DEF Settle, PassOK, retries
  <2>10. CASE ClearRetry(r)
    <3> DEFINE s == [z EXCEPT !.pc = "next", !.digest = Nobody]
    <3>1. s \in Steps /\ s.pc = "next" /\ Goto(r, s)
      BY <2>1, <2>10 DEF ClearRetry, Steps, Pcs
    <3>2. 0 \in 0..MaxAttempts
      BY ReconcileAssumption
    <3>3. attempts' \in [Digests -> 0..MaxAttempts] /\ waiting' \subseteq Digests
      BY <2>10, <3>2 DEF ClearRetry, PassOK
    <3> QED
      BY <2>10, <3>1, <3>3, GotoKeeps DEF ClearRetry, PassOK
  <2>11. CASE Note(r)
    <3>1. z.pc = "note" /\ GotoPc(r, "requeue") /\ "requeue" \in Pcs
      BY <2>1, <2>11 DEF Note, At, Pcs
    <3>2. \A n \in 0..MaxAttempts : NoteRetry(n) \in 0..MaxAttempts
      BY ReconcileAssumption DEF NoteRetry
    <3>3. attempts' \in [Digests -> 0..MaxAttempts] /\ waiting' \subseteq Digests
      BY <2>1, <2>2, <2>11, <3>1, <3>2 DEF Note, PassOK
    <3> QED
      BY <2>3, <2>11, <3>1, <3>3 DEF Note, PassOK
  <2>12. CASE Requeue(r)
    <3> DEFINE s == [z EXCEPT !.pc = "next", !.digest = Nobody]
    <3>1. s \in Steps /\ s.pc = "next" /\ Goto(r, s)
      BY <2>1, <2>12 DEF Requeue, Steps, Pcs
    <3> QED
      BY <2>12, <3>1, GotoKeeps DEF Requeue, PassOK, retries
  <2> QED
    BY <1>2, <2>4, <2>5, <2>6, <2>7, <2>8, <2>9, <2>10, <2>11, <2>12 DEF Pass
<1>3. CASE \E d \in Digests : DelayPasses(d)
  BY <1>3 DEF DelayPasses, PassOK
<1>4. CASE Stored \/ StoreFails
  <2>1. PICK d \in Digests :
           /\ \/ point' = [point EXCEPT ![d] = "own"]
              \/ point' = [point EXCEPT ![d] = "none"]
           /\ run' = [r \in Runners |->
                 IF Works(r, d) /\ point[d] # "own"
                   THEN [run[r] EXCEPT !.moved = @ \cup {d}] ELSE run[r]]
    BY <1>4 DEF Stored, StoreFails, Moves
  <2>2. ASSUME NEW z \in Steps
        PROVE  /\ [z EXCEPT !.moved = @ \cup {d}] \in Steps
               /\ [z EXCEPT !.moved = @ \cup {d}].pc = z.pc
               /\ [z EXCEPT !.moved = @ \cup {d}].digest = z.digest
    BY DEF Steps
  <2>3. run' \in [Runners -> Steps]
    BY <2>1, <2>2 DEF PassOK
  <2>4. \A r \in Runners : run'[r].pc = run[r].pc /\ run'[r].digest = run[r].digest
    BY <2>1, <2>2 DEF PassOK
  <2>5. point' \in [Digests -> {"own", "none", "other"}]
    BY <2>1 DEF PassOK
  <2> QED
    BY <1>4, <2>3, <2>4, <2>5, EventCounted DEF Stored, StoreFails, PassOK, retries
<1>5. CASE Removed \/ RemoveFails \/ Occupy
  <2>1. point' \in [Digests -> {"own", "none", "other"}]
    BY <1>5 DEF Removed, RemoveFails, Occupy, PassOK
  <2> QED
    BY <1>5, <2>1, EventCounted DEF Removed, RemoveFails, Occupy, PassOK, retries
<1>6. CASE Crash
  BY <1>6, RestingStep, EventCounted DEF Crash, PassOK, retries, Resting
<1>7. CASE UNCHANGED vars
  BY <1>7 DEF vars, PassOK
<1> QED
  BY <1>1, <1>2, <1>3, <1>4, <1>5, <1>6, <1>7 DEF Next, Mutation

-----------------------------------------------------------------------------
\* Every step of a pass that reads, deletes, settles or notes a retry has a row
\* of the ledger in hand, whatever was stored, settled or removed meanwhile, and
\* the attempts the retry table counts never exceed _reconcile_max_attempts.
THEOREM ReconcileTypesCorrect == Spec => []TypeOK
<1>1. Init => ListOK /\ PassOK
  <2> SUFFICES ASSUME Init PROVE ListOK /\ PassOK
    OBVIOUS
  <2>1. ListOK
    BY DEF Init, ListOK, Lists, Injective, Statuses
  <2>2. PassOK
    BY RestingStep, ReconcileAssumption DEF Init, PassOK, Resting
  <2> QED
    BY <2>1, <2>2
<1>2. ListOK /\ PassOK /\ [Next]_vars => (ListOK /\ PassOK)'
  BY ListStep, PassStep
<1> QED
  BY <1>1, <1>2, TypeHalves, PTL DEF Spec
=============================================================================
