---------------------------- MODULE MemoryStore ----------------------------
(***************************************************************************)
(* What the provider promises about each memory: the ledger's claim about  *)
(* it, next to whether the point named by the claim is in the collection.  *)
(* A claim is an intent written ahead: a point appears only under the      *)
(* claim that it may be stored, leaves only under the claim that it is     *)
(* being deleted, and is called stored or gone only once that was seen.    *)
(*                                                                         *)
(* The exception is named: a replace that cannot store its new memory      *)
(* calls the old one stored again without looking (Reclaim).               *)
(***************************************************************************)

CONSTANTS
    Memories,
    Reclaims   \* may a memory be called stored unseen?

VARIABLES
    claim,     \* memory -> what the ledger says of it
    present    \* memory -> whether its point is in the collection

storeVars == <<claim, present>>

\* "uncertain": inserting or retry_pending, the point may or may not exist.
Claims == {"none", "uncertain", "stored", "replacing", "deleting", "gone",
           "conflict"}

Say(m, c) == claim' = [claim EXCEPT ![m] = c] /\ present' = present
Make(m, b) == present' = [present EXCEPT ![m] = b] /\ claim' = claim

Init ==
    /\ claim = [m \in Memories |-> "none"]
    /\ present \in [Memories -> {FALSE}]

\* The memory is about to be stored: it may have been anything before.
Intend(m) == Say(m, "uncertain")

Write(m) == claim[m] = "uncertain" /\ Make(m, TRUE)

\* Its point was read.
Confirm(m) == present[m] /\ Say(m, "stored")

\* It is about to make room for another memory.
Withdraw(m) == claim[m] \in {"stored", "deleting"} /\ Say(m, "replacing")

Reclaim(m) ==
    Reclaims /\ claim[m] \in {"replacing", "uncertain"} /\ Say(m, "stored")

Doom(m) == claim[m] \in {"stored", "replacing"} /\ Say(m, "deleting")

Erase(m) == claim[m] = "deleting" /\ Make(m, FALSE)

\* Its point was seen missing.
ConfirmGone(m) == claim[m] = "deleting" /\ ~present[m] /\ Say(m, "gone")

\* Its id turned out to hold a point that is not this provider's.
Dispute(m) == claim[m] \in {"uncertain", "deleting"} /\ Say(m, "conflict")

Next ==
    \E m \in Memories :
       \/ Intend(m) \/ Write(m) \/ Confirm(m) \/ Withdraw(m) \/ Reclaim(m)
       \/ Doom(m) \/ Erase(m) \/ ConfirmGone(m) \/ Dispute(m)

Spec == Init /\ [][Next]_storeVars

-----------------------------------------------------------------------------
StoreTypeOK ==
    /\ claim \in [Memories -> Claims]
    /\ present \in [Memories -> BOOLEAN]

\* What is said to be gone, or was never claimed, is not in the collection.
GoneIsAbsent == \A m \in Memories : claim[m] \in {"none", "gone"} => ~present[m]

\* What is said to be stored is, unless a claim is made unseen.
StoredIsPresent == ~Reclaims => \A m \in Memories : claim[m] = "stored" => present[m]
=============================================================================
