------------------------------ MODULE VaultProofs ------------------------------
(***************************************************************************)
(* Proofs about Vault, for any submissions and cloud ids: what the vault   *)
(* promises its clients.  They are cited, through the instances of Vault,  *)
(* wherever a module implements or uses it.                                *)
(***************************************************************************)
EXTENDS Vault, TLAPS

(* An acceptance is of the one entry with its hash, so EntriesApart makes the
   accepted answers about a hash one. *)
Promise ==
    /\ EntriesApart
    /\ \A a \in replies : Backed(a)
    /\ \A a \in replies : a = [sub |-> a.sub, cloud_id |-> a.cloud_id,
                               accepted |-> a.accepted]
    /\ \A a \in replies : a.accepted \in BOOLEAN

LEMMA PromiseInit == Init => Promise
BY DEF Init, Promise, EntriesApart

(* A stored incident is apart from all others. *)
LEMMA StoreApart ==
  ASSUME EntriesApart, NEW c, NEW s, Store(c, s)
  PROVE  EntriesApart'
<1> DEFINE e == EntryOf(c, s)
<1>1. e.cloud_id = c /\ e.sub = s
  BY DEF EntryOf
<1>2. entries' = entries \cup {e}
  BY DEF Store
<1> HIDE DEF e
<1>3. \A f \in entries : /\ f.cloud_id # e.cloud_id
                         /\ f.sub.original_hash # e.sub.original_hash
                         /\ f.sub.incident_id # e.sub.incident_id
  BY <1>1 DEF Store, Fits
<1> QED BY <1>2, <1>3 DEF EntriesApart

(* Entries stay, so an answer once backed stays backed. *)
LEMMA BackedStays ==
  ASSUME NEW a, Backed(a), entries \subseteq entries'
  PROVE  Backed(a)'
BY DEF Backed

(* The promise is kept by every step. *)
LEMMA PromiseStep == Promise /\ [Next]_vars => Promise'
<1> SUFFICES ASSUME Promise, [Next]_vars
             PROVE  Promise'
  OBVIOUS
<1>1. ASSUME NEW c \in CloudIds, NEW s \in Submissions, Store(c, s)
      PROVE  Promise'
  <2>1. EntriesApart'
    BY <1>1, StoreApart DEF Promise
  <2>2. entries \subseteq entries' /\ replies' = replies
    BY <1>1 DEF Store
  <2>3. \A a \in replies : Backed(a)'
    BY <2>2, BackedStays DEF Promise
  <2> QED BY <2>1, <2>2, <2>3 DEF Promise
<1>2. ASSUME entries' = entries,
             NEW a, replies' = replies \cup {a}, Backed(a), a.accepted \in BOOLEAN,
             a = [sub |-> a.sub, cloud_id |-> a.cloud_id, accepted |-> a.accepted]
      PROVE  Promise'
  <2>1. EntriesApart'
    BY <1>2 DEF Promise, EntriesApart
  <2>2. \A b \in replies' : Backed(b)'
    BY <1>2, BackedStays DEF Promise
  <2> QED BY <1>2, <2>1, <2>2 DEF Promise
<1>3. ASSUME NEW e \in entries, Accept(e)
      PROVE  Promise'
  <2> DEFINE a == [sub |-> e.sub, cloud_id |-> e.cloud_id, accepted |-> TRUE]
  <2>1. entries' = entries /\ replies' = replies \cup {a}
    BY <1>3 DEF Accept
  <2>2. Backed(a)
    BY DEF Backed
  <2> QED BY <1>2, <2>1, <2>2
<1>4. ASSUME NEW e \in entries, NEW s \in Submissions, Deduplicate(e, s)
      PROVE  Promise'
  <2> DEFINE a == [sub |-> s, cloud_id |-> e.cloud_id, accepted |-> FALSE]
  <2>1. entries' = entries /\ replies' = replies \cup {a}
    BY <1>4 DEF Deduplicate
  <2>2. Backed(a)
    BY <1>4 DEF Backed, Deduplicate
  <2> QED BY <1>2, <2>1, <2>2
<1>5. CASE UNCHANGED vars
  BY <1>5 DEF vars, Promise, EntriesApart, Backed
<1> QED BY <1>1, <1>3, <1>4, <1>5 DEF Next

(* All answers about one hash name one entry. *)
LEMMA PromiseAgrees == Promise => AnswersAgree
<1> SUFFICES ASSUME Promise, NEW a \in replies, NEW b \in replies,
                    a.sub.original_hash = b.sub.original_hash
             PROVE  /\ a.cloud_id = b.cloud_id
                    /\ a.accepted /\ b.accepted => a = b
  BY DEF Promise, AnswersAgree
<1>1. PICK e \in entries :
          /\ e.cloud_id = a.cloud_id
          /\ e.sub.original_hash = a.sub.original_hash
          /\ a.accepted => e.sub = a.sub
  BY DEF Promise, Backed
<1>2. PICK f \in entries :
          /\ f.cloud_id = b.cloud_id
          /\ f.sub.original_hash = b.sub.original_hash
          /\ b.accepted => f.sub = b.sub
  BY DEF Promise, Backed
<1>3. e = f
  BY <1>1, <1>2 DEF Promise, EntriesApart
<1>4. /\ a = [sub |-> a.sub, cloud_id |-> a.cloud_id, accepted |-> a.accepted]
      /\ b = [sub |-> b.sub, cloud_id |-> b.cloud_id, accepted |-> b.accepted]
      /\ a.accepted \in BOOLEAN /\ b.accepted \in BOOLEAN
  BY DEF Promise
<1>5. ASSUME a.accepted, b.accepted
      PROVE  a = b
  <2>1. a.accepted = TRUE /\ b.accepted = TRUE
    BY <1>4, <1>5
  <2>2. a.sub = b.sub /\ a.cloud_id = b.cloud_id
    BY <1>1, <1>2, <1>3, <1>5
  <2> QED BY <1>4, <2>1, <2>2
<1> QED BY <1>1, <1>2, <1>3, <1>5

LEMMA PromiseHolds == Spec => []Promise
BY PromiseInit, PromiseStep, PTL DEF Spec

(* No two entries share a key, whatever is stored in whatever order. *)
THEOREM VaultApart == Spec => []EntriesApart
<1>1. Promise => EntriesApart
  BY DEF Promise
<1> QED BY <1>1, PromiseHolds, PTL

(* One original hash, one cloud id, one acceptance, for good. *)
THEOREM VaultAgrees == Spec => []AnswersAgree
BY PromiseHolds, PromiseAgrees, PTL

================================================================================
