-------------------------- MODULE IncidentStoreProofs --------------------------
(***************************************************************************)
(* Proofs about IncidentStore for any set of workers, submissions and      *)
(* cloud ids.  IInv is inductive; the safety properties follow from it,    *)
(* and so does the refinement of Vault.                                    *)
(***************************************************************************)
EXTENDS IncidentStore, TLAPS

(* The initial state is typed. *)
LEMMA TypeInit == Init => TypeOK
  BY DEF Init, TypeOK, Steps

(* Types are preserved by every step. *)
LEMMA TypeStep == TypeOK /\ Control /\ [Next]_vars => TypeOK'
<1> SUFFICES ASSUME TypeOK, Control, [Next]_vars
             PROVE  TypeOK'
  OBVIOUS
<1> USE DEF TypeOK, Steps, database, transaction
<1>1. ASSUME NEW w \in Workers, NEW s \in Submissions, Receive(w, s)
      PROVE  TypeOK'
  BY <1>1 DEF Receive
<1>2. ASSUME NEW w \in Workers, FindDuplicate(w)
      PROVE  TypeOK'
  <2>1. request[w] \in Submissions
    BY <1>2 DEF FindDuplicate, Control
  <2>2. PICK r \in incidents :
            answer' = [answer EXCEPT ![w] = {Answer(request[w], r.cloud_id, FALSE)}]
    BY <1>2 DEF FindDuplicate
  <2>3. r.cloud_id \in CloudIds
    BY DEF Rows
  <2>4. Answer(request[w], r.cloud_id, FALSE) \in Answers
    BY <2>1, <2>3 DEF Answers, Answer
  <2> QED BY <1>2, <2>2, <2>4 DEF FindDuplicate
<1>3. ASSUME NEW w \in Workers, FindNothing(w)
      PROVE  TypeOK'
  BY <1>3 DEF FindNothing
<1>4. ASSUME NEW w \in Workers, Insert(w)
      PROVE  TypeOK'
  <2>1. request[w] \in Submissions
    BY <1>4 DEF Insert, Control
  <2> QED BY <1>4, <2>1 DEF Insert, Rows, Row
<1>5. ASSUME NEW w \in Workers, InsertHash(w) \/ Refuse(w)
      PROVE  TypeOK'
  BY <1>5 DEF InsertHash, Refuse
<1>6. ASSUME NEW w \in Workers, InsertSurface(w)
      PROVE  TypeOK'
  <2>1. request[w] \in Submissions
    BY <1>6 DEF InsertSurface, Control
  <2>2. \A r \in pending[w] : r.cloud_id \in CloudIds
    BY DEF Rows
  <2>3. Unindexed(w) \subseteq Entries
    BY <2>1, <2>2 DEF Unindexed, Entries, Entry, Surfaces
  <2> QED BY <1>6, <2>3 DEF InsertSurface
<1>7. ASSUME NEW w \in Workers, Commit(w)
      PROVE  TypeOK'
  <2>1. request[w] \in Submissions
    BY <1>7 DEF Commit, Control
  <2>2. \A r \in pending[w] : r.cloud_id \in CloudIds
    BY DEF Rows
  <2>3. \A r \in pending[w] : Answer(request[w], r.cloud_id, TRUE) \in Answers
    BY <2>1, <2>2 DEF Answers, Answer
  <2> QED BY <1>7, <2>3 DEF Commit
<1>8. ASSUME NEW w \in Workers, CountSimilar(w)
      PROVE  TypeOK'
  BY <1>8 DEF CountSimilar
<1>9. ASSUME NEW w \in Workers, Reply(w)
      PROVE  TypeOK'
  BY <1>9 DEF Reply, Finish
<1>10. ASSUME NEW w \in Workers, RaiseConflict(w)
       PROVE  TypeOK'
  BY <1>10 DEF RaiseConflict, Finish
<1>11. ASSUME NEW w \in Workers, Abort(w)
       PROVE  TypeOK'
  BY <1>11 DEF Abort, Finish
<1>12. CASE UNCHANGED vars
  BY <1>12 DEF vars
<1> QED
  BY <1>1, <1>2, <1>3, <1>4, <1>5, <1>6, <1>7, <1>8, <1>9, <1>10, <1>11, <1>12
  DEF Next, Serve

(* A transaction commits one incident with exactly the index rows of it, and
   leaves its acceptance to be answered. *)
LEMMA CommitWhole ==
  ASSUME Control, NEW w \in Workers, Commit(w)
  PROVE  \E c \in CloudIds :
            /\ pending[w] = {Row(c, request[w])}
            /\ incidents' = incidents \cup {Row(c, request[w])}
            /\ index' = index \cup {Entry(c, k) : k \in request[w].surfaces}
            /\ answer' = [answer EXCEPT ![w] = {Answer(request[w], c, TRUE)}]
<1>1. PICK c \in CloudIds :
          /\ pending[w] = {Row(c, request[w])}
          /\ pendingIndex[w] \subseteq {Entry(c, k) : k \in request[w].surfaces}
  BY DEF Control, Commit
<1>2. PICK r : r = Row(c, request[w])
  OBVIOUS
<1>3. r.cloud_id = c
  BY <1>2 DEF Row
<1>4. pending[w] = {r}
  BY <1>1, <1>2
<1>5. {Entry(q.cloud_id, k) : q \in pending[w], k \in request[w].surfaces}
          = {Entry(c, k) : k \in request[w].surfaces}
  BY <1>3, <1>4
<1>6. {Answer(request[w], q.cloud_id, TRUE) : q \in pending[w]}
          = {Answer(request[w], c, TRUE)}
  BY <1>3, <1>4
<1>7. pendingIndex[w] = {Entry(c, k) : k \in request[w].surfaces}
  BY <1>1, <1>5 DEF Commit, Unindexed
<1> QED
  BY <1>1, <1>6, <1>7 DEF Commit

(* What a worker holds at each step of its handler is preserved. *)
LEMMA ControlStep == TypeOK /\ Control /\ [Next]_vars => Control'
<1> SUFFICES ASSUME TypeOK, Control, [Next]_vars
             PROVE  Control'
  OBVIOUS
<1> USE DEF TypeOK, Control, database, transaction
<1>1. ASSUME NEW w \in Workers, NEW s \in Submissions, Receive(w, s)
      PROVE  Control'
  BY <1>1 DEF Receive
<1>2. ASSUME NEW w \in Workers, FindDuplicate(w)
      PROVE  Control'
  <2>1. PICK a : answer' = [answer EXCEPT ![w] = {a}]
    BY <1>2 DEF FindDuplicate
  <2>2. a \in Answers
    BY <2>1, TypeStep
  <2> QED BY <1>2, <2>1, <2>2 DEF FindDuplicate
<1>3. ASSUME NEW w \in Workers, FindNothing(w)
      PROVE  Control'
  BY <1>3 DEF FindNothing
<1>4. ASSUME NEW w \in Workers, Insert(w)
      PROVE  Control'
  BY <1>4 DEF Insert
<1>5. ASSUME NEW w \in Workers, InsertHash(w) \/ Refuse(w)
      PROVE  Control'
  <2>1. RefusedBy(w) # {} => pc[w] \in {"insert", "hash"}
    BY DEF RefusedBy
  <2> QED BY <1>5, <2>1 DEF InsertHash, Refuse
<1>6. ASSUME NEW w \in Workers, InsertSurface(w)
      PROVE  Control'
  <2>1. PICK c \in CloudIds :
            /\ pending[w] = {Row(c, request[w])}
            /\ pendingIndex[w] \subseteq {Entry(c, k) : k \in request[w].surfaces}
    BY <1>6 DEF InsertSurface
  <2>2. Unindexed(w) \subseteq {Entry(c, k) : k \in request[w].surfaces}
    BY <2>1 DEF Unindexed, Row
  <2>3. pendingIndex'[w] \subseteq {Entry(c, k) : k \in request[w].surfaces}
    BY <1>6, <2>1, <2>2 DEF InsertSurface
  <2> QED BY <1>6, <2>1, <2>3 DEF InsertSurface
<1>7. ASSUME NEW w \in Workers, Commit(w)
      PROVE  Control'
  <2>1. PICK a : answer' = [answer EXCEPT ![w] = {a}]
    BY <1>7, CommitWhole
  <2>2. a \in Answers
    BY <2>1, TypeStep
  <2> QED BY <1>7, <2>1, <2>2 DEF Commit
<1>8. ASSUME NEW w \in Workers, CountSimilar(w)
      PROVE  Control'
  BY <1>8 DEF CountSimilar
<1>9. ASSUME NEW w \in Workers, Reply(w)
      PROVE  Control'
  BY <1>9 DEF Reply, Finish
<1>10. ASSUME NEW w \in Workers, RaiseConflict(w)
       PROVE  Control'
  BY <1>10 DEF RaiseConflict, Finish
<1>11. ASSUME NEW w \in Workers, Abort(w)
       PROVE  Control'
  BY <1>11 DEF Abort, Finish
<1>12. CASE UNCHANGED vars
  BY <1>12 DEF vars
<1> QED
  BY <1>1, <1>2, <1>3, <1>4, <1>5, <1>6, <1>7, <1>8, <1>9, <1>10, <1>11, <1>12
  DEF Next, Serve

--------------------------------------------------------------------------------

(* No two rows share a key: an INSERT enters an index only past committed rows
   that would refuse it and open ones it would wait for. *)
LEMMA KeysStep == TypeOK /\ Control /\ KeysApart /\ [Next]_vars => KeysApart'
<1> SUFFICES ASSUME TypeOK, Control, KeysApart, [Next]_vars
             PROVE  KeysApart'
  OBVIOUS
<1> USE DEF TypeOK, database, transaction
<1>1. ASSUME NEW w \in Workers, Insert(w)
      PROVE  KeysApart'
  <2>1. PICK c \in CloudIds :
            /\ Fresh(c)
            /\ pending' = [pending EXCEPT ![w] = {Row(c, request[w])}]
    BY <1>1 DEF Insert
  <2> DEFINE row == Row(c, request[w])
  <2>2. \A q \in incidents : row.cloud_id # q.cloud_id /\ ~SameId(row, q.sub)
    BY <1>1, <2>1 DEF Insert, Fresh, RefusedBy, SameId, Row
  <2>3. \A v \in Workers \ {w} : \A q \in pending[v] :
            /\ row.cloud_id # q.cloud_id
            /\ ~SameId(row, q.sub) /\ ~SameId(q, row.sub)
    BY <1>1, <2>1 DEF Insert, Fresh, WaitsFor, SameId, Row
  <2>4. /\ incidents' = incidents
        /\ pending'[w] = {row} /\ pc'[w] = "hash"
        /\ \A v \in Workers \ {w} : pending'[v] = pending[v] /\ pc'[v] = pc[v]
    BY <1>1, <2>1 DEF Insert
  <2> HIDE DEF row
  <2> QED
    BY <2>2, <2>3, <2>4 DEF KeysApart, Overlap, Clashes, SameId, SameHash
<1>2. ASSUME NEW w \in Workers, InsertHash(w)
      PROVE  KeysApart'
  <2>1. \A r \in pending[w], q \in incidents : ~SameHash(r, q.sub)
    BY <1>2 DEF InsertHash, Control, RefusedBy, SameHash, Row
  <2>2. \A v \in Workers \ {w} : pc[v] = "index" =>
            \A r \in pending[w], q \in pending[v] :
                ~SameHash(r, q.sub) /\ ~SameHash(q, r.sub)
    BY <1>2 DEF InsertHash, Control, WaitsFor, SameHash, Row
  <2>3. /\ UNCHANGED <<incidents, pending>>
        /\ \A v \in Workers \ {w} : pc'[v] = pc[v]
    BY <1>2 DEF InsertHash
  <2> QED
    BY <2>1, <2>2, <2>3 DEF KeysApart, Overlap, Clashes, SameId, SameHash
<1>3. ASSUME NEW w \in Workers, Commit(w)
      PROVE  KeysApart'
  <2>1. PICK c \in CloudIds : pending[w] = {Row(c, request[w])}
    BY <1>3 DEF Commit, Control
  <2>2. /\ incidents' = incidents \cup {Row(c, request[w])}
        /\ pc[w] = "index"
        /\ pending'[w] = {}
        /\ \A v \in Workers \ {w} : pending'[v] = pending[v] /\ pc'[v] = pc[v]
    BY <1>3, <2>1 DEF Commit
  <2> QED
    BY <2>1, <2>2 DEF KeysApart, Overlap, Clashes, SameId, SameHash
<1>4. ASSUME NEW w \in Workers, Abort(w) \/ Refuse(w)
      PROVE  KeysApart'
  <2>1. /\ incidents' = incidents
        /\ pending'[w] = {}
        /\ \A v \in Workers \ {w} : pending'[v] = pending[v] /\ pc'[v] = pc[v]
    BY <1>4 DEF Abort, Refuse, Finish
  <2> QED
    BY <2>1 DEF KeysApart, Overlap, Clashes, SameId, SameHash
<1>5. ASSUME UNCHANGED <<incidents, pending>>,
             \A v \in Workers : pc'[v] = "index" => pc[v] = "index"
      PROVE  KeysApart'
  BY <1>5 DEF KeysApart, Overlap, Clashes, SameId, SameHash
<1>6. \/ \E w \in Workers :
            Insert(w) \/ InsertHash(w) \/ Commit(w) \/ Abort(w) \/ Refuse(w)
      \/ /\ UNCHANGED <<incidents, pending>>
         /\ \A v \in Workers : pc'[v] = "index" => pc[v] = "index"
  BY DEF Next, Serve, vars, Receive, FindDuplicate, FindNothing,
         InsertSurface, CountSimilar, Reply, RaiseConflict, Finish
<1> QED
  BY <1>1, <1>2, <1>3, <1>4, <1>5, <1>6

(* Committed rows stay, so an answer once backed stays backed. *)
LEMMA BackedStays ==
  ASSUME NEW a, Backed(a), incidents \subseteq incidents'
  PROVE  Backed(a)'
  BY DEF Backed, SameHash

LEMMA IncidentsGrow == [Next]_vars => incidents \subseteq incidents'
  BY DEF Next, Serve, vars, database, transaction, Receive, FindDuplicate,
         FindNothing, Insert, InsertHash, Refuse, InsertSurface, Commit,
         CountSimilar, Reply, RaiseConflict, Abort

(* Answers keep naming stored incidents. *)
LEMMA BackedStep ==
  TypeOK /\ Control /\ AnswersBacked /\ [Next]_vars => AnswersBacked'
<1> SUFFICES ASSUME TypeOK, Control, AnswersBacked, [Next]_vars
             PROVE  AnswersBacked'
  OBVIOUS
<1>0. \A a : Backed(a) => Backed(a)'
  BY BackedStays, IncidentsGrow
<1>1. ASSUME NEW w \in Workers, FindDuplicate(w)
      PROVE  AnswersBacked'
  <2>1. PICK r \in incidents :
            /\ SameHash(r, request[w])
            /\ answer' = [answer EXCEPT ![w] = {Answer(request[w], r.cloud_id, FALSE)}]
    BY <1>1 DEF FindDuplicate
  <2>2. Backed(Answer(request[w], r.cloud_id, FALSE))
    BY <2>1 DEF Backed, Answer, SameHash
  <2>3. replies' = replies
    BY <1>1 DEF FindDuplicate
  <2> QED
    BY <1>0, <2>1, <2>2, <2>3 DEF AnswersBacked, TypeOK
<1>2. ASSUME NEW w \in Workers, Commit(w)
      PROVE  AnswersBacked'
  <2>1. PICK s : s = request[w]
    OBVIOUS
  <2>2. PICK c \in CloudIds :
            /\ incidents' = incidents \cup {Row(c, s)}
            /\ answer' = [answer EXCEPT ![w] = {Answer(s, c, TRUE)}]
    BY <1>2, <2>1, CommitWhole
  <2>3. replies' = replies
    BY <1>2 DEF Commit
  <2> DEFINE r == Row(c, s)
  <2>r. /\ r \in incidents'
        /\ r.cloud_id = c
        /\ r.sub = s
    BY <2>2 DEF Row
  <2> HIDE DEF r
  <2>4. Backed(Answer(s, c, TRUE))'
    BY <2>r DEF Backed, Answer, SameHash, Row
  <2> QED
    BY <1>0, <2>2, <2>3, <2>4 DEF AnswersBacked, TypeOK
<1>3. ASSUME NEW w \in Workers, Reply(w)
      PROVE  AnswersBacked'
  BY <1>0, <1>3 DEF Reply, Finish, AnswersBacked, TypeOK
<1>4. ASSUME NEW w \in Workers, RaiseConflict(w) \/ Abort(w)
      PROVE  AnswersBacked'
  BY <1>0, <1>4 DEF RaiseConflict, Abort, Finish, AnswersBacked, TypeOK
<1>5. CASE UNCHANGED <<answer, replies>>
  BY <1>0, <1>5 DEF AnswersBacked
<1>6. [\E w \in Workers : \/ FindDuplicate(w) \/ Commit(w) \/ Reply(w)
                          \/ RaiseConflict(w) \/ Abort(w)]_<<answer, replies>>
  BY DEF Next, Serve, vars, Receive, FindNothing, Insert, InsertHash, Refuse,
         InsertSurface, CountSimilar
<1> QED
  BY <1>1, <1>2, <1>3, <1>4, <1>5, <1>6

(* Two acceptances of one hash are never under way: the row behind the first
   would have refused the row behind the second. *)
LEMMA AcceptedStep == IInv /\ [Next]_vars => AcceptedOnce'
<1> SUFFICES ASSUME IInv, [Next]_vars
             PROVE  AcceptedOnce'
  OBVIOUS
<1> USE DEF IInv, TypeOK
<1>1. ASSUME NEW w \in Workers, FindDuplicate(w)
      PROVE  AcceptedOnce'
  BY <1>1 DEF FindDuplicate, AcceptedOnce, Answer
<1>2. ASSUME NEW w \in Workers, Commit(w)
      PROVE  AcceptedOnce'
  <2>1. PICK s : s = request[w]
    OBVIOUS
  <2>2. PICK c \in CloudIds :
            /\ pending[w] = {Row(c, s)}
            /\ answer' = [answer EXCEPT ![w] = {Answer(s, c, TRUE)}]
    BY <1>2, <2>1, CommitWhole
  <2>3. Row(c, s) \in pending[w] /\ Row(c, s).sub = s
    BY <2>2 DEF Row
  <2>4. \A r \in incidents : r.sub.original_hash # s.original_hash
    BY <1>2, <2>3 DEF KeysApart, SameHash, Commit
  <2>5. \A a : Backed(a) => a.sub.original_hash # s.original_hash
    BY <2>4 DEF Backed, SameHash
  <2>6. replies' = replies
    BY <1>2 DEF Commit
  <2>7. \A a \in replies : a.sub.original_hash # s.original_hash
    BY <2>5 DEF AnswersBacked
  <2>8. \A v \in Workers : \A a \in answer[v] : a.sub.original_hash # s.original_hash
    BY <2>5 DEF AnswersBacked
  <2> QED
    BY <2>2, <2>6, <2>7, <2>8 DEF AcceptedOnce, Answer
<1>3. ASSUME NEW w \in Workers, Reply(w)
      PROVE  AcceptedOnce'
  <2>1. /\ replies' = replies \cup answer[w]
        /\ answer' = [answer EXCEPT ![w] = {}]
    BY <1>3 DEF Reply, Finish
  <2> QED
    BY <2>1 DEF AcceptedOnce
<1>4. ASSUME NEW w \in Workers, RaiseConflict(w) \/ Abort(w)
      PROVE  AcceptedOnce'
  BY <1>4 DEF RaiseConflict, Abort, Finish, AcceptedOnce
<1>5. CASE UNCHANGED <<answer, replies>>
  BY <1>5 DEF AcceptedOnce
<1>6. [\E w \in Workers : \/ FindDuplicate(w) \/ Commit(w) \/ Reply(w)
                          \/ RaiseConflict(w) \/ Abort(w)]_<<answer, replies>>
  BY DEF Next, Serve, vars, Receive, FindNothing, Insert, InsertHash, Refuse,
         InsertSurface, CountSimilar
<1> QED
  BY <1>1, <1>2, <1>3, <1>4, <1>5, <1>6

(* The index stays the index of the committed incidents. *)
LEMMA IndexStep == IInv /\ [Next]_vars => IndexComplete'
<1> SUFFICES ASSUME IInv, [Next]_vars
             PROVE  IndexComplete'
  OBVIOUS
<1>1. ASSUME NEW w \in Workers, Commit(w)
      PROVE  IndexComplete'
  <2>1. PICK s : s = request[w]
    OBVIOUS
  <2>2. PICK c \in CloudIds :
            /\ incidents' = incidents \cup {Row(c, s)}
            /\ index' = index \cup {Entry(c, k) : k \in s.surfaces}
    BY <1>1, <2>1, CommitWhole DEF IInv
  <2>3. Row(c, s).cloud_id = c /\ Row(c, s).sub.surfaces = s.surfaces
    BY DEF Row
  <2> DEFINE own(r) == {Entry(r.cloud_id, k) : k \in r.sub.surfaces}
  <2>4. UNION {own(r) : r \in incidents'} = (UNION {own(r) : r \in incidents}) \cup own(Row(c, s))
    <3> HIDE DEF own
    <3> QED BY <2>2
  <2>5. own(Row(c, s)) = {Entry(c, k) : k \in s.surfaces}
    BY <2>3
  <2>6. index = UNION {own(r) : r \in incidents}
    BY DEF IInv, IndexComplete
  <2>7. index' = UNION {own(r) : r \in incidents'}
    BY <2>2, <2>4, <2>5, <2>6
  <2> QED
    BY <2>7 DEF IndexComplete, Entry
<1>2. CASE UNCHANGED <<incidents, index>>
  BY <1>2 DEF IInv, IndexComplete, Entry
<1>3. [\E w \in Workers : Commit(w)]_<<incidents, index>>
  BY DEF Next, Serve, vars, database, Receive, FindDuplicate, FindNothing, Insert,
         InsertHash, Refuse, InsertSurface, CountSimilar, Reply, RaiseConflict, Abort
<1> QED
  BY <1>1, <1>2, <1>3

--------------------------------------------------------------------------------

LEMMA InvInit == Init => IInv
  BY TypeInit DEF Init, IInv, KeysApart, Control, AnswersBacked, AcceptedOnce,
     IndexComplete

LEMMA InvStep == IInv /\ [Next]_vars => IInv'
  BY TypeStep, ControlStep, KeysStep, BackedStep, AcceptedStep, IndexStep DEF IInv

(* The inductive invariant holds of every reachable state. *)
THEOREM Invariance == Spec => []IInv
  BY InvInit, InvStep, PTL DEF Spec

(* Every variable keeps its type. *)
THEOREM TypeCorrect == Spec => []TypeOK
<1>1. IInv => TypeOK
  BY DEF IInv
<1> QED BY <1>1, Invariance, PTL

(* No two submissions of one original hash are both accepted. *)
THEOREM OneAcceptance == Spec => []AcceptedOnce
<1>1. IInv => AcceptedOnce
  BY DEF IInv
<1> QED BY <1>1, Invariance, PTL

(* An accepted incident can be read by the tenant that submitted it: its
   acceptance is backed by the very row made from its submission. *)
THEOREM AcceptedAreReadable == Spec => []AcceptedReadable
<1>1. IInv => AcceptedReadable
  <2> SUFFICES ASSUME IInv, NEW a \in replies, a.accepted
               PROVE  GetIncident(a.cloud_id, a.sub.tenant) # {}
    BY DEF AcceptedReadable
  <2>1. PICK r \in incidents : r.cloud_id = a.cloud_id /\ r.sub = a.sub
    BY DEF IInv, AnswersBacked, Backed
  <2> QED BY <2>1 DEF GetIncident
<1> QED BY <1>1, Invariance, PTL

(* Incidents are indexed whole. *)
THEOREM IndexedWhole == Spec => []IndexComplete
<1>1. IInv => IndexComplete
  BY DEF IInv
<1> QED BY <1>1, Invariance, PTL

(* A wait at original_hash is for a transaction past its INSERT, one at
   incident_id may be for an INSERT that waits at original_hash: chains of two
   at most, and no circle. *)
THEOREM WaitsAreShort == Spec => []WaitsEnd
<1>1. ASSUME IInv, NEW w \in Workers, NEW v \in WaitsFor(w)
      PROVE  pc[v] = "index" \/ (pc[v] = "hash" /\ pc[w] = "insert")
  BY <1>1 DEF IInv, Control, WaitsFor
<1>2. ASSUME IInv, NEW v \in Workers, pc[v] = "hash", NEW u \in WaitsFor(v)
      PROVE  pc[u] = "index"
  BY <1>1, <1>2
<1>3. IInv => WaitsEnd
  <2> SUFFICES ASSUME IInv, NEW w \in Workers, NEW v \in WaitsFor(w)
               PROVE  \/ pc[v] = "index"
                      \/ /\ pc[w] = "insert" /\ pc[v] = "hash"
                         /\ \A u \in WaitsFor(v) : pc[u] = "index"
    BY DEF WaitsEnd
  <2>1. v \in Workers
    BY DEF WaitsFor
  <2> QED BY <1>1, <1>2, <2>1
<1> QED BY <1>3, Invariance, PTL

(* If one hash comes from one tenant only, then every answer, a duplicate's
   too, names an incident its client can read: the row it points at has the
   hash, hence the tenant, of the submission answered. *)
THEOREM OneTenantReads == OneTenantPerHash /\ Spec => []AnswersReadable
<1>1. OneTenantPerHash /\ IInv => AnswersReadable
  <2> SUFFICES ASSUME OneTenantPerHash, IInv, NEW a \in replies
               PROVE  GetIncident(a.cloud_id, a.sub.tenant) # {}
    BY DEF AnswersReadable
  <2>1. PICK r \in incidents : r.cloud_id = a.cloud_id /\ SameHash(r, a.sub)
    BY DEF IInv, AnswersBacked, Backed
  <2>2. r.sub \in Submissions /\ a.sub \in Submissions
    BY DEF IInv, TypeOK, Rows, Answers
  <2>3. r.sub.tenant = a.sub.tenant
    BY <2>1, <2>2 DEF OneTenantPerHash, SameHash
  <2> QED BY <2>1, <2>3 DEF GetIncident
<1>2. CASE OneTenantPerHash
  BY <1>1, <1>2, Invariance, PTL
<1> QED BY <1>2

(* What the check of a lone worker found is still so when it inserts. *)
CheckStands ==
    \A w \in Workers : pc[w] \in {"insert", "hash", "conflict"} =>
        \A r \in incidents : ~SameHash(r, request[w])

LEMMA CheckStandsStep ==
  SingleProcess /\ IInv /\ CheckStands /\ [Next]_vars => CheckStands'
<1> SUFFICES ASSUME SingleProcess, IInv, CheckStands, [Next]_vars
             PROVE  CheckStands'
  OBVIOUS
<1> USE DEF IInv, TypeOK, CheckStands, SameHash
<1>1. ASSUME NEW w \in Workers, FindNothing(w)
      PROVE  CheckStands'
  BY <1>1 DEF FindNothing, SingleProcess, database
<1>2. ASSUME NEW w \in Workers, Insert(w) \/ Refuse(w)
      PROVE  CheckStands'
  <2>1. pc[w] \in {"insert", "hash"}
    BY <1>2 DEF Insert, Refuse, RefusedBy
  <2> QED BY <1>2, <2>1 DEF Insert, Refuse, SingleProcess, database
<1>3. ASSUME NEW w \in Workers, pc'[w] \notin {"insert", "hash", "conflict"}
      PROVE  CheckStands'
  BY <1>3 DEF SingleProcess
<1>4. CASE UNCHANGED vars
  BY <1>4 DEF vars
<1>5. ASSUME NEW w \in Workers, NEW s \in Submissions,
             Receive(w, s) \/ Serve(w) \/ Abort(w), ~FindNothing(w),
             ~Insert(w), ~Refuse(w)
      PROVE  pc'[w] \notin {"insert", "hash", "conflict"}
  BY <1>5 DEF Serve, Receive, FindDuplicate, InsertHash, InsertSurface, Commit,
         CountSimilar, Reply, RaiseConflict, Abort, Finish
<1>6. ASSUME NEW w \in Workers, Serve(w) \/ Abort(w), ~FindNothing(w),
             ~Insert(w), ~Refuse(w)
      PROVE  pc'[w] \notin {"insert", "hash", "conflict"}
  BY <1>6 DEF Serve, FindDuplicate, InsertHash, InsertSurface, Commit,
         CountSimilar, Reply, RaiseConflict, Abort, Finish
<1> QED BY <1>1, <1>2, <1>3, <1>4, <1>5, <1>6 DEF Next

(* In one process a stored original hash is always answered as a duplicate:
   nobody can store it between the check and the insert, so an INSERT is
   refused for the incident id alone. *)
THEOREM OneProcessAnswers == SingleProcess /\ Spec => []DuplicatesAnswered
<1>1. Init => CheckStands
  BY DEF Init, CheckStands
<1>2. CheckStands => DuplicatesAnswered
  BY DEF CheckStands, DuplicatesAnswered
<1>3. CASE SingleProcess
  BY <1>1, <1>2, <1>3, CheckStandsStep, InvInit, InvStep, PTL DEF Spec
<1> QED BY <1>3

--------------------------------------------------------------------------------

(* The index finds a stored incident by the surfaces it was submitted with:
   what the vault shows of a row is the entry made from its submission. *)
LEMMA EntriesWhole ==
  IInv => VaultEntries = {V!EntryOf(r.cloud_id, r.sub) : r \in incidents}
<1> SUFFICES ASSUME IInv
             PROVE  \A r \in incidents : SurfacesOf(r.cloud_id) = r.sub.surfaces
  BY DEF VaultEntries, V!EntryOf
<1> TAKE r \in incidents
<1>1. \A k : Entry(r.cloud_id, k) \in index <=> k \in r.sub.surfaces
  <2> TAKE k
  <2>1. ASSUME k \in r.sub.surfaces
        PROVE  Entry(r.cloud_id, k) \in index
    BY <2>1 DEF IInv, IndexComplete
  <2>2. ASSUME Entry(r.cloud_id, k) \in index
        PROVE  k \in r.sub.surfaces
    <3>1. PICK q \in incidents :
              \E j \in q.sub.surfaces : Entry(r.cloud_id, k) = Entry(q.cloud_id, j)
      BY <2>2 DEF IInv, IndexComplete
    <3>2. r.cloud_id = q.cloud_id /\ k \in q.sub.surfaces
      BY <3>1 DEF Entry
    <3>3. q = r
      BY <3>2 DEF IInv, KeysApart, Overlap
    <3> QED BY <3>2, <3>3
  <2> QED BY <2>1, <2>2
<1>2. \A e \in index : e = Entry(e.cloud_id, e.surface)
  BY DEF IInv, TypeOK, Entries, Entry
<1>3. SurfacesOf(r.cloud_id) \subseteq r.sub.surfaces
  BY <1>1, <1>2 DEF SurfacesOf
<1>4. ASSUME NEW k \in r.sub.surfaces
      PROVE  k \in SurfacesOf(r.cloud_id)
  <2>1. Entry(r.cloud_id, k) \in index
    BY <1>1
  <2>2. Entry(r.cloud_id, k).cloud_id = r.cloud_id /\ Entry(r.cloud_id, k).surface = k
    BY DEF Entry
  <2> QED BY <2>1, <2>2 DEF SurfacesOf
<1> QED BY <1>3, <1>4

(* Committing a transaction is storing one entry. *)
LEMMA CommitStores ==
  ASSUME IInv, IInv', NEW w \in Workers, Commit(w)
  PROVE  \E c \in CloudIds, s \in Submissions : V!Store(c, s)
<1>1. PICK s \in Submissions : s = request[w]
  BY DEF IInv, Control, Commit
<1>2. PICK c \in CloudIds :
          /\ pending[w] = {Row(c, s)}
          /\ incidents' = incidents \cup {Row(c, s)}
  BY <1>1, CommitWhole DEF IInv
<1> DEFINE row == Row(c, s)
<1>3. row.cloud_id = c /\ row.sub = s
  BY DEF Row
<1>4. row \in pending[w] /\ incidents' = incidents \cup {row}
  BY <1>2
<1> HIDE DEF row
<1>5. VaultEntries' = {V!EntryOf(r.cloud_id, r.sub) : r \in incidents'}
  <2>1. (IInv => VaultEntries = {V!EntryOf(r.cloud_id, r.sub) : r \in incidents})'
    BY EntriesWhole, PTL
  <2> QED BY <2>1 DEF V!EntryOf
<1>6. VaultEntries' = VaultEntries \cup {V!EntryOf(c, s)}
  <2> DEFINE made(r) == V!EntryOf(r.cloud_id, r.sub)
  <2>1. {made(r) : r \in incidents'} = {made(r) : r \in incidents} \cup {made(row)}
    <3> HIDE DEF made
    <3> QED BY <1>4
  <2>2. made(row) = V!EntryOf(c, s)
    BY <1>3
  <2> QED BY <1>5, <2>1, <2>2, EntriesWhole
<1>7. V!Fits(c, s)
  <2>1. \A r \in incidents : ~Overlap(row, r)
    BY <1>4 DEF IInv, KeysApart, Overlap, Clashes, Commit
  <2>2. \A r \in incidents : /\ r.cloud_id # c
                            /\ r.sub.original_hash # s.original_hash
                            /\ r.sub.incident_id # s.incident_id
    BY <2>1, <1>3 DEF Overlap, Clashes, SameId, SameHash
  <2> QED BY <2>2 DEF V!Fits, VaultEntries
<1>8. replies' = replies
  BY DEF Commit
<1> QED BY <1>6, <1>7, <1>8 DEF V!Store

(* Sending an answer is accepting an entry or pointing at it. *)
LEMMA ReplyAnswers ==
  ASSUME IInv, NEW w \in Workers, Reply(w)
  PROVE  \/ \E e \in VaultEntries : V!Accept(e)
         \/ \E e \in VaultEntries, s \in Submissions : V!Deduplicate(e, s)
<1>1. PICK a \in Answers : answer[w] = {a}
  BY DEF Reply, IInv, Control
<1>2. PICK r \in incidents :
          /\ r.cloud_id = a.cloud_id
          /\ SameHash(r, a.sub)
          /\ a.accepted => r.sub = a.sub
  BY <1>1 DEF IInv, AnswersBacked, Backed
<1>3. PICK e \in VaultEntries : e.cloud_id = r.cloud_id /\ e.sub = r.sub
  <2> DEFINE shown == [cloud_id |-> r.cloud_id, sub |-> r.sub,
                       surfaces |-> SurfacesOf(r.cloud_id)]
  <2>1. shown \in VaultEntries
    BY DEF VaultEntries
  <2>2. shown.cloud_id = r.cloud_id /\ shown.sub = r.sub
    OBVIOUS
  <2> QED BY <2>1, <2>2
<1>4. a = [sub |-> a.sub, cloud_id |-> a.cloud_id, accepted |-> a.accepted]
  BY DEF Answers
<1>5. replies' = replies \cup {a}
  BY <1>1 DEF Reply
<1>6. VaultEntries' = VaultEntries
  BY DEF Reply, database, VaultEntries, SurfacesOf
<1>7. CASE a.accepted = TRUE
  <2>1. \A b \in replies : b.accepted => b.sub.original_hash # a.sub.original_hash
    BY <1>1, <1>7 DEF IInv, AcceptedOnce
  <2>2. V!Accept(e)
    BY <1>2, <1>3, <1>4, <1>5, <1>6, <1>7, <2>1 DEF V!Accept
  <2> QED BY <2>2
<1>8. CASE a.accepted = FALSE
  <2>1. V!Deduplicate(e, a.sub)
    BY <1>2, <1>3, <1>4, <1>5, <1>6, <1>8 DEF V!Deduplicate, SameHash
  <2> QED BY <2>1 DEF Answers
<1> QED
  BY <1>7, <1>8 DEF Answers

(* Every step of the workers is a step of the vault, or none. *)
LEMMA StepImplements == IInv /\ IInv' /\ [Next]_vars => [V!Next]_(V!vars)
<1> SUFFICES ASSUME IInv, IInv', [Next]_vars
             PROVE  V!Next \/ (VaultEntries' = VaultEntries /\ replies' = replies)
  BY DEF V!vars
<1>1. ASSUME NEW w \in Workers, Commit(w)
      PROVE  V!Next
  BY <1>1, CommitStores DEF V!Next
<1>2. ASSUME NEW w \in Workers, Reply(w)
      PROVE  V!Next
  BY <1>2, ReplyAnswers DEF V!Next
<1>3. CASE UNCHANGED <<incidents, index, replies>>
  BY <1>3 DEF VaultEntries, SurfacesOf
<1>4. [\E w \in Workers : Commit(w) \/ Reply(w)]_<<incidents, index, replies>>
  BY DEF Next, Serve, vars, database, Receive, FindDuplicate, FindNothing, Insert,
         InsertHash, Refuse, InsertSurface, CountSimilar, RaiseConflict, Abort
<1> QED
  BY <1>1, <1>2, <1>3, <1>4

(* The store implements the vault: incidents appear whole, once, and for
   good, and every answer is one the vault could give. *)
THEOREM Refinement == Spec => VaultSpec
<1>1. Init => V!Init
  BY DEF Init, V!Init, VaultEntries
<1> QED
  BY <1>1, InvInit, InvStep, StepImplements, PTL DEF Spec, VaultSpec, V!Spec

(* Hence the workers keep the vault's promise: of all answers ever sent about
   an original hash, early and late, by whichever worker, every one names the
   same stored incident, and the accepted ones are one. *)
P == INSTANCE VaultProofs WITH entries <- VaultEntries, replies <- replies

THEOREM VaultPromise == Spec => []PromiseKept
<1>1. P!Spec => []P!EntriesApart /\ []P!AnswersAgree
  BY P!VaultApart, P!VaultAgrees
<1>2. V!Init => P!Init
  BY DEF V!Init, P!Init
<1>3. [V!Next]_(V!vars) => [P!Next]_(P!vars)
  BY DEF V!Next, P!Next, V!vars, P!vars, V!Store, P!Store, V!Fits, P!Fits,
     V!EntryOf, P!EntryOf, V!Accept, P!Accept, V!Deduplicate, P!Deduplicate
<1>4. VaultSpec => P!Spec
  BY <1>2, <1>3, PTL DEF VaultSpec, V!Spec, P!Spec
<1>5. P!EntriesApart /\ P!AnswersAgree => V!EntriesApart /\ V!AnswersAgree
  BY DEF V!EntriesApart, P!EntriesApart, V!AnswersAgree, P!AnswersAgree,
     V!Backed, P!Backed
<1> QED BY Refinement, <1>1, <1>4, <1>5, PTL DEF PromiseKept

================================================================================
