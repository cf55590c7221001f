----------------------------- MODULE IncidentStore -----------------------------
(***************************************************************************)
(* POST /v1/incidents: submit_incident (api.py) and store_incident         *)
(* (storage.py) run by several server processes on one PostgreSQL          *)
(* database.                                                               *)
(*                                                                         *)
(* A worker is a server process.  Its handlers are coroutines that never   *)
(* await once the request is read, so it serves one request at a time;     *)
(* everything between two database calls of a request is one step of its   *)
(* worker, and only the database is shared.  get_db gives the handler one  *)
(* transaction: what it writes stays in pending and pendingIndex until     *)
(* Commit, and an exception throws it away.  The isolation level is the    *)
(* default, READ COMMITTED: a SELECT sees the rows committed so far.       *)
(*                                                                         *)
(* Of an incident body the model keeps the two keys the table declares     *)
(* UNIQUE and the set of its surface hashes.  The tenant comes from the    *)
(* client certificate.                                                     *)
(***************************************************************************)
CONSTANTS
    Workers,        \* server processes
    Submissions,    \* records with original_hash, incident_id, tenant, surfaces
    CloudIds,       \* values of "cloud-<uuid4>"
    NoSubmission    \* a worker's request between two requests

ASSUME NoSubmissionAssumption == NoSubmission \notin Submissions

VARIABLES
    incidents,      \* committed rows of anonymized_incidents
    index,          \* committed rows of surface_hashes
    pending,        \* [worker -> incident rows of its open transaction]
    pendingIndex,   \* [worker -> surface_hashes rows of its open transaction]
    pc,             \* [worker -> where its handler stands]
    request,        \* [worker -> the submission it serves]
    answer,         \* [worker -> the result store_incident has returned, if any]
    replies         \* answers sent to clients

vars == <<incidents, index, pending, pendingIndex, pc, request, answer, replies>>
database == <<incidents, index>>
transaction == <<pending, pendingIndex>>

Steps == {"idle", "check", "insert", "hash", "index", "conflict", "count", "reply"}

Row(c, s) == [cloud_id |-> c, sub |-> s]
Entry(c, k) == [cloud_id |-> c, surface |-> k]
Answer(s, c, ok) == [sub |-> s, cloud_id |-> c, accepted |-> ok]

Surfaces == UNION {s.surfaces : s \in Submissions}

Rows == [cloud_id : CloudIds, sub : Submissions]
Entries == [cloud_id : CloudIds, surface : Surfaces]
Answers == [sub : Submissions, cloud_id : CloudIds, accepted : BOOLEAN]

Init ==
    /\ incidents = {}
    /\ index = {}
    /\ pending = [w \in Workers |-> {}]
    /\ pendingIndex = [w \in Workers |-> {}]
    /\ pc = [w \in Workers |-> "idle"]
    /\ request = [w \in Workers |-> NoSubmission]
    /\ answer = [w \in Workers |-> {}]
    /\ replies = {}

--------------------------------------------------------------------------------

(* Mutant of SameId: no unique key on incident_id. *)
SameIdIgnored(r, s) == FALSE

SameHash(r, s) == r.sub.original_hash = s.original_hash
SameId(r, s) == r.sub.incident_id = s.incident_id

(* UNIQUE (incident_id), UNIQUE (original_hash). *)
Clashes(r, s) == SameId(r, s) \/ SameHash(r, s)

(* PostgreSQL enters a row into the unique indexes of its table one after the
   other, in the order the table declares them: incident_id, then (past
   cloud_id, always new) original_hash.  At each, the committed rows with the
   same key refuse the INSERT, *)
RefusedBy(w) ==
    {r \in incidents : \/ pc[w] = "insert" /\ SameId(r, request[w])
                       \/ pc[w] = "hash" /\ SameHash(r, request[w])}

(* and those of an open transaction that are in that index already make it
   wait for that transaction to end, with the keys it has entered held. *)
WaitsFor(w) ==
    {v \in Workers \ {w} : \E r \in pending[v] :
        \/ pc[w] = "insert" /\ SameId(r, request[w])
        \/ pc[w] = "hash" /\ pc[v] # "hash" /\ SameHash(r, request[w])}

(* A request arrives.  Clients retry, so any submission may come at any
   time, any number of times, and to several workers at once. *)
Receive(w, s) ==
    /\ pc[w] = "idle"
    /\ pc' = [pc EXCEPT ![w] = "check"]
    /\ request' = [request EXCEPT ![w] = s]
    /\ UNCHANGED <<database, transaction, answer, replies>>

(* Mutant of FindDuplicate: the row is answered instead of its cloud id. *)
FindDuplicateRow(w) ==
    /\ pc[w] = "check"
    /\ \E r \in incidents :
          /\ SameHash(r, request[w])
          /\ answer' = [answer EXCEPT ![w] = {Answer(request[w], r, FALSE)}]
    /\ pc' = [pc EXCEPT ![w] = "reply"]
    /\ UNCHANGED <<database, transaction, request, replies>>

(* Mutant of FindDuplicate: a duplicate is answered as newly stored. *)
FindDuplicateAccepted(w) ==
    /\ pc[w] = "check"
    /\ \E r \in incidents :
          /\ SameHash(r, request[w])
          /\ answer' = [answer EXCEPT ![w] = {Answer(request[w], r.cloud_id, TRUE)}]
    /\ pc' = [pc EXCEPT ![w] = "reply"]
    /\ UNCHANGED <<database, transaction, request, replies>>

(* SELECT cloud_id ... WHERE original_hash finds a row: a duplicate. *)
FindDuplicate(w) ==
    /\ pc[w] = "check"
    /\ \E r \in incidents :
          /\ SameHash(r, request[w])
          /\ answer' = [answer EXCEPT ![w] = {Answer(request[w], r.cloud_id, FALSE)}]
    /\ pc' = [pc EXCEPT ![w] = "reply"]
    /\ UNCHANGED <<database, transaction, request, replies>>

(* The same SELECT finds none. *)
FindNothing(w) ==
    /\ pc[w] = "check"
    /\ \A r \in incidents : ~SameHash(r, request[w])
    /\ pc' = [pc EXCEPT ![w] = "insert"]
    /\ UNCHANGED <<database, transaction, request, answer, replies>>

(* A uuid4 that no row carries. *)
Fresh(c) ==
    /\ \A r \in incidents : r.cloud_id # c
    /\ \A v \in Workers : \A r \in pending[v] : r.cloud_id # c

(* INSERT INTO anonymized_incidents: the row is made and entered into the
   index of incident_id, *)
Insert(w) ==
    /\ pc[w] = "insert"
    /\ RefusedBy(w) = {}
    /\ WaitsFor(w) = {}
    /\ \E c \in CloudIds :
          /\ Fresh(c)
          /\ pending' = [pending EXCEPT ![w] = {Row(c, request[w])}]
    /\ pc' = [pc EXCEPT ![w] = "hash"]
    /\ UNCHANGED <<database, pendingIndex, request, answer, replies>>

(* Mutant of InsertHash: autocommit, the row is there for all to see before
   its surfaces are. *)
InsertHashAutocommit(w) ==
    /\ pc[w] = "hash"
    /\ RefusedBy(w) = {}
    /\ WaitsFor(w) = {}
    /\ incidents' = incidents \cup pending[w]
    /\ pc' = [pc EXCEPT ![w] = "index"]
    /\ UNCHANGED <<index, transaction, request, answer, replies>>

(* then into that of original_hash, which ends the statement. *)
InsertHash(w) ==
    /\ pc[w] = "hash"
    /\ RefusedBy(w) = {}
    /\ WaitsFor(w) = {}
    /\ pc' = [pc EXCEPT ![w] = "index"]
    /\ UNCHANGED <<database, transaction, request, answer, replies>>

(* The same INSERT raises UniqueViolation, at either index; PostgreSQL aborts
   the transaction and with it the row. *)
Refuse(w) ==
    /\ RefusedBy(w) # {}
    /\ pending' = [pending EXCEPT ![w] = {}]
    /\ pc' = [pc EXCEPT ![w] = "conflict"]
    /\ UNCHANGED <<database, pendingIndex, request, answer, replies>>

(* The index rows the open transaction of w still has to write. *)
Unindexed(w) ==
    {Entry(r.cloud_id, k) : r \in pending[w], k \in request[w].surfaces}
        \ pendingIndex[w]

(* One INSERT INTO surface_hashes of _store_surface_hashes. *)
InsertSurface(w) ==
    /\ pc[w] = "index"
    /\ \E e \in Unindexed(w) :
          pendingIndex' = [pendingIndex EXCEPT ![w] = @ \cup {e}]
    /\ UNCHANGED <<database, pending, pc, request, answer, replies>>

(* Mutant of Commit: the connection goes back to the pool uncommitted. *)
CommitNothing(w) ==
    /\ pc[w] = "index"
    /\ Unindexed(w) = {}
    /\ answer' = [answer EXCEPT
            ![w] = {Answer(request[w], r.cloud_id, TRUE) : r \in pending[w]}]
    /\ pending' = [pending EXCEPT ![w] = {}]
    /\ pendingIndex' = [pendingIndex EXCEPT ![w] = {}]
    /\ pc' = [pc EXCEPT ![w] = "count"]
    /\ UNCHANGED <<database, request, replies>>

(* store_incident returns and get_db commits. *)
Commit(w) ==
    /\ pc[w] = "index"
    /\ Unindexed(w) = {}
    /\ incidents' = incidents \cup pending[w]
    /\ index' = index \cup pendingIndex[w]
    /\ answer' = [answer EXCEPT
            ![w] = {Answer(request[w], r.cloud_id, TRUE) : r \in pending[w]}]
    /\ pending' = [pending EXCEPT ![w] = {}]
    /\ pendingIndex' = [pendingIndex EXCEPT ![w] = {}]
    /\ pc' = [pc EXCEPT ![w] = "count"]
    /\ UNCHANGED <<request, replies>>

(* search_similar counts the incidents alike, in a transaction of its own. *)
CountSimilar(w) ==
    /\ pc[w] = "count"
    /\ pc' = [pc EXCEPT ![w] = "reply"]
    /\ UNCHANGED <<database, transaction, request, answer, replies>>

Finish(w) ==
    /\ pc' = [pc EXCEPT ![w] = "idle"]
    /\ request' = [request EXCEPT ![w] = NoSubmission]
    /\ answer' = [answer EXCEPT ![w] = {}]

(* The client gets its CloudSubmissionResult. *)
Reply(w) ==
    /\ pc[w] = "reply"
    /\ replies' = replies \cup answer[w]
    /\ Finish(w)
    /\ UNCHANGED <<database, transaction>>

(* Mutant of RaiseConflict: any row the INSERT met is called a duplicate. *)
AnswerConflict(w) ==
    /\ pc[w] = "conflict"
    /\ \E r \in {q \in incidents : Clashes(q, request[w])} :
          replies' = replies \cup {Answer(request[w], r.cloud_id, FALSE)}
    /\ Finish(w)
    /\ UNCHANGED <<database, transaction>>

(* The UniqueViolation goes through get_db, which rolls back, and out of the
   handler: nothing catches it and the client gets a 500. *)
RaiseConflict(w) ==
    /\ pc[w] = "conflict"
    /\ Finish(w)
    /\ UNCHANGED <<database, transaction, replies>>

(* Mutant of Abort: the connection goes back to the pool as it is. *)
AbortOpen(w) ==
    /\ pc[w] \notin {"idle", "conflict"}
    /\ Finish(w)
    /\ UNCHANGED <<database, transaction, replies>>

(* A database error or the death of the process, at any step: the open
   transaction is rolled back and no answer is sent.  After Commit this is
   also a commit the server made and the worker was never told of. *)
Abort(w) ==
    /\ pc[w] \notin {"idle", "conflict"}
    /\ pending' = [pending EXCEPT ![w] = {}]
    /\ pendingIndex' = [pendingIndex EXCEPT ![w] = {}]
    /\ Finish(w)
    /\ UNCHANGED <<database, replies>>

--------------------------------------------------------------------------------

Serve(w) ==
    \/ FindDuplicate(w)
    \/ FindNothing(w)
    \/ Insert(w)
    \/ InsertHash(w)
    \/ Refuse(w)
    \/ InsertSurface(w)
    \/ Commit(w)
    \/ CountSimilar(w)
    \/ Reply(w)
    \/ RaiseConflict(w)

Next ==
    \E w \in Workers :
        \/ \E s \in Submissions : Receive(w, s)
        \/ Serve(w)
        \/ Abort(w)

Spec == Init /\ [][Next]_vars

(* A handler runs until it returns.  PostgreSQL wakes an INSERT that waits
   as soon as the transaction it waits for ends, so one that can proceed
   again and again does proceed. *)
Fairness ==
    \A w \in Workers :
        WF_vars(Serve(w)) /\ SF_vars(Insert(w)) /\ SF_vars(InsertHash(w))

FairSpec == Spec /\ Fairness

--------------------------------------------------------------------------------

TypeOK ==
    /\ incidents \subseteq Rows
    /\ index \subseteq Entries
    /\ pending \in [Workers -> SUBSET Rows]
    /\ pendingIndex \in [Workers -> SUBSET Entries]
    /\ pc \in [Workers -> Steps]
    /\ request \in [Workers -> Submissions \cup {NoSubmission}]
    /\ answer \in [Workers -> SUBSET Answers]
    /\ replies \subseteq Answers

(* Two submissions with one original hash are never both accepted: while an
   acceptance is on its way to the client, no other one is on its way or
   has been sent ("accepted: True if newly stored", storage.py:311). *)
AcceptedOnce ==
    \A w \in Workers : \A a \in answer[w] :
        a.accepted =>
            /\ \A b \in replies :
                  b.accepted => b.sub.original_hash # a.sub.original_hash
            /\ \A v \in Workers \ {w} : \A b \in answer[v] :
                  b.accepted => b.sub.original_hash # a.sub.original_hash

(* The surface index search_by_surface_hash reads has every surface of every
   stored incident and nothing else: a transaction that fails between two of
   its inserts leaves no incident half indexed. *)
IndexComplete ==
    index = UNION {{Entry(r.cloud_id, k) : k \in r.sub.surfaces} : r \in incidents}

(* Waits end: whoever is waited for is further on.  An INSERT at original_hash
   waits for transactions past their INSERT, which have index rows and the
   commit before them and wait for nobody; one at incident_id may wait for
   an INSERT that waits itself, at original_hash, but for such transactions
   only.  So waits form chains of two at most and never a circle, which
   PostgreSQL would break by failing a request; and none is for a transaction
   that nobody ends, since get_db rolls back what fails (storage.py:97-99). *)
WaitsEnd ==
    \A w \in Workers : \A v \in WaitsFor(w) :
        \/ pc[v] = "index"
        \/ /\ pc[w] = "insert" /\ pc[v] = "hash"
           /\ \A u \in WaitsFor(v) : pc[u] = "index"

--------------------------------------------------------------------------------

(* SELECT ... WHERE cloud_id AND tenant_id: what GET /v1/incidents/{cloud_id}
   shows a client of that tenant. *)
GetIncident(c, tenant) ==
    {r \in incidents : r.cloud_id = c /\ r.sub.tenant = tenant}

(* An acceptance names an incident its client can read from then on,
   whatever other tenants have submitted: the cloud id answered is the one
   committed, with the tenant of the certificate (api.py:133-137). *)
AcceptedReadable ==
    \A a \in replies : a.accepted => GetIncident(a.cloud_id, a.sub.tenant) # {}

(* The answer to a submission, accepted or not, names such an incident:
   "no cross-tenant access" (README.md:187).  It does not hold: the check
   for duplicates looks at all tenants, GetIncident at one.  It holds where
   submissions of one original hash come from one tenant, as in org mode,
   where all clients share the organization's (auth.py:145). *)
OneTenantPerHash ==
    \A s, t \in Submissions : s.original_hash = t.original_hash => s.tenant = t.tenant

AnswersReadable ==
    \A a \in replies : GetIncident(a.cloud_id, a.sub.tenant) # {}

(* A submission whose original hash is stored is answered as a duplicate
   (storage.py:309-312), never refused with an error.  It does not hold:
   another worker can commit the hash between the check and the insert.  It
   holds in the one process that docker-compose.yaml starts. *)
SingleProcess == \A v, w \in Workers : v = w

DuplicatesAnswered ==
    \A w \in Workers :
        pc[w] = "conflict" => ~\E r \in incidents : SameHash(r, request[w])

(* Every request ends, whatever the other workers do with the rows it waits
   for: the waits of one INSERT for another never close into a circle. *)
RequestsEnd ==
    \A w \in Workers : pc[w] # "idle" ~> pc[w] = "idle"

--------------------------------------------------------------------------------

(* The inductive invariant that AcceptedOnce, IndexComplete and the refinement
   rest on (proved in IncidentStoreProofs). *)

Overlap(r, q) == r.cloud_id = q.cloud_id \/ Clashes(r, q.sub)

(* No two rows share a key that both have entered, committed or about to be:
   a row whose INSERT is under way has not entered its original_hash. *)
KeysApart ==
    /\ \A r, q \in incidents : Overlap(r, q) => r = q
    /\ \A w \in Workers : \A r \in pending[w], q \in incidents :
          /\ r.cloud_id # q.cloud_id /\ ~SameId(r, q.sub)
          /\ pc[w] = "index" => ~SameHash(r, q.sub)
    /\ \A w \in Workers : \A v \in Workers \ {w} :
          \A r \in pending[w], q \in pending[v] :
              /\ r.cloud_id # q.cloud_id /\ ~SameId(r, q.sub)
              /\ pc[w] = "index" /\ pc[v] = "index" => ~SameHash(r, q.sub)

(* What a worker holds at each step. *)
Control ==
    \A w \in Workers :
        /\ pc[w] # "idle" => request[w] \in Submissions
        /\ pc[w] \notin {"hash", "index"} => pending[w] = {}
        /\ pc[w] # "index" => pendingIndex[w] = {}
        /\ pc[w] \in {"hash", "index"} =>
              \E c \in CloudIds :
                  /\ pending[w] = {Row(c, request[w])}
                  /\ pendingIndex[w] \subseteq
                        {Entry(c, k) : k \in request[w].surfaces}
        /\ pc[w] \notin {"count", "reply"} => answer[w] = {}
        /\ pc[w] \in {"count", "reply"} => \E a \in Answers : answer[w] = {a}

(* An answer, sent or not, names a stored incident with its original hash;
   an acceptance names the incident stored for it. *)
Backed(a) ==
    \E r \in incidents :
        /\ r.cloud_id = a.cloud_id
        /\ SameHash(r, a.sub)
        /\ a.accepted => r.sub = a.sub

AnswersBacked ==
    /\ \A w \in Workers : \A a \in answer[w] : Backed(a)
    /\ \A a \in replies : Backed(a)

IInv ==
    /\ TypeOK
    /\ KeysApart
    /\ Control
    /\ AnswersBacked
    /\ AcceptedOnce
    /\ IndexComplete

--------------------------------------------------------------------------------

(* The vault as a client sees it: an entry is a committed incident with the
   surfaces the committed index has for it. *)
SurfacesOf(c) == {e.surface : e \in {x \in index : x.cloud_id = c}}

VaultEntries ==
    {[cloud_id |-> r.cloud_id, sub |-> r.sub, surfaces |-> SurfacesOf(r.cloud_id)] :
        r \in incidents}

V == INSTANCE Vault WITH entries <- VaultEntries, replies <- replies

(* Storing implements the vault: each step is one of its steps or none. *)
VaultSpec == V!Spec

(* Hence the vault's promise to its clients is kept by all workers together,
   through every race, abort and retry: no incident is stored twice under one
   of its keys (UNIQUE, storage.py:114-139), and of all answers ever sent
   about an original hash every one names the same stored incident, the
   accepted ones being one (storage.py:309-312). *)
PromiseKept == V!EntriesApart /\ V!AnswersAgree

================================================================================
