----------------------------- MODULE QueriesProofs -----------------------------
(***************************************************************************)
(* Proofs about Queries for any workers, incidents, queries and limits.    *)
(***************************************************************************)
EXTENDS Queries, FiniteSetTheorems, TLAPS

(* The initial state satisfies the inductive invariant. *)
LEMMA InvInit == Init => IInv
<1> SUFFICES ASSUME Init
             PROVE  IInv
  OBVIOUS
<1>1. IsFiniteSet(entries)
  BY FS_EmptySet DEF Init
<1>2. \A w \in Workers : matches[w] \in Seq(Entries)
  BY DEF Init
<1>3. TypeOK
  BY <1>1, <1>2 DEF Init, TypeOK, Steps, Unread
<1>4. ASSUME NEW w \in Workers
      PROVE  Handling(w)
  BY DEF Init, Handling
<1> QED BY <1>3, <1>4 DEF IInv

(* Incidents are stored, by whatever step, and stay. *)
LEMMA Growth ==
  TypeOK /\ [Next]_vars =>
      /\ entries \subseteq entries'
      /\ entries' \subseteq Entries
      /\ IsFiniteSet(entries')
<1> SUFFICES ASSUME TypeOK, [Next]_vars
             PROVE  /\ entries \subseteq entries'
                    /\ entries' \subseteq Entries
                    /\ IsFiniteSet(entries')
  OBVIOUS
<1>1. ASSUME NEW c \in CloudIds, NEW s \in Submissions, Store(c, s)
      PROVE  /\ entries \subseteq entries'
             /\ entries' \subseteq Entries
             /\ IsFiniteSet(entries')
  <2>1. entries' = entries \cup {V!EntryOf(c, s)}
    BY <1>1 DEF Store, V!Store
  <2>2. V!EntryOf(c, s) \in Entries
    BY DEF Entries
  <2>3. IsFiniteSet(entries')
    BY <2>1, FS_AddElement DEF TypeOK
  <2> QED BY <2>1, <2>2, <2>3 DEF TypeOK
<1>2. ASSUME UNCHANGED entries
      PROVE  /\ entries \subseteq entries'
             /\ entries' \subseteq Entries
             /\ IsFiniteSet(entries')
  BY <1>2 DEF TypeOK
<1> QED
  BY <1>1, <1>2 DEF Next, vars, Serve, Receive, ReceiveStats, ReceiveTotal,
     ReceiveSearch, ReceiveSimilar, CountRows, GroupOutcomes, AverageTimes,
     SampleEntities, ScanTable, ScanIndex, Rank, RankFails, Reply, Abort, Finish

(* What a request remembers of the vault is what it asks about. *)
LEMMA RequestHas ==
  ASSUME TypeOK, NEW op \in Operations, NEW t \in Tenants,
         NEW d \in Domains \cup {NoFilter}, NEW o \in Outcomes \cup {NoFilter},
         NEW q \in AllQueries \cup {NoRequest}
  PROVE  /\ Request(op, t, d, o, q) \in Requests
         /\ Request(op, t, d, o, q).op = op
         /\ Request(op, t, d, o, q).query = q
         /\ Request(op, t, d, o, q).before =
               {e \in entries : Belongs(e, Request(op, t, d, o, q))}
<1> DEFINE r == [op |-> op, tenant |-> t, domain |-> d, outcome |-> o, query |-> q]
           r2 == Request(op, t, d, o, q)
<1>1. \A e : Belongs(e, r) <=> Belongs(e, r2)
  BY DEF Belongs, Request
<1>2. r2 = [op |-> op, tenant |-> t, domain |-> d, outcome |-> o, query |-> q,
            before |-> {e \in entries : Belongs(e, r)}]
  BY DEF Request
<1>3. {e \in entries : Belongs(e, r)} \in SUBSET Entries
  BY DEF TypeOK
<1>4. r2 \in Requests
  BY <1>2, <1>3 DEF Requests
<1> QED BY <1>1, <1>2, <1>4

(* A worker begins to serve r with this step of its handler. *)
Begins(w, step, r) ==
    /\ Receive(w, step, r)
    /\ r \in Requests
    /\ r.before = {e \in entries : Belongs(e, r)}
    /\ \/ step = "count" /\ r.op \notin Searches
       \/ step = "search" /\ r.op \in Searches /\ r.query \in AllQueries

LEMMA SearchBegins ==
  ASSUME TypeOK, NEW w, NEW op \in Searches, NEW t \in Tenants, NEW q \in AllQueries,
         q.domain \in Domains \cup {NoFilter}, q.outcome \in Outcomes \cup {NoFilter},
         Receive(w, "search", Request(op, t, q.domain, q.outcome, q))
  PROVE  Begins(w, "search", Request(op, t, q.domain, q.outcome, q))
<1> DEFINE r == Request(op, t, q.domain, q.outcome, q)
<1>1. op \in Operations
  BY DEF Operations
<1>2. /\ r \in Requests
      /\ r.op = op
      /\ r.query = q
      /\ r.before = {e \in entries : Belongs(e, r)}
  BY <1>1, RequestHas
<1> HIDE DEF r
<1>3. Receive(w, "search", r)
  BY DEF r
<1>4. Begins(w, "search", r)
  BY <1>2, <1>3 DEF Begins
<1> QED BY <1>4 DEF r

LEMMA Arrivals ==
  ASSUME TypeOK, NEW w \in Workers,
         \/ \E t \in Tenants :
               \/ \E d \in Domains : ReceiveStats(w, t, d)
               \/ ReceiveTotal(w, t)
               \/ \E q \in Queries : ReceiveSearch(w, t, q)
         \/ \E e \in entries : ReceiveSimilar(w, e)
  PROVE  \E step, r : Begins(w, step, r)
<1>1. ASSUME NEW t \in Tenants, NEW d \in Domains, ReceiveStats(w, t, d)
      PROVE  Begins(w, "count", Request("stats", t, d, NoFilter, NoRequest))
  <2>1. "stats" \in Operations /\ "stats" \notin Searches
    BY DEF Operations, Searches
  <2> QED BY <1>1, <2>1, RequestHas DEF ReceiveStats, Begins
<1>2. ASSUME NEW t \in Tenants, ReceiveTotal(w, t)
      PROVE  Begins(w, "count", Request("total", t, NoFilter, NoFilter, NoRequest))
  <2>1. "total" \in Operations /\ "total" \notin Searches
    BY DEF Operations, Searches
  <2> QED BY <1>2, <2>1, RequestHas DEF ReceiveTotal, Begins
<1>3. ASSUME NEW t \in Tenants, NEW q \in Queries, ReceiveSearch(w, t, q)
      PROVE  Begins(w, "search", Request("search", t, q.domain, q.outcome, q))
  <2>1. q \in AllQueries
    BY DEF AllQueries
  <2> QED BY <1>3, <2>1, SearchBegins, QueriesAssumption DEF ReceiveSearch, Searches
<1>4. ASSUME NEW e \in entries, ReceiveSimilar(w, e)
      PROVE  \E r : Begins(w, "search", r)
  <2>1. e.sub \in Submissions
    BY DEF TypeOK, Entries, V!EntryOf
  <2>2. QueryOf(e.sub) \in AllQueries /\ e.sub.tenant \in Tenants
    BY <2>1, SubmissionsAssumption DEF AllQueries
  <2>3. /\ QueryOf(e.sub).domain \in Domains \cup {NoFilter}
        /\ QueryOf(e.sub).outcome \in Outcomes \cup {NoFilter}
    BY <2>1, SubmissionsAssumption DEF QueryOf
  <2> QED BY <1>4, <2>2, <2>3, SearchBegins DEF ReceiveSimilar, Searches
<1> QED BY <1>1, <1>2, <1>3, <1>4

(* What a step does to one worker: nothing, or it is this worker's own. *)
Same(w) ==
    /\ pc'[w] = pc[w]
    /\ request'[w] = request[w]
    /\ seen'[w] = seen[w]
    /\ exact'[w] = exact[w]
    /\ matches'[w] = matches[w]

LEMMA WorkerSteps ==
  ASSUME TypeOK, [Next]_vars, NEW w \in Workers
  PROVE  \/ Same(w)
         \/ \E step, r : Begins(w, step, r)
         \/ Serve(w)
<1>1. ASSUME NEW v \in Workers, v # w, (\E step, r : Receive(v, step, r)) \/ Serve(v)
      PROVE  Same(w)
  BY <1>1 DEF TypeOK, Same, Serve, Receive, CountRows, GroupOutcomes, AverageTimes,
     SampleEntities, ScanTable, ScanIndex, Rank, RankFails, Reply, Abort, Finish,
     Read, Goto
<1>2. ASSUME NEW c \in CloudIds, NEW s \in Submissions, Store(c, s)
      PROVE  Same(w)
  BY <1>2 DEF Store, handler, Same
<1>3. CASE UNCHANGED vars
  BY <1>3 DEF vars, handler, Same
<1> QED
  BY <1>1, <1>2, <1>3, Arrivals DEF Next, ReceiveStats, ReceiveTotal, ReceiveSearch,
     ReceiveSimilar

(* Types are kept. *)
LEMMA TypeStep == TypeOK /\ [Next]_vars => TypeOK'
<1> SUFFICES ASSUME TypeOK, [Next]_vars
             PROVE  TypeOK'
  OBVIOUS
<1>0. /\ entries' \subseteq Entries
      /\ IsFiniteSet(entries')
  BY Growth
<1>1. CASE UNCHANGED handler
  BY <1>0, <1>1 DEF TypeOK, handler
<1>2. ASSUME NEW w \in Workers, NEW step, NEW r, Begins(w, step, r)
      PROVE  TypeOK'
  <2>1. step \in Steps
    BY <1>2 DEF Begins, Steps
  <2> QED BY <1>0, <1>2, <2>1 DEF Begins, Receive, TypeOK
<1>3. ASSUME NEW w \in Workers, NEW part \in Parts, NEW rows, Read(w, part, rows),
             rows \subseteq Visible(w)
      PROVE  seen' \in [Workers -> [Parts -> SUBSET Entries]]
  BY <1>3 DEF Read, Visible, TypeOK
<1>4. ASSUME NEW w \in Workers, NEW step \in Steps, pc[w] # "idle", Goto(w, step),
             UNCHANGED request
      PROVE  /\ pc' \in [Workers -> Steps]
             /\ request' \in [Workers -> Requests \cup {NoRequest}]
             /\ \A v \in Workers : pc'[v] # "idle" =>
                  /\ request'[v] \in Requests
                  /\ request'[v].op \in Searches => request'[v].query \in AllQueries
  BY <1>4 DEF Goto, TypeOK
<1>5. ASSUME NEW w \in Workers,
             CountRows(w) \/ GroupOutcomes(w) \/ AverageTimes(w) \/ SampleEntities(w)
      PROVE  TypeOK'
  <2>1. \E part \in Parts : \E rows : Read(w, part, rows) /\ rows \subseteq Visible(w)
    BY <1>5 DEF CountRows, GroupOutcomes, AverageTimes, SampleEntities, Keeps, Parts
  <2>2. \E step \in Steps : Goto(w, step)
    BY <1>5 DEF CountRows, GroupOutcomes, AverageTimes, SampleEntities, Steps
  <2>3. pc[w] # "idle" /\ UNCHANGED <<request, exact, matches>>
    BY <1>5 DEF CountRows, GroupOutcomes, AverageTimes, SampleEntities
  <2>4. \A v \in Workers : matches'[v] \in Seq(Entries)
    BY <2>3 DEF TypeOK
  <2> QED BY <1>0, <1>3, <1>4, <2>1, <2>2, <2>3 DEF TypeOK
<1>6. ASSUME NEW w \in Workers, ScanTable(w) \/ ScanIndex(w)
      PROVE  TypeOK'
  <2>1. \E rows : Read(w, "candidates", rows) /\ rows \subseteq Visible(w)
    BY <1>6 DEF ScanTable, ScanIndex, Keeps
  <2>2. Goto(w, "rank") /\ pc[w] # "idle" /\ UNCHANGED <<request, matches>>
    BY <1>6 DEF ScanTable, ScanIndex
  <2>3. "rank" \in Steps /\ "candidates" \in Parts
    BY DEF Steps, Parts
  <2>4. exact' \in [Workers -> BOOLEAN]
    BY <1>6 DEF ScanTable, ScanIndex, TypeOK
  <2> QED BY <1>0, <1>3, <1>4, <2>1, <2>2, <2>3, <2>4 DEF TypeOK
<1>7. ASSUME NEW w \in Workers, Rank(w)
      PROVE  TypeOK'
  <2>0. PICK n \in 0..Cardinality(Scored(w)) :
           \E m \in [1..n -> Scored(w)] : matches' = [matches EXCEPT ![w] = m]
    BY <1>7 DEF Rank
  <2>1. PICK m \in [1..n -> Scored(w)] : matches' = [matches EXCEPT ![w] = m]
    BY <2>0
  <2>2. Scored(w) \subseteq Entries
    BY DEF Scored, TypeOK, Parts
  <2>3. m \in Seq(Entries)
    BY <2>2
  <2>4. matches' \in [Workers -> Seq(Entries)]
    BY <2>1, <2>3 DEF TypeOK
  <2>5. /\ Goto(w, "reply") /\ pc[w] # "idle" /\ UNCHANGED <<request, seen, exact>>
        /\ "reply" \in Steps
    BY <1>7 DEF Rank, Steps
  <2> QED BY <1>0, <1>4, <2>4, <2>5 DEF TypeOK
<1>8. ASSUME NEW w \in Workers, Finish(w)
      PROVE  TypeOK'
  <2>1. "idle" \in Steps /\ Unread \in [Parts -> SUBSET Entries]
    BY DEF Steps, Unread
  <2>2. matches' \in [Workers -> Seq(Entries)]
    BY <1>8 DEF Finish, TypeOK
  <2>3. \A v \in Workers : pc'[v] # "idle" =>
           pc[v] # "idle" /\ pc'[v] = pc[v] /\ request'[v] = request[v]
    BY <1>8 DEF Finish, TypeOK
  <2> QED BY <1>0, <1>8, <2>1, <2>2, <2>3 DEF Finish, TypeOK
<1>9. ASSUME NEW w \in Workers, Serve(w)
      PROVE  TypeOK'
  BY <1>5, <1>6, <1>7, <1>8, <1>9 DEF Serve, RankFails, Reply, Abort
<1>10. ASSUME NEW c \in CloudIds, NEW s \in Submissions, Store(c, s)
       PROVE  TypeOK'
  BY <1>1, <1>10 DEF Store
<1>11. CASE UNCHANGED vars
  BY <1>1, <1>11 DEF vars
<1> QED BY <1>2, <1>9, <1>10, <1>11, Arrivals DEF Next

(* What a statement sees is what the client asks about. *)
LEMMA SeesOwn ==
  ASSUME NEW w
  PROVE  Visible(w) = Own(w)
BY DEF Visible, Own, Selected, Belongs

(* What a request could be shown only grows while it is served, and so does
   what can keep an incident out of its answer. *)
LEMMA OwnGrows ==
  ASSUME TypeOK, [Next]_vars, NEW w \in Workers, request'[w] = request[w], NEW e
  PROVE  /\ Own(w) \subseteq Own(w)'
         /\ IsFiniteSet(Own(w)) /\ IsFiniteSet(Own(w)')
         /\ Cardinality(NoFartherThan(w, e)) \in Nat
         /\ Cardinality(NoFartherThan(w, e)') \in Nat
         /\ Cardinality(NoFartherThan(w, e)) <= Cardinality(NoFartherThan(w, e)')
         /\ Cardinality(NoOlder(w, e)) \in Nat
         /\ Cardinality(NoOlder(w, e)') \in Nat
         /\ Cardinality(NoOlder(w, e)) <= Cardinality(NoOlder(w, e)')
<1>1. IsFiniteSet(entries) /\ IsFiniteSet(entries') /\ entries \subseteq entries'
  BY Growth DEF TypeOK
<1>2. Own(w) \subseteq Own(w)'
  BY <1>1 DEF Own
<1>3. IsFiniteSet(Own(w)) /\ IsFiniteSet(Own(w)')
  BY <1>1, FS_Subset DEF Own
<1>4. /\ NoFartherThan(w, e) \subseteq NoFartherThan(w, e)'
      /\ NoFartherThan(w, e)' \subseteq Own(w)'
      /\ NoFartherThan(w, e) \subseteq Own(w)
  BY <1>2 DEF NoFartherThan
<1>5. /\ NoOlder(w, e) \subseteq NoOlder(w, e)'
      /\ NoOlder(w, e)' \subseteq Own(w)'
      /\ NoOlder(w, e) \subseteq Own(w)
  BY <1>2 DEF NoOlder
<1>6. /\ IsFiniteSet(NoFartherThan(w, e)) /\ IsFiniteSet(NoFartherThan(w, e)')
      /\ IsFiniteSet(NoOlder(w, e)) /\ IsFiniteSet(NoOlder(w, e)')
  BY <1>3, <1>4, <1>5, FS_Subset
<1> QED BY <1>2, <1>3, <1>4, <1>5, <1>6, FS_Subset, FS_CardinalityType

(* A step that leaves a worker's handler alone keeps what it has read. *)
LEMMA HandlingSame ==
  ASSUME TypeOK, [Next]_vars, NEW w \in Workers, Same(w), Handling(w)
  PROVE  Handling(w)'
<1>1. request'[w] = request[w]
  BY DEF Same
<1>2. Own(w) \subseteq Own(w)'
  BY <1>1, OwnGrows
<1>3. ASSUME NEW part, FromWhole(w, part)
      PROVE  FromWhole(w, part)'
  BY <1>2, <1>3 DEF Same, FromWhole
<1>4. ASSUME NEW e, CandidateLimit <= Cardinality(NoFartherThan(w, e))
      PROVE  CandidateLimit <= Cardinality(NoFartherThan(w, e)')
  <2>1. CandidateLimit \in Nat
    BY LimitsAssumption
  <2>2. /\ Cardinality(NoFartherThan(w, e)) \in Nat
        /\ Cardinality(NoFartherThan(w, e)') \in Nat
        /\ Cardinality(NoFartherThan(w, e)) <= Cardinality(NoFartherThan(w, e)')
    BY <1>1, OwnGrows
  <2> QED BY <1>4, <2>1, <2>2
<1>5. /\ pc'[w] # "idle" => request'[w].before \subseteq Own(w)'
      /\ pc'[w] \in {"idle", "count", "search"} => seen'[w] = Unread /\ ~exact'[w]
      /\ pc'[w] \in {"search", "rank"}
            <=> pc'[w] \notin {"idle", "reply"} /\ request'[w].op \in Searches
  BY <1>2 DEF Same, Handling
<1>6. /\ pc'[w] \in {"outcomes", "averages", "entities"} =>
            request'[w].op = "stats" /\ FromWhole(w, "total")'
      /\ pc'[w] \in {"averages", "entities"} =>
            FromWhole(w, "outcomes")' /\ seen'[w]["total"] \subseteq seen'[w]["outcomes"]
      /\ pc'[w] = "entities" => FromWhole(w, "averages")'
  BY <1>3 DEF Same, Handling
<1>7. pc'[w] = "rank" =>
        /\ seen'[w]["candidates"] \subseteq Own(w)'
        /\ exact'[w] => \A e \in request'[w].before \ seen'[w]["candidates"] :
              CandidateLimit <= Cardinality(NoFartherThan(w, e)')
  BY <1>2, <1>4 DEF Same, Handling
<1> QED BY <1>5, <1>6, <1>7 DEF Handling

(* What ORDER BY and LIMIT leave out of the rows is as many others as are
   fetched at most. *)
LEMMA KeptInstead ==
  ASSUME NEW rows, NEW n \in Nat, NEW kept, IsFiniteSet(rows), Keeps(rows, n, kept),
         NEW e \in rows \ kept, NEW rest, kept \subseteq rest, IsFiniteSet(rest)
  PROVE  n <= Cardinality(rest)
<1>1. Cardinality(kept) = n
  BY DEF Keeps
<1> QED BY <1>1, FS_Subset

LEMMA HandlingBegins ==
  ASSUME TypeOK, [Next]_vars, NEW w \in Workers, Handling(w), NEW step, NEW r,
         Begins(w, step, r)
  PROVE  Handling(w)'
<1>1. /\ pc[w] = "idle" /\ pc'[w] = step /\ request'[w] = r
      /\ seen'[w] = seen[w] /\ exact'[w] = exact[w] /\ entries' = entries
  BY DEF Begins, Receive, TypeOK
<1>2. r.before \subseteq Own(w)'
  BY <1>1 DEF Begins, Own
<1> QED BY <1>1, <1>2 DEF Begins, Handling

LEMMA HandlingStats ==
  ASSUME TypeOK, [Next]_vars, NEW w \in Workers, Handling(w),
         CountRows(w) \/ GroupOutcomes(w) \/ AverageTimes(w) \/ SampleEntities(w)
  PROVE  Handling(w)'
<1>1. /\ request'[w] = request[w] /\ exact'[w] = exact[w]
      /\ Own(w)' = Own(w)
      /\ Visible(w) = Own(w)
  BY SeesOwn DEF CountRows, GroupOutcomes, AverageTimes, SampleEntities, Own
<1>2. CASE CountRows(w)
  <2>1. /\ pc[w] = "count"
        /\ pc'[w] \in {"reply", "outcomes"}
        /\ pc'[w] = "outcomes" => request[w].op # "total"
        /\ seen'[w]["total"] = Own(w)
    BY <1>1, <1>2 DEF CountRows, Goto, Read, TypeOK, Parts
  <2>2. request[w].op \in Operations \ Searches
    BY <2>1 DEF Handling, TypeOK, Requests
  <2>3. pc'[w] = "outcomes" => request[w].op = "stats"
    BY <2>1, <2>2 DEF Operations
  <2> QED BY <1>1, <2>1, <2>2, <2>3 DEF Handling, FromWhole
<1>3. CASE GroupOutcomes(w)
  <2>1. /\ pc[w] = "outcomes" /\ pc'[w] = "averages"
        /\ seen'[w]["outcomes"] = Own(w)
        /\ seen'[w]["total"] = seen[w]["total"]
    BY <1>1, <1>3 DEF GroupOutcomes, Goto, Read, TypeOK, Parts
  <2> QED BY <1>1, <2>1 DEF Handling, FromWhole
<1>4. CASE AverageTimes(w)
  <2>1. /\ pc[w] = "averages" /\ pc'[w] = "entities"
        /\ seen'[w]["averages"] = Own(w)
        /\ seen'[w]["outcomes"] = seen[w]["outcomes"]
        /\ seen'[w]["total"] = seen[w]["total"]
    BY <1>1, <1>4 DEF AverageTimes, Goto, Read, TypeOK, Parts
  <2> QED BY <1>1, <2>1 DEF Handling, FromWhole
<1>5. CASE SampleEntities(w)
  <2>1. pc[w] = "entities" /\ pc'[w] = "reply"
    BY <1>5 DEF SampleEntities, Goto, TypeOK
  <2> QED BY <1>1, <2>1 DEF Handling
<1> QED BY <1>2, <1>3, <1>4, <1>5

LEMMA HandlingSearch ==
  ASSUME TypeOK, [Next]_vars, NEW w \in Workers, Handling(w), ScanTable(w) \/ ScanIndex(w)
  PROVE  Handling(w)'
<1>1. /\ pc[w] = "search" /\ pc'[w] = "rank"
      /\ request' = request
      /\ entries' = entries
      /\ Visible(w) = Own(w)
  BY SeesOwn DEF ScanTable, ScanIndex, Goto, TypeOK
<1>2. /\ Own(w)' = Own(w)
      /\ \A e : NoFartherThan(w, e)' = NoFartherThan(w, e)
  BY <1>1 DEF Own, NoFartherThan
<1>3. seen'[w]["candidates"] \subseteq Own(w)
  BY <1>1 DEF ScanTable, ScanIndex, Keeps, Read, TypeOK, Parts
<1>4. ASSUME ScanTable(w), NEW e \in request[w].before \ seen'[w]["candidates"]
      PROVE  CandidateLimit <= Cardinality(NoFartherThan(w, e))
  <2>1. PICK kept \in SUBSET Visible(w) :
           /\ Keeps(Visible(w), CandidateLimit, kept)
           /\ \A x \in kept, y \in Visible(w) \ kept :
                 NoFarther(request[w].query, x.sub, y.sub)
           /\ Read(w, "candidates", kept)
    BY <1>4 DEF ScanTable
  <2>2. seen'[w]["candidates"] = kept
    BY <2>1 DEF Read, TypeOK, Parts
  <2>3. e \in Visible(w) \ kept
    BY <1>1, <1>4, <2>2 DEF Handling
  <2>4. kept \subseteq NoFartherThan(w, e)
    BY <1>1, <2>1, <2>3 DEF NoFartherThan
  <2>5. IsFiniteSet(Visible(w)) /\ IsFiniteSet(NoFartherThan(w, e))
    BY <1>1, FS_Subset DEF TypeOK, Visible, NoFartherThan
  <2> QED BY <2>1, <2>3, <2>4, <2>5, KeptInstead, LimitsAssumption
<1>5. ScanIndex(w) => ~exact'[w]
  BY <1>1 DEF ScanIndex, Handling
<1> QED BY <1>1, <1>2, <1>3, <1>4, <1>5 DEF Handling

(* After the ranking, or when the request is given up. *)
LEMMA HandlingEnds ==
  ASSUME TypeOK, [Next]_vars, NEW w \in Workers, Handling(w), Rank(w) \/ Finish(w)
  PROVE  Handling(w)'
<1>1. CASE Rank(w)
  <2>1. /\ pc[w] = "rank" /\ pc'[w] = "reply"
        /\ request' = request /\ entries' = entries
    BY <1>1 DEF Rank, Goto, TypeOK
  <2> QED BY <2>1 DEF Handling, Own
<1>2. CASE Finish(w)
  BY <1>2 DEF Finish, Handling, TypeOK
<1> QED BY <1>1, <1>2

LEMMA InvStep == IInv /\ [Next]_vars => IInv'
<1> SUFFICES ASSUME IInv, [Next]_vars
             PROVE  IInv'
  OBVIOUS
<1>1. TypeOK /\ TypeOK'
  BY TypeStep DEF IInv
<1>2. ASSUME NEW w \in Workers
      PROVE  Handling(w)'
  <2>1. Handling(w)
    BY DEF IInv
  <2>2. CASE Same(w)
    BY <1>1, <2>1, <2>2, HandlingSame
  <2>3. ASSUME NEW step, NEW r, Begins(w, step, r)
        PROVE  Handling(w)'
    BY <1>1, <2>1, <2>3, HandlingBegins
  <2>4. CASE Serve(w)
    BY <1>1, <2>1, <2>4, HandlingStats, HandlingSearch, HandlingEnds
       DEF Serve, RankFails, Reply, Abort
  <2> QED BY <1>1, <2>2, <2>3, <2>4, WorkerSteps
<1> QED BY <1>1, <1>2 DEF IInv

LEMMA Invariance == Spec => []IInv
BY InvInit, InvStep, PTL DEF Spec

(* Types are kept: entries, requests, what was read and the matches. *)
THEOREM TypeCorrect == Spec => []TypeOK
<1>1. IInv => TypeOK
  BY DEF IInv
<1> QED BY <1>1, Invariance, PTL

--------------------------------------------------------------------------------

(* How an answer comes about, from the state before. *)
LEMMA StatsAnswered ==
  ASSUME IInv, [Next]_vars, NEW w \in Workers, Answering(w, {"stats", "total"})'
  PROVE  \/ Same(w)
         \/ CountRows(w) /\ (request[w].op = "total" \/ Visible(w) = {})
         \/ SampleEntities(w)
<1>1. TypeOK /\ Handling(w) /\ pc'[w] = "reply"
  BY DEF IInv, Answering
<1>2. ASSUME NEW step, NEW r, Begins(w, step, r)
      PROVE  FALSE
  BY <1>1, <1>2 DEF Begins, Receive, TypeOK
<1>3. ASSUME Rank(w)
      PROVE  FALSE
  BY <1>1, <1>3 DEF Rank, Handling, Answering, Searches
<1>4. ASSUME Serve(w), ~Rank(w)
      PROVE  \/ CountRows(w) /\ (request[w].op = "total" \/ Visible(w) = {})
             \/ SampleEntities(w)
  BY <1>1, <1>4 DEF Serve, CountRows, GroupOutcomes, AverageTimes, ScanTable,
     ScanIndex, RankFails, Reply, Abort, Finish, Goto, TypeOK
<1> QED BY <1>1, <1>2, <1>3, <1>4, WorkerSteps

(* Of no rows nothing was stored when the request came. *)
LEMMA NothingCounted ==
  ASSUME IInv, [Next]_vars, NEW w \in Workers, CountRows(w), Visible(w) = {}
  PROVE  /\ request'[w] = request[w]
         /\ request'[w].before = {}
         /\ \A part \in Parts : seen'[w][part] = {}
<1>1. TypeOK /\ Handling(w) /\ pc[w] = "count" /\ request' = request
  BY DEF IInv, CountRows
<1>2. request[w].before = {}
  BY <1>1, SeesOwn DEF Handling
<1>3. seen[w] = Unread
  BY <1>1 DEF Handling
<1>4. seen' = [seen EXCEPT ![w]["total"] = {}]
  BY DEF CountRows, Read
<1>5. \A part \in Parts : seen'[w][part] = {}
  BY <1>1, <1>3, <1>4 DEF TypeOK, Unread
<1> QED BY <1>1, <1>2, <1>5

(* The last statement of the statistics leaves what the others read. *)
LEMMA Sampled ==
  ASSUME IInv, [Next]_vars, NEW w \in Workers, SampleEntities(w)
  PROVE  /\ request'[w] = request[w]
         /\ request[w].op = "stats"
         /\ \A part \in {"total", "outcomes", "averages"} :
               FromWhole(w, part) /\ FromWhole(w, part)'
         /\ seen'[w]["total"] \subseteq seen'[w]["outcomes"]
<1>1. /\ TypeOK /\ Handling(w) /\ pc[w] = "entities"
      /\ request' = request /\ entries' = entries
  BY DEF IInv, SampleEntities
<1>2. \A part \in {"total", "outcomes", "averages"} : seen'[w][part] = seen[w][part]
  BY <1>1 DEF SampleEntities, Read, TypeOK, Parts
<1>3. Own(w)' = Own(w)
  BY <1>1 DEF Own
<1> QED BY <1>1, <1>2, <1>3 DEF Handling, FromWhole

LEMMA StatsStep == IInv /\ StatsOfOwnRows /\ [Next]_vars => StatsOfOwnRows'
<1> SUFFICES ASSUME IInv, StatsOfOwnRows, [Next]_vars, NEW w \in Workers,
                    Answering(w, {"stats", "total"})'
             PROVE  /\ Answering(w, {"stats"})' =>
                         \A part \in {"total", "outcomes", "averages"} :
                            FromWhole(w, part)'
                    /\ Answering(w, {"total"})' => FromWhole(w, "total")'
  BY DEF StatsOfOwnRows, Answering
<1>1. CASE Same(w)
  <2>1. Own(w) \subseteq Own(w)'
    BY <1>1, OwnGrows DEF IInv, Same
  <2>2. ASSUME NEW part, FromWhole(w, part)
        PROVE  FromWhole(w, part)'
    BY <1>1, <2>1, <2>2 DEF FromWhole, Same
  <2> QED BY <1>1, <2>2 DEF StatsOfOwnRows, Answering, Same
<1>2. CASE CountRows(w) /\ Visible(w) = {}
  BY <1>2, NothingCounted DEF FromWhole, Parts
<1>3. CASE CountRows(w) /\ request[w].op = "total"
  <2>1. TypeOK /\ Handling(w) /\ pc[w] = "count"
    BY <1>3 DEF IInv, CountRows
  <2>2. /\ seen'[w]["total"] = Own(w) /\ Own(w)' = Own(w)
        /\ request' = request
    BY <1>3, <2>1, SeesOwn DEF CountRows, Read, TypeOK, Parts, Own
  <2> QED BY <1>3, <2>1, <2>2 DEF FromWhole, Handling, Answering
<1>4. CASE SampleEntities(w)
  BY <1>4, Sampled DEF Answering
<1> QED BY <1>1, <1>2, <1>3, <1>4, StatsAnswered

(* Statistics rest on the client's own incidents, on all of those stored when
   the request came. *)
THEOREM StatsTruthful == Spec => []StatsOfOwnRows
<1>1. Init => StatsOfOwnRows
  BY DEF Init, StatsOfOwnRows, Answering
<1> QED BY <1>1, StatsStep, Invariance, PTL DEF Spec

LEMMA SharesStep == IInv /\ SharesCover /\ [Next]_vars => SharesCover'
<1> SUFFICES ASSUME IInv, SharesCover, [Next]_vars, NEW w \in Workers,
                    Answering(w, {"stats"})'
             PROVE  /\ seen'[w]["total"] \subseteq seen'[w]["outcomes"]
                    /\ (seen'[w]["outcomes"] \ seen'[w]["total"]) \cap request'[w].before = {}
  BY DEF SharesCover
<1>1. CASE Same(w)
  BY <1>1 DEF SharesCover, Answering, Same
<1>2. CASE CountRows(w) /\ Visible(w) = {}
  <2>1. seen'[w]["total"] = {} /\ seen'[w]["outcomes"] = {}
    BY <1>2, NothingCounted DEF Parts
  <2> QED BY <2>1
<1>3. CASE SampleEntities(w)
  <2>1. seen'[w]["total"] \subseteq seen'[w]["outcomes"]
    BY <1>3, Sampled
  <2>2. request'[w].before \subseteq seen'[w]["total"]
    BY <1>3, Sampled DEF FromWhole
  <2> QED BY <2>1, <2>2
<1>4. CASE CountRows(w) /\ request[w].op = "total"
  BY <1>4 DEF CountRows, Answering
<1>5. Answering(w, {"stats", "total"})'
  BY DEF Answering
<1> QED BY <1>1, <1>2, <1>3, <1>4, <1>5, StatsAnswered

(* The outcome shares never sum to less than one, and to more only by
   incidents stored meanwhile. *)
THEOREM SharesComplete == Spec => []SharesCover
<1>1. Init => SharesCover
  BY DEF Init, SharesCover, Answering
<1> QED BY <1>1, SharesStep, Invariance, PTL DEF Spec

LEMMA SampleStep == IInv /\ SampleRecent /\ [Next]_vars => SampleRecent'
<1> SUFFICES ASSUME IInv, SampleRecent, [Next]_vars, NEW w \in Workers,
                    Answering(w, {"stats"})',
                    NEW e \in request'[w].before \ seen'[w]["entities"]
             PROVE  SampleLimit <= Cardinality(NoOlder(w, e)')
  BY DEF SampleRecent
<1>1. CASE Same(w)
  <2>1. SampleLimit <= Cardinality(NoOlder(w, e))
    BY <1>1 DEF SampleRecent, Answering, Same
  <2>2. /\ Cardinality(NoOlder(w, e)) \in Nat
        /\ Cardinality(NoOlder(w, e)') \in Nat
        /\ Cardinality(NoOlder(w, e)) <= Cardinality(NoOlder(w, e)')
    BY <1>1, OwnGrows DEF IInv, Same
  <2> QED BY <2>1, <2>2, LimitsAssumption
<1>2. CASE CountRows(w) /\ Visible(w) = {}
  BY <1>2, NothingCounted
<1>3. CASE SampleEntities(w)
  <2>1. PICK kept \in SUBSET Visible(w) :
           /\ Keeps(Visible(w), SampleLimit, kept)
           /\ \A x \in kept, y \in Visible(w) \ kept :
                 x.sub.submitted_at >= y.sub.submitted_at
           /\ Read(w, "entities", kept)
    BY <1>3 DEF SampleEntities
  <2>2. TypeOK /\ Handling(w) /\ pc[w] = "entities"
        /\ request' = request /\ entries' = entries
    BY <1>3 DEF IInv, SampleEntities
  <2>3. seen'[w]["entities"] = kept
    BY <2>1, <2>2 DEF Read, TypeOK, Parts
  <2>4. e \in Visible(w) \ kept
    BY <2>2, <2>3, SeesOwn DEF Handling
  <2>5. kept \subseteq NoOlder(w, e)
    BY <2>1, <2>4, SeesOwn DEF NoOlder
  <2>6. IsFiniteSet(Visible(w)) /\ IsFiniteSet(NoOlder(w, e))
    BY <2>2, SeesOwn, FS_Subset DEF TypeOK, Visible, NoOlder
  <2>7. NoOlder(w, e)' = NoOlder(w, e)
    BY <2>2 DEF NoOlder, Own
  <2> QED BY <2>1, <2>4, <2>5, <2>6, <2>7, KeptInstead, LimitsAssumption
<1>4. CASE CountRows(w) /\ request[w].op = "total"
  BY <1>4 DEF CountRows, Answering
<1>5. Answering(w, {"stats", "total"})'
  BY DEF Answering
<1> QED BY <1>1, <1>2, <1>3, <1>4, <1>5, StatsAnswered

(* Common entities leave out a stored incident only for as many others
   submitted no earlier as the sample holds. *)
THEOREM SampleIsRecent == Spec => []SampleRecent
<1>1. Init => SampleRecent
  BY DEF Init, SampleRecent, Answering
<1> QED BY <1>1, SampleStep, Invariance, PTL DEF Spec

--------------------------------------------------------------------------------

LEMMA SearchAnswered ==
  ASSUME IInv, [Next]_vars, NEW w \in Workers, Answering(w, Searches)'
  PROVE  Same(w) \/ Rank(w)
<1>1. TypeOK /\ Handling(w) /\ pc'[w] = "reply"
  BY DEF IInv, Answering
<1>2. ASSUME NEW step, NEW r, Begins(w, step, r)
      PROVE  FALSE
  BY <1>1, <1>2 DEF Begins, Receive, TypeOK
<1>3. ASSUME CountRows(w) \/ SampleEntities(w)
      PROVE  FALSE
  BY <1>1, <1>3 DEF CountRows, SampleEntities, Handling, Answering, Searches
<1>4. ASSUME Serve(w), ~(CountRows(w) \/ SampleEntities(w))
      PROVE  Rank(w)
  BY <1>1, <1>4 DEF Serve, GroupOutcomes, AverageTimes, ScanTable, ScanIndex,
     RankFails, Reply, Abort, Finish, Goto, TypeOK
<1> QED BY <1>1, <1>2, <1>3, <1>4, WorkerSteps

(* What the ranking writes. *)
LEMMA Ranked ==
  ASSUME IInv, NEW w \in Workers, Rank(w)
  PROVE  \E n \in Nat : \E m \in [1..n -> Scored(w)] :
            /\ IsRanking(w, n, m)
            /\ \A i \in 1..n : Presentable(w, m[i])
            /\ matches'[w] = m
            /\ Matched(w)' = {m[i] : i \in 1..n}
            /\ Own(w)' = Own(w)
            /\ request'[w] = request[w] /\ exact'[w] = exact[w]
<1>0. TypeOK
  BY DEF IInv
<1>1. PICK n \in 0..Cardinality(Scored(w)) : \E m \in [1..n -> Scored(w)] :
         /\ IsRanking(w, n, m)
         /\ \A i \in 1..n : Presentable(w, m[i])
         /\ matches' = [matches EXCEPT ![w] = m]
  BY DEF Rank
<1>2. PICK m \in [1..n -> Scored(w)] :
         /\ IsRanking(w, n, m)
         /\ \A i \in 1..n : Presentable(w, m[i])
         /\ matches' = [matches EXCEPT ![w] = m]
  BY <1>1
<1>3. matches'[w] = m
  BY <1>0, <1>2 DEF TypeOK
<1>4. Matched(w)' = {m[i] : i \in 1..n}
  BY <1>3 DEF Matched
<1>5. /\ Own(w)' = Own(w)
      /\ request'[w] = request[w] /\ exact'[w] = exact[w]
  BY DEF Rank, Own
<1>6. n \in Nat
  OBVIOUS
<1> QED BY <1>2, <1>3, <1>4, <1>5, <1>6

LEMMA MatchesStep == IInv /\ MatchesRight /\ [Next]_vars => MatchesRight'
<1> SUFFICES ASSUME IInv, MatchesRight, [Next]_vars, NEW w \in Workers,
                    Answering(w, Searches)'
             PROVE  /\ Matched(w)' \subseteq Own(w)'
                    /\ Len(matches'[w]) <= request'[w].query.limit
                    /\ \A e \in Matched(w)' :
                          /\ Reaches(request'[w].query, e.sub)
                          /\ FingerprintSimilarity(request'[w].query, e.sub) >= 0
                    /\ \A i, j \in DOMAIN matches'[w] : i < j =>
                          /\ matches'[w][i] # matches'[w][j]
                          /\ TwiceScore(request'[w].query, matches'[w][i].sub)
                                >= TwiceScore(request'[w].query, matches'[w][j].sub)
  BY DEF MatchesRight
<1>1. CASE Same(w)
  <2>1. Own(w) \subseteq Own(w)' /\ Matched(w)' = Matched(w)
    BY <1>1, OwnGrows DEF IInv, Same, Matched
  <2>2. Answering(w, Searches)
    BY <1>1 DEF Answering, Same
  <2> QED BY <1>1, <2>1, <2>2 DEF MatchesRight, Same
<1>2. CASE Rank(w)
  <2>1. PICK n \in Nat : \E m \in [1..n -> Scored(w)] :
            /\ IsRanking(w, n, m)
            /\ \A i \in 1..n : Presentable(w, m[i])
            /\ matches'[w] = m
            /\ Matched(w)' = {m[i] : i \in 1..n}
            /\ Own(w)' = Own(w)
            /\ request'[w] = request[w] /\ exact'[w] = exact[w]
    BY <1>2, Ranked
  <2>2. PICK m \in [1..n -> Scored(w)] :
            /\ IsRanking(w, n, m)
            /\ \A i \in 1..n : Presentable(w, m[i])
            /\ matches'[w] = m
            /\ Matched(w)' = {m[i] : i \in 1..n}
            /\ Own(w)' = Own(w)
            /\ request'[w] = request[w] /\ exact'[w] = exact[w]
    BY <2>1
  <2> DEFINE M == {m[i] : i \in 1..n}
             q == request[w].query
  <2>3. TypeOK /\ Handling(w) /\ pc[w] = "rank"
    BY <1>2 DEF IInv, Rank
  <2>4. M \subseteq Scored(w) /\ Scored(w) \subseteq Own(w)
    BY <2>3 DEF Scored, Handling
  <2>5. \A i, j \in 1..n : i < j =>
           m[i] # m[j] /\ TwiceScore(q, m[i].sub) >= TwiceScore(q, m[j].sub)
    <3>1. \A i, j \in 1..n : i < j => m[i] # m[j] /\ RanksBefore(q, m[i].sub, m[j].sub)
      BY <2>2 DEF IsRanking
    <3>2. \A s, t : RanksBefore(q, s, t) => TwiceScore(q, s) >= TwiceScore(q, t)
      BY DEF RanksBefore
    <3> QED BY <3>1, <3>2
  <2>6. n <= q.limit
    <3>1. m \in Injection(1..n, M)
      <4>1. m \in [1..n -> M]
        OBVIOUS
      <4>2. \A i, j \in 1..n : m[i] = m[j] => i = j
        BY <2>5
      <4> QED BY <4>1, <4>2 DEF Injection, IsInjective
    <3>2. IsFiniteSet(Own(w))
      BY <2>3, FS_Subset DEF TypeOK, Own
    <3>3. IsFiniteSet(M) /\ Cardinality(M) \in Nat
      BY <2>4, <3>2, FS_Subset, FS_CardinalityType
    <3>4. Cardinality(1..n) <= Cardinality(M) /\ Cardinality(1..n) = n
      BY <3>1, <3>3, FS_Injection, FS_Interval
    <3>5. Cardinality(M) <= q.limit
      BY <2>2 DEF IsRanking, Keeps
    <3>6. q.limit \in Nat
      BY <2>3, QueriesAssumption, LimitsAssumption
         DEF Handling, TypeOK, AllQueries, QueryOf
    <3> QED BY <3>3, <3>4, <3>5, <3>6
  <2>7. Len(m) = n /\ DOMAIN m = 1..n
    OBVIOUS
  <2>8. \A e \in M : Reaches(q, e.sub) /\ FingerprintSimilarity(q, e.sub) >= 0
    BY <2>2, <2>4 DEF Scored, Presentable
  <2> QED BY <2>2, <2>4, <2>5, <2>6, <2>7, <2>8
<1> QED BY <1>1, <1>2, SearchAnswered

(* A search answers with the client's own incidents that reach its threshold,
   no more than it wants, each once, best first. *)
THEOREM MatchesTruthful == Spec => []MatchesRight
<1>1. Init => MatchesRight
  BY DEF Init, MatchesRight, Answering
<1> QED BY <1>1, MatchesStep, Invariance, PTL DEF Spec

LEMMA MissedStep == IInv /\ MissedOnlyByCut /\ [Next]_vars => MissedOnlyByCut'
<1> SUFFICES ASSUME IInv, MissedOnlyByCut, [Next]_vars, NEW w \in Workers,
                    Answering(w, Searches)', exact'[w],
                    NEW e \in request'[w].before \ Matched(w)',
                    Reaches(request'[w].query, e.sub),
                    ~(CandidateLimit <= Cardinality(NoFartherThan(w, e)'))
             PROVE  /\ Cardinality(Matched(w)') = request'[w].query.limit
                    /\ \A x \in Matched(w)' : RanksBefore(request'[w].query, x.sub, e.sub)
  BY DEF MissedOnlyByCut
<1>1. CASE Same(w)
  <2>1. Matched(w)' = Matched(w) /\ Answering(w, Searches)
    BY <1>1 DEF Same, Matched, Answering
  <2>2. /\ Cardinality(NoFartherThan(w, e)) \in Nat
        /\ Cardinality(NoFartherThan(w, e)') \in Nat
        /\ Cardinality(NoFartherThan(w, e)) <= Cardinality(NoFartherThan(w, e)')
    BY <1>1, OwnGrows DEF IInv, Same
  <2>3. ~(CandidateLimit <= Cardinality(NoFartherThan(w, e)))
    BY <2>2, LimitsAssumption
  <2> QED BY <1>1, <2>1, <2>3 DEF MissedOnlyByCut, Same
<1>2. CASE Rank(w)
  <2>1. PICK n \in Nat : \E m \in [1..n -> Scored(w)] :
            /\ IsRanking(w, n, m)
            /\ Matched(w)' = {m[i] : i \in 1..n}
            /\ request'[w] = request[w] /\ exact'[w] = exact[w]
    BY <1>2, Ranked
  <2>2. PICK m \in [1..n -> Scored(w)] :
            /\ IsRanking(w, n, m)
            /\ Matched(w)' = {m[i] : i \in 1..n}
            /\ request'[w] = request[w] /\ exact'[w] = exact[w]
    BY <2>1
  <2>3. TypeOK /\ Handling(w) /\ pc[w] = "rank" /\ entries' = entries
    BY <1>2 DEF IInv, Rank
  <2>4. NoFartherThan(w, e)' = NoFartherThan(w, e)
    BY <2>2, <2>3 DEF NoFartherThan, Own
  <2>5. e \in seen[w]["candidates"]
    BY <2>2, <2>3, <2>4 DEF Handling
  <2>6. e \in Scored(w) \ Matched(w)'
    BY <2>2, <2>5 DEF Scored
  <2> QED BY <2>2, <2>6 DEF IsRanking, Keeps
<1> QED BY <1>1, <1>2, SearchAnswered

(* When the table is read, a stored incident that reaches the threshold is
   missing only for better ones, or cut before its surfaces were looked at. *)
THEOREM MissedForAReason == Spec => []MissedOnlyByCut
<1>1. Init => MissedOnlyByCut
  BY DEF Init, MissedOnlyByCut, Answering
<1> QED BY <1>1, MissedStep, Invariance, PTL DEF Spec

(* No answer holds more incidents than were asked for. *)
AnswersFit ==
    \A w \in Workers : Answering(w, Searches) =>
        Cardinality(Matched(w)) <= request[w].query.limit

LEMMA FitStep == IInv /\ AnswersFit /\ [Next]_vars => AnswersFit'
<1> SUFFICES ASSUME IInv, AnswersFit, [Next]_vars, NEW w \in Workers,
                    Answering(w, Searches)'
             PROVE  Cardinality(Matched(w)') <= request'[w].query.limit
  BY DEF AnswersFit
<1>1. CASE Same(w)
  <2>1. Matched(w)' = Matched(w) /\ Answering(w, Searches)
    BY <1>1 DEF Same, Matched, Answering
  <2> QED BY <1>1, <2>1 DEF AnswersFit, Same
<1>2. CASE Rank(w)
  <2>1. PICK n \in Nat : \E m \in [1..n -> Scored(w)] :
            /\ IsRanking(w, n, m)
            /\ Matched(w)' = {m[i] : i \in 1..n}
            /\ request'[w] = request[w]
    BY <1>2, Ranked
  <2>2. PICK m \in [1..n -> Scored(w)] :
            /\ IsRanking(w, n, m)
            /\ Matched(w)' = {m[i] : i \in 1..n}
            /\ request'[w] = request[w]
    BY <2>1
  <2> QED BY <2>2 DEF IsRanking, Keeps
<1> QED BY <1>1, <1>2, SearchAnswered

(* With all there is among the candidates, nothing is cut. *)
LEMMA NothingCut ==
  ASSUME IInv, MatchesRight, MissedOnlyByCut, AnswersFit
  PROVE  TwoPhasesAsOne
<1> SUFFICES ASSUME NEW w \in Workers, Answering(w, Searches), exact[w],
                    Own(w) = request[w].before,
                    Cardinality(Own(w)) <= CandidateLimit,
                    NEW q, q = request[w].query,
                    NEW similar, similar = {e \in Own(w) : Reaches(q, e.sub)}
             PROVE  /\ Keeps(similar, q.limit, Matched(w))
                    /\ \A x \in Matched(w), e \in similar \ Matched(w) :
                          RanksBefore(q, x.sub, e.sub)
  BY DEF TwoPhasesAsOne
<1>1. Matched(w) \subseteq similar
  BY DEF MatchesRight
<1>2. IsFiniteSet(Own(w)) /\ Cardinality(Own(w)) \in Nat
  BY FS_Subset, FS_CardinalityType DEF IInv, TypeOK, Own
<1>3. ASSUME NEW e \in similar \ Matched(w)
      PROVE  /\ Cardinality(Matched(w)) = q.limit
             /\ \A x \in Matched(w) : RanksBefore(q, x.sub, e.sub)
  <2>1. e \in Own(w) /\ NoFartherThan(w, e) \subseteq Own(w) \ {e}
    BY DEF NoFartherThan
  <2>2. /\ IsFiniteSet(Own(w) \ {e})
        /\ Cardinality(Own(w) \ {e}) = Cardinality(Own(w)) - 1
    BY <1>2, <2>1, FS_RemoveElement
  <2>3. /\ Cardinality(NoFartherThan(w, e)) \in Nat
        /\ Cardinality(NoFartherThan(w, e)) <= Cardinality(Own(w) \ {e})
    BY <2>1, <2>2, FS_Subset, FS_CardinalityType
  <2>4. ~(CandidateLimit <= Cardinality(NoFartherThan(w, e)))
    BY <1>2, <2>2, <2>3, LimitsAssumption
  <2> QED BY <2>1, <2>4 DEF MissedOnlyByCut
<1>4. Matched(w) # similar => Cardinality(Matched(w)) = q.limit
  BY <1>1, <1>3
<1> QED BY <1>1, <1>3, <1>4 DEF Keeps, AnswersFit

(* In a vault that fits into the candidates, a search that reads the table
   answers with the ranking of all there is. *)
THEOREM SearchExact == Spec => []TwoPhasesAsOne
<1>1. Init => AnswersFit
  BY DEF Init, AnswersFit, Answering
<1>2. IInv /\ MatchesRight /\ MissedOnlyByCut /\ AnswersFit => TwoPhasesAsOne
  BY NothingCut
<1> QED
  BY <1>1, <1>2, FitStep, Invariance, MatchesTruthful, MissedForAReason, PTL DEF Spec

--------------------------------------------------------------------------------

LEMMA WholeShare ==
  ASSUME NEW u \in Nat \ {0}, NEW n \in Nat \ {0}, NEW m \in Nat, m <= n
  PROVE  /\ (u * m) \div n \in Int
         /\ (u * n) \div n = u
         /\ (u * m) \div n >= u => m = n
OBVIOUS

(* Having the surfaces asked about, some at least, is being wholly similar. *)
LEMMA WhollySimilar ==
  ASSUME NEW q, NEW s, IsFiniteSet(DOMAIN s.pre), IsFiniteSet(DOMAIN s.post),
         DOMAIN q.surfaces # {}, IsFiniteSet(DOMAIN q.surfaces)
  PROVE  /\ SurfaceSimilarity(q, s) \in Int
         /\ HasSurfacesOf(q, s) => SurfaceSimilarity(q, s) = Unit
         /\ SurfaceSimilarity(q, s) >= Unit => HasSurfacesOf(q, s)
<1> DEFINE theirs == LatestSurfaces(s)
           keys == DOMAIN q.surfaces \cup DOMAIN theirs
           agreed == {k \in DOMAIN q.surfaces \cap DOMAIN theirs :
                           q.surfaces[k] = theirs[k]}
<1>1. DOMAIN theirs = DOMAIN s.pre \cup DOMAIN s.post
  BY DEF LatestSurfaces
<1>2. /\ IsFiniteSet(keys) /\ keys # {}
      /\ agreed \subseteq keys
  BY <1>1, FS_Union
<1>3. /\ Cardinality(keys) \in Nat \ {0}
      /\ Cardinality(agreed) \in Nat
      /\ Cardinality(agreed) <= Cardinality(keys)
      /\ Cardinality(agreed) = Cardinality(keys) => agreed = keys
  BY <1>2, FS_Subset, FS_CardinalityType, FS_EmptySet
<1>4. SurfaceSimilarity(q, s) = (Unit * Cardinality(agreed)) \div Cardinality(keys)
  BY <1>2 DEF SurfaceSimilarity
<1>5. HasSurfacesOf(q, s) <=> agreed = keys
  <2>1. agreed = keys <=> /\ DOMAIN q.surfaces = DOMAIN theirs
                           /\ \A k \in DOMAIN theirs : q.surfaces[k] = theirs[k]
    OBVIOUS
  <2>2. \A k \in DOMAIN theirs :
           theirs[k] = IF k \in DOMAIN s.post THEN s.post[k] ELSE s.pre[k]
    BY DEF LatestSurfaces
  <2> HIDE DEF theirs, keys, agreed
  <2> QED BY <1>1, <2>1, <2>2 DEF HasSurfacesOf
<1> HIDE DEF theirs, keys, agreed
<1>6. /\ (Unit * Cardinality(agreed)) \div Cardinality(keys) \in Int
      /\ (Unit * Cardinality(keys)) \div Cardinality(keys) = Unit
      /\ (Unit * Cardinality(agreed)) \div Cardinality(keys) >= Unit =>
            Cardinality(agreed) = Cardinality(keys)
  BY <1>3, WholeShare, UnitAssumption
<1> QED BY <1>3, <1>4, <1>5, <1>6

LEMMA SurfacesFollow ==
  ASSUME IInv, MatchesRight
  PROVE  SurfacesDecide
<1> SUFFICES ASSUME NEW w \in Workers, Answering(w, Searches),
                    NEW i \in DOMAIN matches[w], NEW j \in DOMAIN matches[w], i < j,
                    NEW q, q = request[w].query,
                    NEW first, first = matches[w][i].sub,
                    NEW later, later = matches[w][j].sub,
                    DOMAIN q.surfaces # {},
                    DOMAIN first.pre \cup DOMAIN first.post # {},
                    HasSurfacesOf(q, later),
                    FingerprintSimilarity(q, first) = FingerprintSimilarity(q, later)
             PROVE  HasSurfacesOf(q, first)
  BY DEF SurfacesDecide
<1>1. TwiceScore(q, first) >= TwiceScore(q, later)
  BY DEF MatchesRight
<1>2. first \in Submissions /\ later \in Submissions
  <2>1. {matches[w][i], matches[w][j]} \subseteq Entries
    BY DEF MatchesRight, Matched, Own, IInv, TypeOK
  <2> QED BY <2>1 DEF Entries, V!EntryOf
<1>3. IsFiniteSet(DOMAIN q.surfaces)
  <2>1. IsFiniteSet(DOMAIN later.pre) /\ IsFiniteSet(DOMAIN later.post)
    BY <1>2, SubmissionsAssumption
  <2>2. IsFiniteSet(DOMAIN later.pre \cup DOMAIN later.post)
    BY <2>1, FS_Union
  <2> QED BY <2>2 DEF HasSurfacesOf
<1>4. /\ DOMAIN LatestSurfaces(first) # {}
      /\ DOMAIN LatestSurfaces(later) # {}
  BY DEF LatestSurfaces, HasSurfacesOf
<1>5. FingerprintSimilarity(q, later) \in Int
  <2>1. q.fingerprint \in Fingerprints
    BY QueriesAssumption, SubmissionsAssumption
       DEF IInv, TypeOK, Answering, AllQueries, QueryOf
  <2>2. later.fingerprint \in Fingerprints
    BY <1>2, SubmissionsAssumption
  <2> QED BY <2>1, <2>2, CosineAssumption, UnitAssumption DEF FingerprintSimilarity
<1>6. /\ SurfaceSimilarity(q, first) \in Int
      /\ SurfaceSimilarity(q, first) >= Unit => HasSurfacesOf(q, first)
      /\ SurfaceSimilarity(q, later) = Unit
  BY <1>2, <1>3, SubmissionsAssumption, WhollySimilar
<1>7. SurfaceSimilarity(q, first) >= Unit
  BY <1>1, <1>4, <1>5, <1>6, UnitAssumption DEF TwiceScore
<1> QED BY <1>6, <1>7

(* Among incidents with equally similar fingerprints those left with the
   surfaces asked about rank first. *)
THEOREM SurfacesRank == Spec => []SurfacesDecide
<1>1. IInv /\ MatchesRight => SurfacesDecide
  BY SurfacesFollow
<1> QED BY <1>1, Invariance, MatchesTruthful, PTL

================================================================================
