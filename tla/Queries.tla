-------------------------------- MODULE Queries --------------------------------
(***************************************************************************)
(* The requests that read the vault: GET /v1/stats/{domain}, GET /v1/stats *)
(* and the searches for similar incidents (api.py, storage.py, search.py), *)
(* while submissions go on.                                                *)
(*                                                                         *)
(* What is stored grows as the specification Vault says, which storing     *)
(* implements.  A request reads in transactions of isolation level READ    *)
(* COMMITTED: each statement sees the incidents committed when it runs, so *)
(* the four statements of get_domain_stats may see four states of the      *)
(* table.  An aggregate is modelled by the set of rows it is computed      *)
(* from, the outcome shares as the rows grouped over the rows counted.     *)
(*                                                                         *)
(* Submissions have, besides what Vault asks, the columns the statements   *)
(* look at; submitted_at is set by the INSERT and does not follow the      *)
(* order of commits.                                                       *)
(***************************************************************************)
EXTENDS Similarity, Sequences

CONSTANTS
    Workers,        \* server processes
    Submissions,    \* records: original_hash, incident_id, tenant, surfaces,
                    \* domain, outcome, fingerprint, pre, post, submitted_at
    CloudIds,
    Tenants,
    Domains,
    Outcomes,
    Queries,        \* records: domain, outcome, fingerprint, surfaces, limit,
                    \* min_similarity
    CandidateLimit, \* config.search_limit * 10
    SampleLimit,    \* 1000
    CountLimit,     \* 100, the limit of the search submit_incident makes
    CountThreshold, \* 0.7, its min_similarity
    NoFilter,       \* a filter left out
    NoRequest       \* a worker's request between two requests

ASSUME LimitsAssumption ==
    {CandidateLimit, SampleLimit, CountLimit, CountThreshold} \subseteq Nat
ASSUME QueriesAssumption ==
    \A q \in Queries :
        /\ q.domain \in Domains \cup {NoFilter}
        /\ q.outcome \in Outcomes \cup {NoFilter}
        /\ q.fingerprint \in Fingerprints
        /\ q.limit \in Nat
ASSUME SubmissionsAssumption ==
    \A s \in Submissions :
        /\ s.tenant \in Tenants
        /\ s.domain \in Domains
        /\ s.outcome \in Outcomes
        /\ s.fingerprint \in Fingerprints
        /\ IsFiniteSet(DOMAIN s.pre) /\ IsFiniteSet(DOMAIN s.post)
        /\ s.submitted_at \in Nat

VARIABLES
    entries,        \* what the vault holds
    pc,             \* [worker -> where its handler stands]
    request,        \* [worker -> the request it serves]
    seen,           \* [worker -> [part of the answer -> rows it was read from]]
    exact,          \* [worker -> whether candidates came from the whole table]
    matches         \* [worker -> the ranked incidents]

handler == <<pc, request, seen, exact, matches>>
vars == <<entries, handler>>

V == INSTANCE Vault WITH replies <- {}

Entries == {V!EntryOf(c, s) : c \in CloudIds, s \in Submissions}

Parts == {"total", "outcomes", "averages", "entities", "candidates"}
Steps == {"idle", "count", "outcomes", "averages", "entities", "search", "rank", "reply"}
Searches == {"search", "similar"}
Operations == {"stats", "total"} \cup Searches
Unread == [p \in Parts |-> {}]

(* The query submit_incident makes of the incident it has stored. *)
QueryOf(s) ==
    [domain |-> s.domain, outcome |-> NoFilter, fingerprint |-> s.fingerprint,
     surfaces |-> <<>>, limit |-> CountLimit, min_similarity |-> CountThreshold]

AllQueries == Queries \cup {QueryOf(s) : s \in Submissions}

Requests ==
    [op : Operations, tenant : Tenants, domain : Domains \cup {NoFilter},
     outcome : Outcomes \cup {NoFilter}, query : AllQueries \cup {NoRequest},
     before : SUBSET Entries]

(* What the client asks about: incidents of the tenant its certificate names,
   of the domain and outcome it gives. *)
Belongs(e, r) ==
    /\ e.sub.tenant = r.tenant
    /\ r.domain \in {e.sub.domain, NoFilter}
    /\ r.outcome \in {e.sub.outcome, NoFilter}

(* before: the incidents it asks about that were stored when the request
   came.  A history, read by no action. *)
Request(op, t, d, o, q) ==
    LET r == [op |-> op, tenant |-> t, domain |-> d, outcome |-> o, query |-> q]
    IN  [op |-> op, tenant |-> t, domain |-> d, outcome |-> o, query |-> q,
         before |-> {e \in entries : Belongs(e, r)}]

Init ==
    /\ entries = {}
    /\ pc = [w \in Workers |-> "idle"]
    /\ request = [w \in Workers |-> NoRequest]
    /\ seen = [w \in Workers |-> Unread]
    /\ exact = [w \in Workers |-> FALSE]
    /\ matches = [w \in Workers |-> <<>>]

--------------------------------------------------------------------------------

(* A submission is committed by some worker. *)
Store(c, s) == V!Store(c, s) /\ UNCHANGED handler

Receive(w, step, r) ==
    /\ pc[w] = "idle"
    /\ pc' = [pc EXCEPT ![w] = step]
    /\ request' = [request EXCEPT ![w] = r]
    /\ UNCHANGED <<entries, seen, exact, matches>>

(* GET /v1/stats/{domain} *)
ReceiveStats(w, t, d) == Receive(w, "count", Request("stats", t, d, NoFilter, NoRequest))

(* GET /v1/stats *)
ReceiveTotal(w, t) == Receive(w, "count", Request("total", t, NoFilter, NoFilter, NoRequest))

(* GET or POST /v1/incidents/similar *)
ReceiveSearch(w, t, q) ==
    Receive(w, "search", Request("search", t, q.domain, q.outcome, q))

(* The end of POST /v1/incidents: its similar_count is the number of matches
   for the incident just committed, this one among them. *)
ReceiveSimilar(w, e) ==
    LET q == QueryOf(e.sub)
    IN  Receive(w, "search", Request("similar", e.sub.tenant, q.domain, q.outcome, q))

(* Mutant of Selected: the tenant clause is left out. *)
SelectedOfAll(e, r) ==
    /\ r.domain # NoFilter => e.sub.domain = r.domain
    /\ r.outcome # NoFilter => e.sub.outcome = r.outcome

(* WHERE domain = ... AND outcome = ... AND tenant_id = ..., as far as given. *)
Selected(e, r) ==
    /\ e.sub.tenant = r.tenant
    /\ r.domain # NoFilter => e.sub.domain = r.domain
    /\ r.outcome # NoFilter => e.sub.outcome = r.outcome

(* Mutant of Visible: cloud_id is not among the columns selected. *)
VisibleBodies(w) == {e.sub : e \in {x \in entries : Selected(x, request[w])}}

(* The rows a statement of w sees now. *)
Visible(w) == {e \in entries : Selected(e, request[w])}

Read(w, part, rows) == seen' = [seen EXCEPT ![w][part] = rows]

Goto(w, step) == pc' = [pc EXCEPT ![w] = step]

(* SELECT COUNT.  Of no rows, and for GET /v1/stats, it is all the answer. *)
CountRows(w) ==
    /\ pc[w] = "count"
    /\ Read(w, "total", Visible(w))
    /\ Goto(w, IF request[w].op = "total" \/ Visible(w) = {} THEN "reply" ELSE "outcomes")
    /\ UNCHANGED <<entries, request, exact, matches>>

(* SELECT outcome, COUNT ... GROUP BY outcome. *)
GroupOutcomes(w) ==
    /\ pc[w] = "outcomes"
    /\ Read(w, "outcomes", Visible(w))
    /\ Goto(w, "averages")
    /\ UNCHANGED <<entries, request, exact, matches>>

(* Mutant of AverageTimes: the total is taken from this statement. *)
AverageAndCount(w) ==
    /\ pc[w] = "averages"
    /\ seen' = [seen EXCEPT ![w]["averages"] = Visible(w), ![w]["total"] = Visible(w)]
    /\ Goto(w, "entities")
    /\ UNCHANGED <<entries, request, exact, matches>>

(* SELECT AVG of the times and of the confidence. *)
AverageTimes(w) ==
    /\ pc[w] = "averages"
    /\ Read(w, "averages", Visible(w))
    /\ Goto(w, "entities")
    /\ UNCHANGED <<entries, request, exact, matches>>

(* What ORDER BY and LIMIT n keep of the rows: n of them, or all if there are
   fewer, none of which comes after one left out. *)
Keeps(rows, n, kept) ==
    /\ kept \subseteq rows
    /\ Cardinality(kept) <= n
    /\ kept # rows => Cardinality(kept) = n

(* Mutant of SampleEntities: ORDER BY submitted_at without DESC. *)
SampleOldest(w) ==
    /\ pc[w] = "entities"
    /\ \E kept \in SUBSET Visible(w) :
          /\ Keeps(Visible(w), SampleLimit, kept)
          /\ \A e \in kept, x \in Visible(w) \ kept :
                e.sub.submitted_at <= x.sub.submitted_at
          /\ Read(w, "entities", kept)
    /\ Goto(w, "reply")
    /\ UNCHANGED <<entries, request, exact, matches>>

(* SELECT fingerprint_json ... ORDER BY submitted_at DESC LIMIT 1000. *)
SampleEntities(w) ==
    /\ pc[w] = "entities"
    /\ \E kept \in SUBSET Visible(w) :
          /\ Keeps(Visible(w), SampleLimit, kept)
          /\ \A e \in kept, x \in Visible(w) \ kept :
                e.sub.submitted_at >= x.sub.submitted_at
          /\ Read(w, "entities", kept)
    /\ Goto(w, "reply")
    /\ UNCHANGED <<entries, request, exact, matches>>

--------------------------------------------------------------------------------

(* Mutant of ScanTable: no more rows are fetched than the client wants. *)
ScanTableForAnswer(w) ==
    /\ pc[w] = "search"
    /\ \E kept \in SUBSET Visible(w) :
          /\ Keeps(Visible(w), request[w].query.limit, kept)
          /\ \A e \in kept, x \in Visible(w) \ kept :
                NoFarther(request[w].query, e.sub, x.sub)
          /\ Read(w, "candidates", kept)
    /\ exact' = [exact EXCEPT ![w] = TRUE]
    /\ Goto(w, "rank")
    /\ UNCHANGED <<entries, request, matches>>

(* SELECT ... ORDER BY fingerprint_vector <=> query LIMIT, when the planner
   reads the table. *)
ScanTable(w) ==
    /\ pc[w] = "search"
    /\ \E kept \in SUBSET Visible(w) :
          /\ Keeps(Visible(w), CandidateLimit, kept)
          /\ \A e \in kept, x \in Visible(w) \ kept :
                NoFarther(request[w].query, e.sub, x.sub)
          /\ Read(w, "candidates", kept)
    /\ exact' = [exact EXCEPT ![w] = TRUE]
    /\ Goto(w, "rank")
    /\ UNCHANGED <<entries, request, matches>>

(* The same when it walks the HNSW index: vectors without a direction are not
   in it, the walk is approximate, and the filters come after it, so it may
   miss any row. *)
ScanIndex(w) ==
    /\ pc[w] = "search"
    /\ \E kept \in SUBSET {e \in Visible(w) : e.sub.fingerprint \notin ZeroVectors} :
          /\ Cardinality(kept) <= CandidateLimit
          /\ Read(w, "candidates", kept)
    /\ Goto(w, "rank")
    /\ UNCHANGED <<entries, request, exact, matches>>

(* The candidates that reach the threshold. *)
Scored(w) == {e \in seen[w]["candidates"] : Reaches(request[w].query, e.sub)}

(* The first query.limit of them in the order of the sort. *)
IsRanking(w, n, m) ==
    /\ Keeps(Scored(w), request[w].query.limit, {m[i] : i \in 1..n})
    /\ \A i, j \in 1..n : i < j =>
          /\ m[i] # m[j]
          /\ RanksBefore(request[w].query, m[i].sub, m[j].sub)
    /\ \A i \in 1..n, e \in Scored(w) \ {m[j] : j \in 1..n} :
          RanksBefore(request[w].query, m[i].sub, e.sub)

(* A match is built of each.  CloudIncidentMatch refuses a negative
   fingerprint similarity. *)
Presentable(w, e) == FingerprintSimilarity(request[w].query, e.sub) >= 0

Rank(w) ==
    /\ pc[w] = "rank"
    /\ \E n \in 0..Cardinality(Scored(w)) : \E m \in [1..n -> Scored(w)] :
          /\ IsRanking(w, n, m)
          /\ \A i \in 1..n : Presentable(w, m[i])
          /\ matches' = [matches EXCEPT ![w] = m]
    /\ Goto(w, "reply")
    /\ UNCHANGED <<entries, request, seen, exact>>

Finish(w) ==
    /\ pc' = [pc EXCEPT ![w] = "idle"]
    /\ request' = [request EXCEPT ![w] = NoRequest]
    /\ seen' = [seen EXCEPT ![w] = Unread]
    /\ exact' = [exact EXCEPT ![w] = FALSE]
    /\ matches' = [matches EXCEPT ![w] = <<>>]
    /\ UNCHANGED entries

(* The refusal leaves the handler, and the client gets a 500. *)
RankFails(w) ==
    /\ pc[w] = "rank"
    /\ \E n \in 0..Cardinality(Scored(w)) : \E m \in [1..n -> Scored(w)] :
          /\ IsRanking(w, n, m)
          /\ \E i \in 1..n : ~Presentable(w, m[i])
    /\ Finish(w)

Reply(w) == pc[w] = "reply" /\ Finish(w)

(* A database error, or the death of the process. *)
Abort(w) == pc[w] \notin {"idle", "reply"} /\ Finish(w)

--------------------------------------------------------------------------------

Serve(w) ==
    \/ CountRows(w) \/ GroupOutcomes(w) \/ AverageTimes(w) \/ SampleEntities(w)
    \/ ScanTable(w) \/ ScanIndex(w) \/ Rank(w) \/ RankFails(w)
    \/ Reply(w)
    \/ Abort(w)

Next ==
    \/ \E c \in CloudIds, s \in Submissions : Store(c, s)
    \/ \E w \in Workers :
          \/ \E t \in Tenants :
                \/ \E d \in Domains : ReceiveStats(w, t, d)
                \/ ReceiveTotal(w, t)
                \/ \E q \in Queries : ReceiveSearch(w, t, q)
          \/ \E e \in entries : ReceiveSimilar(w, e)
          \/ Serve(w)

Spec == Init /\ [][Next]_vars

--------------------------------------------------------------------------------

(* What a client could have been shown: of what it asks about, all that is
   stored now. *)
Own(w) == {e \in entries : Belongs(e, request[w])}

Answering(w, ops) == pc[w] = "reply" /\ request[w].op \in ops

TypeOK ==
    /\ entries \subseteq Entries
    /\ IsFiniteSet(entries)
    /\ pc \in [Workers -> Steps]
    /\ request \in [Workers -> Requests \cup {NoRequest}]
    /\ \A w \in Workers : pc[w] # "idle" =>
          /\ request[w] \in Requests
          /\ request[w].op \in Searches => request[w].query \in AllQueries
    /\ seen \in [Workers -> [Parts -> SUBSET Entries]]
    /\ exact \in [Workers -> BOOLEAN]
    /\ matches \in [Workers -> Seq(Entries)]

(* Every figure of a statistics answer rests on incidents of the client's own
   tenant and the domain asked for, on all of them that were stored when the
   request came, and on none that is not stored: the four statements see
   different states of the table, but none from before the request. *)
FromWhole(w, part) == request[w].before \subseteq seen[w][part] /\ seen[w][part] \subseteq Own(w)

StatsOfOwnRows ==
    \A w \in Workers :
        /\ Answering(w, {"stats"}) =>
              \A part \in {"total", "outcomes", "averages"} : FromWhole(w, part)
        /\ Answering(w, {"total"}) => FromWhole(w, "total")

(* The outcome shares divide the rows grouped by the rows counted, which are
   read by two statements.  They never sum to less than one: every incident
   counted has its share ("Outcome percentages", models.py:381).  They sum to
   more only by incidents that were stored while the request was handled: in
   a vault nothing is added to, the shares are exactly one. *)
SharesCover ==
    \A w \in Workers : Answering(w, {"stats"}) =>
        /\ seen[w]["total"] \subseteq seen[w]["outcomes"]
        /\ (seen[w]["outcomes"] \ seen[w]["total"]) \cap request[w].before = {}

(* Own incidents submitted no earlier than e. *)
NoOlder(w, e) == {x \in Own(w) \ {e} : x.sub.submitted_at >= e.sub.submitted_at}

(* An incident stored when the request came lends its entities to the common
   ones, unless the sample is full of others submitted no earlier ("sample
   recent incidents", storage.py:600). *)
SampleRecent ==
    \A w \in Workers : Answering(w, {"stats"}) =>
        \A e \in request[w].before \ seen[w]["entities"] :
            SampleLimit <= Cardinality(NoOlder(w, e))

Matched(w) == {matches[w][i] : i \in DOMAIN matches[w]}

(* A search answers with stored incidents of the client's tenant that pass
   its filters and its threshold, no more than it wants, each once, best
   first ("ranked by combined fingerprint and surface hash similarity",
   api.py:170), and with no similarity its answer cannot carry: none that is
   negative, and none that is not a number. *)
MatchesRight ==
    \A w \in Workers : Answering(w, Searches) =>
        /\ Matched(w) \subseteq Own(w)
        /\ Len(matches[w]) <= request[w].query.limit
        /\ \A e \in Matched(w) :
              /\ Reaches(request[w].query, e.sub)
              /\ FingerprintSimilarity(request[w].query, e.sub) >= 0
        /\ \A i, j \in DOMAIN matches[w] : i < j =>
              /\ matches[w][i] # matches[w][j]
              /\ TwiceScore(request[w].query, matches[w][i].sub)
                    >= TwiceScore(request[w].query, matches[w][j].sub)

(* Own incidents whose fingerprints are no farther from the query than e's. *)
NoFartherThan(w, e) ==
    {x \in Own(w) \ {e} : NoFarther(request[w].query, x.sub, e.sub)}

(* When the planner reads the table, an incident stored when the request came
   that reaches the threshold is missing from the answer for one of two
   reasons: the answer is full of incidents that rank no lower, or as many
   others as are fetched at most have a fingerprint no farther, and its
   surfaces were never looked at ("two-phase approach", search.py:76-79). *)
MissedOnlyByCut ==
    \A w \in Workers : Answering(w, Searches) /\ exact[w] =>
        \A e \in request[w].before \ Matched(w) : Reaches(request[w].query, e.sub) =>
            \/ /\ Cardinality(Matched(w)) = request[w].query.limit
               /\ \A x \in Matched(w) : RanksBefore(request[w].query, x.sub, e.sub)
            \/ CandidateLimit <= Cardinality(NoFartherThan(w, e))

(* Where the client's incidents that pass the filters are no more than are
   fetched at most, the two phases are as good as one (search.py:76-79): if
   none is stored meanwhile, the answer is a ranking of all that reach the
   threshold by the combined score, cut to what the client wants. *)
TwoPhasesAsOne ==
    \A w \in Workers :
        /\ Answering(w, Searches) /\ exact[w]
        /\ Own(w) = request[w].before
        /\ Cardinality(Own(w)) <= CandidateLimit
        => LET q == request[w].query
               similar == {e \in Own(w) : Reaches(q, e.sub)}
           IN  /\ Keeps(similar, q.limit, Matched(w))
               /\ \A x \in Matched(w), e \in similar \ Matched(w) :
                     RanksBefore(q, x.sub, e.sub)

(* Of two incidents with equally similar fingerprints, one left by its
   resolution with exactly the surfaces asked about does not rank behind one
   that was left with others ("surface_hashes_post" updates
   "surface_hashes_pre", search.py:49-53). *)
HasSurfacesOf(q, s) ==
    /\ DOMAIN q.surfaces = DOMAIN s.pre \cup DOMAIN s.post
    /\ \A k \in DOMAIN s.post : q.surfaces[k] = s.post[k]
    /\ \A k \in DOMAIN s.pre \ DOMAIN s.post : q.surfaces[k] = s.pre[k]

SurfacesDecide ==
    \A w \in Workers : Answering(w, Searches) =>
        \A i, j \in DOMAIN matches[w] :
            LET q == request[w].query
                first == matches[w][i].sub
                later == matches[w][j].sub
            IN  /\ i < j
                /\ DOMAIN q.surfaces # {}
                /\ DOMAIN first.pre \cup DOMAIN first.post # {}
                /\ HasSurfacesOf(q, later)
                /\ FingerprintSimilarity(q, first) = FingerprintSimilarity(q, later)
                => HasSurfacesOf(q, first)

--------------------------------------------------------------------------------

(* What the proofs need besides: what a handler has read so far. *)
Handling(w) ==
    /\ pc[w] # "idle" => request[w].before \subseteq Own(w)
    /\ pc[w] \in {"idle", "count", "search"} => seen[w] = Unread /\ ~exact[w]
    /\ pc[w] \in {"search", "rank"} <=> pc[w] \notin {"idle", "reply"} /\ request[w].op \in Searches
    /\ pc[w] \in {"outcomes", "averages", "entities"} =>
          request[w].op = "stats" /\ FromWhole(w, "total")
    /\ pc[w] \in {"averages", "entities"} =>
          FromWhole(w, "outcomes") /\ seen[w]["total"] \subseteq seen[w]["outcomes"]
    /\ pc[w] = "entities" => FromWhole(w, "averages")
    /\ pc[w] = "rank" =>
          /\ seen[w]["candidates"] \subseteq Own(w)
          /\ exact[w] => \A e \in request[w].before \ seen[w]["candidates"] :
                CandidateLimit <= Cardinality(NoFartherThan(w, e))

IInv == TypeOK /\ \A w \in Workers : Handling(w)

================================================================================
