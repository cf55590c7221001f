# ELLE Cloud in TLA+

Models, model checks and proofs for ELLE Cloud (`src/elle_cloud/`), a vault of
anonymised incident reports: installations submit incidents over HTTP, and ask
for similar ones, for statistics and for resolutions that worked. Everything
shared is in one PostgreSQL database. The code is the reference: every
definition says which function it translates, and `PROJECT.json` ("map") gives
its lines.

## 1. The system

| Component | Source | State | Operations |
|---|---|---|---|
| Incident submission and storage | `api.py:113-233`, `storage.py:300-541` | `anonymized_incidents`, `surface_hashes` | `submit_incident`, `store_incident`, `get_incident` |
| Trust store and admin endpoints | `storage.py:638-850`, `api.py:280-363` | `trusted_certificates`, `audit_log` | `register_certificate`, `is_certificate_trusted`, `is_admin_certificate`, `revoke_certificate`, `list_certificates`, `log_audit` |
| Authentication | `auth.py` | none of its own | `verify_client_certificate`, `get_auth_context`, `require_admin` |
| Certificate authority, commands | `crypto.py`, `main.py:110-257` | files of the certificate directory | `init_certs`, `issue_client_certificate`, `verify_client_cert`, `ensure_certificates` |
| Domain statistics | `storage.py:526-630`, `api.py:241-272` | reads only | `get_domain_stats`, `get_incident_count` |
| Similarity search | `search.py` | reads only | `search_similar`, `search_by_surface_hash`, `get_resolution_recommendations` |
| Schema and startup | `storage.py:107-244`, `main.py:67-107` | `schema_version`, the tables, the extension | `ensure_schema`, `configure_pool`, readiness |
| Connection pool | `storage.py:48-100` | at most ten connections | `get_db` (commit or roll back) |
| Data model, configuration, rate limits | `models.py`, `config.py`, `api.py` | none that is shared | validation, environment variables |

How they meet: a request is authenticated (`auth.py`), which reads and may
write the trust store; its handler then runs a few transactions of its own on
the tables; an administrative one ends by writing the audit log. The command
line writes certificate files and, in a process of its own, the trust store;
the server reads those files when it starts.

Where the concurrency is: the handlers are `async` functions that never await,
so one uvicorn process runs one request after the other. Two requests
interleave when several server processes share the database, and a request and
a command (`init-certs`, `issue-client-cert`) always may. "Worker" in the models
is such a server process. What they share is protected by PostgreSQL alone:
unique keys, `ON CONFLICT`, one transaction for each call of `get_db`.

What is hard:

- a check and the statement that relies on it are separated, by a statement
  (`storage.py:328` and `352`) or by whole transactions (`auth.py:105` and
  `113`, `auth.py:214` and `storage.py:748`);
- inserts wait for other workers' open transactions (the unique keys);
- a transaction, a process or an answer fails half way, and the client retries;
- the result of a write is ignored (`auth.py:113`, `main.py:177`);
- columns decide differently about one certificate: `revoked`, `is_admin`,
  `expires_at`, and the certificate's own dates;
- one answer is put together from several statements, each of which sees
  another state of the table (`storage.py:559-612`);
- candidates are cut by one measure and ranked by another (`search.py:129` and
  `169`), and the measures have values the answer cannot carry;
- a certificate and its key are two files, written and read one after the other
  by processes that do not lock anything (`crypto.py:350` and `353`).

What makes the parts correct: one stored incident and one cloud id per original
hash; incidents indexed whole or not at all; requests that end; registrations
that never overwrite; administrative acts for live admins only; an audit log
that claims nothing that did not happen; revocation that takes effect; answers
of the client's own incidents that leave none out without a reason; certificate
files that fit together after any crash and a fresh `init-certs`.
The list of hazards, each at its line, is in `PROJECT.json`.

## 2. The modules

| Module | What it is |
|---|---|
| `Vault` | abstract specification of storing: entries and answers |
| `VaultProofs` | its theorems |
| `IncidentStore` | `submit_incident` and `store_incident`, statement by statement |
| `MCIncidentStore` | its instances for TLC |
| `IncidentStoreProofs` | its theorems, the refinement of `Vault` among them |
| `TrustStore` | certificates, trust store, authentication, admin endpoints, audit log |
| `MCTrustStore` | its instances for TLC |
| `TrustStoreProofs` | its theorems |
| `Schema` | abstract specification of starting: the version and who uses it |
| `Startup` | servers and commands that create or migrate the schema when they start |
| `MCStartup`, `StartupProofs` | its instances for TLC, its theorems |
| `Similarity` | how alike a query and an incident are: scores and their order |
| `Queries` | statistics and searches over a vault that grows; uses `Vault` and `Similarity` |
| `MCQueries`, `QueriesProofs` | its instance for TLC, its theorems |
| `Pki` | certificate files, `init-certs`, `issue-client-cert`, the server's start |
| `MCPki`, `PkiProofs` | its instance for TLC, its theorems |

`IncidentStore` is shown to implement `Vault`, `Startup` to implement `Schema`,
and `Queries` reads what `Vault` stores: the statements of a request are
interleaved with whole submissions, not with their single statements.

Actions whose comment says "Mutant of" are no part of a specification: each is
a plausible slip in the action named, kept to show that a property notices it.

### IncidentStore

A submission is a record of what the database constrains or the answer depends
on: `original_hash`, `incident_id`, `tenant`, and the set of surface hashes. A
worker's program counter follows `_store_incident_impl`:

| Step | Action | Code |
|---|---|---|
| `check` | `FindDuplicate`, `FindNothing` | the SELECT by original hash, `storage.py:327-335` |
| `insert` | `Insert`, `Refuse` | the INSERT at the index of `incident_id`: a free key, or a unique violation, `337-405` |
| `hash` | `InsertHash`, `Refuse` | the same INSERT at the index of `original_hash` |
| `index` | `InsertSurface`, once per surface, then `Commit` | `_store_surface_hashes`, `get_db`'s commit |
| `count` | `CountSimilar` | `search_similar` after the commit, `api.py:140-150` |
| `reply` | `Reply` | the answer |
| `conflict` | `RaiseConflict` | the violation leaves the handler, a 500 |

`pending` and `pendingIndex` are what an open transaction has written: other
workers do not see it, but an INSERT that meets one of its keys has no step until
that transaction ends (PostgreSQL's wait on the unique index). PostgreSQL enters
a row into the unique indexes one after the other, in the order in which the
table declares them: `incident_id`, `cloud_id`, which is always new, then
`original_hash` (`storage.py:114`, `115`, `138`). So an INSERT that waits at
`original_hash` already holds its `incident_id`, and another with that id waits
for this one (`RefusedBy`, `WaitsFor`). `Abort` is an error or the death of the
process at any step; after `Commit` it is also the acknowledgement that got
lost. Clients retry: `Receive` may bring any submission any number of times.

### TrustStore

A certificate stands for its fingerprint; the columns of
`trusted_certificates` are sets of certificates (`rows`, `admin`, `revoked`,
`dated` for rows whose `expires_at` an admin chose, `lapsed` for those past
it; a row not dated expires with its certificate). The commands are
`InitCerts` or `IssueClientCert` (the files), then `RegisterIssued` or
`CommandDies`. `signed` is what the CA on disk has signed: running init-certs
again empties it of all earlier certificates. A request goes through `verify`
(`crypto.py:255-300`), `trust` (`auth.py:105`), in org mode for an untrusted
certificate `autoregister` (`auth.py:107-119`), then `handle`; the
administrative ones through `require_admin` to `act`, `audit` and `reply`, each
step one transaction. `barred` in a request remembers whether its
certificate's row was revoked or expired when the request came; no action
reads it. The variable `mode` is `config.mode`, the same for all processes and
never changed; the constant `Modes` says which modes an instance begins in.

`VerifierRaises`. `verify_client_cert` as written raises inside for every
certificate and answers 401 (run `trust_verifier`). So that the rest
can be examined, the other runs of `TrustStore` set the constant to FALSE, the
verifier its docstring describes: what they show is about the authentication
that comes after it. For the properties that hold this is the harder case, and
the theorems hold for both values. The two that do not, of `trust_revoked` and
`trust_bootstrap`, are latent: at this commit no request passes the verifier, and
what those runs show happens once it is repaired.

### Startup

The database is three facts: the extension, the tables (made together, in one
transaction), the version rows. A process takes its connection (`Connect`, or
`PoolTimeout` when there is no vector type to register), looks for
`schema_version` (`Look`), then either creates everything (`Create`) and records
the version (`RecordVersion`), or reads the version (`ReadVersion`) and perhaps
raises it (`UpdateVersion`); `Commit` ends the transaction and the process is up.
Processes are servers (`main.py:94-95`) and the commands init-certs and
issue-client-cert (`172-173`, `232-233`), the constant `Commands`. A command
starts when somebody types it (`Run`); `up` is where it registers its
certificate, after which it ends (`Exit`), with its schema committed and nothing
served. What it does with the files and the registration is in `Pki` and
`TrustStore`.
What another process does meanwhile decides between `Create`, `Await`
(PostgreSQL's wait at the catalog's unique keys), `CreateFails` and
`CreateNothing`. An exception ends the process; Docker restarts a server
(`docker-compose.yaml:75`). `Prepare` is an administrator who types CREATE
EXTENSION; no file of the repository does it.

`Schema` is what all this promises: a version, 0 where there is no schema, that
changes only in the step in which a process begins to use it, a server or a
command, and then to `SCHEMA_VERSION`. `Version` and the processes that are `up`
are the mapping: `Commit` is `Bring`, the failure of a process that is up and
the `Exit` of a command are `Leave`, and every other step, the writes of an open
transaction among them, is none.

### Similarity and Queries

A fingerprint vector is a value; the constant `Cosine` gives the cosine of any
two in parts of `Unit`, negative ones included (a temperature may be below
zero), and `ZeroVectors` are those without a direction, which a fingerprint of
defaults is: `fingerprint_to_vector` makes 0 of each default. PostgreSQL answers
NaN for them, which sorts last and reaches no threshold (`Comparable`). Scores
are doubled to stay integers (`TwiceScore`); rounding of floats is not modelled.

`Queries` has one handler for the requests that read: `stats`, `total`, `search`
and `similar`, the search `submit_incident` makes after its commit. A statement
is an action that reads the incidents visible when it runs (`Visible`, the
tenant and filter clauses in `Selected`):

| Step | Action | Code |
|---|---|---|
| `count` | `CountRows` | `SELECT COUNT`, `storage.py:526-570` |
| `outcomes` | `GroupOutcomes` | `GROUP BY outcome`, `572-581` |
| `averages` | `AverageTimes` | the averages, `583-598` |
| `entities` | `SampleEntities` | the latest 1000 by `submitted_at`, `600-616` |
| `search` | `ScanTable` or `ScanIndex` | the candidates, `search.py:104-131` |
| `rank` | `Rank` or `RankFails` | scores, sort, matches, `141-190` |
| `reply` | `Reply` | the answer |

`seen` keeps, for each part of an answer, the rows it is computed from.
`ScanTable` is exact, and `exact` says that it was the one; `ScanIndex` is a walk
of the HNSW index, which filters afterwards, is approximate and does not hold
vectors without a direction, so it may miss any row. `RankFails` is the refusal
of `CloudIncidentMatch`, whose similarity must not be negative (`models.py:301`):
a search whose ranking has an incident with a negative fingerprint similarity
lifted over the threshold by its surfaces ends in a 500. `before`, in a request,
are the incidents it asks about that were stored when it came; no action reads
it.

### Pki

Each run of a command is a process that may die at any step (`Fail`, which is
also every error). The files are `cert` and `key` of the CA, the server and each
client; `WriteCert` and `WriteKey` are `write_bytes`, which empties the file
(`half`) and then writes it. A key is named by the run that generated it; a
certificate is the pair of its key and the key that signed it.

| Steps | Actions | Code |
|---|---|---|
| `caCert`, `caKey` | `GenerateCaCert`, `GenerateCaKey` | `crypto.py:302-360` |
| `loadCert`, `loadKey` | `LoadCaCert`, `LoadCaKey` | `crypto.py:373-374`, `459-471` |
| `serverCert`, `serverKey` | `GenerateServerCert`, `GenerateServerKey` | `crypto.py:376-455` |
| `ensure` | `EnsureCertificates` | `crypto.py:119-143` |
| `signCert`, `signKey` | `LoadCaCert`, `LoadCaKey` | `crypto.py:157-158` |
| `clientCert`, `clientKey` | `IssueCert`, `IssueKey` | `crypto.py:225-226` |
| `register` | `Register` | `main.py:171-184`, `231-241` |
| `checkCert` to `chainCa` | `LoadChainCert`, `LoadChainKey`, `LoadVerifyLocations` | `main.py:131-153` |

The server reads the files twice: for an `SSLContext` that `cmd_server` builds and
then leaves unused, and in uvicorn, which gets the paths. `met` collects which
writing runs have been underway since a run started; no action reads it.
`EnsureCertificates` raises when a file is missing, as the code does and unlike
its docstring ("generating if needed", `crypto.py:120`).

## 3. The runs

| Run | Instance | Result |
|---|---|---|
| `store_safety` | 3 workers, 4 submissions, 3 cloud ids | `TypeOK`, `AcceptedOnce`, `IndexComplete`, `AcceptedReadable`, `WaitsEnd`, `PromiseKept`, `VaultSpec` hold |
| `store_liveness` | 3 workers, one hash under two incident ids, one tenant, fair | `AnswersReadable`, `RequestsEnd` hold |
| `store_race` | 2 workers, one hash | `DuplicatesAnswered` violated |
| `store_tenants` | 1 worker | `AnswersReadable` violated |
| `trust` | both modes, 2 workers, an admin and a client certificate | `TypeOK`, `OnlyLiveAdminsAct`, `AuditTruthful`, `GlobalRevocation`, `AdminsByInit`, `RegistrationsKept` hold |
| `trust_revoked` | org mode, 1 worker | `RevocationHonoured` violated |
| `trust_bootstrap` | org mode, 1 worker and init-certs | `AdminRegistered` violated |
| `trust_verifier` | the verifier as written | `OwnCertsVerify` violated |
| `startup` | 3 servers, a command, 2 failures, an administrator, fair | `TypeOK`, `SchemaWhole`, `WaitsEnd`, `StartsUp`, `OnlyByHand`, `SchemaSpec` hold |
| `startup_fresh` | 1 server, fresh database, no administrator | `StartsUp` violated |
| `queries` | 1 worker, 6 submissions of two tenants, 4 queries | `TypeOK`, `StatsOfOwnRows`, `SharesCover`, `SampleRecent`, `MatchesRight`, `MissedOnlyByCut`, `TwoPhasesAsOne`, `SurfacesDecide` hold |
| `pki` | 2 runs of init-certs, 1 of issue-client-cert, 1 server | `TypeOK`, `InitRecovers`, `IssuedWhole`, `Handshake` hold |

Bounds. Three workers are the fewest that put two workers between their check
and their insert while a third commits, and that make a chain of waits. The four
submissions of `MCIncidentStore` share a hash, share an incident id, share a
surface, or share nothing, so every pair of keys clashes somewhere; they come
from two tenants. Rows there at once, committed or not, differ in their incident
id, of which there are three, so three cloud ids never run out and `Insert`
never fails for want of one. `store_liveness` has one tenant, as org mode does
(`auth.py:145`), which is what `AnswersReadable` needs; its two incidents of one
hash, without surfaces, let an INSERT wait at either index, a third worker
behind a waiting second, and two cloud ids are enough for them. In `TrustStore`
two workers can race for one row, with each other and with the command that
makes it; two certificates, one of them the admin's, give every pair of actor
and target. `Bound` is a state constraint: states with more than `MaxAudit`
records in org mode, or with one in global mode, and states in which two dates
have passed, a certificate's or a row's, are checked but not continued. The
properties compare a record with at most one other record or claim, a second
date that passes only closes one more certificate, and they are proved without
the bound. In `Startup` three processes let one wait for a second that creates
the schema while a third comes late; two failures can hit the creator and
whoever takes over; versions 1 and 2 are an older schema and the current one. A
fourth process is a command, typed at any time and any number of times, which
may be the one that creates the schema, or die while it does. In `Queries` one
worker is enough: requests that only read do not affect each other, and
submissions come between any two of its statements. The six submissions have two
with one fingerprint and opposite drifts, a close one with the surfaces asked
about, an opposite one, one without a direction and one of another tenant; at
most five are stored. `CandidateLimit` and `SampleLimit` are 2 and `CountLimit`
3, so each limit cuts; `CountThreshold` 8 of 12 stands for 0.7 and the queries'
thresholds of 4 and 10 for 0.33 and 0.83. In `Pki` two runs of init-certs give a
CA that is replaced while another command uses it; all certificates are issued
for one client id, so that a command meets files another has written or died
writing. No more than two commands are busy at once besides a server that serves
(`Bound`); a third may start whenever one has ended or died. The properties
concern one run of init-certs, one issue and one server, and are proved without
the bound. The run does not look for deadlocks: every run happens once.

What the new answers amount to. `StatsOfOwnRows`, `SharesCover` and
`SampleRecent` say how far the four snapshots of `get_domain_stats` may drift
apart: every statement includes what was stored when the request came, so the
shares can sum to more than one, but by incidents stored meanwhile alone, and
never to less, and an old incident leaves the sample only for a thousand others
dated no earlier, although an incident may be committed after others with a
later `submitted_at`. `MissedOnlyByCut` is the exact promise of the two-phase
search: an incident that reaches the threshold is missing only from a full
answer, or because ten times `search_limit` others have fingerprints no farther
from the query, whatever its surfaces. It is said of table scans only; an index
walk promises nothing. `TwoPhasesAsOne` says when the two phases lose nothing:
while the incidents that pass the filters are no more than `search_limit` times
ten, the answer is the ranking of all of them. `AdminsByInit` is what the
documentation claims of admin rights: in either mode nobody has them but through
init-certs, whatever an admin or the auto-registration writes; that init-certs
*gives* them holds in global mode only, and there unless an admin has registered
the certificate before. `WaitsEnd` says that a circle of waits, which PostgreSQL
would break by failing a request, cannot arise, and why: in startup no wait is
for a waiter; in the store an INSERT at `incident_id` may wait for one that
waits itself, at `original_hash`, but that one only waits for transactions past
their INSERT. `OnlyByHand` says of the finding `startup_fresh` what one
behaviour cannot: whatever processes do, the CREATE EXTENSION of the code never
is what creates the extension.

Fairness (`FairSpec`). Weak fairness of a worker's handler: code that runs goes
on until it returns. Strong fairness of `Insert` and `InsertHash`: PostgreSQL
wakes an INSERT when the transaction it waits for ends, so a worker cannot be
passed over for ever by others that take the key and roll back. No fairness is
assumed of `Receive` or `Abort`. In `Startup`: weak fairness of each process,
the restart of a server by Docker and the end of a command included, but none of
`Run`, which nobody need type; and of the administrator where there is one;
failures are finitely many (`MaxFailures`), because a process that fails for
ever never comes up. That run does not look for deadlocks: all servers up is its
end.

What the violations show, each against a sentence of the repository
(`PROJECT.json`, "findings"). Three of them are latent at this commit, because
*trust_verifier* refuses every certificate before their code is reached:

- *store_race*: check and insert are separate statements. Two workers find no
  duplicate, both insert; the second waits, then gets a unique violation, and
  its client a 500, where the docstring promises the answer "duplicate".
- *store_tenants* (latent: two tenants take two certificates that verify, and
  without certificates every tenant is "global", `auth.py:191`): the check for
  duplicates looks at all tenants, the reads at one. A submission whose hash
  another tenant stored is not stored, and is answered with a cloud id its
  client cannot read.
- *trust_revoked* (latent): in org mode a revoked certificate is untrusted, so
  it is auto-registered; the insert does nothing on the revoked row, nobody
  looks at the result, and the request is served. Admin rights do go:
  `require_admin` checks again (`OnlyLiveAdminsAct`).
- *trust_bootstrap* (latent): a worker that sees the admin certificate before
  init-certs registers it makes a row without admin rights; init-certs then
  changes nothing and reports success.
- *trust_verifier*: a naive date is compared with an aware one, and the
  signature call lacks an argument; both raise, and every certificate is
  refused.
- *startup_fresh*: each connection registers the vector type before it is handed
  out, and only a connection that was handed out creates it. The server times
  out, ends, is restarted, and so on.

## 4. The proofs

TLAPS proves, for any number of workers, submissions, cloud ids and
certificates, with no other assumption than those the modules name:

- `VaultProofs` (no assumption): `VaultApart`, `VaultAgrees`.
- `IncidentStoreProofs` (assumption: `NoSubmission` is no submission):
  `TypeCorrect`, `OneAcceptance`, `IndexedWhole`, `AcceptedAreReadable`,
  `WaitsAreShort`; `Refinement`, `Spec => VaultSpec`, and with it
  `VaultPromise`; under a hypothesis each, `OneTenantReads` and
  `OneProcessAnswers`.
- `TrustStoreProofs` (assumptions: `Admins` are certificates, `Modes` are among
  the two): `TypeCorrect`, `AdminsOnly`, `AuditIsTrue`, `RegistrationIsFinal`,
  `RevocationWorks` (of global mode), `AdminsComeFromInit`.
- `StartupProofs` (assumptions: `Commands` are processes, `SCHEMA_VERSION` is
  positive, `MaxFailures` a natural number): `TypeCorrect`, `WholeSchema`,
  `NoWaitForWaiters`, `AdministratorNeeded`, `FreshStaysDown`, and `Refinement`,
  `Spec => SchemaSpec`.
- `QueriesProofs` (assumptions: limits are natural numbers, submissions and
  queries have their fields, surfaces are finite, cosines lie between -`Unit`
  and `Unit`, `Unit` is positive): `TypeCorrect`, `StatsTruthful`,
  `SharesComplete`, `SampleIsRecent`, `MatchesTruthful`, `MissedForAReason`,
  `SearchExact`, `SurfacesRank`.
- `PkiProofs` (assumptions: the kinds of runs are apart, a run issues for a
  client, no client is called "ca" or "server", file marks are no runs):
  `TypeCorrect`, `Recovery`, `IssueIsWhole`, `HandshakeWorks`.

The argument for the store. `AcceptedOnce` and `IndexComplete` are not
inductive: they say nothing of what open transactions will commit. `IInv` adds
that committed and pending rows never share a key that both have entered
(`KeysApart`, which is what the unique indexes and the wait give; two rows may
share an original hash while the INSERT of one is still before that index), what
a worker holds at each step (`Control`), and that every answer, sent or not, is
backed by a row (`AnswersBacked`). Rows are never removed, so a backed answer
stays backed; two backed answers about one hash name the same row.
`AcceptedOnce` needs the row as witness: an acceptance is made by the one worker
that committed the row. For the refinement a vault entry is a committed row with
its index rows; `Commit` is `Store`, `Reply` is `Accept` or `Deduplicate`, every
other step stutters; that an entry appears with all its surfaces is
`IndexComplete`.

The argument for the vault's promise. `AnswersAgree` speaks of all answers ever
sent, and is proved once, of the abstract vault: entries are apart because
`Store` keeps them so and none is removed, each answer is backed by an entry
when it is sent and stays so, and two answers about one hash are backed by
entries with that hash, which are one. `VaultPromise` carries it over to the
workers: they implement `Vault`, so whatever `VaultProofs` shows of every behaviour
of the vault holds of theirs. Nothing about transactions is proved twice.

The findings' other side. `DuplicatesAnswered` and `AnswersReadable` do not hold of
every deployment (runs `store_race`, `store_tenants`), and the theorems say what
they need. `OneProcessAnswers`: in one process (`SingleProcess`, what
`docker-compose.yaml` starts) nothing comes between the check and the insert
(`CheckStands`), however often it dies and clients retry. `OneTenantReads`: where
a hash comes from one tenant (`OneTenantPerHash`; in org mode all share the
organization's), the row that backs an answer has the tenant of the submission,
whatever the number of workers.

Waiting. `WaitsEnd` is what remains of the liveness properties without fairness.
For the store it follows from `Control`: only a worker at `hash` or `index` has
a row others can meet, and the one at `index` waits for nobody. For startup it
follows from `Creation`, which says at which steps an open transaction can
stand.

The argument for the trust store. No step removes a row, a revocation or an
admin, so what a worker read in a check can grow false only through time or a
revocation. `IInv` ties each step to what its checks established: a worker past
`require_admin` serves a certificate in `admin` that was not barred on arrival;
a worker with a claim still to be logged finds it true in the table and no
other claim to the same registration. That `barred` stays meaningful needs that
nothing un-revokes or un-expires a row between arrival and check.
`AdminsByInit` needs of global mode that a row which is there without a date of
its own was written by a command (`ByCommand`), since no request reaches
`autoregister` (`Unaided`): so when init-certs finds its certificate's row taken,
it is by an admin's registration.

The argument for startup. `SchemaWhole` is not inductive: it says nothing of
what open transactions will commit. `Creation` adds that at most one transaction
creates the tables, only while they are not there, and that the version row is
recorded in that same transaction; a transaction that found the tables made has
written nothing, and fails at the primary key. The refinement of `Schema` follows:
a commit leaves `SCHEMA_VERSION` as the one version in each of the three cases of
an open transaction (it creates, it migrates, it found all as it should be).
`OnlyByHand` holds because without the extension every process is down or at
`connect` and has written nothing (`Untyped`), which no step changes but
`Prepare`; without an administrator there is no such step, so `FreshStaysDown`
proves the finding `startup_fresh` of all behaviours and any number of processes.

The argument for the queries. Nothing is removed from the vault, so what a
statement has read stays stored, and the incidents stored before the request are
among what any statement sees. `Handling` says what has been read at each step:
the count before the groups, hence their inclusion. `MissedOnlyByCut` combines
two cuts: a row left out by the statement has as many candidates no farther as
the limit allows, a set that only grows afterwards (lemma `Growth`); a row left
out of the ranking has only candidates that rank no lower, and a full answer
(`KeptInstead`). `SurfacesDecide` rests on the lemma about `SurfaceSimilarity`
that it reaches `Unit` for an incident with exactly the surfaces asked about,
and for no other, since a matching share of one means that every key matches.
`SearchExact` combines the two invariants before it: where the incidents fit
into the candidates, those no farther than one that is missing are too few to
have pushed it out, since it is not among them (`NothingCut`); that an answer
holds no more than was asked for is `AnswersFit`.

The argument for the certificate files. The properties speak of the end of a
run; `IInv` says for each step of an undisturbed init-certs which files are
already its own (`Generated`), for each step of an issue which file and key it
has written (`Issued`), and for each step of a server what it holds (`Loaded`).
Another run that writes one of these files is busy, and `MetBusy` says that it
is then among those met: the run was disturbed after all. That a run can be
undisturbed although the other started earlier and still writes is why `met`
begins with the runs busy at the start.

Only model-checked: `RequestsEnd` and `StartsUp` (liveness under fairness is out
of the prover's reach). Not proved because they do not hold: `AdminRegistered`,
`OwnCertsVerify`, `RevocationHonoured` in org mode, and, without their hypotheses,
`DuplicatesAnswered` and `AnswersReadable`. `OneProcessAnswers` and
`FreshStaysDown` are about deployments no passing run instantiates, a single
process and a database without an administrator: they are proved only.

## 5. What is not modelled

- The text of answers, errors and logs; the figures computed from the rows an
  aggregate reads; rounding of similarities.
- How the HNSW index walks: `ScanIndex` may miss any row.
- `search_by_surface_hash` and `get_resolution_recommendations`, which no endpoint
  calls, and `list_certificates` and `readiness_check`, reads that no property
  concerns.
- The mode without client certificates, and the ways a certificate reaches the
  process (header or TLS); the options of the TLS context.
- Different organization names in runs of init-certs: one name is used, so that a
  certificate verifies exactly when the CA's key signed it.
- Rolled back cloud ids come back in the model; a uuid does not. No property
  distinguishes the two.
- Validation of request bodies, reading the environment, rate limits: no shared
  state. `max_incidents` ("oldest pruned", `config.py:107`) and the setting
  `detail_level` are read by no code.
- The tables of earlier schema versions, which the repository does not hold: the
  migration only raises the version (`storage.py:235`), in the code as in the model.
- What overlapping runs of init-certs leave: `Pki` has the overlap, but nothing in
  the repository promises anything of it, so its properties speak of runs that
  no other disturbed (`Undisturbed`). Nor does anything say what becomes of the
  rows of certificates whose CA a second init-certs has replaced.
- Pool exhaustion: a worker holds one connection at a time.

## 6. Plan

Done, in the order of importance: `Vault`, `IncidentStore`, `TrustStore`,
`Startup`, `Queries` with `Similarity`, and `Pki`, with their proofs. What would
come next:

1. A composition of authentication and storage: which tenant's rows a request
   served for a certificate can touch, when an admin registers one certificate
   under another organization.
2. The bootstrap property in org mode under the condition that makes it true, no
   request of the admin certificate before its registration; in global mode
   `AdminsByInit` says when it holds.
3. What the queries inherit from `Vault`: no answer names one incident twice.
4. An abstract specification of the trust store, as `Vault` is of storing.
5. `search_by_surface_hash` and `get_resolution_recommendations`, once an endpoint
   calls them.
6. Deadlines of clients and the proxy, should the server get handlers that
   await.
