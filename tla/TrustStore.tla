------------------------------ MODULE TrustStore ------------------------------
(***************************************************************************)
(* Who may use the vault: the certificates init-certs and                  *)
(* issue-client-cert make (main.py, crypto.py), the table                  *)
(* trusted_certificates and its audit log (storage.py), the authentication *)
(* of a request (auth.py) and the admin endpoints (api.py).                *)
(*                                                                         *)
(* Certificates are made by command line processes, requests are served by *)
(* workers; both share the certificate directory and the database, and     *)
(* every access to the database is a transaction of its own, so the row a  *)
(* worker has checked may change before the worker uses what it saw.       *)
(* A certificate stands for its fingerprint.  The columns of the table are *)
(* sets of certificates, each a subset of rows.                            *)
(***************************************************************************)
CONSTANTS
    Workers,        \* server processes
    Certs,          \* client certificates that can come to be made
    Admins,         \* those init-certs makes
    Modes,          \* the values of config.mode looked at: "org", "global"
    VerifierRaises, \* whether the calls verify_client_cert makes raise (see Verifies)
    NoRequest       \* a worker's request between two requests

ASSUME AdminsAssumption == Admins \subseteq Certs
ASSUME ModesAssumption == Modes \subseteq {"org", "global"}
ASSUME VerifierAssumption == VerifierRaises \in BOOLEAN

VARIABLES
    mode,           \* config.mode of all processes, read from the environment once
    made,           \* [cert -> how far the command that makes it has come]
    signed,         \* certificates the CA certificate on disk has signed
    expired,        \* certificates past not_valid_after
    rows,           \* certificates with a row in trusted_certificates
    admin,          \* rows with is_admin
    revoked,        \* rows with revoked
    dated,          \* rows whose expires_at an admin chose
    lapsed,         \* those of them past expires_at
    audit,          \* audit_log
    pc,             \* [worker -> where its handler stands]
    request,        \* [worker -> the request it serves]
    success         \* [worker -> what register_ or revoke_certificate returned]

outside == <<mode, made, signed, expired>>
table == <<rows, admin, revoked, dated, lapsed>>
handler == <<pc, request, success>>
vars == <<outside, table, audit, handler>>

Steps == {"idle", "verify", "trust", "autoregister", "handle", "act", "audit", "reply"}
Operations == {"use", "register", "revoke"}

(* barred: the certificate had a row when the request came, and the row was
   revoked or expired.  A history of the request, read by no action. *)
Request(c, op, t, b) == [cert |-> c, op |-> op, target |-> t, barred |-> b]
Requests == [cert : Certs, op : Operations, target : Certs, barred : BOOLEAN]

(* Mutant of Record: log_audit called without its actor. *)
RecordNobody(r, ok) ==
    [action |-> r.op, actor |-> NoRequest, target |-> r.target, success |-> ok]

Record(r, ok) == [action |-> r.op, actor |-> r.cert, target |-> r.target, success |-> ok]
Records == [action : Operations, actor : Certs, target : Certs, success : BOOLEAN]

Init ==
    /\ mode \in Modes
    /\ made = [c \in Certs |-> "no"]
    /\ signed = {}
    /\ expired = {}
    /\ rows = {}
    /\ admin = {}
    /\ revoked = {}
    /\ dated = {}
    /\ lapsed = {}
    /\ audit = {}
    /\ pc = [w \in Workers |-> "idle"]
    /\ request = [w \in Workers |-> NoRequest]
    /\ success = [w \in Workers |-> FALSE]

--------------------------------------------------------------------------------

(* Mutant of Register: an upsert that overwrites the row it meets. *)
RegisterOver(c, asAdmin, ownDate) ==
    /\ rows' = rows \cup {c}
    /\ admin' = IF asAdmin THEN admin \cup {c} ELSE admin \ {c}
    /\ dated' = IF ownDate THEN dated \cup {c} ELSE dated \ {c}
    /\ revoked' = revoked \ {c}
    /\ lapsed' = lapsed \ {c}

(* INSERT INTO trusted_certificates ... ON CONFLICT DO NOTHING. *)
Register(c, asAdmin, ownDate) ==
    /\ rows' = rows \cup {c}
    /\ admin' = IF asAdmin /\ c \notin rows THEN admin \cup {c} ELSE admin
    /\ dated' = IF ownDate /\ c \notin rows THEN dated \cup {c} ELSE dated
    /\ UNCHANGED <<revoked, lapsed>>

(* The row is there, not revoked and not past its expires_at, which is the
   end of the certificate unless an admin chose another. *)
RowValid(c) ==
    /\ c \in rows
    /\ c \notin revoked
    /\ c \in dated => c \notin lapsed
    /\ c \notin dated => c \notin expired

--------------------------------------------------------------------------------

(* cmd_init_certs writes a new CA and the admin certificate it signs: what
   an earlier CA signed no longer verifies. *)
InitCerts(c) ==
    /\ c \in Admins
    /\ made[c] = "no"
    /\ made' = [made EXCEPT ![c] = "written"]
    /\ signed' = {c}
    /\ UNCHANGED <<mode, expired, table, audit, handler>>

(* cmd_issue_client_cert writes a certificate; it needs the CA. *)
IssueClientCert(c) ==
    /\ c \in Certs \ Admins
    /\ made[c] = "no"
    /\ signed # {}
    /\ made' = [made EXCEPT ![c] = "written"]
    /\ signed' = signed \cup {c}
    /\ UNCHANGED <<mode, expired, table, audit, handler>>

(* The same command then registers the certificate, and ends without a look
   at what register_certificate returned. *)
RegisterIssued(c) ==
    /\ made[c] = "written"
    /\ Register(c, c \in Admins, FALSE)
    /\ made' = [made EXCEPT ![c] = "registered"]
    /\ UNCHANGED <<mode, signed, expired, audit, handler>>

(* Or dies before, or cannot reach the database. *)
CommandDies(c) ==
    /\ made[c] = "written"
    /\ made' = [made EXCEPT ![c] = "unregistered"]
    /\ UNCHANGED <<mode, signed, expired, table, audit, handler>>

(* Time passes the end of a certificate, or the date an admin gave a row. *)
CertExpires(c) ==
    /\ made[c] # "no"
    /\ c \notin expired
    /\ expired' = expired \cup {c}
    /\ UNCHANGED <<mode, made, signed, table, audit, handler>>

RowExpires(c) ==
    /\ c \in dated \ lapsed
    /\ lapsed' = lapsed \cup {c}
    /\ UNCHANGED <<outside, rows, admin, revoked, dated, audit, handler>>

--------------------------------------------------------------------------------

(* A request comes with a certificate somebody has the files of. *)
Receive(w, c, op, t) ==
    /\ pc[w] = "idle"
    /\ made[c] # "no"
    /\ made[t] # "no"
    /\ op = "use" => t = c
    /\ pc' = [pc EXCEPT ![w] = "verify"]
    /\ request' = [request EXCEPT
            ![w] = Request(c, op, t, c \in rows /\ ~RowValid(c))]
    /\ UNCHANGED <<outside, table, audit, success>>

Goto(w, step) ==
    /\ pc' = [pc EXCEPT ![w] = step]
    /\ UNCHANGED <<request, success>>

Finish(w) ==
    /\ pc' = [pc EXCEPT ![w] = "idle"]
    /\ request' = [request EXCEPT ![w] = NoRequest]
    /\ success' = [success EXCEPT ![w] = FALSE]

(* verify_client_cert: issued by our CA, not expired, signature right.  The
   code compares not_valid_before, which the library returns without a time
   zone, with an aware time (crypto.py:275), and calls verify of an RSA key
   without its algorithm argument; both raise, and the handler makes a failure
   of it.  So the program at this commit is VerifierRaises = TRUE, and answers
   401 to every certificate.  VerifierRaises = FALSE is the verifier its
   docstring describes (crypto.py:256): what the model shows with it of the
   code behind the verifier is latent until the verifier works. *)
Verifies(c) == ~VerifierRaises /\ c \in signed \ expired

Verify(w) ==
    /\ pc[w] = "verify"
    /\ Verifies(request[w].cert)
    /\ Goto(w, "trust")
    /\ UNCHANGED <<outside, table, audit>>

(* 401 *)
Reject(w) ==
    /\ pc[w] = "verify"
    /\ ~Verifies(request[w].cert)
    /\ Finish(w)
    /\ UNCHANGED <<outside, table, audit>>

(* is_certificate_trusted. *)
Trust(w) ==
    /\ pc[w] = "trust"
    /\ RowValid(request[w].cert)
    /\ Goto(w, "handle")
    /\ UNCHANGED <<outside, table, audit>>

(* Mutant of Doubt: certificates register themselves in any mode. *)
DoubtInAnyMode(w) ==
    /\ pc[w] = "trust"
    /\ ~RowValid(request[w].cert)
    /\ Goto(w, "autoregister")
    /\ UNCHANGED <<outside, table, audit>>

(* Not trusted: in org mode whatever the reason, the certificate is about to
   be registered. *)
Doubt(w) ==
    /\ pc[w] = "trust"
    /\ mode = "org"
    /\ ~RowValid(request[w].cert)
    /\ Goto(w, "autoregister")
    /\ UNCHANGED <<outside, table, audit>>

(* In global mode: 403. *)
Distrust(w) ==
    /\ pc[w] = "trust"
    /\ mode = "global"
    /\ ~RowValid(request[w].cert)
    /\ Finish(w)
    /\ UNCHANGED <<outside, table, audit>>

AutoRegister(w) ==
    /\ pc[w] = "autoregister"
    /\ Register(request[w].cert, FALSE, FALSE)
    /\ Goto(w, "handle")
    /\ UNCHANGED <<outside, audit>>

(* A request of the incident or statistics endpoints is handled. *)
Use(w) ==
    /\ pc[w] = "handle"
    /\ request[w].op = "use"
    /\ Goto(w, "reply")
    /\ UNCHANGED <<outside, table, audit>>

(* Mutant of IsAdmin: revocation left to the authentication before. *)
IsAdminUnlessExpired(c) == c \in admin /\ c \notin expired

(* is_admin_certificate. *)
IsAdmin(c) == c \in admin /\ RowValid(c)

(* require_admin. *)
RequireAdmin(w) ==
    /\ pc[w] = "handle"
    /\ request[w].op # "use"
    /\ IsAdmin(request[w].cert)
    /\ Goto(w, "act")
    /\ UNCHANGED <<outside, table, audit>>

(* 403 *)
Forbid(w) ==
    /\ pc[w] = "handle"
    /\ request[w].op # "use"
    /\ ~IsAdmin(request[w].cert)
    /\ Finish(w)
    /\ UNCHANGED <<outside, table, audit>>

(* POST /v1/admin/certs: register_certificate. *)
RegisterCert(w) ==
    /\ pc[w] = "act"
    /\ request[w].op = "register"
    /\ Register(request[w].target, FALSE, TRUE)
    /\ success' = [success EXCEPT ![w] = request[w].target \notin rows]
    /\ pc' = [pc EXCEPT ![w] = "audit"]
    /\ UNCHANGED <<outside, audit, request>>

(* Mutant of RevokeCert: the number of rows updated is not looked at. *)
RevokeCertBlindly(w) ==
    /\ pc[w] = "act"
    /\ request[w].op = "revoke"
    /\ revoked' = IF request[w].target \in rows
                    THEN revoked \cup {request[w].target} ELSE revoked
    /\ success' = [success EXCEPT ![w] = TRUE]
    /\ pc' = [pc EXCEPT ![w] = "audit"]
    /\ UNCHANGED <<outside, rows, admin, dated, lapsed, audit, request>>

(* DELETE /v1/admin/certs/{fingerprint}: revoke_certificate. *)
RevokeCert(w) ==
    /\ pc[w] = "act"
    /\ request[w].op = "revoke"
    /\ revoked' = IF request[w].target \in rows
                    THEN revoked \cup {request[w].target} ELSE revoked
    /\ success' = [success EXCEPT ![w] = request[w].target \in rows]
    /\ pc' = [pc EXCEPT ![w] = "audit"]
    /\ UNCHANGED <<outside, rows, admin, dated, lapsed, audit, request>>

(* log_audit writes its row, *)
LogAudit(w) ==
    /\ pc[w] = "audit"
    /\ audit' = audit \cup {Record(request[w], success[w])}
    /\ Goto(w, "reply")
    /\ UNCHANGED <<outside, table>>

(* or fails, and swallows the failure. *)
LoseAudit(w) ==
    /\ pc[w] = "audit"
    /\ Goto(w, "reply")
    /\ UNCHANGED <<outside, table, audit>>

(* The client is answered: 200, or 404 for a revocation that met no row. *)
Reply(w) ==
    /\ pc[w] = "reply"
    /\ Finish(w)
    /\ UNCHANGED <<outside, table, audit>>

(* A database error or the death of the process between two transactions. *)
Abort(w) ==
    /\ pc[w] # "idle"
    /\ Finish(w)
    /\ UNCHANGED <<outside, table, audit>>

--------------------------------------------------------------------------------

Command(c) ==
    InitCerts(c) \/ IssueClientCert(c) \/ RegisterIssued(c) \/ CommandDies(c)

Time(c) == CertExpires(c) \/ RowExpires(c)

Serve(w) ==
    \/ Verify(w) \/ Reject(w)
    \/ Trust(w) \/ Doubt(w) \/ Distrust(w)
    \/ AutoRegister(w)
    \/ Use(w)
    \/ RequireAdmin(w) \/ Forbid(w)
    \/ RegisterCert(w) \/ RevokeCert(w)
    \/ LogAudit(w) \/ LoseAudit(w)
    \/ Reply(w)

Next ==
    \/ \E c \in Certs : Command(c) \/ Time(c)
    \/ \E w \in Workers :
          \/ \E c, t \in Certs, op \in Operations : Receive(w, c, op, t)
          \/ Serve(w)
          \/ Abort(w)

Spec == Init /\ [][Next]_vars

--------------------------------------------------------------------------------

TypeOK ==
    /\ mode \in Modes
    /\ made \in [Certs -> {"no", "written", "registered", "unregistered"}]
    /\ signed \subseteq Certs
    /\ expired \subseteq Certs
    /\ rows \subseteq Certs
    /\ admin \subseteq rows
    /\ revoked \subseteq rows
    /\ dated \subseteq rows
    /\ lapsed \subseteq dated
    /\ audit \subseteq Records
    /\ pc \in [Workers -> Steps]
    /\ request \in [Workers -> Requests \cup {NoRequest}]
    /\ \A w \in Workers : pc[w] # "idle" => request[w] \in Requests
    /\ success \in [Workers -> BOOLEAN]

(* A registration never changes a row that is there, whoever else registers
   or revokes the certificate at the same time: a revocation is final, an
   admin stays one, nobody becomes one ("Uses atomic upsert to avoid race
   conditions", storage.py:650). *)
RowsKept ==
    /\ rows \subseteq rows'
    /\ revoked \subseteq revoked'
    /\ admin \subseteq admin'
    /\ admin' \cap rows \subseteq admin
    /\ dated' \cap rows = dated

RegistrationsKept == [][RowsKept]_vars

(* What is done under /v1/admin is done for an admin whose certificate was
   neither revoked nor expired when the request came, in either mode: the
   check of require_admin is separate from the one of the authentication,
   and from the deed. *)
OnlyLiveAdminsAct ==
    \A w \in Workers : pc[w] \in {"act", "audit"} =>
        /\ request[w].cert \in admin
        /\ ~request[w].barred

(* A worker that has changed the table and not yet written its audit row. *)
Claims(w, op) == pc[w] = "audit" /\ request[w].op = op /\ success[w]

(* The audit log tells what happened.  A revocation it calls successful is
   in the table, for good; a registration it calls successful made the row
   that is there, so that of two registrations of one certificate only one
   is called so. *)
AuditTruthful ==
    /\ \A a \in audit :
          /\ a.success /\ a.action = "revoke" => a.target \in revoked
          /\ a.success /\ a.action = "register" => a.target \in dated
    /\ \A w \in Workers :
          /\ Claims(w, "revoke") => request[w].target \in revoked
          /\ Claims(w, "register") =>
                /\ request[w].target \in dated
                /\ \A a \in audit :
                      a.success /\ a.action = "register" => a.target # request[w].target
                /\ \A v \in Workers \ {w} :
                      Claims(v, "register") => request[v].target # request[w].target

(* A certificate whose row was revoked or expired when the request came is
   not served ("Revoking Access", TEAMS.md:325).  In org mode it does not
   hold behind a verifier that lets certificates through: the registration
   that follows the failed check meets the revoked row, and the request goes
   on. *)
RevocationHonoured ==
    \A w \in Workers :
        pc[w] \in {"handle", "act", "audit", "reply"} => ~request[w].barred

(* In global mode nothing registers itself, and revocation is honoured: the
   check of the trust store, made in a transaction of its own after the
   request came, never lets a barred certificate through ("In global mode,
   this would require admin approval", auth.py:109). *)
GlobalRevocation == mode = "global" => RevocationHonoured

(* "Only the certificate created during init-certs has admin privileges"
   (TEAMS.md:372), whoever registers what, and all the log says was done was
   done by such a one.  In global mode, where nothing registers itself,
   init-certs that ends does give them, unless an admin has registered the
   certificate before as a client's. *)
AdminsByInit ==
    /\ \A c \in admin : c \in Admins /\ made[c] = "registered"
    /\ \A a \in audit : a.actor \in admin
    /\ mode = "global" =>
          \A c \in Admins : made[c] = "registered" => c \in admin \cup dated

(* When init-certs has ended and logged "Registered admin certificate"
   (main.py:185-189), its certificate has admin privileges (TEAMS.md:372).
   It does not hold in org mode behind a verifier that lets certificates
   through: a worker that sees the certificate between its writing and its
   registration registers it first, as no admin. *)
AdminRegistered ==
    \A c \in Admins : made[c] = "registered" => c \in admin

(* A certificate of our CA within its validity passes verify_client_cert
   ("Verify a client certificate against our CA", crypto.py:256). *)
OwnCertsVerify ==
    \A w \in Workers :
        pc[w] = "verify" /\ request[w].cert \in signed \ expired =>
            ENABLED Verify(w)

--------------------------------------------------------------------------------

(* What the proofs need besides: a certificate barred when its request came
   is still barred, because nothing un-revokes a row or moves its date. *)
BarredStay ==
    \A w \in Workers :
        pc[w] # "idle" /\ request[w].barred =>
            request[w].cert \in rows /\ ~RowValid(request[w].cert)

IInv ==
    /\ TypeOK
    /\ BarredStay
    /\ OnlyLiveAdminsAct
    /\ AuditTruthful

================================================================================
