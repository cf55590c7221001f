---------------------------------- MODULE Pki ----------------------------------
(***************************************************************************)
(* The certificate files and the commands that read and write them         *)
(* (crypto.py, main.py): init-certs, issue-client-cert and the server.     *)
(*                                                                         *)
(* Each command is a run, a process of its own; runs may overlap and may   *)
(* die at any step.  A file is written by emptying it and writing it, and  *)
(* a certificate and its key are two files.  A key is named by the run     *)
(* that generated it; a certificate is the key it is for and the key that  *)
(* signed it.  All runs use one organization name, so a certificate        *)
(* verifies under a CA certificate when the CA's key signed it.            *)
(***************************************************************************)
EXTENDS FiniteSets

CONSTANTS
    Inits,          \* runs of init-certs
    Issues,         \* runs of issue-client-cert
    Servers,        \* runs of server
    Clients,        \* installation ids: names of files in clients_dir
    Client,         \* [run of a writing command -> the id it issues for]
    Missing,        \* no such file
    Empty           \* a file opened and not yet written

Writers == Inits \cup Issues
Runs == Writers \cup Servers

ASSUME RunsAssumption == Servers \cap Writers = {} /\ Inits \cap Issues = {}
ASSUME ClientAssumption ==
    Client \in [Writers -> Clients] /\ {"ca", "server"} \cap Clients = {}
ASSUME FilesAssumption == {Missing, Empty} \cap Runs = {}

VARIABLES
    cert,           \* [owner -> what its .crt file holds]
    key,            \* [owner -> what its .key file holds]
    registered,     \* the client certificates in the trust store
    pc,             \* [run -> where it stands]
    half,           \* [run -> whether it has emptied the file it writes]
    signer,         \* [run -> the CA key it loaded]
    held,           \* [server -> certificate and CA certificate it loaded]
    met             \* [run -> writing runs underway since it started]

files == <<cert, key>>
vars == <<cert, key, registered, pc, half, signer, held, met>>

Owners == {"ca", "server"} \cup Clients
Certs == [key : Runs, by : Runs]
Steps ==
    {"idle", "caCert", "caKey", "loadCert", "loadKey", "serverCert", "serverKey",
     "ensure", "signCert", "signKey", "clientCert", "clientKey", "register", "done",
     "checkCert", "checkKey", "checkCa", "chainCert", "chainKey", "chainCa", "serving",
     "failed"}

Init ==
    /\ cert = [o \in Owners |-> Missing]
    /\ key = [o \in Owners |-> Missing]
    /\ registered = {}
    /\ pc = [r \in Runs |-> "idle"]
    /\ half = [r \in Writers |-> FALSE]
    /\ signer = [r \in Writers |-> Missing]
    /\ held = [s \in Servers |-> [cert |-> Missing, ca |-> Missing]]
    /\ met = [r \in Runs |-> {}]

Busy(r) == pc[r] \notin {"idle", "done", "failed"}

(* met is a history, read by no action. *)
Start(r) ==
    /\ pc[r] = "idle"
    /\ pc' = [pc EXCEPT ![r] = IF r \in Inits THEN "caCert" ELSE "ensure"]
    /\ met' = [s \in Runs |->
                  IF s = r THEN {x \in Writers : Busy(x)}
                  ELSE IF pc[s] # "idle" THEN met[s] \cup ({r} \cap Writers)
                  ELSE met[s]]
    /\ UNCHANGED <<files, registered, half, signer, held>>

--------------------------------------------------------------------------------

Goto(r, step) == pc' = [pc EXCEPT ![r] = step]

(* write_bytes: the file is opened, which empties it, and written. *)
WriteCert(r, step, owner, by, next) ==
    /\ pc[r] = step
    /\ \/ /\ ~half[r]
          /\ half' = [half EXCEPT ![r] = TRUE]
          /\ cert' = [cert EXCEPT ![owner] = Empty]
          /\ UNCHANGED pc
       \/ /\ half[r]
          /\ half' = [half EXCEPT ![r] = FALSE]
          /\ cert' = [cert EXCEPT ![owner] = [key |-> r, by |-> by]]
          /\ Goto(r, next)
    /\ UNCHANGED <<key, registered, signer, held, met>>

WriteKey(r, step, owner, next) ==
    /\ pc[r] = step
    /\ \/ /\ ~half[r]
          /\ half' = [half EXCEPT ![r] = TRUE]
          /\ key' = [key EXCEPT ![owner] = Empty]
          /\ UNCHANGED pc
       \/ /\ half[r]
          /\ half' = [half EXCEPT ![r] = FALSE]
          /\ key' = [key EXCEPT ![owner] = r]
          /\ Goto(r, next)
    /\ UNCHANGED <<cert, registered, signer, held, met>>

(* Mutant of GenerateCaKey: a key that is there is kept. *)
KeepCaKey(r) ==
    IF key["ca"] = Missing \/ half[r] THEN WriteKey(r, "caKey", "ca", "loadCert")
    ELSE /\ pc[r] = "caKey"
         /\ Goto(r, "loadCert")
         /\ UNCHANGED <<files, registered, half, signer, held, met>>

(* _generate_ca: the CA certificate, self-signed, and then its key. *)
GenerateCaCert(r) == WriteCert(r, "caCert", "ca", r, "caKey")
GenerateCaKey(r) == WriteKey(r, "caKey", "ca", "loadCert")

(* The CA is loaded from its files, by init-certs for the server certificate
   and by whatever issues a client certificate.  An empty file does not load;
   of the certificate only the subject is used. *)
LoadCaCert(r) ==
    /\ cert["ca"] \in Certs
    /\ \/ pc[r] = "loadCert" /\ Goto(r, "loadKey")
       \/ pc[r] = "signCert" /\ Goto(r, "signKey")
    /\ UNCHANGED <<files, registered, half, signer, held, met>>

LoadCaKey(r) ==
    /\ key["ca"] \in Runs
    /\ signer' = [signer EXCEPT ![r] = key["ca"]]
    /\ \/ pc[r] = "loadKey" /\ Goto(r, "serverCert")
       \/ pc[r] = "signKey" /\ Goto(r, "clientCert")
    /\ UNCHANGED <<files, registered, half, held, met>>

(* _generate_server_cert *)
GenerateServerCert(r) == WriteCert(r, "serverCert", "server", signer[r], "serverKey")
GenerateServerKey(r) == WriteKey(r, "serverKey", "server", "ensure")

(* ensure_certificates: the four files of CA and server exist. *)
EnsureCertificates(r) ==
    /\ pc[r] = "ensure"
    /\ Missing \notin {cert["ca"], key["ca"], cert["server"], key["server"]}
    /\ Goto(r, IF r \in Servers THEN "checkCert" ELSE "signCert")
    /\ UNCHANGED <<files, registered, half, signer, held, met>>

(* Mutant of IssueCert: the certificate is signed with its own key. *)
SelfSignCert(r) == WriteCert(r, "clientCert", Client[r], r, "clientKey")

(* Mutant of IssueKey: a key that is there is kept. *)
KeepClientKey(r) ==
    IF key[Client[r]] = Missing \/ half[r]
    THEN WriteKey(r, "clientKey", Client[r], "register")
    ELSE /\ pc[r] = "clientKey"
         /\ Goto(r, "register")
         /\ UNCHANGED <<files, registered, half, signer, held, met>>

(* issue_client_certificate, once the CA is loaded. *)
IssueCert(r) == WriteCert(r, "clientCert", Client[r], signer[r], "clientKey")
IssueKey(r) == WriteKey(r, "clientKey", Client[r], "register")

(* Mutant of Register: the key is registered instead of the certificate. *)
RegisterKey(r) ==
    /\ pc[r] = "register"
    /\ registered' = registered \cup {r}
    /\ Goto(r, "done")
    /\ UNCHANGED <<files, half, signer, held, met>>

(* The command registers the certificate it holds in memory. *)
Register(r) ==
    /\ pc[r] = "register"
    /\ registered' = registered \cup {[key |-> r, by |-> signer[r]]}
    /\ Goto(r, "done")
    /\ UNCHANGED <<files, half, signer, held, met>>

--------------------------------------------------------------------------------

(* The server reads its files twice: for a context of its own, which it then
   leaves to one side, and again in uvicorn, which is given the paths.  A
   certificate and key that do not match are refused both times. *)
LoadChainCert(s) ==
    /\ cert["server"] \in Certs
    /\ held' = [held EXCEPT ![s].cert = cert["server"]]
    /\ \/ pc[s] = "checkCert" /\ Goto(s, "checkKey")
       \/ pc[s] = "chainCert" /\ Goto(s, "chainKey")
    /\ UNCHANGED <<files, registered, half, signer, met>>

LoadChainKey(s) ==
    /\ \/ pc[s] = "checkKey" /\ Goto(s, "checkCa")
       \/ pc[s] = "chainKey" /\ Goto(s, "chainCa")
    /\ key["server"] = held[s].cert.key
    /\ UNCHANGED <<files, registered, half, signer, held, met>>

LoadVerifyLocations(s) ==
    /\ cert["ca"] \in Certs
    /\ held' = [held EXCEPT ![s].ca = cert["ca"]]
    /\ \/ pc[s] = "checkCa" /\ Goto(s, "chainCert")
       \/ pc[s] = "chainCa" /\ Goto(s, "serving")
    /\ UNCHANGED <<files, registered, half, signer, met>>

(* A file is missing, empty or of another pair, the database refuses, or the
   process dies. *)
Fail(r) ==
    /\ Busy(r)
    /\ Goto(r, "failed")
    /\ UNCHANGED <<files, registered, half, signer, held, met>>

Next ==
    \/ \E r \in Inits :
          \/ GenerateCaCert(r) \/ GenerateCaKey(r)
          \/ GenerateServerCert(r) \/ GenerateServerKey(r)
    \/ \E r \in Writers :
          \/ LoadCaCert(r) \/ LoadCaKey(r)
          \/ IssueCert(r) \/ IssueKey(r) \/ Register(r)
    \/ \E s \in Servers : LoadChainCert(s) \/ LoadChainKey(s) \/ LoadVerifyLocations(s)
    \/ \E r \in Runs : Start(r) \/ EnsureCertificates(r) \/ Fail(r)

Spec == Init /\ [][Next]_vars

--------------------------------------------------------------------------------

TypeOK ==
    /\ cert \in [Owners -> Certs \cup {Missing, Empty}]
    /\ key \in [Owners -> Runs \cup {Missing, Empty}]
    /\ registered \subseteq Certs
    /\ pc \in [Runs -> Steps]
    /\ half \in [Writers -> BOOLEAN]
    /\ signer \in [Writers -> Runs \cup {Missing}]
    /\ held \in [Servers -> [cert : Certs \cup {Missing}, ca : Certs \cup {Missing}]]
    /\ met \in [Runs -> SUBSET Writers]

(* No other init-certs has been underway since r started. *)
Undisturbed(r) == met[r] \cap Inits = {}

(* Nor has a command for the same client. *)
Sole(r) == \A s \in met[r] : Client[s] # Client[r]

Settled(i) == i \in Inits /\ pc[i] = "done" /\ Undisturbed(i)

(* An init-certs that no other disturbed leaves a CA and a server certificate
   of its own, whatever died before it and at which step: the two pairs
   match, and the one signed the other (crypto.py:66-112). *)
InitRecovers ==
    \A i \in Inits : Settled(i) =>
        /\ cert["ca"] = [key |-> i, by |-> i] /\ key["ca"] = i
        /\ cert["server"] = [key |-> i, by |-> i] /\ key["server"] = i

(* A client certificate and key that the command said were issued are a pair,
   the certificate is registered, and the CA key in the files signed it,
   unless init-certs or a command for the same client came in between. *)
IssuedWhole ==
    \A r \in Writers : pc[r] = "done" /\ Undisturbed(r) /\ Sole(r) =>
        /\ cert[Client[r]] = [key |-> r, by |-> key["ca"]]
        /\ key[Client[r]] = r
        /\ cert[Client[r]] \in registered

(* After an undisturbed init-certs, a server started and a certificate issued
   since accept each other: each verifies under the CA the other side has. *)
Handshake ==
    \A i \in Inits, s \in Servers, r \in Writers :
        /\ Settled(i)
        /\ pc[s] = "serving" /\ Undisturbed(s)
        /\ pc[r] = "done" /\ Undisturbed(r) /\ Sole(r)
        => /\ held[s].cert.by = cert["ca"].key
           /\ cert[Client[r]].by = held[s].ca.key

--------------------------------------------------------------------------------

(* What the proofs need besides: whom a run has met, and what the files and
   the memory hold of it at each step. *)
MetBusy ==
    \A r \in Runs, s \in Writers :
        r # s /\ pc[r] # "idle" /\ Busy(s) => s \in met[r]

Issuing == {"ensure", "signCert", "signKey", "clientCert", "clientKey", "register", "done"}

Signing ==
    \A r \in Writers : pc[r] \in {"serverCert", "clientCert", "clientKey", "register"} =>
        signer[r] \in Runs

(* The files an init-certs has written by the time it stands where it does. *)
Generated(i) ==
    /\ pc[i] \in {"caKey", "loadCert", "loadKey", "serverCert", "serverKey"} \cup Issuing =>
          cert["ca"] = [key |-> i, by |-> i]
    /\ pc[i] \in {"loadCert", "loadKey", "serverCert", "serverKey"} \cup Issuing =>
          key["ca"] = i
    /\ pc[i] \in {"serverCert", "serverKey"} => signer[i] = i
    /\ pc[i] \in {"serverKey"} \cup Issuing => cert["server"] = [key |-> i, by |-> i]
    /\ pc[i] \in Issuing => key["server"] = i

Issued(r) ==
    /\ pc[r] \in {"clientCert", "clientKey", "register", "done"} => signer[r] = key["ca"]
    /\ pc[r] \in {"clientKey", "register", "done"} /\ Sole(r) =>
          cert[Client[r]] = [key |-> r, by |-> signer[r]]
    /\ pc[r] \in {"register", "done"} /\ Sole(r) => key[Client[r]] = r
    /\ pc[r] = "done" => [key |-> r, by |-> signer[r]] \in registered

Loaded(i, s) ==
    /\ pc[s] \in {"checkKey", "checkCa", "chainCert", "chainKey", "chainCa", "serving"} =>
          held[s].cert = [key |-> i, by |-> i]
    /\ pc[s] \in {"chainCert", "chainKey", "chainCa", "serving"} =>
          held[s].ca = [key |-> i, by |-> i]

IInv ==
    /\ TypeOK
    /\ Signing
    /\ MetBusy
    /\ \A i \in Inits : Undisturbed(i) => Generated(i)
    /\ \A r \in Writers : Undisturbed(r) => Issued(r)
    /\ \A i \in Inits, s \in Servers : Settled(i) /\ Undisturbed(s) => Loaded(i, s)

================================================================================
