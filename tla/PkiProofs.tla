-------------------------------- MODULE PkiProofs -------------------------------
(***************************************************************************)
(* Proofs about Pki for any runs of the commands and any clients.          *)
(***************************************************************************)
EXTENDS Pki, TLAPS

LEMMA InvInit == Init => IInv
<1> SUFFICES ASSUME Init
             PROVE  IInv
  OBVIOUS
<1>1. TypeOK
  BY DEF Init, TypeOK, Steps
<1>2. \A r \in Runs : pc[r] = "idle"
  BY DEF Init
<1>3. MetBusy /\ Signing
  BY <1>2 DEF MetBusy, Signing, Runs
<1>4. \A r \in Writers : Generated(r) /\ Issued(r)
  BY <1>2 DEF Generated, Issued, Issuing, Runs
<1>5. \A i \in Inits : ~Settled(i)
  BY <1>2 DEF Settled, Runs, Writers
<1> QED BY <1>1, <1>3, <1>4, <1>5 DEF IInv, Writers

(* The actions of one run: those that write a file, and the others. *)
Saves(r) ==
    \/ r \in Inits /\ (GenerateCaCert(r) \/ GenerateCaKey(r)
                         \/ GenerateServerCert(r) \/ GenerateServerKey(r))
    \/ r \in Writers /\ (IssueCert(r) \/ IssueKey(r))

Serves(r) ==
    r \in Servers /\ (LoadChainCert(r) \/ LoadChainKey(r) \/ LoadVerifyLocations(r))

Acts(r) ==
    \/ Start(r)
    \/ Saves(r)
    \/ r \in Writers /\ (LoadCaCert(r) \/ LoadCaKey(r) \/ Register(r))
    \/ Serves(r)
    \/ EnsureCertificates(r)
    \/ Fail(r)

LEMMA OneRun ==
  ASSUME [Next]_vars
  PROVE  UNCHANGED vars \/ \E r \in Runs : Acts(r)
BY DEF Next, Acts, Saves, Serves, Runs, Writers

(* Types are kept, and whoever signs has loaded a key. *)
LEMMA TypeStep == TypeOK /\ Signing /\ [Next]_vars => TypeOK' /\ Signing'
<1> SUFFICES ASSUME TypeOK, Signing, [Next]_vars
             PROVE  TypeOK' /\ Signing'
  OBVIOUS
<1>1. ASSUME NEW r \in Writers, NEW step \in Steps, NEW next \in Steps,
             NEW owner \in Owners, NEW by \in Runs,
             WriteCert(r, step, owner, by, next),
             next = "clientKey" => signer[r] \in Runs,
             next \notin {"serverCert", "clientCert", "register"}
      PROVE  TypeOK' /\ Signing'
  <2>1. r \in Runs /\ [key |-> r, by |-> by] \in Certs
    BY DEF Runs, Certs
  <2>2. TypeOK'
    <3>1. half' \in [Writers -> BOOLEAN]
      BY <1>1 DEF WriteCert, TypeOK
    <3>2. pc' \in [Runs -> Steps]
      BY <1>1, <2>1 DEF WriteCert, Goto, TypeOK
    <3>3. cert' \in [Owners -> Certs \cup {Missing, Empty}]
      BY <1>1, <2>1 DEF WriteCert, TypeOK
    <3>4. UNCHANGED <<key, registered, signer, held, met>>
      BY <1>1 DEF WriteCert
    <3> QED BY <3>1, <3>2, <3>3, <3>4 DEF TypeOK
  <2>3. Signing'
    BY <1>1, <2>1 DEF WriteCert, Goto, TypeOK, Signing, Runs
  <2> QED BY <2>2, <2>3
<1>2. ASSUME NEW r \in Writers, NEW step \in Steps, NEW next \in Steps,
             NEW owner \in Owners, WriteKey(r, step, owner, next),
             next = "register" => step = "clientKey",
             next \notin {"serverCert", "clientCert", "clientKey"}
      PROVE  TypeOK' /\ Signing'
  <2>1. r \in Runs
    BY DEF Runs
  <2>2. TypeOK'
    <3>1. half' \in [Writers -> BOOLEAN]
      BY <1>2 DEF WriteKey, TypeOK
    <3>2. pc' \in [Runs -> Steps]
      BY <1>2, <2>1 DEF WriteKey, Goto, TypeOK
    <3>3. key' \in [Owners -> Runs \cup {Missing, Empty}]
      BY <1>2, <2>1 DEF WriteKey, TypeOK
    <3>4. UNCHANGED <<cert, registered, signer, held, met>>
      BY <1>2 DEF WriteKey
    <3> QED BY <3>1, <3>2, <3>3, <3>4 DEF TypeOK
  <2>3. Signing'
    BY <1>2, <2>1 DEF WriteKey, Goto, TypeOK, Signing, Runs
  <2> QED BY <2>2, <2>3
<1>3. ASSUME NEW r \in Runs, Saves(r)
      PROVE  TypeOK' /\ Signing'
  <2>1. {"ca", "server"} \subseteq Owners /\ (r \in Writers => Client[r] \in Owners)
    BY ClientAssumption DEF Owners
  <2>2. Inits \subseteq Writers
    BY DEF Writers
  <2>3. {"caCert", "caKey", "loadCert", "serverCert", "serverKey", "ensure",
         "clientCert", "clientKey", "register"} \subseteq Steps
    BY DEF Steps
  <2>4. CASE r \in Inits /\ GenerateCaCert(r)
    BY <1>1, <2>1, <2>2, <2>3, <2>4 DEF GenerateCaCert
  <2>5. CASE r \in Inits /\ GenerateCaKey(r)
    BY <1>2, <2>1, <2>2, <2>3, <2>5 DEF GenerateCaKey
  <2>6. CASE r \in Inits /\ GenerateServerCert(r)
    <3>1. signer[r] \in Runs
      BY <2>2, <2>6 DEF GenerateServerCert, WriteCert, Signing
    <3> QED BY <1>1, <2>1, <2>2, <2>3, <2>6, <3>1 DEF GenerateServerCert
  <2>7. CASE r \in Inits /\ GenerateServerKey(r)
    BY <1>2, <2>1, <2>2, <2>3, <2>7 DEF GenerateServerKey
  <2>8. CASE r \in Writers /\ IssueCert(r)
    <3>1. signer[r] \in Runs
      BY <2>8 DEF IssueCert, WriteCert, Signing
    <3> QED BY <1>1, <2>1, <2>3, <2>8, <3>1 DEF IssueCert
  <2>9. CASE r \in Writers /\ IssueKey(r)
    BY <1>2, <2>1, <2>3, <2>9 DEF IssueKey
  <2> QED BY <1>3, <2>4, <2>5, <2>6, <2>7, <2>8, <2>9 DEF Saves
<1>4. ASSUME NEW r \in Writers, LoadCaCert(r) \/ LoadCaKey(r)
      PROVE  TypeOK' /\ Signing'
  <2>1. r \in Runs
    BY DEF Runs
  <2>2. TypeOK'
    BY <1>4, <2>1 DEF LoadCaCert, LoadCaKey, Goto, TypeOK, files, Steps
  <2>3. Signing'
    BY <1>4, <2>1 DEF LoadCaCert, LoadCaKey, Goto, TypeOK, Signing, files, Runs
  <2> QED BY <2>2, <2>3
<1>5. ASSUME NEW r \in Writers, Register(r)
      PROVE  TypeOK' /\ Signing'
  <2>1. r \in Runs /\ signer[r] \in Runs
    BY <1>5 DEF Runs, Register, Signing
  <2>2. [key |-> r, by |-> signer[r]] \in Certs
    BY <2>1 DEF Certs
  <2>3. TypeOK'
    BY <1>5, <2>1, <2>2 DEF Register, Goto, TypeOK, files, Steps
  <2>4. Signing'
    BY <1>5, <2>1 DEF Register, Goto, TypeOK, Signing, files, Runs
  <2> QED BY <2>3, <2>4
<1>6. ASSUME NEW r \in Servers, Serves(r)
      PROVE  TypeOK' /\ Signing'
  <2>1. r \in Runs /\ r \notin Writers
    BY RunsAssumption DEF Runs
  <2>2. TypeOK'
    BY <1>6, <2>1 DEF Serves, LoadChainCert, LoadChainKey, LoadVerifyLocations,
       Goto, TypeOK, files, Steps
  <2>3. Signing'
    BY <1>6, <2>1 DEF Serves, LoadChainCert, LoadChainKey, LoadVerifyLocations,
       Goto, TypeOK, Signing, files, Runs
  <2> QED BY <2>2, <2>3
<1>7. ASSUME NEW r \in Runs, Start(r) \/ EnsureCertificates(r) \/ Fail(r)
      PROVE  TypeOK' /\ Signing'
  <2>1. TypeOK'
    BY <1>7 DEF Start, EnsureCertificates, Fail, Goto, TypeOK, files, Steps
  <2>2. Signing'
    BY <1>7 DEF Start, EnsureCertificates, Fail, Goto, TypeOK, Signing, files, Runs
  <2> QED BY <2>1, <2>2
<1>8. CASE UNCHANGED vars
  BY <1>8 DEF vars, files, TypeOK, Signing
<1> QED BY <1>3, <1>4, <1>5, <1>6, <1>7, <1>8, OneRun DEF Acts, Serves

(* Runs only ever meet more of the others, and remember all that are underway. *)
LEMMA MetGrows ==
  ASSUME TypeOK, [Next]_vars, NEW r \in Runs, pc[r] # "idle"
  PROVE  met[r] \subseteq met'[r]
<1>1. ASSUME NEW s \in Runs, Start(s)
      PROVE  met[r] \subseteq met'[r]
  BY <1>1 DEF Start, TypeOK
<1>2. ASSUME NEW s \in Runs, Acts(s), ~Start(s)
      PROVE  met' = met
  BY <1>2 DEF Acts, Saves, Serves, GenerateCaCert, GenerateCaKey, GenerateServerCert,
     GenerateServerKey, IssueCert, IssueKey, WriteCert, WriteKey, LoadCaCert,
     LoadCaKey, Register, LoadChainCert, LoadChainKey, LoadVerifyLocations,
     EnsureCertificates, Fail
<1> QED BY <1>1, <1>2, OneRun DEF vars

(* A run that acts without starting was underway, and no other run moves. *)
LEMMA Moves ==
  ASSUME TypeOK, NEW s \in Runs, Acts(s), ~Start(s)
  PROVE  /\ Busy(s)
         /\ met' = met
         /\ \A r \in Runs \ {s} : pc'[r] = pc[r]
BY DEF Acts, Saves, Serves, GenerateCaCert, GenerateCaKey, GenerateServerCert,
   GenerateServerKey, IssueCert, IssueKey, WriteCert, WriteKey, LoadCaCert,
   LoadCaKey, Register, LoadChainCert, LoadChainKey, LoadVerifyLocations,
   EnsureCertificates, Fail, Goto, Busy, TypeOK

LEMMA MetStep == TypeOK /\ MetBusy /\ [Next]_vars => MetBusy'
<1> SUFFICES ASSUME TypeOK, MetBusy, [Next]_vars,
                    NEW r \in Runs, NEW s \in Writers,
                    r # s, pc'[r] # "idle", Busy(s)'
             PROVE  s \in met'[r]
  BY DEF MetBusy
<1>0. s \in Runs
  BY DEF Runs
<1>1. ASSUME NEW x \in Runs, Start(x)
      PROVE  s \in met'[r]
  <2>1. CASE x = r
    BY <1>0, <1>1, <2>1 DEF Start, TypeOK, Busy
  <2>2. CASE x = s
    BY <1>0, <1>1, <2>2 DEF Start, TypeOK
  <2>3. CASE x # r /\ x # s
    <3>1. pc'[r] = pc[r] /\ pc'[s] = pc[s]
      BY <1>0, <1>1, <2>3 DEF Start, TypeOK
    <3>2. s \in met[r]
      BY <3>1 DEF MetBusy, Busy
    <3> QED BY <3>1, <3>2, MetGrows
  <2> QED BY <2>1, <2>2, <2>3
<1>2. ASSUME NEW x \in Runs, Acts(x), ~Start(x)
      PROVE  s \in met'[r]
  <2>1. pc[r] # "idle" /\ Busy(s) /\ met' = met
    BY <1>0, <1>2, Moves DEF Busy
  <2> QED BY <2>1 DEF MetBusy
<1>3. CASE UNCHANGED vars
  BY <1>3 DEF vars, MetBusy, Busy
<1> QED BY <1>1, <1>2, <1>3, OneRun

(* What a step of another run leaves to r: its own place and memory, the files
   of CA and server unless an init-certs is underway, and those of its client
   unless a command for the same one is. *)
Aside(r) ==
    /\ pc'[r] = pc[r]
    /\ r \in Writers => signer'[r] = signer[r]
    /\ r \in Servers => held'[r] = held[r]
    /\ registered \subseteq registered'
    /\ (\A t \in Inits \ {r} : ~Busy(t)) =>
          /\ cert'["ca"] = cert["ca"] /\ key'["ca"] = key["ca"]
          /\ cert'["server"] = cert["server"] /\ key'["server"] = key["server"]
    /\ r \in Writers /\ (\A t \in Writers \ {r} : Busy(t) => Client[t] # Client[r]) =>
          cert'[Client[r]] = cert[Client[r]] /\ key'[Client[r]] = key[Client[r]]

LEMMA SaveAside ==
  ASSUME TypeOK, NEW r \in Runs, NEW t \in Runs, r # t, Saves(t)
  PROVE  Aside(r)
<1>1. /\ "ca" # "server" /\ {"ca", "server"} \subseteq Owners
      /\ \A w \in Writers : Client[w] \in Owners \ {"ca", "server"}
      /\ Inits \subseteq Writers
  BY ClientAssumption DEF Owners, Writers
<1>2. t \in Writers /\ Busy(t) /\ pc'[r] = pc[r]
  BY <1>1, Moves DEF Saves, Acts, Start, Busy, GenerateCaCert, GenerateCaKey,
     GenerateServerCert, GenerateServerKey, IssueCert, IssueKey, WriteCert, WriteKey
<1>3. UNCHANGED <<signer, held, registered>>
  BY DEF Saves, GenerateCaCert, GenerateCaKey, GenerateServerCert, GenerateServerKey,
     IssueCert, IssueKey, WriteCert, WriteKey
<1>4. ASSUME NEW owner \in Owners, NEW step, NEW by, NEW next,
             WriteCert(t, step, owner, by, next) \/ WriteKey(t, step, owner, next)
      PROVE  \A o \in Owners \ {owner} : cert'[o] = cert[o] /\ key'[o] = key[o]
  BY <1>4 DEF WriteCert, WriteKey, TypeOK
<1>5. CASE t \in Inits /\ (GenerateCaCert(t) \/ GenerateCaKey(t))
  <2>1. \A o \in Owners \ {"ca"} : cert'[o] = cert[o] /\ key'[o] = key[o]
    BY <1>1, <1>4, <1>5 DEF GenerateCaCert, GenerateCaKey
  <2> QED BY <1>1, <1>2, <1>3, <1>5, <2>1 DEF Aside
<1>6. CASE t \in Inits /\ (GenerateServerCert(t) \/ GenerateServerKey(t))
  <2>1. \A o \in Owners \ {"server"} : cert'[o] = cert[o] /\ key'[o] = key[o]
    BY <1>1, <1>4, <1>6 DEF GenerateServerCert, GenerateServerKey
  <2> QED BY <1>1, <1>2, <1>3, <1>6, <2>1 DEF Aside
<1>7. CASE IssueCert(t) \/ IssueKey(t)
  <2>1. \A o \in Owners \ {Client[t]} : cert'[o] = cert[o] /\ key'[o] = key[o]
    BY <1>1, <1>2, <1>4, <1>7 DEF IssueCert, IssueKey
  <2> QED BY <1>1, <1>2, <1>3, <2>1 DEF Aside
<1> QED BY <1>5, <1>6, <1>7 DEF Saves

LEMMA OthersAside ==
  ASSUME TypeOK, NEW r \in Runs, NEW t \in Runs, r # t, Acts(t)
  PROVE  Aside(r)
<1>1. CASE Saves(t)
  BY <1>1, SaveAside
<1>2. CASE Start(t)
  BY <1>2 DEF Start, Aside, files, TypeOK
<1>3. CASE t \in Writers /\ (LoadCaCert(t) \/ LoadCaKey(t) \/ Register(t))
  BY <1>3 DEF LoadCaCert, LoadCaKey, Register, Goto, Aside, files, TypeOK
<1>4. CASE Serves(t)
  BY <1>4 DEF Serves, LoadChainCert, LoadChainKey, LoadVerifyLocations, Goto, Aside,
     files, TypeOK
<1>5. CASE EnsureCertificates(t) \/ Fail(t)
  BY <1>5 DEF EnsureCertificates, Fail, Goto, Aside, files, TypeOK
<1> QED BY <1>1, <1>2, <1>3, <1>4, <1>5 DEF Acts

LEMMA EachRun ==
  ASSUME TypeOK, [Next]_vars, NEW r \in Runs
  PROVE  Acts(r) \/ Aside(r)
<1>1. CASE UNCHANGED vars
  BY <1>1 DEF vars, files, Aside
<1> QED BY <1>1, OneRun, OthersAside

(* While r is undisturbed no other init-certs is underway, so that steps of
   others leave it the files of CA and server. *)
LEMMA Calm ==
  ASSUME TypeOK, MetBusy, [Next]_vars, NEW r \in Runs, pc[r] # "idle", Undisturbed(r)'
  PROVE  Undisturbed(r) /\ \A t \in Inits \ {r} : ~Busy(t)
<1>1. Undisturbed(r)
  BY MetGrows DEF Undisturbed
<1> QED BY <1>1 DEF Undisturbed, MetBusy, Writers

(* What an undisturbed init-certs has written stays as it wrote it. *)
LEMMA GeneratedStep ==
  ASSUME IInv, [Next]_vars, NEW i \in Inits, Undisturbed(i)'
  PROVE  Generated(i)'
<1>0. /\ TypeOK /\ MetBusy
      /\ i \in Writers /\ i \in Runs /\ i \notin Servers
      /\ "ca" # "server" /\ {"ca", "server"} \subseteq Owners
      /\ Client[i] \in Owners \ {"ca", "server"}
  BY RunsAssumption, ClientAssumption DEF IInv, Runs, Writers, Owners
<1>1. CASE pc[i] = "idle"
  <2>1. pc'[i] \in {"idle", "caCert"}
    <3>1. CASE Aside(i)
      BY <1>1, <3>1 DEF Aside
    <3>2. CASE Acts(i)
      <4>1. Start(i)
        BY <1>0, <1>1, <3>2, Moves DEF Busy
      <4> QED BY <1>0, <4>1 DEF Start, TypeOK
    <3> QED BY <1>0, <3>1, <3>2, EachRun
  <2> QED BY <2>1 DEF Generated, Issuing
<1>2. CASE pc[i] # "idle"
  <2>1. Generated(i) /\ \A t \in Inits \ {i} : ~Busy(t)
    BY <1>0, <1>2, Calm DEF IInv
  <2>2. CASE Aside(i)
    BY <1>0, <2>1, <2>2 DEF Aside, Generated
  <2>3. CASE GenerateCaCert(i)
    BY <1>0, <2>3 DEF GenerateCaCert, WriteCert, Goto, TypeOK, Generated, Issuing
  <2>4. CASE GenerateCaKey(i)
    BY <1>0, <2>1, <2>4 DEF GenerateCaKey, WriteKey, Goto, TypeOK, Generated, Issuing
  <2>5. CASE GenerateServerCert(i)
    BY <1>0, <2>1, <2>5 DEF GenerateServerCert, WriteCert, Goto, TypeOK, Generated,
       Issuing
  <2>6. CASE GenerateServerKey(i)
    BY <1>0, <2>1, <2>6 DEF GenerateServerKey, WriteKey, Goto, TypeOK, Generated,
       Issuing
  <2>7. CASE IssueCert(i)
    BY <1>0, <2>1, <2>7 DEF IssueCert, WriteCert, Goto, TypeOK, Generated, Issuing
  <2>8. CASE IssueKey(i)
    BY <1>0, <2>1, <2>8 DEF IssueKey, WriteKey, Goto, TypeOK, Generated, Issuing
  <2>9. CASE LoadCaCert(i) \/ Register(i)
    BY <1>0, <2>1, <2>9 DEF LoadCaCert, Register, Goto, TypeOK, files, Generated,
       Issuing
  <2>10. CASE LoadCaKey(i)
    BY <1>0, <2>1, <2>10 DEF LoadCaKey, Goto, TypeOK, files, Generated, Issuing
  <2>11. CASE EnsureCertificates(i)
    BY <1>0, <2>1, <2>11 DEF EnsureCertificates, Goto, TypeOK, files, Generated,
       Issuing
  <2>12. CASE Fail(i)
    BY <1>0, <2>12 DEF Fail, Goto, TypeOK, Generated, Issuing
  <2>13. ~Start(i)
    BY <1>2 DEF Start
  <2> QED
    BY <1>0, <2>2, <2>3, <2>4, <2>5, <2>6, <2>7, <2>8, <2>9, <2>10, <2>11, <2>12,
       <2>13, EachRun DEF Acts, Saves, Serves
<1> QED BY <1>1, <1>2

(* The CA key and the client's files stay as an undisturbed command for a
   client found and left them. *)
LEMMA IssuedStep ==
  ASSUME IInv, [Next]_vars, NEW r \in Writers, Undisturbed(r)'
  PROVE  Issued(r)'
<1>0. /\ TypeOK /\ MetBusy
      /\ r \in Runs /\ r \notin Servers
      /\ "ca" # "server" /\ {"ca", "server"} \subseteq Owners
      /\ Client[r] \in Owners \ {"ca", "server"}
  BY RunsAssumption, ClientAssumption DEF IInv, Runs, Owners
<1>1. CASE pc[r] = "idle"
  <2>1. pc'[r] \in {"idle", "caCert", "ensure"}
    <3>1. CASE Aside(r)
      BY <1>1, <3>1 DEF Aside
    <3>2. CASE Acts(r)
      <4>1. Start(r)
        BY <1>0, <1>1, <3>2, Moves DEF Busy
      <4> QED BY <1>0, <4>1 DEF Start, TypeOK
    <3> QED BY <1>0, <3>1, <3>2, EachRun
  <2> QED BY <2>1 DEF Issued
<1>2. CASE pc[r] # "idle"
  <2>1. Issued(r) /\ \A t \in Inits \ {r} : ~Busy(t)
    BY <1>0, <1>2, Calm DEF IInv
  <2>2. Sole(r)' => Sole(r)
    BY <1>0, <1>2, MetGrows DEF Sole
  <2>3. CASE Aside(r)
    <3>1. pc'[r] = pc[r] /\ signer'[r] = signer[r] /\ key'["ca"] = key["ca"]
          /\ registered \subseteq registered'
      BY <2>1, <2>3 DEF Aside
    <3>2. ASSUME Sole(r)'
          PROVE  cert'[Client[r]] = cert[Client[r]] /\ key'[Client[r]] = key[Client[r]]
      <4>1. \A t \in Writers \ {r} : Busy(t) => Client[t] # Client[r]
        BY <1>0, <1>2, <2>2, <3>2 DEF MetBusy, Sole
      <4> QED BY <2>3, <4>1 DEF Aside
    <3> QED BY <2>1, <2>2, <3>1, <3>2 DEF Issued
  <2>4. CASE GenerateCaCert(r) \/ GenerateServerCert(r)
    BY <1>0, <2>4 DEF GenerateCaCert, GenerateServerCert, WriteCert, Goto, TypeOK,
       Issued
  <2>5. CASE GenerateCaKey(r) \/ GenerateServerKey(r)
    BY <1>0, <2>5 DEF GenerateCaKey, GenerateServerKey, WriteKey, Goto, TypeOK, Issued
  <2>6. CASE IssueCert(r)
    BY <1>0, <2>1, <2>2, <2>6 DEF IssueCert, WriteCert, Goto, TypeOK, Issued
  <2>7. CASE IssueKey(r)
    BY <1>0, <2>1, <2>2, <2>7 DEF IssueKey, WriteKey, Goto, TypeOK, Issued
  <2>8. CASE LoadCaCert(r)
    BY <1>0, <2>1, <2>8 DEF LoadCaCert, Goto, TypeOK, files, Issued
  <2>9. CASE LoadCaKey(r)
    BY <1>0, <2>1, <2>9 DEF LoadCaKey, Goto, TypeOK, files, Issued
  <2>10. CASE Register(r)
    BY <1>0, <2>1, <2>2, <2>10 DEF Register, Goto, TypeOK, files, Issued
  <2>11. CASE EnsureCertificates(r) \/ Fail(r)
    BY <1>0, <2>11 DEF EnsureCertificates, Fail, Goto, TypeOK, Issued
  <2>12. ~Start(r)
    BY <1>2 DEF Start
  <2> QED
    BY <1>0, <2>3, <2>4, <2>5, <2>6, <2>7, <2>8, <2>9, <2>10, <2>11, <2>12, EachRun
       DEF Acts, Saves, Serves
<1> QED BY <1>1, <1>2

(* A server undisturbed since it started has loaded what the last init-certs
   left. *)
LEMMA LoadedStep ==
  ASSUME IInv, [Next]_vars, NEW i \in Inits, NEW s \in Servers,
         Settled(i)', Undisturbed(s)'
  PROVE  Loaded(i, s)'
<1>0. /\ TypeOK /\ MetBusy
      /\ i \in Writers /\ i \in Runs /\ s \in Runs /\ s \notin Writers /\ i # s
  BY RunsAssumption DEF IInv, Runs, Writers
<1>1. CASE pc[s] = "idle"
  <2>1. pc'[s] \in {"idle", "ensure"}
    <3>1. CASE Aside(s)
      BY <1>1, <3>1 DEF Aside
    <3>2. CASE Acts(s)
      <4>1. Start(s)
        BY <1>0, <1>1, <3>2, Moves DEF Busy
      <4> QED BY <1>0, <4>1 DEF Start, TypeOK, Writers
    <3> QED BY <1>0, <3>1, <3>2, EachRun
  <2> QED BY <2>1 DEF Loaded
<1>2. CASE pc[s] # "idle"
  <2>1. Undisturbed(s) /\ ~Busy(i)
    BY <1>0, <1>2, Calm
  <2>2. pc[i] = "done"
    <3>1. CASE Aside(i)
      BY <3>1 DEF Aside, Settled
    <3>2. CASE Acts(i)
      <4>1. Start(i)
        BY <1>0, <2>1, <3>2, Moves
      <4> QED BY <1>0, <4>1 DEF Start, TypeOK, Settled
    <3> QED BY <1>0, <3>1, <3>2, EachRun
  <2>3. Settled(i)
    BY <1>0, <2>2, Calm DEF Settled
  <2>4. /\ Loaded(i, s)
        /\ cert["ca"] = [key |-> i, by |-> i]
        /\ cert["server"] = [key |-> i, by |-> i]
    BY <2>1, <2>2, <2>3 DEF IInv, Settled, Generated, Issuing
  <2>5. CASE Aside(s)
    BY <2>4, <2>5 DEF Aside, Loaded
  <2>6. CASE LoadChainCert(s)
    BY <1>0, <2>4, <2>6 DEF LoadChainCert, Goto, TypeOK, Loaded
  <2>7. CASE LoadChainKey(s)
    BY <1>0, <2>4, <2>7 DEF LoadChainKey, Goto, TypeOK, Loaded
  <2>8. CASE LoadVerifyLocations(s)
    BY <1>0, <2>4, <2>8 DEF LoadVerifyLocations, Goto, TypeOK, Loaded
  <2>9. CASE EnsureCertificates(s) \/ Fail(s)
    BY <1>0, <2>4, <2>9 DEF EnsureCertificates, Fail, Goto, TypeOK, Loaded
  <2>10. ~Start(s)
    BY <1>2 DEF Start
  <2> QED
    BY <1>0, <2>5, <2>6, <2>7, <2>8, <2>9, <2>10, EachRun DEF Acts, Saves, Serves,
       Writers
<1> QED BY <1>1, <1>2

LEMMA InvStep == IInv /\ [Next]_vars => IInv'
BY TypeStep, MetStep, GeneratedStep, IssuedStep, LoadedStep DEF IInv

LEMMA Invariance == Spec => []IInv
BY InvInit, InvStep, PTL DEF Spec

(* Types are kept: files, registrations, and what each run has in memory. *)
THEOREM TypeCorrect == Spec => []TypeOK
<1>1. IInv => TypeOK
  BY DEF IInv
<1> QED BY <1>1, Invariance, PTL

(* An init-certs no other disturbed leaves a CA and a server certificate of
   its own, whatever died before. *)
THEOREM Recovery == Spec => []InitRecovers
<1>1. IInv => InitRecovers
  BY DEF IInv, InitRecovers, Settled, Generated, Issuing
<1> QED BY <1>1, Invariance, PTL

(* A certificate said to be issued is one with its key, registered, and signed
   by the CA key in the files. *)
THEOREM IssueIsWhole == Spec => []IssuedWhole
<1>1. IInv => IssuedWhole
  BY DEF IInv, IssuedWhole, Issued
<1> QED BY <1>1, Invariance, PTL

(* A server started and a certificate issued after an undisturbed init-certs
   accept each other. *)
THEOREM HandshakeWorks == Spec => []Handshake
<1>1. ASSUME IInv, NEW i \in Inits, NEW s \in Servers, NEW r \in Writers,
             Settled(i), pc[s] = "serving", Undisturbed(s),
             pc[r] = "done", Undisturbed(r), Sole(r)
      PROVE  /\ held[s].cert.by = cert["ca"].key
             /\ cert[Client[r]].by = held[s].ca.key
  <2>1. Generated(i) /\ Loaded(i, s) /\ Issued(r)
    BY <1>1 DEF IInv, Settled
  <2>2. cert["ca"] = [key |-> i, by |-> i] /\ key["ca"] = i
    BY <1>1, <2>1 DEF Generated, Issuing, Settled
  <2>3. /\ held[s].cert = [key |-> i, by |-> i]
        /\ held[s].ca = [key |-> i, by |-> i]
    BY <1>1, <2>1 DEF Loaded
  <2>4. cert[Client[r]] = [key |-> r, by |-> i]
    BY <1>1, <2>1, <2>2 DEF Issued
  <2> QED BY <2>2, <2>3, <2>4
<1>2. IInv => Handshake
  BY <1>1 DEF Handshake
<1> QED BY <1>2, Invariance, PTL

================================================================================
