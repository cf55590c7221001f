--------------------------- MODULE TrustStoreProofs ----------------------------
(***************************************************************************)
(* Proofs about TrustStore for any workers, certificates and mode, and     *)
(* whether the verifier raises or not.                                     *)
(***************************************************************************)
EXTENDS TrustStore, TLAPS

(* The initial state satisfies the inductive invariant. *)
LEMMA InvInit == Init => IInv
  BY DEF Init, IInv, TypeOK, BarredStay, OnlyLiveAdminsAct, AuditTruthful, Claims,
     Steps

--------------------------------------------------------------------------------

(* What a registration does to the table: it adds its own row, or nothing. *)
LEMMA RegisterKeeps ==
  ASSUME TypeOK, NEW c \in Certs, NEW a \in BOOLEAN, NEW d \in BOOLEAN,
         Register(c, a, d)
  PROVE  /\ RowsKept
         /\ revoked' = revoked /\ lapsed' = lapsed
         /\ rows' \subseteq Certs
         /\ admin' \subseteq rows'
         /\ revoked' \subseteq rows'
         /\ dated' \subseteq rows'
         /\ lapsed' \subseteq dated'
  BY DEF Register, RowsKept, TypeOK

(* The mode is the one of the start. *)
LEMMA ModeKept == [Next]_vars => mode' = mode
  BY DEF Next, vars, outside, Command, Time, Serve, InitCerts, IssueClientCert,
     RegisterIssued, CommandDies, CertExpires, RowExpires, Receive, Verify, Reject,
     Trust, Doubt, Distrust, AutoRegister, Use, RequireAdmin, Forbid, RegisterCert,
     RevokeCert, LogAudit, LoseAudit, Reply, Abort

(* Types are preserved by every step. *)
LEMMA TypeStep == TypeOK /\ [Next]_vars => TypeOK'
<1> SUFFICES ASSUME TypeOK, [Next]_vars
             PROVE  TypeOK'
  OBVIOUS
<1>0. mode' = mode
  BY ModeKept
<1> USE <1>0 DEF outside, table, handler, Goto, Finish, Steps
<1>1. ASSUME NEW c \in Certs, InitCerts(c)
      PROVE  TypeOK'
  BY <1>1, AdminsAssumption DEF InitCerts, TypeOK
<1>2. ASSUME NEW c \in Certs, IssueClientCert(c)
      PROVE  TypeOK'
  BY <1>2 DEF IssueClientCert, TypeOK
<1>3. ASSUME NEW c \in Certs, RegisterIssued(c)
      PROVE  TypeOK'
  <2>1. (c \in Admins) \in BOOLEAN
    OBVIOUS
  <2> QED BY <1>3, <2>1, RegisterKeeps DEF RegisterIssued, TypeOK
<1>4. ASSUME NEW c \in Certs, CommandDies(c) \/ Time(c)
      PROVE  TypeOK'
  BY <1>4 DEF CommandDies, Time, CertExpires, RowExpires, TypeOK
<1>5. ASSUME NEW w \in Workers, NEW c \in Certs, NEW t \in Certs,
             NEW op \in Operations, Receive(w, c, op, t)
      PROVE  TypeOK'
  <2>1. Request(c, op, t, c \in rows /\ ~RowValid(c)) \in Requests
    BY DEF Request, Requests
  <2> QED BY <1>5, <2>1 DEF Receive, TypeOK
<1>6. ASSUME NEW w \in Workers,
             \/ Verify(w) \/ Reject(w) \/ Trust(w) \/ Doubt(w) \/ Distrust(w)
             \/ Use(w) \/ RequireAdmin(w) \/ Forbid(w) \/ LoseAudit(w)
             \/ Reply(w) \/ Abort(w)
      PROVE  TypeOK'
  BY <1>6 DEF Verify, Reject, Trust, Doubt, Distrust, Use, RequireAdmin, Forbid,
     LoseAudit, Reply, Abort, TypeOK
<1>7. ASSUME NEW w \in Workers, AutoRegister(w)
      PROVE  TypeOK'
  <2>1. request[w] \in Requests /\ request[w].cert \in Certs
    BY <1>7 DEF AutoRegister, TypeOK, Requests
  <2> QED BY <1>7, <2>1, RegisterKeeps DEF AutoRegister, TypeOK
<1>8. ASSUME NEW w \in Workers, RegisterCert(w)
      PROVE  TypeOK'
  <2>1. request[w] \in Requests /\ request[w].target \in Certs
    BY <1>8 DEF RegisterCert, TypeOK, Requests
  <2>2. (request[w].target \notin rows) \in BOOLEAN
    OBVIOUS
  <2> QED BY <1>8, <2>1, <2>2, RegisterKeeps DEF RegisterCert, TypeOK
<1>9. ASSUME NEW w \in Workers, RevokeCert(w)
      PROVE  TypeOK'
  <2>1. (request[w].target \in rows) \in BOOLEAN
    OBVIOUS
  <2> QED BY <1>9, <2>1 DEF RevokeCert, TypeOK
<1>10. ASSUME NEW w \in Workers, LogAudit(w)
       PROVE  TypeOK'
  <2>1. Record(request[w], success[w]) \in Records
    BY <1>10 DEF LogAudit, TypeOK, Requests, Record, Records
  <2> QED BY <1>10, <2>1 DEF LogAudit, TypeOK
<1>11. CASE UNCHANGED vars
  BY <1>11 DEF vars, TypeOK
<1> QED
  BY <1>1, <1>2, <1>3, <1>4, <1>5, <1>6, <1>7, <1>8, <1>9, <1>10, <1>11
  DEF Next, Command, Serve

(* Steps that write the table: the others leave every column alone. *)
LEMMA TableSteps ==
  [Next]_vars =>
      \/ UNCHANGED table
      \/ \E c \in Certs : RegisterIssued(c) \/ RowExpires(c)
      \/ \E w \in Workers : AutoRegister(w) \/ RegisterCert(w) \/ RevokeCert(w)
  BY DEF Next, vars, Command, Time, Serve, InitCerts, IssueClientCert, CommandDies,
     CertExpires, Receive, Verify, Reject, Trust, Doubt, Distrust, Use,
     RequireAdmin, Forbid, LogAudit, LoseAudit, Reply, Abort

(* No step changes what a row says of administration or dates, un-revokes
   it, or turns time back. *)
LEMMA RowsStep ==
  TypeOK /\ [Next]_vars => RowsKept /\ lapsed \subseteq lapsed'
<1> SUFFICES ASSUME TypeOK, [Next]_vars
             PROVE  RowsKept /\ lapsed \subseteq lapsed'
  OBVIOUS
<1>1. CASE UNCHANGED table
  BY <1>1 DEF table, RowsKept, TypeOK
<1>2. ASSUME NEW c \in Certs, RegisterIssued(c)
      PROVE  RowsKept /\ lapsed \subseteq lapsed'
  <2>1. (c \in Admins) \in BOOLEAN
    OBVIOUS
  <2> QED BY <1>2, <2>1, RegisterKeeps DEF RegisterIssued
<1>3. ASSUME NEW c \in Certs, RowExpires(c)
      PROVE  RowsKept /\ lapsed \subseteq lapsed'
  BY <1>3 DEF RowExpires, RowsKept, TypeOK
<1>4. ASSUME NEW w \in Workers, AutoRegister(w)
      PROVE  RowsKept /\ lapsed \subseteq lapsed'
  <2>1. request[w].cert \in Certs
    BY <1>4 DEF AutoRegister, TypeOK, Requests
  <2> QED BY <1>4, <2>1, RegisterKeeps DEF AutoRegister
<1>5. ASSUME NEW w \in Workers, RegisterCert(w)
      PROVE  RowsKept /\ lapsed \subseteq lapsed'
  <2>1. request[w].target \in Certs
    BY <1>5 DEF RegisterCert, TypeOK, Requests
  <2> QED BY <1>5, <2>1, RegisterKeeps DEF RegisterCert
<1>6. ASSUME NEW w \in Workers, RevokeCert(w)
      PROVE  RowsKept /\ lapsed \subseteq lapsed'
  BY <1>6 DEF RevokeCert, RowsKept, TypeOK
<1> QED
  BY <1>1, <1>2, <1>3, <1>4, <1>5, <1>6, TableSteps

(* Certificates do not become younger. *)
LEMMA TimeStep == [Next]_vars => expired \subseteq expired'
  BY DEF Next, vars, outside, Command, Time, Serve, InitCerts, IssueClientCert,
     RegisterIssued, CommandDies, CertExpires, RowExpires, Receive, Verify, Reject,
     Trust, Doubt, Distrust, AutoRegister, Use, RequireAdmin, Forbid, RegisterCert,
     RevokeCert, LogAudit, LoseAudit, Reply, Abort

(* Hence a row that is not valid never becomes valid again. *)
LEMMA InvalidForGood ==
  ASSUME TypeOK, [Next]_vars, NEW c \in rows, ~RowValid(c)
  PROVE  c \in rows' /\ ~RowValid(c)'
  BY RowsStep, TimeStep DEF RowsKept, RowValid

--------------------------------------------------------------------------------

(* What a step does to one worker: nothing, or it is this worker's own. *)
LEMMA WorkerSteps ==
  ASSUME TypeOK, [Next]_vars, NEW w \in Workers
  PROVE  \/ /\ pc'[w] = pc[w]
            /\ request'[w] = request[w]
            /\ success'[w] = success[w]
         \/ \E c, t \in Certs, op \in Operations : Receive(w, c, op, t)
         \/ Serve(w)
         \/ Abort(w)
<1>1. ASSUME NEW v \in Workers, v # w,
             \/ \E c, t \in Certs, op \in Operations : Receive(v, c, op, t)
             \/ Serve(v)
             \/ Abort(v)
      PROVE  /\ pc'[w] = pc[w]
             /\ request'[w] = request[w]
             /\ success'[w] = success[w]
  BY <1>1 DEF TypeOK, Goto, Finish, Serve, Receive, Verify, Reject, Trust, Doubt,
     Distrust, AutoRegister, Use, RequireAdmin, Forbid, RegisterCert, RevokeCert,
     LogAudit, LoseAudit, Reply, Abort
<1>2. ASSUME NEW c \in Certs, Command(c) \/ Time(c)
      PROVE  UNCHANGED handler
  BY <1>2 DEF Command, Time, InitCerts, IssueClientCert, RegisterIssued,
     CommandDies, CertExpires, RowExpires
<1>3. CASE UNCHANGED vars
  BY <1>3 DEF vars, handler
<1> QED
  BY <1>1, <1>2, <1>3 DEF Next, handler

(* While a worker serves a request, the request stays the same. *)
LEMMA RequestStays ==
  ASSUME TypeOK, NEW w \in Workers, Serve(w) \/ Abort(w)
  PROVE  /\ pc[w] # "idle"
         /\ pc'[w] = "idle" \/ request'[w] = request[w]
  BY DEF TypeOK, Goto, Finish, Serve, Verify, Reject, Trust, Doubt, Distrust,
     AutoRegister, Use, RequireAdmin, Forbid, RegisterCert, RevokeCert, LogAudit,
     LoseAudit, Reply, Abort

(* A certificate barred when its request came stays barred. *)
LEMMA BarredStep == TypeOK /\ BarredStay /\ [Next]_vars => BarredStay'
<1> SUFFICES ASSUME TypeOK, BarredStay, [Next]_vars, NEW w \in Workers, NEW d,
                    pc'[w] # "idle", request'[w].barred, d = request'[w].cert
             PROVE  d \in rows' /\ ~RowValid(d)'
  BY DEF BarredStay, RowValid
<1>1. CASE pc[w] # "idle" /\ request'[w] = request[w]
  <2>1. d \in rows /\ ~RowValid(d)
    BY <1>1 DEF BarredStay
  <2> QED BY <2>1, InvalidForGood
<1>2. ASSUME NEW c \in Certs, NEW t \in Certs, NEW op \in Operations,
             Receive(w, c, op, t)
      PROVE  d \in rows' /\ ~RowValid(d)'
  <2>1. PICK b \in BOOLEAN : b = (c \in rows /\ ~RowValid(c))
    OBVIOUS
  <2>2. /\ request' = [request EXCEPT ![w] = Request(c, op, t, b)]
        /\ UNCHANGED <<rows, revoked, dated, lapsed, expired>>
    BY <1>2, <2>1 DEF Receive, outside, table
  <2>3. request'[w] = Request(c, op, t, b)
    BY <2>2 DEF TypeOK
  <2>4. d = c /\ b
    BY <2>3 DEF Request
  <2>5. d \in rows /\ ~RowValid(d)
    BY <2>1, <2>4
  <2> QED BY <2>2, <2>5 DEF RowValid
<1> QED
  BY <1>1, <1>2, WorkerSteps, RequestStays

(* Administration is for admins not barred. *)
LEMMA ActStep == IInv /\ [Next]_vars => OnlyLiveAdminsAct'
<1> SUFFICES ASSUME IInv, [Next]_vars, NEW w \in Workers,
                    pc'[w] \in {"act", "audit"}
             PROVE  request'[w].cert \in admin' /\ ~request'[w].barred
  BY DEF OnlyLiveAdminsAct
<1>0. TypeOK /\ admin \subseteq admin'
  BY RowsStep DEF IInv, RowsKept
<1>1. CASE pc[w] \in {"act", "audit"} /\ request'[w] = request[w]
  BY <1>0, <1>1 DEF IInv, OnlyLiveAdminsAct
<1>2. CASE RequireAdmin(w)
  <2>1. request'[w] = request[w] /\ request[w].cert \in admin
    BY <1>2 DEF RequireAdmin, IsAdmin, Goto
  <2>2. RowValid(request[w].cert) /\ pc[w] # "idle"
    BY <1>2 DEF RequireAdmin, IsAdmin
  <2>3. ~request[w].barred
    BY <2>2 DEF IInv, BarredStay
  <2> QED BY <1>0, <2>1, <2>3
<1>3. ASSUME Serve(w) \/ Abort(w), ~RequireAdmin(w)
      PROVE  pc[w] \in {"act", "audit"}
  BY <1>0, <1>3 DEF TypeOK, Goto, Finish, Serve, Verify, Reject, Trust, Doubt,
     Distrust, AutoRegister, Use, Forbid, RegisterCert, RevokeCert, LogAudit,
     LoseAudit, Reply, Abort
<1>4. ASSUME NEW c \in Certs, NEW t \in Certs, NEW op \in Operations,
             Receive(w, c, op, t)
      PROVE  FALSE
  BY <1>0, <1>4 DEF Receive, TypeOK
<1> QED
  BY <1>0, <1>1, <1>2, <1>3, <1>4, WorkerSteps, RequestStays

(* What the audit log claims stays true. *)
LEMMA AuditStep == IInv /\ [Next]_vars => AuditTruthful'
<1> SUFFICES ASSUME IInv, [Next]_vars
             PROVE  AuditTruthful'
  OBVIOUS
<1>0. TypeOK /\ AuditTruthful
  BY DEF IInv
<1>1. revoked \subseteq revoked' /\ dated \subseteq dated'
  BY <1>0, RowsStep DEF RowsKept
<1>2. ASSUME NEW w \in Workers, LogAudit(w)
      PROVE  AuditTruthful'
  <2>1. /\ audit' = audit \cup {Record(request[w], success[w])}
        /\ pc' = [pc EXCEPT ![w] = "reply"]
        /\ UNCHANGED <<request, success, revoked, dated>>
        /\ pc[w] = "audit"
    BY <1>2 DEF LogAudit, Goto, table
  <2>2. \A op : Claims(w, op)' = FALSE
    BY <1>0, <2>1 DEF Claims, TypeOK
  <2>3. \A op, v : v \in Workers \ {w} => (Claims(v, op)' <=> Claims(v, op))
    BY <1>0, <2>1 DEF Claims, TypeOK
  <2>4. \A op : success[w] /\ request[w].op = op => Claims(w, op)
    BY <2>1 DEF Claims
  <2> QED
    BY <1>0, <2>1, <2>2, <2>3, <2>4 DEF AuditTruthful, Record
<1>3. ASSUME NEW w \in Workers, RegisterCert(w)
      PROVE  AuditTruthful'
  <2>1. PICK t : t = request[w].target
    OBVIOUS
  <2>2. /\ success' = [success EXCEPT ![w] = t \notin rows]
        /\ pc' = [pc EXCEPT ![w] = "audit"]
        /\ UNCHANGED <<request, audit>>
        /\ request[w].op = "register"
    BY <1>3, <2>1 DEF RegisterCert
  <2>3. t \notin rows => t \in dated'
    BY <1>3, <2>1 DEF RegisterCert, Register
  <2>4. \A op, v : v \in Workers \ {w} => (Claims(v, op)' <=> Claims(v, op))
    BY <1>0, <2>2 DEF Claims, TypeOK
  <2>5. Claims(w, "register")' => t \notin rows
    BY <1>0, <2>2 DEF Claims, TypeOK
  <2>6. ~Claims(w, "revoke")'
    BY <2>2 DEF Claims
  <2>7. \A a \in audit : a.success /\ a.action = "register" => a.target \in rows
    BY <1>0 DEF AuditTruthful, TypeOK
  <2>8. \A v \in Workers : Claims(v, "register") => request[v].target \in rows
    BY <1>0 DEF AuditTruthful, TypeOK
  <2> QED
    BY <1>0, <1>1, <2>1, <2>2, <2>3, <2>4, <2>5, <2>6, <2>7, <2>8 DEF AuditTruthful
<1>4. ASSUME NEW w \in Workers, RevokeCert(w)
      PROVE  AuditTruthful'
  <2>1. PICK t : t = request[w].target
    OBVIOUS
  <2>2. /\ success' = [success EXCEPT ![w] = t \in rows]
        /\ pc' = [pc EXCEPT ![w] = "audit"]
        /\ UNCHANGED <<request, audit>>
        /\ request[w].op = "revoke"
    BY <1>4, <2>1 DEF RevokeCert
  <2>3. t \in rows => t \in revoked'
    BY <1>4, <2>1 DEF RevokeCert
  <2>4. \A op, v : v \in Workers \ {w} => (Claims(v, op)' <=> Claims(v, op))
    BY <1>0, <2>2 DEF Claims, TypeOK
  <2>5. Claims(w, "revoke")' => t \in rows
    BY <1>0, <2>2 DEF Claims, TypeOK
  <2>6. ~Claims(w, "register")'
    BY <2>2 DEF Claims
  <2> QED
    BY <1>0, <1>1, <2>1, <2>2, <2>3, <2>4, <2>5, <2>6 DEF AuditTruthful
<1>5. ASSUME audit' = audit,
             \A v \in Workers, op \in Operations :
                Claims(v, op)' => Claims(v, op) /\ request'[v] = request[v]
      PROVE  AuditTruthful'
  BY <1>0, <1>1, <1>5 DEF AuditTruthful, Operations
<1>6. ASSUME ~\E w \in Workers : LogAudit(w) \/ RegisterCert(w) \/ RevokeCert(w)
      PROVE  audit' = audit
  BY <1>6 DEF Next, vars, Command, Time, Serve, InitCerts, IssueClientCert,
     RegisterIssued, CommandDies, CertExpires, RowExpires, Receive, Verify, Reject,
     Trust, Doubt, Distrust, AutoRegister, Use, RequireAdmin, Forbid, LoseAudit,
     Reply, Abort
<1>7. ASSUME ~\E w \in Workers : LogAudit(w) \/ RegisterCert(w) \/ RevokeCert(w),
             NEW v \in Workers, NEW op \in Operations, Claims(v, op)'
      PROVE  Claims(v, op) /\ request'[v] = request[v]
  <2>1. pc'[v] = "audit"
    BY <1>7 DEF Claims
  <2>2. ~\E c, t \in Certs, o \in Operations : Receive(v, c, o, t)
    BY <1>0, <2>1 DEF Receive, TypeOK
  <2>3. ~Serve(v) /\ ~Abort(v)
    BY <1>0, <1>7, <2>1 DEF TypeOK, Goto, Finish, Serve, Verify, Reject, Trust, Doubt,
       Distrust, AutoRegister, Use, RequireAdmin, Forbid, LoseAudit, Reply, Abort
  <2>4. pc'[v] = pc[v] /\ request'[v] = request[v] /\ success'[v] = success[v]
    BY <1>0, <2>2, <2>3, WorkerSteps
  <2> QED BY <1>7, <2>4 DEF Claims
<1> QED
  BY <1>2, <1>3, <1>4, <1>5, <1>6, <1>7

--------------------------------------------------------------------------------

LEMMA InvStep == IInv /\ [Next]_vars => IInv'
  BY TypeStep, BarredStep, ActStep, AuditStep DEF IInv

(* The inductive invariant holds of every reachable state. *)
THEOREM Invariance == Spec => []IInv
  BY InvInit, InvStep, PTL DEF Spec

(* Every variable keeps its type, and every column stays within the rows. *)
THEOREM TypeCorrect == Spec => []TypeOK
<1>1. IInv => TypeOK
  BY DEF IInv
<1> QED BY <1>1, Invariance, PTL

(* The admin endpoints act for admins whose certificate was in force. *)
THEOREM AdminsOnly == Spec => []OnlyLiveAdminsAct
<1>1. IInv => OnlyLiveAdminsAct
  BY DEF IInv
<1> QED BY <1>1, Invariance, PTL

(* The audit log is true, now and later. *)
THEOREM AuditIsTrue == Spec => []AuditTruthful
<1>1. IInv => AuditTruthful
  BY DEF IInv
<1> QED BY <1>1, Invariance, PTL

(* Registration is final in what it says, revocation for good. *)
THEOREM RegistrationIsFinal == Spec => RegistrationsKept
<1>1. IInv /\ [Next]_vars => [RowsKept]_vars
  BY RowsStep DEF IInv
<1> QED BY <1>1, Invariance, PTL DEF Spec, RegistrationsKept

--------------------------------------------------------------------------------

(* In global mode nothing registers itself, so the check of the trust store
   is the last word. *)
Unaided == mode = "global" => \A w \in Workers : pc[w] # "autoregister"

LEMMA UnaidedStep == TypeOK /\ Unaided /\ [Next]_vars => Unaided'
<1> SUFFICES ASSUME TypeOK, Unaided, [Next]_vars, mode' = "global",
                    NEW w \in Workers
             PROVE  pc'[w] # "autoregister"
  BY DEF Unaided
<1>0. mode = "global"
  BY ModeKept
<1>1. ASSUME Serve(w) \/ Abort(w)
      PROVE  pc'[w] # "autoregister"
  BY <1>0, <1>1 DEF TypeOK, Goto, Finish, Serve, Verify, Reject, Trust, Doubt,
     Distrust, AutoRegister, Use, RequireAdmin, Forbid, RegisterCert, RevokeCert,
     LogAudit, LoseAudit, Reply, Abort
<1>2. ASSUME NEW c \in Certs, NEW t \in Certs, NEW op \in Operations,
             Receive(w, c, op, t)
      PROVE  pc'[w] # "autoregister"
  BY <1>2 DEF Receive, TypeOK
<1> QED BY <1>0, <1>1, <1>2, WorkerSteps DEF Unaided

LEMMA HonouredStep ==
  IInv /\ Unaided /\ GlobalRevocation /\ [Next]_vars => GlobalRevocation'
<1> SUFFICES ASSUME IInv, Unaided, GlobalRevocation, [Next]_vars, mode' = "global",
                    NEW w \in Workers, pc'[w] \in {"handle", "act", "audit", "reply"}
             PROVE  ~request'[w].barred
  BY DEF GlobalRevocation, RevocationHonoured
<1>0. TypeOK /\ mode = "global"
  BY ModeKept DEF IInv
<1>1. CASE /\ pc[w] \in {"handle", "act", "audit", "reply"}
           /\ request'[w] = request[w]
  BY <1>0, <1>1 DEF GlobalRevocation, RevocationHonoured
<1>2. CASE Trust(w)
  <2>1. request'[w] = request[w] /\ pc[w] # "idle" /\ RowValid(request[w].cert)
    BY <1>2 DEF Trust, Goto
  <2> QED BY <2>1 DEF IInv, BarredStay
<1>3. ASSUME Serve(w) \/ Abort(w), ~Trust(w)
      PROVE  pc[w] \in {"handle", "act", "audit", "reply"}
  BY <1>0, <1>3 DEF TypeOK, Unaided, Goto, Finish, Serve, Verify, Reject, Doubt,
     Distrust, AutoRegister, Use, RequireAdmin, Forbid, RegisterCert, RevokeCert,
     LogAudit, LoseAudit, Reply, Abort
<1>4. ASSUME NEW c \in Certs, NEW t \in Certs, NEW op \in Operations,
             Receive(w, c, op, t)
      PROVE  FALSE
  BY <1>0, <1>4 DEF Receive, TypeOK
<1> QED
  BY <1>0, <1>1, <1>2, <1>3, <1>4, WorkerSteps, RequestStays

(* In global mode a revoked or expired registration is honoured: no request
   that comes after it is served. *)
THEOREM RevocationWorks == Spec => []GlobalRevocation
<1>1. Init => Unaided /\ GlobalRevocation
  BY DEF Init, Unaided, GlobalRevocation, RevocationHonoured
<1>2. IInv /\ Unaided /\ [Next]_vars => Unaided'
  BY UnaidedStep DEF IInv
<1> QED
  BY <1>1, <1>2, HonouredStep, Invariance, PTL DEF Spec

--------------------------------------------------------------------------------

(* In global mode a row without a date of its own is one a command wrote for
   the certificate it made. *)
ByCommand == mode = "global" => \A c \in rows \ dated : made[c] = "registered"

(* The audit log gains the deeds of workers that acted as admins. *)
LEMMA LogByAdmins ==
  ASSUME IInv, [Next]_vars, \A a \in audit : a.actor \in admin
  PROVE  \A a \in audit' : a.actor \in admin'
<1>1. admin \subseteq admin'
  BY RowsStep DEF IInv, RowsKept
<1>2. ASSUME NEW w \in Workers, LogAudit(w)
      PROVE  \A a \in audit' : a.actor \in admin'
  <2>1. request[w].cert \in admin
    BY <1>2 DEF LogAudit, IInv, OnlyLiveAdminsAct
  <2>2. audit' = audit \cup {Record(request[w], success[w])}
    BY <1>2 DEF LogAudit
  <2> QED BY <1>1, <2>1, <2>2 DEF Record
<1>3. CASE ~\E w \in Workers : LogAudit(w)
  <2>1. audit' = audit
    BY <1>3 DEF Next, vars, Command, Time, Serve, InitCerts, IssueClientCert,
       RegisterIssued, CommandDies, CertExpires, RowExpires, Receive, Verify,
       Reject, Trust, Doubt, Distrust, AutoRegister, Use, RequireAdmin, Forbid,
       RegisterCert, RevokeCert, LoseAudit, Reply, Abort
  <2> QED BY <1>1, <2>1
<1> QED BY <1>2, <1>3

(* Only RegisterIssued makes a certificate registered. *)
LEMMA MadeStep ==
  ASSUME TypeOK, [Next]_vars, NEW d \in Certs
  PROVE  \/ RegisterIssued(d)
         \/ made'[d] = "registered" <=> made[d] = "registered"
<1>1. ASSUME NEW c \in Certs, Command(c), ~RegisterIssued(d)
      PROVE  made'[d] = "registered" <=> made[d] = "registered"
  BY <1>1 DEF Command, InitCerts, IssueClientCert, RegisterIssued, CommandDies, TypeOK
<1>2. CASE ~\E c \in Certs : Command(c)
  BY <1>2 DEF Next, vars, outside, Time, Serve, CertExpires, RowExpires, Receive,
     Verify, Reject, Trust, Doubt, Distrust, AutoRegister, Use, RequireAdmin, Forbid,
     RegisterCert, RevokeCert, LogAudit, LoseAudit, Reply, Abort
<1> QED BY <1>1, <1>2

(* Rows, by whomever they are made, keep the two facts about admins. *)
LEMMA AdminsStep ==
  IInv /\ Unaided /\ ByCommand /\ AdminsByInit /\ [Next]_vars
      => ByCommand' /\ AdminsByInit'
<1> SUFFICES ASSUME IInv, Unaided, ByCommand, AdminsByInit, [Next]_vars
             PROVE  ByCommand' /\ AdminsByInit'
  OBVIOUS
<1> DEFINE Facts ==
              /\ \A c \in admin : c \in Admins /\ made[c] = "registered"
              /\ mode = "global" => \A c \in rows \ dated : made[c] = "registered"
              /\ mode = "global" =>
                    \A c \in Admins : made[c] = "registered" => c \in admin \cup dated
<1>0. TypeOK /\ Facts /\ mode' = mode
  BY ModeKept DEF IInv, ByCommand, AdminsByInit
<1>1. ASSUME NEW c \in Certs, RegisterIssued(c)
      PROVE  Facts'
  <2>1. /\ made[c] = "written"
        /\ made' = [made EXCEPT ![c] = "registered"]
        /\ rows' = rows \cup {c}
        /\ admin' = IF c \in Admins /\ c \notin rows THEN admin \cup {c} ELSE admin
        /\ dated' = dated
    BY <1>1 DEF RegisterIssued, Register
  <2>2. mode = "global" /\ c \in rows => c \in dated
    BY <1>0, <2>1
  <2>3. made \in [Certs -> {"no", "written", "registered", "unregistered"}]
    BY <1>0 DEF TypeOK
  <2>4. rows \subseteq Certs /\ admin \subseteq rows
    BY <1>0 DEF TypeOK
  <2>5. \A d \in Certs : made'[d] = IF d = c THEN "registered" ELSE made[d]
    BY <2>1, <2>3
  <2> QED BY <1>0, <2>1, <2>2, <2>4, <2>5, AdminsAssumption
<1>2. ASSUME ~\E c \in Certs : RegisterIssued(c)
      PROVE  Facts'
  <2>1. \A c \in Certs : made'[c] = "registered" <=> made[c] = "registered"
    BY <1>0, <1>2, MadeStep
  <2>2. rows \subseteq Certs /\ admin \subseteq rows /\ dated \subseteq rows
    BY <1>0 DEF TypeOK
  <2>3. CASE rows' = rows /\ admin' = admin /\ dated' = dated
    BY <1>0, <2>1, <2>2, <2>3, AdminsAssumption
  <2>4. ASSUME NEW w \in Workers, AutoRegister(w)
        PROVE  Facts'
    <3>1. mode # "global" /\ admin' = admin
      BY <2>4 DEF AutoRegister, Register, Unaided
    <3> QED BY <1>0, <2>1, <2>2, <3>1
  <2>5. ASSUME NEW w \in Workers, RegisterCert(w)
        PROVE  Facts'
    <3>1. PICK t : /\ rows' = rows \cup {t}
                   /\ admin' = admin
                   /\ dated' = IF t \notin rows THEN dated \cup {t} ELSE dated
      BY <2>5 DEF RegisterCert, Register
    <3> QED BY <1>0, <2>1, <2>2, <3>1, AdminsAssumption
  <2>6. ASSUME NEW w \in Workers, RevokeCert(w)
        PROVE  rows' = rows /\ admin' = admin /\ dated' = dated
    BY <2>6 DEF RevokeCert
  <2>7. ASSUME NEW c \in Certs, RowExpires(c)
        PROVE  rows' = rows /\ admin' = admin /\ dated' = dated
    BY <2>7 DEF RowExpires
  <2> QED BY <1>2, <2>3, <2>4, <2>5, <2>6, <2>7, TableSteps DEF table
<1>3. Facts'
  BY <1>1, <1>2
<1> QED BY <1>3, LogByAdmins DEF ByCommand, AdminsByInit

(* Admin privileges come from init-certs alone, through every race for a row;
   in global mode it gives them unless an admin came first. *)
THEOREM AdminsComeFromInit == Spec => []AdminsByInit
<1>1. Init => Unaided /\ ByCommand /\ AdminsByInit
  BY AdminsAssumption DEF Init, Unaided, ByCommand, AdminsByInit
<1>2. IInv /\ Unaided /\ [Next]_vars => Unaided'
  BY UnaidedStep DEF IInv
<1> QED
  BY <1>1, <1>2, AdminsStep, Invariance, PTL DEF Spec

================================================================================
