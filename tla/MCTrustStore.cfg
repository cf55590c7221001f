\* Either mode: an admin and a client certificate, two workers, so that two
\* requests can race for one row and with the command that makes it.  States
\* with more than one audit row are checked and not left: a claim still to be
\* written and one row are what the properties compare.  Nor are states left in
\* which two dates have passed.
CONSTANTS
    w1 = w1
    w2 = w2
    root = root
    alice = alice
    none = none
    Workers = {w1, w2}
    Certs = {root, alice}
    Admins = {root}
    Modes = {"org", "global"}
    VerifierRaises = FALSE
    MaxAudit = 1
    NoRequest = none
SPECIFICATION Spec
CONSTRAINT Bound
SYMMETRY MCSymmetry
INVARIANTS
    TypeOK
    OnlyLiveAdminsAct
    AuditTruthful
    GlobalRevocation
    AdminsByInit
PROPERTIES
    RegistrationsKept
