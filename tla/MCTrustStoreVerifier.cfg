\* The verifier as it is: with every release of cryptography that the
\* requirements allow, both calls raise.
CONSTANTS
    w1 = w1
    root = root
    alice = alice
    none = none
    Workers = {w1}
    Certs = {root, alice}
    Admins = {root}
    Modes = {"org"}
    VerifierRaises = TRUE
    MaxAudit = 1
    NoRequest = none
SPECIFICATION Spec
CONSTRAINT AuditBound
INVARIANTS
    OwnCertsVerify
