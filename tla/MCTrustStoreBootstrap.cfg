\* Org mode, one worker against the init-certs command.  The verifier is the
\* one its docstring describes; the code's refuses every certificate before
\* this.
CONSTANTS
    w1 = w1
    root = root
    alice = alice
    none = none
    Workers = {w1}
    Certs = {root, alice}
    Admins = {root}
    Modes = {"org"}
    VerifierRaises = FALSE
    MaxAudit = 1
    NoRequest = none
SPECIFICATION Spec
CONSTRAINT AuditBound
INVARIANTS
    AdminRegistered
