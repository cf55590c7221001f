\* Three workers, so that one can commit while two others stand between their
\* check and their insert, and so that one can wait at incident_id for a
\* second that waits at original_hash for a third.  Rows present at once differ
\* in their incident id, of which there are three, so three cloud ids are
\* enough for an INSERT never to lack one.
CONSTANTS
    w1 = w1
    w2 = w2
    w3 = w3
    c1 = c1
    c2 = c2
    c3 = c3
    none = none
    Workers = {w1, w2, w3}
    CloudIds = {c1, c2, c3}
    NoSubmission = none
    Submissions <- MCSubmissions
SPECIFICATION Spec
SYMMETRY MCSymmetry
INVARIANTS
    TypeOK
    AcceptedOnce
    IndexComplete
    AcceptedReadable
    WaitsEnd
    PromiseKept
PROPERTIES
    VaultSpec
