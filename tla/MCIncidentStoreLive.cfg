\* Three workers, so that one can wait for another that waits for the third, and
\* two incidents of one hash, in org mode: every request can meet another's
\* open transaction at either index.  The two differ in their incident id, so
\* each row has a cloud id.  No symmetry, which liveness checking excludes.
CONSTANTS
    w1 = w1
    w2 = w2
    w3 = w3
    c1 = c1
    c2 = c2
    none = none
    Workers = {w1, w2, w3}
    CloudIds = {c1, c2}
    NoSubmission = none
    Submissions <- MCOrgRivals
SPECIFICATION FairSpec
INVARIANTS
    AnswersReadable
PROPERTIES
    RequestsEnd
