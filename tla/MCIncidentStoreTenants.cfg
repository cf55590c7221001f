\* One worker: the check of duplicates crosses tenants without any race.
CONSTANTS
    w1 = w1
    c1 = c1
    c2 = c2
    none = none
    Workers = {w1}
    CloudIds = {c1, c2}
    NoSubmission = none
    Submissions <- MCRivals
SPECIFICATION Spec
INVARIANTS
    AnswersReadable
