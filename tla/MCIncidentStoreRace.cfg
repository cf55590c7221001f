\* Two workers and one incident submitted twice are enough for the race.
CONSTANTS
    w1 = w1
    w2 = w2
    c1 = c1
    c2 = c2
    none = none
    Workers = {w1, w2}
    CloudIds = {c1, c2}
    NoSubmission = none
    Submissions <- MCRivals
SPECIFICATION Spec
INVARIANTS
    DuplicatesAnswered
