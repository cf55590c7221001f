\* One worker: requests that only read do not affect each other, and
\* submissions come at any moment.  Five of the six incidents are stored at
\* most; with two candidates fetched and two rows sampled both limits cut.
CONSTANTS
    w1 = w1
    c1 = c1
    c2 = c2
    c3 = c3
    c4 = c4
    c5 = c5
    any = any
    none = none
    Workers = {w1}
    CloudIds = {c1, c2, c3, c4, c5}
    Tenants = {"acme", "globex"}
    Domains = {"disk", "net"}
    Outcomes = {"resolved", "failed"}
    Submissions <- MCSubmissions
    Queries <- MCQueries
    Fingerprints <- MCFingerprints
    ZeroVectors <- MCZeroVectors
    Cosine <- MCCosine
    Unit = 12
    CandidateLimit = 2
    SampleLimit = 2
    CountLimit = 3
    CountThreshold = 8
    NoFilter = any
    NoRequest = none
SPECIFICATION Spec
SYMMETRY MCSymmetry
INVARIANTS
    TypeOK
    StatsOfOwnRows
    SharesCover
    SampleRecent
    MatchesRight
    MissedOnlyByCut
    TwoPhasesAsOne
    SurfacesDecide
