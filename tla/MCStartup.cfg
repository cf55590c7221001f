\* An administrator creates the extension.  Three servers and a command, and two
\* failures, which can hit the process that creates the schema and the one that
\* takes over.  No symmetry, which liveness checking excludes.
CONSTANTS
    p1 = p1
    p2 = p2
    p3 = p3
    c1 = c1
    Processes = {p1, p2, p3, c1}
    Commands = {c1}
    SCHEMA_VERSION = 2
    ByHand = TRUE
    MaxFailures = 2
\* All servers up, no command typed and no failure left to come: the end, not a deadlock.
CHECK_DEADLOCK FALSE
SPECIFICATION FairSpec
INVARIANTS
    TypeOK
    SchemaWhole
    WaitsEnd
PROPERTIES
    StartsUp
    OnlyByHand
    SchemaSpec
