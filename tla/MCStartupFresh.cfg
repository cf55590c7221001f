\* The database the postgres image makes: nobody creates the extension.
CONSTANTS
    p1 = p1
    Processes = {p1}
    Commands = {}
    SCHEMA_VERSION = 2
    ByHand = FALSE
    MaxFailures = 0
CHECK_DEADLOCK FALSE
SPECIFICATION FairSpec
PROPERTIES
    StartsUp
