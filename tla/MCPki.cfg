CONSTANTS
    i1 = i1
    i2 = i2
    j1 = j1
    s1 = s1
    Inits = {i1, i2}
    Issues = {j1}
    Servers = {s1}
    Clients = {"admin"}
    Client <- MCClient
    Missing = Missing
    Empty = Empty
SPECIFICATION Spec
SYMMETRY MCSymmetry
CONSTRAINT Bound
\* Every run happens once.
CHECK_DEADLOCK FALSE
INVARIANTS
    TypeOK
    InitRecovers
    IssuedWhole
    Handshake
