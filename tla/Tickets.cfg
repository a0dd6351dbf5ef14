SPECIFICATION Spec
CONSTANTS
    p1 = p1
    p2 = p2
    i1 = i1
    i2 = i2
    NoInode = NoInode
    Procs <- MCProcs
    Inodes <- MCInodes
    Callers = {1}
    Targets = {0}
    Time = {19, 20, 21}
    TTL = 1
    to_string <- MCto_string
    strtoull <- MCstrtoull
SYMMETRY Symmetry
INVARIANTS
    TypeOK
    AcceptedIsFresh
    RevokedIsGone
