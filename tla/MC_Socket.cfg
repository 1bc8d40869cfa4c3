\* Two processes creating, accepting, duplicating, writing and closing sockets.
CONSTANTS
    p1 = p1
    p2 = p2
    Procs <- MC_Procs
    NFILE = 2
    NOFILE = 2
    Descs = {0, 1}
SPECIFICATION Spec
INVARIANT TypeOK
INVARIANT RefCountsExact
INVARIANT DescOwnedOnce
