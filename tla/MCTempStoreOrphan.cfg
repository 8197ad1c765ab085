SPECIFICATION TempSpec
CONSTANTS
    c1 = c1
    i1 = i1
    i2 = i2
    n1 = n1
    n2 = n2
    n3 = n3
    n4 = n4
    Installers = {i1, i2}
    Cleaners = {c1}
    Procs = {i1, i2, c1}
    Inodes = {n1, n2, n3, n4}
    NoProc = NoProc
    NoInode = NoInode
    NotStored = NotStored
    TryAttempts = 2
    Parts = 2
SYMMETRY MCSymmetry
INVARIANT
    LiveInstallIntact
CHECK_DEADLOCK FALSE
