SPECIFICATION RefSpec
CONSTANTS
    p1 = p1
    p2 = p2
    p3 = p3
    x1 = x1
    x2 = x2
    cand = cand
    cur = cur
    Procs = {p1, p2, p3}
    Paths = {cand, cur}
    SelectPaths = {cur}
    Pkgs = {x1, x2}
    NoPkg = NoPkg
    NoProc = NoProc
    Failing <- MCReplaceFails
SYMMETRY MCSymmetry
PROPERTY
    RollbackRestores
