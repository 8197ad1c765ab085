--------------------------- MODULE MCProjectMutation ---------------------------
EXTENDS ProjectMutation, TLC

CONSTANTS w1, w2, t1, t2

MCRepoOf == [r \in {t1, t2} |-> "repo"]
MCSymmetry == Permutations({w1, w2})
================================================================================
