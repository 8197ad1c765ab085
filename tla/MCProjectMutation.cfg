CONSTANTS
    w1 = w1
    w2 = w2
    t1 = t1
    t2 = t2
    None = None
    NoWriter = NoWriter
    Names = {"x"}
    NamedGroups = {"ci"}
    DefaultGroup = "default"
    Refs = {t1, t2}
    RepoOf <- MCRepoOf
    Writers = {w1, w2}
    MaxPushes = 1
    MaxEdits = 1
SPECIFICATION ProjectSpec
INVARIANTS
    ProjectTypeOK
    LockSound
    SuccessIsCurrent
    FailureChangesNothing
    ReconcileRepairs
    SharedPin
PROPERTIES
    NoLostUpdate
SYMMETRY MCSymmetry
