SPECIFICATION CascadeSpec
CONSTANTS
    None = 9
    Publishers = {"p1", "p2"}
    Campaigns <- MCCampaigns
    NoPush = NoPush
INVARIANTS
    CascadeTypeOK
    ReadsBackClean
    NoGap
    RepairHeals
PROPERTIES
    NeverBackwards
    RepairKeepsRight
CHECK_DEADLOCK FALSE
