SPECIFICATION PullSpec
CONSTANTS
    NoTask = NoTask
    Tasks <- MCTasks
    Keys <- MCKeys
    KeyOf <- MCKeyOf
    Groups <- MCGroups
    GroupOf <- MCGroupOf
    MaxEntries <- MCMaxEntries
    Procs = {"p1", "p2"}
    ProcOf <- MCProcOf
    Items = {"a", "b", "d", "e", "l"}
    Layers = {"l"}
    ItemOf <- MCItemOf
    Kids <- MCKids
    Roots <- MCRoots
    Limit = 2
    Faulty = {"e"}
    Mortal = {"p2"}
INVARIANTS
    PullTypeOK
    OneFlight
    StoreClosed
    SuccessIsStored
PROPERTIES
    NeverReplaced
    PullsEnd
CHECK_DEADLOCK FALSE
