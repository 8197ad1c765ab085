SPECIFICATION GcSpec
CONSTANTS
    Objs = {"a", "c", "d", "l", "m", "i", "s", "g"}
    Pkgs = {"a", "c", "d"}
    Tools = {"a", "d"}
    Blobs = {"m", "i", "g"}
    Refs <- MCRefs
    Leaves <- MCLeaves
    Tiers <- MCTiers
    Projects = {"q"}
    SiteRoots = {"g"}
    PatchRoots <- MCPatchRoots
    Interruptible = TRUE
INVARIANTS
    GcTypeOK
    LeavesNoGarbage
PROPERTIES
    RemovesOnlyGarbage
    PurgeStaysWithSeeds
