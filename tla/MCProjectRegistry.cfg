SPECIFICATION RegistrySpec
CONSTANTS
    Home = Home
    d1 = d1
    p1 = p1
    p2 = p2
    Absent = Absent
    Projects <- MCProjects
    Packages = {p1, p2}
    Contents <- MCContents
    Cleaners = {c1}
    Modes <- MCModes
    MaxCommits = 1
INVARIANTS
    RegistryTypeOK
PROPERTIES
    
    CleanKeepsLinks
    ConsentKept
