\* Three calls and one set_roots, one workspace at a time: every cold call
\* evicts. No symmetry: the property is temporal.
SPECIFICATION FairSpec
CONSTANTS
    c1 = c1
    c2 = c2
    c3 = c3
    c4 = c4
    u1 = u1
    None = None
    Teardown = Teardown
    Calls = {c1, c2, c3}
    Updates = {u1}
    Dirs <- MCDirs
    Files <- LiveFiles
    Above <- LiveAbove
    Depth <- MCDepth
    Marked = {"inner", "outer", "other"}
    NewRoots <- MCNewRoots
    CliFile = None
    MaxWorkspaces = 1
PROPERTY TasksFinish
CHECK_DEADLOCK FALSE
