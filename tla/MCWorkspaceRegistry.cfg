\* Four calls and one set_roots over three roots, two of which fit.
SPECIFICATION Spec
CONSTANTS
    c1 = c1
    c2 = c2
    c3 = c3
    c4 = c4
    u1 = u1
    None = None
    Teardown = Teardown
    Calls = {c1, c2, c3, c4}
    Updates = {u1}
    Dirs <- MCDirs
    Files <- MCFiles
    Above <- MCAbove
    Depth <- MCDepth
    Marked = {"inner", "outer", "other"}
    NewRoots <- MCNewRoots
    CliFile = "other_py"
    MaxWorkspaces = 2
SYMMETRY CallSymmetry
INVARIANTS TypeOK Capacity OneTriadPerRoot TableMatchesFlags TeardownEmpties
PROPERTIES HandsOutReady LruCache
CHECK_DEADLOCK FALSE
