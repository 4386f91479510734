SPECIFICATION Spec
CONSTANTS
    c1 = c1
    c2 = c2
    Calls = {c1, c2}
    a = a
    b = b
    Roots = {a, b}
    None = None
    Asked <- MCAsked
    MaxWorkspaces = 1
SYMMETRY MCSymmetry
INVARIANTS
    TypeOK
    OwnWorkspace
    WritesAreAnnounced
    ProfilesComplete
