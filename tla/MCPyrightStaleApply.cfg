\* Expected to fail: an applied edit is answered with the diagnostics of the old text.
SPECIFICATION Spec
CONSTANTS
    r1 = r1
    a1 = a1
    None = None
    Nothing = Nothing
    Readers = {r1}
    Appliers = {a1}
    Files = {"a_py"}
    Texts = {0, 1}
    MaxEdits = 0
    MaxCrashes = 0
    MaxClears = 0
INVARIANT AppliedIsRefreshed
CHECK_DEADLOCK FALSE
