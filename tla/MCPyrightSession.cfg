\* A reader and an applier race on one file; another program edits it once, the server
\* dies once, and restart_server is used once.
SPECIFICATION FairSpec
CONSTANTS
    r1 = r1
    a1 = a1
    None = None
    Nothing = Nothing
    Readers = {r1}
    Appliers = {a1}
    Files = {"a_py"}
    Texts = {0, 1}
    MaxEdits = 1
    MaxCrashes = 1
    MaxClears = 1
INVARIANTS TypeOK HashMatchesServer CacheMatchesServer WaitsForCause
PROPERTY CallsEnd
CHECK_DEADLOCK FALSE
