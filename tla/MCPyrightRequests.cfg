SPECIFICATION Spec
CONSTANTS
    Calls = {c1, c2}
    Files = {f}
    None = None
    Asked <- MCAsked
    Provided <- MCProvided
    MaxEdits = 1
    MaxCrashes = 1
    MaxClients = 6
INVARIANTS
    TypeOK
    
    UnsupportedIsExplicit
    OneServer
PROPERTIES
    RequestsEnd
