SPECIFICATION Spec
CONSTANTS
    Hierarchies <- MCHierarchies
    Outlines <- MCOutlines
    Lookups <- MCLookups
    Uses <- MCUses
    Scans <- MCScans
    Resolutions <- MCResolutions
    Graphs <- MCGraphs
    Layerings <- MCLayerings
    Fixes <- MCFixes
    Plans <- MCPlans
    Signatures <- MCSignatures
    Splits <- MCSplits
    Rewritings <- MCRewritings
    Converted <- MCConverted
INVARIANTS
    NavigationExact
    
    UnusedMeansUnused
    ImportsExact
    
    
CHECK_DEADLOCK FALSE
