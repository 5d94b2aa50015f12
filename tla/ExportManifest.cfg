SPECIFICATION Spec
CONSTANTS
    p1 = p1
    p2 = p2
    PathOrder <- MCPaths
    Exporters = {e1, e2}
    Times <- MCTimes
    Ranges <- MCRanges
    MaxStores = 1
    MaxRuns = 3
    MaxFaults = 1
INVARIANTS ManifestInv
PROPERTIES RebuildRepairs AuditVerdict
CHECK_DEADLOCK FALSE
SYMMETRY MCSymmetry
