\* Two sessions on three versions.
CONSTANTS
    Sessions = {s1, s2}
    NumVersions = 3
    Reindexable = {1}
    MaxBegun = 3
SPECIFICATION Spec
SYMMETRY SessionSymmetry
INVARIANTS SerialOneActiveVersion PointsToReadyVersion
PROPERTY ActivationRepairs
CHECK_DEADLOCK FALSE
