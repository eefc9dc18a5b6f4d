\* where() conditions that contain OR.
CONSTANTS
    None = None
    Rows <- MCRows
    Dist <- MCDist
    Atoms <- MCAtoms
    Holds <- MCHolds
    Conditions <- MCOrConditions
    SearchArgs <- MCSearchArgs
    Limits <- MCLimits
    Offsets <- MCOffsets
    Selections <- MCSelections
    Tunings <- MCTunings
    MaxQueries = 3
SPECIFICATION Spec
INVARIANT ResultRowsMatchQuery
