\* Chains of up to four query objects over three rows.
CONSTANTS
    None = None
    Rows <- MCRows
    Dist <- MCDist
    Atoms <- MCAtoms
    Holds <- MCHolds
    Conditions <- MCConditions
    SearchArgs <- MCSearchArgs
    Limits <- MCLimits
    Offsets <- MCOffsets
    Selections <- MCSelections
    Tunings <- MCTunings
    MaxQueries = 4
SPECIFICATION Spec
INVARIANT TypeOK ChainIsolation ResultRowsMatchQuery
