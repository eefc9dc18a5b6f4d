\* One record batch of three rows with two vector columns, every policy.
CONSTANTS
    v1 = v1
    v2 = v2
    NumRows = 3
    VecColumns <- MCVecColumns
SPECIFICATION Spec
INVARIANT DropRemovesOnlyBadRows
\* _insert_batch returns once; nothing follows it.
CHECK_DEADLOCK FALSE
