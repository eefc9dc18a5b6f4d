\* One caller on a network that loses nothing; add() in overwrite mode.
CONSTANTS
    t1 = t1
    t2 = t2
    d1 = d1
    d2 = d2
    None = None
    Unsupported = Unsupported
    Names <- MCNames
    Payloads <- MCPayloads
    AddModes <- MCOverwrite
    NumBatches = 2
    MaxCalls = 2
    MaxRetries = 1
    LostResponses = FALSE
SPECIFICATION Spec
INVARIANT OkCallsAtLeastOnce
\* The caller stops after MaxCalls calls.
CHECK_DEADLOCK FALSE
