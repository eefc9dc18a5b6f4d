\* One caller on a network that may lose responses; add() in append mode.
CONSTANTS
    t1 = t1
    t2 = t2
    d1 = d1
    d2 = d2
    None = None
    Unsupported = Unsupported
    Names <- MCNames
    Payloads <- MCPayloads
    AddModes <- MCAppend
    NumBatches = 2
    MaxCalls = 2
    MaxRetries = 1
    LostResponses = TRUE
SPECIFICATION FairSpec
INVARIANT TypeOK
INVARIANT OkCallsAtLeastOnce
PROPERTY CallsReturn
\* The caller stops after MaxCalls calls.
CHECK_DEADLOCK FALSE
