\* Two callers (threads of the async facade): exclusive create.
CONSTANTS
    c1 = c1
    c2 = c2
    t1 = t1
    t2 = t2
    d1 = d1
    d2 = d2
    v1 = v1
    None = None
    Unsupported = Unsupported
    Clients <- MCClients2
    Names <- MCName1
    Payloads <- MCPayloads
    Columns <- MCColumns
    Policies <- MCPolicies
    NumBatches = 2
    MaxCalls = 1
SPECIFICATION Spec
INVARIANT CreateIsExclusive
\* Each caller stops after MaxCalls calls.
CHECK_DEADLOCK FALSE
