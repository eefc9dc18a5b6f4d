\* One caller: create_index on a table name reused after rename_table.
CONSTANTS
    c1 = c1
    c2 = c2
    t1 = t1
    t2 = t2
    d1 = d1
    d2 = d2
    v1 = v1
    None = None
    Unsupported = Unsupported
    Clients <- MCClients1
    Names <- MCNames
    Payloads <- MCPayloads
    Calls <- MCIndexCalls
    Columns <- MCColumns
    Policies <- MCPolicies
    NumBatches = 2
    MaxCalls = 5
SPECIFICATION Spec
PROPERTY IndexesFollowTheirTable
\* The caller stops after MaxCalls calls.
CHECK_DEADLOCK FALSE
