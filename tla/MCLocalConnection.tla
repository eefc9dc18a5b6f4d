-------------------------- MODULE MCLocalConnection --------------------------
(* Model-checking instance of LocalConnection.                             *)
EXTENDS LocalConnection

CONSTANTS c1, c2, t1, t2, d1, d2, v1

MCClients1 == {c1}
MCClients2 == {c1, c2}
MCNames    == {t1, t2}
MCName1    == {t1}
MCPayloads == {d1, d2}
MCColumns  == {v1}
\* One on_bad_vectors value that rejects a bad vector ("other" raises like
\* "error") and one that inserts its batch ("fill" inserts like "drop").
MCPolicies == {"error", "drop"}

(* The calls of one scenario: create t1 from a schema, create_index on   *)
(* t1, rename t1 to t2.                                                    *)
MCIndexCalls ==
    {[Blank EXCEPT !.kind = "create", !.name = t1, !.schema = TRUE,
                   !.mode = "create", !.policy = "error"],
     [Blank EXCEPT !.kind = "rename", !.name = t1, !.to = t2]}
    \cup {[Blank EXCEPT !.kind = "index", !.name = t1, !.mode = "idx",
                        !.col = v1, !.replace = r] : r \in BOOLEAN}
=============================================================================
