--------------------------- MODULE MCQueryBuilder ---------------------------
(* Instances of QueryBuilder for model checking.                           *)
EXTENDS QueryBuilder

(* Three rows: row 2 is the query vector's own row (distance 0) and rows  *)
(* 1 and 3 tie, so order and ties both matter.  Atom "a" holds of rows 1  *)
(* and 2, atom "b" of rows 2 and 3.                                        *)
MCRows  == 1..3
MCDist  == <<1, 0, 1>>
MCAtoms == {"a", "b"}
MCHolds == [a |-> {1, 2}, b |-> {2, 3}]

\* where("a"), where("b"); and a condition with OR in it.
MCConditions   == {<<"a">>, <<"b">>}
MCOrConditions == {<<"a", "b">>, <<"b">>}

\* search(vector, vector_column_name="vec") and a plain search().
MCSearchArgs == {[vec |-> TRUE, col |-> TRUE], [vec |-> FALSE, col |-> FALSE]}

MCLimits     == {1, 2}
MCOffsets    == {0, 1}
MCSelections == {{"id"}, {"id", "vec"}}
MCTunings    == {"metric"}
=============================================================================
