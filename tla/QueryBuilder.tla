----------------------------- MODULE QueryBuilder -----------------------------
(***************************************************************************)
(* HologresQuery (query.py): a query object is built by table.search() and *)
(* refined by limit / offset / where / select / metric / nprobes /         *)
(* refine_factor, each of which _copy()s the receiver and sets one field.  *)
(* to_pandas lowers the object with _build_sql and runs the SQL.           *)
(*                                                                         *)
(* Query objects and their where lists live in heaps indexed by Ids, so    *)
(* that sharing a Python list between two objects is visible.  `view`     *)
(* holds, for every object, the value spec.md 4.1 says it has: its        *)
(* parent's fields with the one field updated.                             *)
(*                                                                         *)
(* The table is a fixed set of Rows.  Dist[r] is row r's distance from the *)
(* query vector; a where condition is the text "a1 OR a2 ..." of atoms,    *)
(* and Holds[a] is the set of rows atom a is true of.                      *)
(***************************************************************************)
EXTENDS Naturals, FiniteSets, SequencesExt

CONSTANTS
    Rows, Dist, Atoms, Holds,
    Conditions,   \* where() arguments: sequences of atoms joined by OR
    SearchArgs,   \* search() arguments: [vec: query vector given?,
                  \*                      col: vector_column_name given?]
    Limits, Offsets,
    Selections,   \* select() arguments, as sets of column names
    Tunings,      \* subset of {"metric", "nprobes", "refine_factor"}
    MaxQueries,   \* query objects created (bounds the model)
    None

ASSUME /\ Dist \in [Rows -> Nat] /\ Holds \in [Atoms -> SUBSET Rows]
       /\ Conditions \subseteq Seq(Atoms) \ {<<>>}
       /\ MaxQueries \in Nat

Ids     == 1..MaxQueries

Query == [lst: Ids, limit: Limits \cup {None}, offset: Offsets \cup {None},
          select: Selections \cup {None}, orderBy: BOOLEAN,
          vec: BOOLEAN, col: BOOLEAN, tuning: SUBSET Tunings]

VARIABLES
    q,      \* q[i]: query object i (its attributes)
    lists,  \* lists[l]: the Python list object l (a _where_conditions)
    next,   \* objects allocated so far
    view,   \* view[i]: the value object i should hold (history)
    out     \* the last to_pandas(): object and rows in order

vars == <<q, lists, next, view, out>>

TypeOK ==
    /\ next \in 0..MaxQueries
    /\ \A i \in 1..next : q[i] \in Query
    /\ lists \in [Ids -> Seq(Conditions)]
    /\ out = None \/ out.q \in 1..next

Init ==
    /\ q = [i \in Ids |-> None]
    /\ lists = [l \in Ids |-> <<>>]
    /\ next = 0
    /\ view = [i \in Ids |-> None]
    /\ out = None

NewId == next + 1

(* HologresQuery.__init__ via table.search(query, vector_column_name): no  *)
(* limit, offset, where, select or order; a fresh where list.             *)
Search(a) ==
    /\ next < MaxQueries
    /\ q' = [q EXCEPT ![NewId] =
               [lst |-> NewId, limit |-> None, offset |-> None,
                select |-> None, orderBy |-> FALSE,
                vec |-> a.vec, col |-> a.col, tuning |-> {}]]
    /\ view' = [view EXCEPT ![NewId] =
                  [where |-> <<>>, limit |-> None, offset |-> None,
                   select |-> None, vec |-> a.vec, col |-> a.col]]
    /\ next' = NewId
    /\ UNCHANGED <<lists, out>>

(* A version of _copy below with a plausible slip in the code: it leaves  *)
(* _where_conditions None when the receiver's list is empty.              *)
CopyNoEmptyList(x) ==
    [x EXCEPT !.lst = IF lists[x.lst] = <<>> THEN None ELSE NewId,
              !.tuning = {}]

(* A version of _copy below with a plausible slip in the code: the where  *)
(* list is assigned, not .copy()d, so both objects hold one list.          *)
CopyShared(x) == [x EXCEPT !.tuning = {}]

(* _copy: a new HologresQuery with the constructor arguments, then limit,  *)
(* offset, a .copy() of the where list, the select list and order_by.     *)
(* _metric, _nprobes and _refine_factor are not copied.                    *)
Copy(x) == [x EXCEPT !.lst = NewId, !.tuning = {}]

(* Object p is refined into a new object r, whose where list is w.        *)
Derive(p, r, w) ==
    /\ p \in 1..next
    /\ next < MaxQueries
    /\ q' = [q EXCEPT ![NewId] = r]
    /\ lists' = [lists EXCEPT ![r.lst] = w]
    /\ next' = NewId
    /\ UNCHANGED out

(* The refinements: new_query = self._copy(), then one attribute set; for *)
(* where(), the condition appended to the new object's list.              *)
Limit(p, n) ==
    /\ Derive(p, [Copy(q[p]) EXCEPT !.limit = n], lists[q[p].lst])
    /\ view' = [view EXCEPT ![NewId] = [view[p] EXCEPT !.limit = n]]

Offset(p, n) ==
    /\ Derive(p, [Copy(q[p]) EXCEPT !.offset = n], lists[q[p].lst])
    /\ view' = [view EXCEPT ![NewId] = [view[p] EXCEPT !.offset = n]]

Where(p, c) ==
    /\ Derive(p, Copy(q[p]), Append(lists[q[p].lst], c))
    /\ view' = [view EXCEPT ![NewId] = [view[p] EXCEPT !.where = Append(@, c)]]

Select(p, s) ==
    /\ Derive(p, [Copy(q[p]) EXCEPT !.select = s], lists[q[p].lst])
    /\ view' = [view EXCEPT ![NewId] = [view[p] EXCEPT !.select = s]]

(* metric(), nprobes(), refine_factor(): set an attribute that _build_sql *)
(* never reads, so the query's value is its parent's.                     *)
Tune(p, t) ==
    /\ Derive(p, [Copy(q[p]) EXCEPT !.tuning = {t}], lists[q[p].lst])
    /\ view' = [view EXCEPT ![NewId] = view[p]]

-----------------------------------------------------------------------------
(* Lowering and evaluation                                                 *)

(* The WHERE text " AND ".join(conditions), read with SQL's precedence (AND *)
(* binds tighter than OR): an OR of AND-groups.  Joining condition c to   *)
(* the groups so far puts c's first atom into the last group.              *)
JoinAnd(gs, c) ==
    IF gs = <<>>
    THEN [i \in 1..Len(c) |-> <<c[i]>>]
    ELSE Front(gs) \o <<Append(Last(gs), c[1])>>
                   \o [i \in 1..Len(c) - 1 |-> <<c[i + 1]>>]

Lower(ws) == FoldLeft(JoinAnd, <<>>, ws)

Truthy(v) == v \notin {None, 0}

IsVectorSearch(x) == x.vec /\ x.col

(* A version of _build_sql below with a plausible slip in the code: the   *)
(* vector branch forgets `self._order_by = "_distance ASC"`.               *)
BuildSqlNoOrder(x) ==
    [where  |-> Lower(lists[x.lst]),
     order  |-> x.orderBy,
     limit  |-> IF Truthy(x.limit) THEN x.limit ELSE None,
     offset |-> IF Truthy(x.offset) THEN x.offset ELSE 0]

(* _build_sql: the distance order for a vector search with a column;     *)
(* WHERE; ORDER BY self._order_by; LIMIT and OFFSET when truthy.  The     *)
(* projection (select list plus `_distance`) is left out: no property     *)
(* reads columns.                                                          *)
BuildSql(x) ==
    [where  |-> Lower(lists[x.lst]),
     order  |-> IsVectorSearch(x) \/ x.orderBy,
     limit  |-> IF Truthy(x.limit) THEN x.limit ELSE None,
     offset |-> IF Truthy(x.offset) THEN x.offset ELSE 0]

ByDistance(s) == IsSorted(s, LAMBDA r1, r2 : Dist[r1] <= Dist[r2])

(* Rows offset+1 .. offset+limit of s.                                     *)
Window(s, off, lim) ==
    LET last == IF lim = None \/ off + lim > Len(s) THEN Len(s) ELSE off + lim
    IN SubSeq(s, off + 1, last)

SqlHolds(gs, r) == gs = <<>> \/ \E i \in DOMAIN gs : \A a \in ToSet(gs[i]) : r \in Holds[a]

(* What the database may return for a statement: the rows WHERE admits, in *)
(* any order or ordered by distance, cut to the window.                    *)
Exec(sql) ==
    { Window(s, sql.offset, sql.limit) :
        s \in { t \in SetToSeqs({r \in Rows : SqlHolds(sql.where, r)}) :
                    sql.order => ByDistance(t) } }

(* to_pandas: _build_sql (which sets self._order_by on a vector search),  *)
(* then pd.read_sql of the statement.                                      *)
ToPandas(p) ==
    LET x == q[p] IN
    /\ p \in 1..next
    /\ \E rs \in Exec(BuildSql(x)) :
        out' = [q |-> p, rows |-> rs]
    /\ q' = [q EXCEPT ![p].orderBy = x.orderBy \/ IsVectorSearch(x)]
    /\ UNCHANGED <<lists, next, view>>

Next ==
    \/ \E a \in SearchArgs : Search(a)
    \/ \E p \in 1..next :
        \/ \E n \in Limits : Limit(p, n)
        \/ \E n \in Offsets : Offset(p, n)
        \/ \E c \in Conditions : Where(p, c)
        \/ \E s \in Selections : Select(p, s)
        \/ \E t \in Tunings : Tune(p, t)
        \/ ToPandas(p)

Spec == Init /\ [][Next]_vars

-----------------------------------------------------------------------------
(* Properties                                                              *)

(* The result spec.md 4.1 gives a query value: the rows every condition   *)
(* admits, ascending by distance for a vector search (and no result at    *)
(* all, but a ConfigurationError, for a query vector with no column),     *)
(* then offset and limit.                                                  *)
Conjoined(ws, r) == \A k \in DOMAIN ws : \E a \in ToSet(ws[k]) : r \in Holds[a]

IntendedRows(v) ==
    IF v.vec /\ ~v.col THEN {}
    ELSE { Window(s, IF v.offset = None THEN 0 ELSE v.offset, v.limit) :
             s \in { t \in SetToSeqs({r \in Rows : Conjoined(v.where, r)}) :
                         v.vec => ByDistance(t) } }

(* spec.md 8.1: two chains built from one query never see each other's    *)
(* where() calls: every object's where list holds exactly the conditions  *)
(* of its own chain, in call order.  _copy() .copy()s the list; an object *)
(* sharing its parent's list would grow with its sibling's conditions.    *)
ChainIsolation ==
    \A i \in 1..next : lists[q[i].lst] = view[i].where

(* spec.md 4.1, 8.6: the rows to_pandas returns are those of the query's   *)
(* value: all of its where conditions hold, a vector search is ascending  *)
(* by distance, and offset and limit cut the window.  Lowering goes        *)
(* through _build_sql's string assembly and truthiness tests.              *)
ResultRowsMatchQuery ==
    out # None => out.rows \in IntendedRows(view[out.q])

=============================================================================
