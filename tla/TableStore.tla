----------------------------- MODULE TableStore -----------------------------
(***************************************************************************)
(* What a connection and its tables promise one caller (spec.md 3, 4.2,    *)
(* 4.3, 7, 8.4): a store of named tables, each with a bag of rows,        *)
(* changed by calls that each take effect in one step when they return.    *)
(* Indexes are not part of the store: their names share one namespace     *)
(* across tables (table.py create_index), so what an index call does to    *)
(* other tables is LocalConnection's IndexesFollowTheirTable question.     *)
(*                                                                         *)
(* A call that returns ok has the effect its kind and mode promise.  An    *)
(* error is returned only when its cause held when the call started.  A    *)
(* call that fails cleanly (AlreadyExists, NotFound, BackendError, and any *)
(* error of a call that writes no data) leaves the store as it was; a      *)
(* create_table or add that fails on its arguments or its data may have    *)
(* changed its own table, never beyond the old rows plus its own data.     *)
(***************************************************************************)
EXTENDS Naturals, Bags

CONSTANTS
    Names,       \* table names
    Calls,       \* the calls a caller can make
    Datasets,    \* data arguments that are readable record batches
    None,        \* Python None
    NewRows(_)   \* the rows a data argument contributes

Errors == {"AlreadyExists", "NotFound", "ConfigError", "SchemaError",
           "ConversionError", "ValidationError", "BackendError"}

VARIABLES
    tables,   \* tables[n]: table n exists
    content,  \* content[n]: its rows
    op,       \* the caller's current (or last) call
    answer    \* "pending" while it runs, then what it returned

store == <<tables, content>>
vars  == <<tables, content, op, answer>>

Init ==
    /\ tables = [n \in Names |-> FALSE]
    /\ content = [n \in Names |-> EmptyBag]
    /\ op = None
    /\ answer = None

(* The rows of payload d in bag r.                                         *)
PayloadRows(r, d) == [t \in {u \in BagToSet(r) : u[1] = d} |-> r[t]]

Unchanged(ns) ==
    \A m \in ns : tables'[m] = tables[m] /\ content'[m] = content[m]

(* The effect of a call that returns ok on the tables it names.            *)
OkEffect ==
    LET n   == op.name
        new == NewRows(op.data)
    IN CASE op.kind = "create" ->
              /\ tables'[n]
              /\ content'[n] = IF tables[n] /\ op.mode \in {"append", "create"}
                               THEN content[n] (+) new ELSE new
         [] op.kind = "add" ->
              /\ tables'[n]
              /\ content'[n] = IF op.mode = "overwrite" THEN new
                               ELSE content[n] (+) new
         [] op.kind = "drop" ->
              ~tables'[n] /\ content'[n] = EmptyBag
         [] op.kind = "delete" ->
              /\ tables[n] /\ tables'[n]
              /\ content'[n] = content[n] (-) PayloadRows(content[n], op.id)
         [] op.kind = "rename" ->
              /\ tables[n] /\ ~tables[op.to]
              /\ ~tables'[n] /\ content'[n] = EmptyBag
              /\ tables'[op.to] /\ content'[op.to] = content[n]
         [] op.kind \in {"index", "update", "read"} ->
              tables[n] /\ Unchanged({n})

(* The cause that justifies returning error e, read in the start state.    *)
Cause(e) ==
    LET n == op.name
        writes == op.kind \in {"create", "add"}
    IN CASE e = "AlreadyExists" ->
              op.kind = "create" /\ op.mode = "create" /\ ~op.existOk /\ tables[n]
         [] e = "NotFound" ->
              op.kind = "create" /\ op.mode = "append" /\ ~tables[n]
         [] e = "ConfigError" ->
              \/ op.kind = "create" /\ ~op.schema /\ op.data = None
              \/ op.kind = "update" /\ ~op.values
         [] e = "SchemaError" ->
              op.kind = "create" /\ ~op.schema /\ op.data \notin Datasets \cup {None}
         [] e = "ConversionError" -> writes /\ op.data \notin Datasets
         [] e = "ValidationError" -> writes /\ op.data \in Datasets /\ op.data.bad # 0
         [] e = "BackendError" ->
              \/ ~tables[n]
              \/ op.kind = "rename" /\ tables[op.to]
              \/ op.kind = "index" /\ ~op.replace   \* its name may be taken

(* What a failed call may leave: its own table holding at most the old     *)
(* rows and its own data.                                                  *)
Partial ==
    content'[op.name] \sqsubseteq content[op.name] (+) NewRows(op.data)

Touched == IF op # None /\ op.kind = "rename" THEN {op.name, op.to} ELSE {op.name}

(* The caller makes a call.                                                *)
Begin ==
    /\ answer # "pending"
    /\ \E o \in Calls : op' = o
    /\ answer' = "pending"
    /\ UNCHANGED store

(* The call takes effect and returns r.                                    *)
Finish ==
    /\ answer = "pending"
    /\ \E r \in {"ok"} \cup Errors :
         /\ answer' = r
         /\ Unchanged(Names \ Touched)
         /\ \/ r = "ok" /\ OkEffect
            \/ r \in {"AlreadyExists", "NotFound", "BackendError"}
               /\ Cause(r) /\ Unchanged(Touched)
            \/ r \in {"ConfigError", "SchemaError", "ConversionError", "ValidationError"}
               /\ Cause(r)
               /\ IF op.kind \in {"create", "add"} THEN Partial ELSE Unchanged(Touched)
    /\ UNCHANGED op

Next == Begin \/ Finish

Spec == Init /\ [][Next]_vars

=============================================================================
