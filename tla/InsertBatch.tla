---------------------------- MODULE InsertBatch ----------------------------
(***************************************************************************)
(* HologresTable._insert_batch (table.py): the rows one record batch puts  *)
(* into the table under each on_bad_vectors policy, as an operator over a  *)
(* small DataFrame.                                                        *)
(*                                                                         *)
(* batch.to_pandas() numbers the rows with index labels 0..n-1.  For each  *)
(* list-typed field of the schema, in schema order, the code enumerates    *)
(* the column as it is when that field's loop starts, validates each       *)
(* vector, and on a rejected one under "drop" calls df.drop(index=i) with  *)
(* the position i as the label; the collected vectors are then assigned    *)
(* back to the column by position.  A vector is a cell that remembers the  *)
(* row it came from, so a vector that lands on another row is visible.     *)
(* validate_vector_data (schema.py) rejects a cell that is not a list,     *)
(* tuple or array (None) or not one-dimensional; it is called without an   *)
(* expected dimension and does not look at the values.                     *)
(***************************************************************************)
EXTENDS Naturals, SequencesExt

CONSTANTS
    NumRows,     \* rows of the record batch
    VecColumns   \* the list-typed fields of the schema, in schema order

ASSUME NumRows \in Nat /\ VecColumns # <<>>

Cols     == {VecColumns[k] : k \in 1..Len(VecColumns)}
Kinds    == {"ok", "null"}        \* a 1-D vector, or a missing one (None)
Policies == {"error", "drop", "fill", "other"}

(* A record batch: the kind of each row's vector in each vector column.   *)
Batches == [1..NumRows -> [Cols -> Kinds]]

(* batch.to_pandas(): row p gets label p - 1; each cell remembers its row. *)
ToPandas(b) ==
    [p \in 1..Len(b) |->
        [label |-> p - 1,
         cell  |-> [c \in Cols |-> [kind |-> b[p][c], row |-> p - 1]]]]

Labels(df) == {df[k].label : k \in 1..Len(df)}

(* validate_vector_data(vec) returns without raising.                      *)
Valid(v) == v.kind = "ok"

(* One pass of the loop over column c of df0 (the DataFrame when the pass  *)
(* starts), at position p: acc holds the current df, the vectors kept so  *)
(* far and the exception raised, if any.                                    *)
VisitCell(df0, c, policy, acc, p) ==
    LET v == df0[p].cell[c]
        i == p - 1
    IN CASE acc.err # "none"  -> acc
         [] Valid(v)          -> [acc EXCEPT !.vecs = Append(@, v)]
         [] policy = "error"  -> [acc EXCEPT !.err = "ValueError"]
         [] policy = "drop"   ->
               IF i \in Labels(acc.df)
               THEN [acc EXCEPT !.df = SelectSeq(@, LAMBDA r : r.label # i)]
               ELSE [acc EXCEPT !.err = "KeyError"]
         [] policy = "fill"   ->
               [acc EXCEPT !.vecs = Append(@, [kind |-> "fill", row |-> v.row])]
         [] OTHER             -> [acc EXCEPT !.err = "ValueError"]

(* The loop over column c, then df[c] = vectors: assigned by position, and *)
(* a ValueError when the lengths differ.                                    *)
ColumnPass(df0, c, policy) ==
    LET acc == FoldLeft(LAMBDA a, p : VisitCell(df0, c, policy, a, p),
                        [df |-> df0, vecs |-> <<>>, err |-> "none"],
                        [p \in 1..Len(df0) |-> p])
    IN CASE acc.err # "none" -> [df |-> acc.df, err |-> acc.err]
         [] Len(acc.vecs) # Len(acc.df) -> [df |-> acc.df, err |-> "ValueError"]
         [] OTHER ->
               [df  |-> [k \in 1..Len(acc.df) |->
                           [acc.df[k] EXCEPT !.cell[c] = acc.vecs[k]]],
                err |-> "none"]

(* The column loop from column k of the schema on.                         *)
RECURSIVE Columns(_, _, _)
Columns(st, k, policy) ==
    IF st.err # "none" \/ k > Len(VecColumns) THEN st
    ELSE Columns(ColumnPass(st.df, VecColumns[k], policy), k + 1, policy)

(* _insert_batch: the exception it raises, or the rows df.to_sql inserts. *)
Insert(b, policy) ==
    LET st == Columns([df |-> ToPandas(b), err |-> "none"], 1, policy) IN
    IF st.err # "none" THEN [err |-> st.err] ELSE [rows |-> st.df]

-----------------------------------------------------------------------------
VARIABLES
    batch,    \* the record batch passed in
    policy,   \* its on_bad_vectors argument
    done,     \* the call has returned
    out       \* what it did: [err |-> e] or [rows |-> df]

vars == <<batch, policy, done, out>>

Init ==
    /\ batch \in Batches
    /\ policy \in Policies
    /\ done = FALSE
    /\ out = [err |-> "none"]

(* HologresTable.add calls _insert_batch once per record batch.            *)
InsertCall ==
    /\ ~done
    /\ done' = TRUE
    /\ out' = Insert(batch, policy)
    /\ UNCHANGED <<batch, policy>>

Spec == Init /\ [][InsertCall]_vars

-----------------------------------------------------------------------------
(* Properties                                                              *)

(* spec.md 8.3 reference: "drop" removes only the rows holding a vector   *)
(* the validator rejects, and keeps every other row with its own vectors. *)
DropReference(b) ==
    SelectSeq(ToPandas(b), LAMBDA r : \A c \in Cols : Valid(r.cell[c]))

(* spec.md 4.2 and 8.3: with on_bad_vectors="drop" the call inserts exactly *)
(* the rows whose vectors all validate, each with its own vectors.  With   *)
(* two vector columns, _insert_batch's second loop drops by position as if *)
(* it were a label after the first loop has removed rows.                   *)
DropRemovesOnlyBadRows ==
    done /\ policy = "drop" => out = [rows |-> DropReference(batch)]

=============================================================================
