--------------------------- MODULE LocalConnection ---------------------------
(***************************************************************************)
(* The SQL-backed connection and table of pyhologres:                      *)
(* HologresDBConnection (db.py) and HologresTable (table.py), driven by    *)
(* caller threads.  Each client is one thread calling the synchronous API  *)
(* on one shared connection, with no lock.  The async facade              *)
(* (AsyncConnection / AsyncTable) runs each call on a worker of the        *)
(* default executor, but hands its keyword arguments to run_in_executor,   *)
(* which takes none: only its calls with every keyword at its default      *)
(* reach the connection, and those are among the Calls below.              *)
(*                                                                         *)
(* The database is the shared state.  Every SQL statement the client       *)
(* issues on `engine.connect()` ... `commit()` is one atomic step; a call  *)
(* that issues several statements is several steps, and other clients may *)
(* run between them.  Row contents are abstracted to tags <<d, b>>: the    *)
(* rows of record batch b of input payload d.                              *)
(***************************************************************************)
EXTENDS Naturals, FiniteSets, Bags

CONSTANTS
    Clients,     \* caller threads
    Names,       \* table names
    Payloads,    \* identities of input data sets
    NumBatches,  \* record batches per input data set
    MaxCalls,    \* calls each client makes (bounds the model)
    Policies,    \* on_bad_vectors values the calls pass
    Columns,     \* column names an index call may name
    None,        \* Python None
    Unsupported  \* a data argument of a type the client cannot read

ASSUME NumBatches \in Nat \ {0} /\ MaxCalls \in Nat

Modes    == {"create", "overwrite", "append"}
AddModes == {"overwrite", "append"}
(* on_bad_vectors.  On a rejected vector "error" re-raises the ValueError  *)
(* of validate_vector_data, "drop" removes the row, "fill" keeps it with a *)
(* fill vector, and any other value raises ValueError.  Rows are tags per  *)
(* record batch, so "drop" and "fill" both insert the batch.               *)
OnBadVectors == {"error", "drop", "fill", "other"}
Rejects(p) == p \notin {"drop", "fill"}
ASSUME Policies \subseteq OnBadVectors
IndexKinds == {"idx", "fts"}   \* create_index, create_fts_index
Batches  == 1..NumBatches
Tags     == Payloads \X Batches

(* A data argument: None, Unsupported (an object _into_pyarrow_reader and *)
(* infer_schema_from_data reject), or payload `id` read as NumBatches      *)
(* record batches of which batch `bad` (0: none) holds a vector that       *)
(* validate_vector_data rejects.                                           *)
Datasets == [id: Payloads, bad: 0..NumBatches]
DataArgs == {None, Unsupported} \cup Datasets

(* The rows an input contributes when all its batches are inserted.        *)
NewRows(data) ==
    IF data \in Datasets
    THEN SetToBag({<<data.id, b>> : b \in Batches})
    ELSE EmptyBag

Errors == {"AlreadyExists", "NotFound", "ConfigError", "SchemaError",
           "ConversionError", "ValidationError", "BackendError"}

(* Calls a client can make; unused fields keep their Blank value.  An     *)
(* index call names its kind ("idx": create_index, "fts": create_fts_index *)
(* on one field), its column and its `replace` flag.  An add call is made  *)
(* on the table object create_table returned, or (`opened`) on one from    *)
(* open_table, whose schema maps every ARRAY column to pa.string().        *)
Blank == [kind |-> None, name |-> None, data |-> None, schema |-> FALSE,
          mode |-> None, existOk |-> FALSE, policy |-> None, to |-> None,
          id |-> None, col |-> None, replace |-> FALSE, values |-> FALSE,
          opened |-> FALSE]

Calls ==
    {[Blank EXCEPT !.kind = "create", !.name = n, !.data = d, !.schema = s,
                   !.mode = m, !.existOk = x, !.policy = p] :
        n \in Names, d \in DataArgs, s \in BOOLEAN, m \in Modes,
        x \in BOOLEAN, p \in Policies}
    \cup {[Blank EXCEPT !.kind = "add", !.name = n, !.data = d, !.mode = m,
                        !.policy = p, !.opened = o] :
        n \in Names, d \in DataArgs, m \in AddModes, p \in Policies,
        o \in BOOLEAN}
    \cup {[Blank EXCEPT !.kind = k, !.name = n] :
        k \in {"drop", "read"}, n \in Names}
    \cup {[Blank EXCEPT !.kind = "delete", !.name = n, !.id = i] :
        n \in Names, i \in Payloads}
    \cup {[Blank EXCEPT !.kind = "rename", !.name = n, !.to = t] :
        n \in Names, t \in Names}
    \cup {[Blank EXCEPT !.kind = "index", !.name = n, !.mode = k, !.col = c,
                        !.replace = r] :
        n \in Names, k \in IndexKinds, c \in Columns, r \in BOOLEAN}
    \cup {[Blank EXCEPT !.kind = "update", !.name = n, !.values = v] :
        n \in Names, v \in BOOLEAN}

(* The index a call creates is named f"idx_{name}_{column}" (create_index) *)
(* or f"fts_idx_{name}_{column}" (create_fts_index): by the table's name   *)
(* when the index is created.  Index names share one namespace.            *)
IndexName(k, n, col) == <<k, n, col>>
IndexNames == {IndexName(k, n, col) : k \in IndexKinds, n \in Names, col \in Columns}

PCs == {"idle", "ct_check", "ct_drop", "ct_open", "ct_infer", "ct_create",
        "ct_create_exec", "add_clear", "add_read", "add_batch",
        "drop", "delete", "rename", "index", "update", "read"}

VARIABLES
    exists,   \* exists[n]: table n is in information_schema.tables
    rows,     \* rows[n]: bag of row tags of table n
    pc,       \* pc[c]: the statement client c issues next
    call,     \* call[c]: the client's current (or last) call
    batch,    \* batch[c]: the record batch HologresTable.add inserts next
    checks,   \* checks[c]: the table object of the call has list-typed
              \* vector fields in its schema, so _insert_batch validates them
    result,   \* result[c]: "pending", "ok" or an error of the last call
    before,   \* before[c]: the database when the call started (history)
    calls,    \* calls[c]: number of calls started
    creates,  \* creates[n]: exclusive creates of n that returned ok since n
              \* was last removed (history)
    indexes   \* indexes[x]: the table index x is on, None if x does not exist

db   == <<exists, rows, indexes>>
vars == <<exists, rows, indexes, pc, call, batch, checks, result, before, calls,
          creates>>

TypeOK ==
    /\ exists \in [Names -> BOOLEAN]
    /\ \A n \in Names : IsABag(rows[n]) /\ BagToSet(rows[n]) \subseteq Tags
    /\ pc \in [Clients -> PCs]
    /\ call \in [Clients -> Calls \cup {None}]
    /\ batch \in [Clients -> Batches]
    /\ checks \in [Clients -> BOOLEAN]
    /\ result \in [Clients -> Errors \cup {"ok", "pending", None}]
    /\ calls \in [Clients -> 0..MaxCalls]
    /\ creates \in [Names -> Nat]
    /\ indexes \in [IndexNames -> Names \cup {None}]

Init ==
    /\ exists = [n \in Names |-> FALSE]
    /\ rows = [n \in Names |-> EmptyBag]
    /\ pc = [c \in Clients |-> "idle"]
    /\ call = [c \in Clients |-> None]
    /\ batch = [c \in Clients |-> 1]
    /\ checks = [c \in Clients |-> TRUE]
    /\ result = [c \in Clients |-> None]
    /\ indexes = [x \in IndexNames |-> None]
    /\ before = [c \in Clients |-> [e |-> exists, r |-> rows, ix |-> indexes]]
    /\ calls = [c \in Clients |-> 0]
    /\ creates = [n \in Names |-> 0]

-----------------------------------------------------------------------------
(* Helpers                                                                 *)

(* create_table with mode="create" and exist_ok=False: the call the code   *)
(* guards with its AlreadyExists check.                                    *)
IsExclusiveCreate(op) ==
    op.kind = "create" /\ op.mode = "create" /\ ~op.existOk

(* The call returns r to its caller; an exclusive create that returns ok  *)
(* is counted against its table name.                                      *)
Return(c, r) ==
    /\ pc' = [pc EXCEPT ![c] = "idle"]
    /\ result' = [result EXCEPT ![c] = r]
    /\ creates' = IF r = "ok" /\ IsExclusiveCreate(call[c])
                  THEN [creates EXCEPT ![call[c].name] = @ + 1]
                  ELSE creates

Continue(c, l) ==
    /\ pc' = [pc EXCEPT ![c] = l]
    /\ UNCHANGED <<result, creates>>

(* Table n is removed: its rows and the indexes on it go, and the next     *)
(* exclusive create of n starts a new count.                               *)
Remove(n) ==
    /\ exists' = [exists EXCEPT ![n] = FALSE]
    /\ rows' = [rows EXCEPT ![n] = EmptyBag]
    /\ indexes' = [x \in IndexNames |-> IF indexes[x] = n THEN None ELSE indexes[x]]

Uncount(n) == creates' = [creates EXCEPT ![n] = 0]

(* create_table passes its data to table.add() without its on_bad_vectors: *)
(* the add runs with the default policy "error".                           *)
AddPolicy(op) == IF op.kind = "create" THEN "error" ELSE op.policy

(* What create_table does once the table exists: return it, or add data.   *)
AfterCreate(c) ==
    IF call[c].data = None
    THEN Return(c, "ok")
    ELSE Continue(c, "add_read")

-----------------------------------------------------------------------------
(* A client starts a call: a synchronous call on its own thread, or a call *)
(* with no keyword argument that an AsyncConnection/AsyncTable method      *)
(* hands to run_in_executor.                                               *)
StartCall(c) ==
    /\ pc[c] = "idle"
    /\ calls[c] < MaxCalls
    /\ \E op \in Calls :
        /\ call' = [call EXCEPT ![c] = op]
        /\ pc' = [pc EXCEPT ![c] =
                    CASE op.kind = "create" -> "ct_check"
                      [] op.kind = "add" /\ op.mode = "overwrite" -> "add_clear"
                      [] op.kind = "add" -> "add_read"
                      [] OTHER -> op.kind]
        /\ checks' = [checks EXCEPT ![c] = ~op.opened]
    /\ before' = [before EXCEPT ![c] = [e |-> exists, r |-> rows, ix |-> indexes]]
    /\ result' = [result EXCEPT ![c] = "pending"]
    /\ batch' = [batch EXCEPT ![c] = 1]
    /\ calls' = [calls EXCEPT ![c] = @ + 1]
    /\ UNCHANGED <<db, creates>>

(* A version of the check below with a plausible slip in the code: the    *)
(* overwrite branch forgets self.drop_table(name).                         *)
CtCheckNoDrop(c) ==
    LET op == call[c]
        ex == exists[op.name]
    IN /\ pc[c] = "ct_check"
       /\ \/ ex /\ op.mode = "create" /\ ~op.existOk
             /\ Return(c, "AlreadyExists")
          \/ ex /\ op.mode = "append" /\ Continue(c, "ct_open")
          \/ (~ex \/ op.mode = "overwrite" \/ (op.mode = "create" /\ op.existOk))
             /\ Continue(c, "ct_infer")
       /\ UNCHANGED <<db, call, batch, checks, before, calls>>

(* create_table reads table_names() and branches on the mode.              *)
CtCheck(c) ==
    LET op == call[c]
        ex == exists[op.name]
    IN /\ pc[c] = "ct_check"
       /\ \/ ex /\ op.mode = "create" /\ ~op.existOk
             /\ Return(c, "AlreadyExists")
          \/ ex /\ op.mode = "overwrite" /\ Continue(c, "ct_drop")
          \/ ex /\ op.mode = "append" /\ Continue(c, "ct_open")
          \/ (~ex \/ (op.mode = "create" /\ op.existOk))
             /\ Continue(c, "ct_infer")
       /\ UNCHANGED <<db, call, batch, checks, before, calls>>

(* mode="overwrite": self.drop_table(name) before anything else.           *)
CtDrop(c) ==
    /\ pc[c] = "ct_drop"
    /\ Remove(call[c].name)
    /\ pc' = [pc EXCEPT ![c] = "ct_infer"]
    /\ Uncount(call[c].name)
    /\ UNCHANGED result
    /\ UNCHANGED <<call, batch, checks, before, calls>>

(* mode="append" on an existing table: open_table(name) reads             *)
(* table_names() again, then table.add(data) appends through the table     *)
(* object open_table built, which validates no vector.                     *)
CtOpen(c) ==
    LET op == call[c] IN
    /\ pc[c] = "ct_open"
    /\ IF ~exists[op.name]
       THEN Return(c, "NotFound") /\ UNCHANGED checks
       ELSE AfterCreate(c) /\ checks' = [checks EXCEPT ![c] = FALSE]
    /\ UNCHANGED <<db, call, batch, before, calls>>

(* A version of the step below with a plausible slip in the code: an       *)
(* unsupported data argument is reported as a missing schema.              *)
CtInferOneError(c) ==
    LET op == call[c] IN
    /\ pc[c] = "ct_infer"
    /\ \/ (op.schema \/ op.data \in Datasets) /\ Continue(c, "ct_create")
       \/ ~op.schema /\ op.data \notin Datasets /\ Return(c, "ConfigError")
    /\ UNCHANGED <<db, call, batch, checks, before, calls>>

(* The schema argument, or infer_schema_from_data(data).                   *)
CtInfer(c) ==
    LET op == call[c] IN
    /\ pc[c] = "ct_infer"
    /\ \/ (op.schema \/ op.data \in Datasets) /\ Continue(c, "ct_create")
       \/ ~op.schema /\ op.data = None /\ Return(c, "ConfigError")
       \/ ~op.schema /\ op.data = Unsupported /\ Return(c, "SchemaError")
    /\ UNCHANGED <<db, call, batch, checks, before, calls>>

(* table._create_table(): metadata.create_all() first asks whether the     *)
(* table exists and skips it if so ...                                     *)
CtCreate(c) ==
    /\ pc[c] = "ct_create"
    /\ IF exists[call[c].name]
       THEN AfterCreate(c)
       ELSE Continue(c, "ct_create_exec")
    /\ UNCHANGED <<db, call, batch, checks, before, calls>>

(* ... and then issues CREATE TABLE, which fails if the table appeared     *)
(* since the check.                                                        *)
CtCreateExec(c) ==
    LET n == call[c].name IN
    /\ pc[c] = "ct_create_exec"
    /\ IF exists[n]
       THEN Return(c, "BackendError") /\ UNCHANGED db
       ELSE /\ exists' = [exists EXCEPT ![n] = TRUE]
            /\ rows' = [rows EXCEPT ![n] = EmptyBag]
            /\ UNCHANGED indexes
            /\ AfterCreate(c)
    /\ UNCHANGED <<call, batch, checks, before, calls>>

(* HologresTable.add, mode="overwrite": DELETE FROM the table first.       *)
AddClear(c) ==
    LET n == call[c].name IN
    /\ pc[c] = "add_clear"
    /\ IF exists[n]
       THEN /\ rows' = [rows EXCEPT ![n] = EmptyBag]
            /\ Continue(c, "add_read")
       ELSE Return(c, "BackendError") /\ UNCHANGED rows
    /\ UNCHANGED <<exists, indexes, call, batch, checks, before, calls>>

(* _into_pyarrow_reader(data): a RecordBatchReader, or ValueError.         *)
AddRead(c) ==
    /\ pc[c] = "add_read"
    /\ IF call[c].data \in Datasets
       THEN Continue(c, "add_batch")
       ELSE Return(c, "ConversionError")
    /\ UNCHANGED <<db, call, batch, checks, before, calls>>

(* A version of the step below with a plausible slip in the code: the      *)
(* batch loop runs one batch past the last.                                *)
AddBatchOffByOne(c) ==
    LET op == call[c]
        b  == batch[c]
    IN /\ pc[c] = "add_batch"
       /\ \/ /\ Rejects(AddPolicy(op)) /\ checks[c] /\ op.data.bad = b
             /\ Return(c, "ValidationError")
             /\ UNCHANGED <<db, batch>>
          \/ /\ ~Rejects(AddPolicy(op)) \/ ~checks[c] \/ op.data.bad # b
             /\ exists' = [exists EXCEPT ![op.name] = TRUE]
             /\ rows' = [rows EXCEPT ![op.name] =
                            @ (+) SetToBag({<<op.data.id, b>>})]
             /\ IF b = NumBatches + 1
                THEN Return(c, "ok") /\ UNCHANGED batch
                ELSE /\ batch' = [batch EXCEPT ![c] = b + 1]
                     /\ UNCHANGED <<pc, result, creates>>
       /\ UNCHANGED <<indexes, call, checks, before, calls>>

(* _insert_batch for the next batch: a bad vector in a field the table     *)
(* object validates raises under a rejecting policy; otherwise             *)
(* df.to_sql(if_exists="append") inserts the batch and creates the table   *)
(* first if it does not exist.                                             *)
AddBatch(c) ==
    LET op == call[c]
        b  == batch[c]
    IN /\ pc[c] = "add_batch"
       /\ \/ /\ Rejects(AddPolicy(op)) /\ checks[c] /\ op.data.bad = b
             /\ Return(c, "ValidationError")
             /\ UNCHANGED <<db, batch>>
          \/ /\ ~Rejects(AddPolicy(op)) \/ ~checks[c] \/ op.data.bad # b
             /\ exists' = [exists EXCEPT ![op.name] = TRUE]
             /\ rows' = [rows EXCEPT ![op.name] =
                            @ (+) SetToBag({<<op.data.id, b>>})]
             /\ IF b = NumBatches
                THEN Return(c, "ok") /\ UNCHANGED batch
                ELSE /\ batch' = [batch EXCEPT ![c] = b + 1]
                     /\ UNCHANGED <<pc, result, creates>>
       /\ UNCHANGED <<indexes, call, checks, before, calls>>

(* drop_table: DROP TABLE IF EXISTS.                                       *)
DropTable(c) ==
    /\ pc[c] = "drop"
    /\ Remove(call[c].name)
    /\ pc' = [pc EXCEPT ![c] = "idle"]
    /\ result' = [result EXCEPT ![c] = "ok"]
    /\ Uncount(call[c].name)
    /\ UNCHANGED <<call, batch, checks, before, calls>>

(* HologresTable.delete: DELETE FROM name WHERE <rows of payload id>.      *)
Delete(c) ==
    LET op == call[c]
        kept == {t \in BagToSet(rows[op.name]) : t[1] # op.id}
    IN /\ pc[c] = "delete"
       /\ IF exists[op.name]
          THEN /\ rows' = [rows EXCEPT ![op.name] =
                              [t \in kept |-> rows[op.name][t]]]
               /\ Return(c, "ok")
          ELSE Return(c, "BackendError") /\ UNCHANGED rows
       /\ UNCHANGED <<exists, indexes, call, batch, checks, before, calls>>

(* rename_table: ALTER TABLE old RENAME TO new.  The table keeps its       *)
(* indexes, and they keep the names made from the old table name.         *)
RenameTable(c) ==
    LET op == call[c] IN
    /\ pc[c] = "rename"
    /\ IF exists[op.name] /\ ~exists[op.to]
       THEN /\ exists' = [exists EXCEPT ![op.name] = FALSE, ![op.to] = TRUE]
            /\ rows' = [rows EXCEPT ![op.name] = EmptyBag,
                                    ![op.to] = rows[op.name]]
            /\ indexes' = [x \in IndexNames |->
                             IF indexes[x] = op.name THEN op.to ELSE indexes[x]]
            /\ pc' = [pc EXCEPT ![c] = "idle"]
            /\ result' = [result EXCEPT ![c] = "ok"]
            /\ Uncount(op.name)
       ELSE Return(c, "BackendError") /\ UNCHANGED db
    /\ UNCHANGED <<call, batch, checks, before, calls>>

(* create_index / create_fts_index: on one connection, DROP INDEX IF      *)
(* EXISTS when replace, then CREATE INDEX, then commit().  CREATE fails if  *)
(* the table is missing or the name is taken; the connection then closes   *)
(* without commit and the DROP is rolled back with it.                     *)
CreateIndex(c) ==
    LET op    == call[c]
        x     == IndexName(op.mode, op.name, op.col)
        after == IF op.replace THEN [indexes EXCEPT ![x] = None] ELSE indexes
    IN /\ pc[c] = "index"
       /\ IF exists[op.name] /\ after[x] = None
          THEN /\ indexes' = [after EXCEPT ![x] = op.name]
               /\ Return(c, "ok")
          ELSE Return(c, "BackendError") /\ UNCHANGED indexes
       /\ UNCHANGED <<exists, rows, call, batch, checks, before, calls>>

(* update(where, values, values_sql): ValueError when neither is given     *)
(* (op.values says whether one is); otherwise one UPDATE ... SET, which  *)
(* changes column values but not which rows the table holds.               *)
Update(c) ==
    LET op == call[c] IN
    /\ pc[c] = "update"
    /\ CASE ~op.values -> Return(c, "ConfigError")
         [] exists[op.name] -> Return(c, "ok")
         [] OTHER -> Return(c, "BackendError")
    /\ UNCHANGED <<db, call, batch, checks, before, calls>>

(* count_rows, to_pandas, to_arrow (and __len__): one SELECT.              *)
Read(c) ==
    /\ pc[c] = "read"
    /\ Return(c, IF exists[call[c].name] THEN "ok" ELSE "BackendError")
    /\ UNCHANGED <<db, call, batch, checks, before, calls>>

Next ==
    \E c \in Clients :
        \/ StartCall(c)
        \/ CtCheck(c) \/ CtDrop(c) \/ CtOpen(c) \/ CtInfer(c)
        \/ CtCreate(c) \/ CtCreateExec(c)
        \/ AddClear(c) \/ AddRead(c) \/ AddBatch(c)
        \/ DropTable(c) \/ Delete(c) \/ RenameTable(c)
        \/ CreateIndex(c) \/ Update(c) \/ Read(c)

Spec == Init /\ [][Next]_vars


-----------------------------------------------------------------------------
(* Properties                                                              *)

Returned(c) == pc[c] = "idle" /\ call[c] # None

(* The rows of payload d's batches in bag r.                               *)
RowsOf(r, d) == [t \in {u \in BagToSet(r) : u[1] = d} |-> r[t]]

IndexesOn(ix, m) == {x \in IndexNames : ix[x] = m}

(* The state of the database a call leaves behind when it returns ok, as   *)
(* spec.md 4.2-4.3 and 8.4 describe the modes: the tables the call names   *)
(* have their promised rows and indexes, other tables their rows.  What an *)
(* index call does to the indexes of other tables is the question of       *)
(* IndexesFollowTheirTable.                                                *)
Post(op, b) ==
    LET n       == op.name
        old     == b.r[n]
        touched == IF op.kind = "rename" THEN {n, op.to} ELSE {n}
    IN /\ \A m \in Names \ touched : exists[m] = b.e[m] /\ rows[m] = b.r[m]
       /\ CASE op.kind = "create" ->
               /\ exists[n]
               /\ rows[n] = IF b.e[n] /\ op.mode \in {"append", "create"}
                            THEN old (+) NewRows(op.data)
                            ELSE NewRows(op.data)
         [] op.kind = "add" ->
               /\ exists[n]
               /\ rows[n] = IF op.mode = "overwrite"
                            THEN NewRows(op.data)
                            ELSE old (+) NewRows(op.data)
         [] op.kind = "drop" -> ~exists[n]
         [] op.kind = "delete" ->
               /\ exists[n]
               /\ rows[n] = old (-) RowsOf(old, op.id)
         [] op.kind = "rename" ->
               /\ ~exists[n] /\ exists[op.to] /\ rows[op.to] = old
               /\ IndexesOn(indexes, op.to) = IndexesOn(b.ix, n)
         [] op.kind = "index" ->
               /\ exists[n] /\ indexes[IndexName(op.mode, n, op.col)] = n
               /\ IndexesOn(b.ix, n) \subseteq IndexesOn(indexes, n)
         [] op.kind \in {"update", "read"} -> exists[n] /\ rows[n] = old

(* Every call that returns ok has done what its mode promises: a           *)
(* create_table in "overwrite" mode leaves only the new rows, in "append"  *)
(* mode the old rows and the new, add(mode=...) likewise, drop removes,    *)
(* rename moves rows and indexes, create_index adds its index and keeps    *)
(* the table's others.  Checked with one caller, where nothing else runs   *)
(* during the several statements of create_table and add.                  *)
CallPostcondition ==
    \A c \in Clients : Returned(c) /\ result[c] = "ok" => Post(call[c], before[c])

(* spec.md 7: argument and schema errors are raised before any statement   *)
(* reaches the database, so a call that fails with one leaves the database *)
(* as it found it.  db.py create_table drops the table for mode="overwrite" *)
(* before it checks for a schema; table.py add deletes all rows for        *)
(* mode="overwrite" before it converts the data.                           *)
ValidationFailsFast ==
    \A c \in Clients :
        Returned(c) /\ result[c] \in {"ConfigError", "SchemaError", "ConversionError"}
            => exists = before[c].e /\ rows = before[c].r

(* spec.md 8.3: with on_bad_vectors="error" a bad vector rejects the whole *)
(* input: no row of it is inserted.  HologresTable.add commits each record *)
(* batch before it validates the next one.                                 *)
BadVectorRejectsAll ==
    \A c \in Clients :
        Returned(c) /\ result[c] = "ValidationError"
            => RowsOf(rows[call[c].name], call[c].data.id)
                 = RowsOf(before[c].r[call[c].name], call[c].data.id)

(* spec.md 8.4: create_table(mode="create") on a name that exists fails    *)
(* with AlreadyExists, so between two removals of a table at most one      *)
(* exclusive create of its name returns ok.  The existence check in        *)
(* create_table and the one in metadata.create_all are each separate from  *)
(* the statement that acts on them.                                        *)
CreateIsExclusive ==
    \A n \in Names : creates[n] <= 1

(* An index belongs to its table: a step that drops an index, or moves it  *)
(* to another table, is taken by a call on the table the index is on       *)
(* (drop_table, rename_table, create_table(mode="overwrite"), or an index  *)
(* call of that table).  create_index and create_fts_index name the index  *)
(* after the table name they were called with, and rename_table keeps the  *)
(* name, so an index call with replace=True on a reused table name drops   *)
(* the index of the renamed table.                                         *)
IndexesFollowTheirTable ==
    [][\A x \in IndexNames :
          indexes[x] # None /\ indexes'[x] # indexes[x]
              => \E c \in Clients : pc[c] # "idle" /\ call[c].name = indexes[x]
      ]_indexes

-----------------------------------------------------------------------------
(* Refinement: with one caller, LocalConnection implements TableStore.     *)
(* While a call runs, the store the caller sees is the database as the     *)
(* call found it (before); when the call returns, it is the database.      *)
(* Each statement of a call is then a stuttering step of TableStore, and   *)
(* the step that returns is the call's Finish.                            *)
Caller == CHOOSE c \in Clients : TRUE

Seen == IF pc[Caller] = "idle"
        THEN [e |-> exists, r |-> rows, ix |-> indexes]
        ELSE before[Caller]

Store == INSTANCE TableStore WITH
    tables  <- Seen.e,
    content <- Seen.r,
    op      <- call[Caller],
    answer  <- result[Caller]

(* One caller's calls each take effect as TableStore says: an ok call has  *)
(* its kind's and mode's effect on the rows of the tables it names and     *)
(* leaves every other table as it was, each error has its cause in the    *)
(* state the call started from, and a failed create_table or add touches  *)
(* only its own table, within the old rows and its own data.  This is     *)
(* what db.py and table.py deliver of spec.md 7 (which they break for      *)
(* argument errors: see ValidationFailsFast).                              *)
RefinesTableStore == Store!Spec

=============================================================================
