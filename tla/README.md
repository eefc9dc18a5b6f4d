# TLA+ models of pyhologres

This directory holds TLA+ models of the Python client `pyhologres`
(`src/python/pyhologres/python/pyhologres/`). It also holds the TLC
configurations that check the models. Each model is written from the source;
each `map` entry in `PROJECT.json` names the lines that a definition translates.

## 1. The system

pyhologres is a client library. The storage engine lives elsewhere: either a
Hologres/PostgreSQL database reached over SQL, or a cloud service reached over
HTTP. The client's own state is small. What makes it hard is the order in
which it sends statements and requests, and what happens to that order when
calls run concurrently or fail part way.

| Part | Source | State | Operations |
|------|--------|-------|------------|
| SQL connection | `db.py` `HologresDBConnection` | a SQLAlchemy engine; the database's tables | `table_names`, `create_table` (modes create/overwrite/append, `exist_ok`), `open_table`, `drop_table`, `rename_table` |
| SQL table | `table.py` `HologresTable` | name, schema, engine; the table's rows in the database | `_create_table`, `add` (overwrite DELETE, `_into_pyarrow_reader`, `_insert_batch` per record batch), `delete`, `update`, `create_index`, `create_fts_index`, `count_rows`, `search` |
| Async facade | `db.py` `AsyncConnection`, `table.py` `AsyncTable`, `query.py` `AsyncQuery` | none | every method runs the synchronous one with `run_in_executor(None, ...)`, with no lock; a keyword argument makes it raise TypeError |
| Query builder | `query.py` `HologresQuery` | limit, offset, where list, select list, order_by, query vector and column | `limit`, `offset`, `where`, `select`, `metric`, `nprobes`, `refine_factor` (each `_copy()`s), `_build_sql`, `to_pandas` |
| HTTP client | `remote/client.py` `HologresCloudClient` | `requests.Session`, a lazily created `aiohttp.ClientSession`, `ClientConfig` | `_make_request` and `_make_async_request` (retry loops), endpoint methods (`list_tables`, `create_table`, `insert_data`, `query_data`, `drop_table`, `create_index`), `close` |
| Remote connection and table | `remote/db.py`, `remote/table.py` | a client; a thread pool that is never used | the connection/table API mapped onto the HTTP endpoints |
| Schema helpers | `schema.py` | none | `validate_vector_data`, `infer_schema_from_data`, the type maps |
| Embeddings | `embeddings/base.py` | a registry dict | `compute_*_embeddings_with_retry` (retry loops), validation, normalisation |
| URIs and `connect` | `common.py`, `__init__.py` | none | parsing and dispatch |

How the parts interact:

* A connection creates tables. A table creates queries.
* Local tables share the connection's engine. Every statement runs on its own
  `engine.connect()` and is committed on its own, so a call that issues
  several statements is not atomic.
* The async facade runs each call on a worker thread of the default
  executor. Calls from several coroutines therefore interleave statement by
  statement against one database, as do several threads sharing one
  connection. The facade passes keyword arguments to `run_in_executor`,
  which accepts none, so only its calls with default keywords get through
  (db.py:418).
* Remote objects send every operation through `_make_request`. That method
  retries any `RequestException`, whatever the HTTP verb.

## 2. Hazards: what tests hardly reach

`PROJECT.json` lists each hazard at its line. The main ones are:

* **Check-then-act.** `create_table` reads `table_names()` and acts on the
  answer later (db.py:299). `metadata.create_all` checks again and silently
  skips a table that exists (table.py:368).
* **Partial failure.**
  * `create_table(mode="overwrite")` drops the table before it knows whether
    the call can succeed (db.py:305).
  * `add(mode="overwrite")` deletes the rows before it converts the data
    (table.py:390).
  * `add` commits record batch by record batch (table.py:398).
* **Retries.**
  * The retry loop resends POSTs that the server may already have applied.
  * The async loop does not retry timeouts and crashes with `NameError` on
    its first backoff.
  * A negative `max_retries` returns `None`.
* **Index names outlive renames.** `create_index` names an index after the
  table name it was called with (table.py:467). `rename_table` keeps the
  name, and index names share one namespace. A later table of the old name
  collides with it.
* **Positions used as labels.** Under `on_bad_vectors="drop"`,
  `_insert_batch` drops a rejected row with `df.drop(index=i)`, where i is the
  row's position as the column's loop started (table.py:424). After a first
  vector column has dropped rows, positions and labels disagree. A later
  column then raises KeyError, or drops a good row and hands its vector to
  another row. Only `pa.types.is_list` fields are checked at all, which
  excludes `pyhologres.vector(dim)` (table.py:412). The validator is called
  without a dimension and never looks at the values (table.py:417).
* **Numeric edges in the query builder.** `limit(0)` means no limit. A where
  condition that contains OR is joined without parentheses.
* **Handles and resources.** `HologresTable` caches its name and schema
  when it is opened (table.py:294). A handle kept across `rename_table`, or
  across a drop and a new create, writes to the old name and checks vectors
  against the old schema. `HologresDBConnection` has no `close()`, so its
  engine pool is never disposed (db.py:241, against spec.md 67).
  `table_names(limit=0)` returns every table, because of `if limit:`
  (db.py:267, remote/db.py:135).

## 3. Modules

### LocalConnection (with MCLocalConnection)

This module models `HologresDBConnection` and `HologresTable` driven by a set
of `Clients`. Each client is a thread calling the synchronous API on one
shared connection. An async call with default keyword arguments is one of
their calls; an async call with a keyword raises TypeError before it reaches
the connection.

State:

* `exists[n]` and `rows[n]`: the database. Rows are a bag of tags `<<d, b>>`,
  meaning "the rows of record batch b of input d".
* `indexes[x]`: the table that index x is on, or None. An index name is
  `<<kind, table name, column>>`, the parts of `idx_{name}_{column}` and
  `fts_idx_{name}_{column}`. `DROP TABLE` removes a table's indexes;
  `ALTER TABLE ... RENAME` moves them but keeps their names.
* `pc[c]`: the next statement client c issues.
* `call[c]` and `batch[c]`: the client's call and its batch loop counter.
* `checks[c]`: whether the call's table object validates vectors. A table
  object from `open_table` does not: `open_table` reads `data_type` from
  `information_schema.columns`, which is `ARRAY` for a `real[]` column, and
  maps it to `pa.string()` (db.py:365-370). An add call says which table
  object it uses (`opened`), and the append branch of `create_table` goes
  through `open_table`.
* `result[c]`: what the call returned.
* History variables:
  * `before[c]`: the database when the call started.
  * `calls[c]`: how many calls the client has made.
  * `creates[n]`: exclusive creates of n that returned ok since n was last
    removed.

Each SQL statement is one action:

| Action | Statement |
|--------|-----------|
| `CtCheck` | `table_names()` and the mode branches |
| `CtDrop` | the overwrite drop |
| `CtOpen` | `open_table` |
| `CtInfer` | the schema check |
| `CtCreate` | create_all's existence check |
| `CtCreateExec` | CREATE TABLE |
| `AddClear` | DELETE FROM |
| `AddRead` | `_into_pyarrow_reader` |
| `AddBatch` | one `_insert_batch` with its `to_sql` |
| `DropTable` | `drop_table` |
| `Delete` | `delete` |
| `RenameTable` | `rename_table` |
| `CreateIndex` | `create_index` / `create_fts_index`: DROP INDEX IF EXISTS when `replace`, CREATE INDEX, one commit (a failed CREATE rolls back the DROP) |
| `Update` | `update`: ValueError with no values, else one UPDATE |
| `Read` | `count_rows`, `__len__`, `to_pandas`, `to_arrow`: one SELECT |

A data argument is `None`, an unsupported object, or a payload of
`NumBatches` record batches. One of those batches may hold a vector that
`validate_vector_data` rejects. Of the `on_bad_vectors` values,
`Rejects(p)` holds for "error" and any unknown value (both raise
ValueError on a rejected vector); "drop" and "fill" insert the batch, since
rows are tags per batch. The configs use one of each kind (`MCPolicies`).

Properties:

* `CallPostcondition`: what each mode promises (spec.md 4.2, 4.3, 8.4) to
  the tables the call names, rows and indexes, and that other tables keep
  their rows. It does not say that other tables keep their indexes: index
  names share one namespace, and `IndexesFollowTheirTable` shows an index
  call on a reused name dropping another table's index.
* `ValidationFailsFast`: spec.md 7.
* `BadVectorRejectsAll`: spec.md 8.3.
* `CreateIsExclusive`: spec.md 8.4 under concurrency.
* `IndexesFollowTheirTable` (an action property): a step that drops an
  index, or moves it to another table, belongs to a call on the table the
  index is on. spec.md 3 attaches an index to its table.

### TableStore: the abstract store, refined by LocalConnection

`TableStore` states what a connection and its tables promise one caller.
It is written from spec.md 3, 4.2, 4.3, 7 and 8.4, weakened where db.py and
table.py deliberately do less. The store is a set of named tables, each
with a bag of rows. Indexes are not part of it: because their names are
global, what an index call does to other tables is the question of
`IndexesFollowTheirTable`, which fails (local_index_after_rename). A call is
two steps:

* `Begin`: the caller picks a call.
* `Finish`: the call takes effect and returns.
  * A call that returns ok has its kind's and mode's effect (`OkEffect`).
  * An error is returned only when its cause held when the call started
    (`Cause`). Examples: AlreadyExists only for an exclusive create of an
    existing table; ValidationError only for data with a bad vector.
  * AlreadyExists, NotFound and BackendError leave the store as it was, as
    does any failure of a call that writes no data.
  * A failed `create_table` or `add` may have changed its own table, but only
    to at most the old rows plus its own data (`Partial`). This is weaker than spec.md 7, which the code breaks
    (`ValidationFailsFast`).
  * Other tables never change.

`LocalConnection` with one caller implements it (`RefinesTableStore`,
checked in `local_sequential`). The refinement mapping (`Seen`, `Store`) works
as follows:

* While a call runs, the abstract store is `before`, the database as the call
  found it. When the call returns, it is the database.
* Each SQL statement inside a call is therefore a stuttering step. The
  statement that returns is `Finish`.
* That `rename_table` carries the indexes with it is checked by
  `CallPostcondition`.

The run allows three calls. The refinement and `CallPostcondition` also hold
with four calls (2,442,019 distinct states, about seven minutes, longer than
a run may take), and for the five calls of `local_index_after_rename`.

### HttpRetry (with MCHttpRetry)

This module models one call of one of three retry loops:

* `_make_request` ("sync"),
* `_make_async_request` ("async"),
* `compute_*_embeddings_with_retry` ("embed").

Each attempt ends in an outcome. The outcome records whether the server
applied the request and what the client saw: a JSON 2xx, an error (a
connection error, a non-2xx status, or a body that does not decode), or a
timeout. The loops differ in which of these they catch. `max_retries` is
chosen in `Init` from `RetryConfigs`, since any integer is a valid
`ClientConfig`.

History variables:

* `log`: the attempts.
* `delays`: the sleeps, in units of `retry_delay`.
* `applied`: how many times the server acted.

Properties:

* `BackoffSchedule`: spec.md 5 and 8.5.
* `GivesUpOnlyWhenExhausted`: spec.md 7 and 8.5.

Because of `LostResponses`, the network in a run can be reliable or lossy.
With `LostResponses = FALSE`, a failed attempt is one the server never
applied. With `TRUE`, the server may also have applied a failed attempt: its
response was lost, or a 5xx came after the commit. The HttpRetry runs use `TRUE`.

### QueryBuilder (with MCQueryBuilder)

This module models `HologresQuery` (query.py) as a heap of query objects `q`
and of Python lists `lists`. Sharing a where list between two objects is
therefore visible. `table.search()` is `Search`. Each refinement (`limit`,
`offset`, `where`, `select`, and `metric`/`nprobes`/`refine_factor` as `Tune`)
`_copy()`s its receiver into a new object, as `Copy` does. `view[i]` is a
history variable that holds the value spec.md 4.1 gives object i: its
parent's value with one field changed.

`ToPandas` lowers an object with `_build_sql` (`BuildSql`), including its
write to `self._order_by`. It then evaluates the SQL over three rows that have
distances from the query vector:

* A where condition is a sequence of atoms joined by OR.
* `Lower` reads the `" AND ".join` of the conditions with SQL's precedence,
  as an OR of AND groups.

Properties:

* `ChainIsolation`: spec.md 8.1.
* `ResultRowsMatchQuery`: spec.md 4.1 and 8.6. The rows are those that satisfy
  every condition, ascending by distance for a vector search, and cut by the
  offset and limit windows.

### RemoteConnection (with MCRemoteConnection)

This module models `RemoteDBConnection` (remote/db.py) and `RemoteTable`
(remote/table.py) for one synchronous caller. Every endpoint method sends its
request through `_make_request`. The module therefore composes HttpRetry's
"sync" loop by `R == INSTANCE HttpRetry`:

* `Attempt` is `R!SyncAttempt` together with the server's side of the outcome
  (`Serve`).
* `Backoff` is `R!Backoff`.

The server is not code of this repository. It is the environment, and it is
assumed to follow REST conventions:

* `list_tables` always answers.
* `create_table` gets 409 on a name in use.
* `get_table`, `insert_data` and `drop_table` get 404 on a missing table.

A rejected request is never applied and never seen as a success.

Caller steps (`pc`):

* `CtList`: the mode branch after `table_names()`.
* `CtDrop`: the overwrite DELETE has answered.
* `CtOpen`: the append branch's `open_table` has answered.
* `CtPost`: the create POST has answered.
* `AddRead`: `_into_pyarrow_reader`.
* `AddPost`: one `insert_data` POST per record batch. The call's `mode` is
  never sent.
* `DropTable`, `OpenTable`, `RenameTable`: the other calls
  (`rename_table` raises `NotImplementedError`).
* `CreateIndex`: `create_index` or `create_fts_index`, one retried POST to
  `.../indexes`. The server's index store is not modelled: the server is
  outside this repository and spec.md 4.2 calls the request fire-and-forget.
* `ReadTable`, `UpdateRows`, `DeleteRows`: `count_rows`, `to_arrow` (and
  `to_pandas`, `to_polars`), `update` and `delete`. Each calls
  `self._client.query_table`, which `HologresCloudClient` does not define, so
  it raises AttributeError before any request. `update` first raises
  ValueError when it is given no values.
* `ListIndices`: the missing `_client.list_indices` raises inside
  `except Exception`, and `list_indices` returns `[]`.
* `Search`: `search` builds `HologresQuery(table=self, ...)`, but
  `HologresQuery.__init__` takes `engine`, `table_name` and `schema`. Every
  remote search therefore raises TypeError before any request.
* `Maintain`: `cleanup_old_versions` and `compact_files` send no request and
  return fixed statistics.

Properties:

* `OkCallsAtLeastOnce`: an ok call has done what its mode promises, except
  that a batch whose `insert_data` was resent may appear more than once.
  spec.md 5 allows those duplicates: callers of non-idempotent mutations
  "may observe duplicate side effects on retry".
* `CallsReturn` (liveness, under `FairSpec`): every call that starts
  eventually returns or raises, on a network that may lose any response.

### InsertBatch (with MCInsertBatch)

This module models `HologresTable._insert_batch` (table.py:400-442) as an
operator. It computes what one record batch inserts, or which exception it
raises, under each `on_bad_vectors` value.

* A batch is a function from rows to the kind of each vector cell: `"ok"` (a
  1-D vector, which `validate_vector_data` accepts as it is called, without
  a dimension) or `"null"` (None, which it rejects).
* `ToPandas` numbers the rows with labels 0..n-1. Each cell remembers the row
  it came from, so a vector that lands on another row is visible.
* `VisitCell` is one iteration of `for i, vec in enumerate(df[field.name])`,
  over the column as it was when that field's loop started. It holds the
  error, drop (`df.drop(index=i)`, KeyError on a missing label), fill and
  unknown-policy branches.
* `ColumnPass` folds `VisitCell` over a column with `FoldLeft`, then assigns
  the kept vectors back by position (`df[field.name] = vectors`). It raises
  ValueError when the lengths differ.
* `Columns` (RECURSIVE) runs the passes in schema order. `Insert` returns the
  exception or the rows `to_sql` inserts.

The state is the call's input and its result: `InsertCall` is the single
call that `add` makes per record batch.

Property:

* `DropRemovesOnlyBadRows`: with `"drop"`, the rows inserted are exactly the
  batch's rows whose vectors all validate, each with its own vectors. The
  reference `DropReference` filters the rows directly (spec.md 4.2, 8.3).

## 4. Runs

| Run | Config | Expect | What it shows |
|-----|--------|--------|---------------|
| query_sequential | QuerySequential.cfg | pass | Branching chains of up to four query objects keep their own where lists. `to_pandas` returns the rows, order and window of the query's value, for non-zero limits and single-atom conditions. |
| query_where_or | Query_WhereOr.cfg | violation | `where("a OR b").where("b")` returns rows where only a holds. |
| local_sequential | LocalSequential.cfg | pass | With one caller (2 tables, 2 payloads of 2 batches, 3 calls), every call that returns ok leaves exactly the rows its mode promises, and leaves other tables' rows untouched. It also leaves the named tables with their promised indexes. The connection refines TableStore, the store of tables and rows: every error has its cause in the start state, and a failed call stays within its own table and data. |
| local_validation_fails_fast | Local_ValidationFailsFast.cfg | violation | A call can fail with ConfigError, SchemaError or ConversionError after it has dropped, created or emptied a table. |
| local_bad_vector_rejects_all | Local_BadVectorRejectsAll.cfg | violation | `add` raises ValidationError on batch 2 after batch 1 was committed. |
| local_create_is_exclusive | Local_CreateIsExclusive.cfg | violation | Two async `create_table(mode="create")` calls on one name both return ok. |
| retry_all_variants | RetryAllVariants.cfg | pass | For max_retries 0..3, the sync and embed loops sleep 1, 2, 4 units before retries 1, 2, 3 and never after the last attempt. The async loop never sleeps: it raises NameError at its first backoff. |
| retry_gives_up | RetryGivesUp.cfg | pass | The sync and embed loops raise only after max_retries + 1 failed attempts (max_retries -1..3). |
| remote_lossy | RemoteLossy.cfg | pass | On a lossy network (2 tables, 2 payloads of 2 batches, 2 calls, max_retries 1), every remote call that returns ok leaves the promised tables and rows, up to resent batches. Under weak fairness every call returns (`CallsReturn`). |
| remote_add_overwrite | Remote_AddOverwrite.cfg | violation | On a network that loses nothing, `create_table` with data followed by `add(mode="overwrite")` returns ok with the old rows kept: `RemoteTable.add` never sends its mode (`OkCallsAtLeastOnce`, with `AddModes <- MCOverwrite`). |
| local_index_after_rename | Local_IndexAfterRename.cfg | violation | After `create_table(t1)`, `create_index(t1, c)`, `rename_table(t1, t2)` and a new `create_table(t1)`, `create_index(t1, c, replace=True)` drops the index that moved to t2 (`IndexesFollowTheirTable`). The config restricts the calls to those four kinds (`MCIndexCalls`) and allows five. |
| insert_drop_two_columns | InsertBatch_DropTwoColumns.cfg | violation | Three rows, two vector columns, every policy and every pattern of None cells. With `"drop"`, row 1 bad in the first column and row 2 in the second, `_insert_batch` raises KeyError; other patterns insert a bad row with a good row's vector. |

Each violation run has a finding in `PROJECT.json`.

Each property of a passing run has a mutant: a version of one action with a
plausible slip, defined beside the action. TLC must find the property violated
when that version replaces the action:

* `CtCheckNoDrop`: forgets the overwrite drop.
* `CtInferOneError`: reports an unsupported data argument as a missing
  schema (ConfigError). Only `RefinesTableStore` sees it.
* `AddBatchOffByOne`: runs one batch too many.
* `SyncAttemptOffByOne`: uses `<=` in the retry test.
* `SyncAttemptNarrowCatch`: catches only connection errors.
* `BackoffLinear`: grows the backoff linearly.
* `CopyNoEmptyList`, `CopyShared`: `_copy` leaves an empty where list as
  None, or shares the list.
* `BuildSqlNoOrder`: forgets the distance order.
* `AddPostOffByOne`, `AddPostStopsEarly`: the remote batch loop runs one
  batch too many, or stops one batch early.
* `CtPostRetries`: after the create POST has been answered, reissues it
  instead of going on; `CallsReturn` fails.

These divergences were found while modelling. Each one takes a single call
to reach, in a model that the runs above already check, so none has a run of
its own. `PROJECT.json` lists each one as a hazard, with how to reproduce it:

* `limit(0)` means no limit (query.py:437).
* A query vector without a column is not an error (query.py:399).
* `_distance` is added to any projection (query.py:405).
* `metric`/`nprobes`/`refine_factor` are not copied (query.py:374).
* `create_table` drops its `on_bad_vectors` (db.py:333).
* A negative `max_retries` returns None (remote/client.py:125).
* `exist_ok=True` on an existing remote table meets a 409 (remote/db.py:258).
* A table object from `open_table` validates no vector (db.py:365-370).
  LocalConnection models it (`checks`), and no property fails on it.
* The async facade's keyword arguments raise TypeError (db.py:418).
* The async retry loop does not retry a timeout (remote/client.py:187), and
  its first backoff raises NameError because `asyncio` is not imported
  (remote/client.py:193). With `Variants <- MCAsync` and
  `RetryConfigs <- MCRetryConfigs` in RetryGivesUp.cfg, TLC reports
  `GivesUpOnlyWhenExhausted` violated after one attempt.
* Remote `count_rows`, `to_arrow`, `update` and `delete` always raise
  AttributeError (remote/table.py:80), although spec.md 4.2 lists them for
  both backends. This is visible in the modelled actions, and no ok result
  exists for a property to check.

## 5. Bounds and why they suffice

* **LocalConnection.** It uses two table names, so that drop, rename and
  "other tables untouched" mean something. It uses two payloads, so that an
  append is distinguishable from an overwrite. Each payload has two record
  batches, the least for a commit that precedes a failure. Three calls per
  client are enough for create, then add or create again, then a third call on
  the result. One column is enough for index names to collide. The
  index-after-rename trace needs five calls, so its run restricts the calls
  to the four that take part. The exclusive-create race needs two clients with one call each
  on one name; more calls only lengthen the trace.
* **HttpRetry.** `max_retries` takes the values 0..3. 0 is the boundary of
  spec.md 8.5, and 3 is the default, giving four attempts and three backoffs.
  Outcomes cover every pair of "applied" and what the client saw.
* **QueryBuilder.** It uses three rows with distances 1, 0, 1, so that a
  distance order differs from the row order and has ties. It uses two atoms
  that overlap in one row, and up to four query objects, enough for two
  sibling chains from one parent.
* **InsertBatch.** Three rows and two vector columns: two columns are the
  least for a second pass to meet labels the first one removed, and three
  rows let the first pass drop a row in the middle, so that a later position
  points at another row's label. Every batch of None cells and every policy
  is an initial state (256 batches, four policies).
* **RemoteConnection.** `max_retries` is 1, the least that allows a resend.
  Two calls are enough for create followed by add, create, drop or open.
  Two batches let a failure fall between batches.

## 6. Fairness and deadlock

`remote_lossy` checks one liveness property, `CallsReturn`: every remote call
that starts eventually returns or raises. Its specification is
`FairSpec == Spec /\ WF_vars(pc # "idle" /\ Next)`: weak fairness on the
caller's steps while a call is in progress. The code justifies it: a call is
one thread running straight-line code and bounded loops, and every request
ends within `ClientConfig.timeout` (requests gets the timeout per request),
so a step that is enabled is taken. No fairness is assumed for starting a new
call, which is the program's choice. The property is worth checking because
a call chains several requests, each resent after a lost response, and a
step that reissued a request already answered (mutant `CtPostRetries`) would
keep the caller waiting.

* In LocalConnection every call path is finite. A caller that has made its
  `MaxCalls` calls stops, which is why the configs say
  `CHECK_DEADLOCK FALSE`.
* RemoteConnection: one caller makes `MaxCalls` calls, and every request
  ends after at most `MaxRetries + 1` attempts.
* InsertBatch: one call, then nothing.
* In HttpRetry a call ends by returning or raising. Each attempt ends within
  `ClientConfig.timeout`: `requests` gets the timeout per request, and
  `aiohttp` gets `ClientTimeout(total=...)`. Termination is therefore bounded
  by the loop and not worth a property.

## 7. Not modelled, and the plan

Planned next:

1. **Concurrent refinement**: with several clients, a mapping that orders
   calls by the statement that commits their effect. Since `create_table`
   and `add` are not atomic (`CreateIsExclusive`), it would need a weaker
   abstract store than TableStore.

No liveness property is planned for LocalConnection. A mutant that stops its
batch loop from advancing inserts the same batch again and again. The state
space then becomes infinite, instead of showing a call that never returns.

Not modelled:

* `common.py` and `connect()`: pure string parsing.
* `connect_async`: it imports the non-existent `.hologres_connection` and
  always raises ImportError.
* The full-text query classes: they only format text.
* The schema type maps: fixed lookups.
* `validate_embeddings`, `normalize_embeddings` and the embedding registry
  (embeddings/base.py:193-310): `validate_embeddings` and
  `normalize_embeddings` work on floating-point vectors, and TLC has no
  reals. The registry is a dict that nothing else in the library reads.
* `close()`, the aiohttp session and the missing local `close()`: they only
  release resources (or fail to), and no later step of the library reads
  the pool or the session, so a property has nothing to observe.
* Table handles kept across calls: both connection models name the table
  in every call, as if each call opened a fresh handle. A stale handle
  (table.py:294) would need a schema per handle. It is listed as a hazard.
* The `limit` of `table_names`: the models list tables only inside
  `create_table`, which passes no limit.
