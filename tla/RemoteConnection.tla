-------------------------- MODULE RemoteConnection --------------------------
(***************************************************************************)
(* The HTTP-backed connection and table of pyhologres:                     *)
(* RemoteDBConnection (remote/db.py) and RemoteTable (remote/table.py),    *)
(* used by one synchronous caller.  Every endpoint method of               *)
(* HologresCloudClient (remote/client.py) goes through _make_request, so   *)
(* each request is one run of HttpRetry's "sync" loop, composed here with  *)
(* a server that holds the tables.                                         *)
(*                                                                         *)
(* The server is the environment, not code of this repository.  It is      *)
(* assumed to follow the REST conventions of spec.md 6: list_tables always *)
(* answers; create_table answers 409 on a name in use; get_table,         *)
(* insert_data and drop_table answer 404 on a missing table.  An attempt's *)
(* outcome (HttpRetry!Outcomes) says whether the server applied it and     *)
(* what the client saw; a rejected request is never applied and never    *)
(* seen as a success.  Rows are tags <<d, b>> as in LocalConnection.       *)
(***************************************************************************)
EXTENDS Naturals, SequencesExt, Bags

CONSTANTS
    Names, Payloads, NumBatches,
    MaxCalls,       \* calls the caller makes (bounds the model)
    MaxRetries,     \* ClientConfig.max_retries
    LostResponses,  \* whether a failure can follow the server's applying it
    AddModes,       \* the mode arguments of table.add() the caller passes
    None, Unsupported

ASSUME /\ NumBatches \in Nat \ {0} /\ MaxCalls \in Nat /\ MaxRetries \in Nat
       /\ AddModes \subseteq {"append", "overwrite"}

Modes    == {"create", "overwrite", "append"}
Batches  == 1..NumBatches
Tags     == Payloads \X Batches

(* A data argument: None, an object the client cannot read, or payload d   *)
(* read as NumBatches record batches.                                       *)
DataArgs == {None, Unsupported} \cup Payloads

NewRows(d) ==
    IF d \in Payloads THEN SetToBag({<<d, b>> : b \in Batches}) ELSE EmptyBag

Errors == {"ValueError", "ConversionError", "RequestException",
           "NotImplementedError", "AttributeError", "TypeError"}

(* RemoteTable methods besides add: "read" is count_rows, to_arrow,       *)
(* to_pandas or to_polars; "index" is create_index or create_fts_index.    *)
(* For "update", `data` is None when neither values nor values_sql is      *)
(* given.  "maintain" is cleanup_old_versions or compact_files.          *)
Call(k, n, d, s, m, x, t) ==
    [kind |-> k, name |-> n, data |-> d, schema |-> s, mode |-> m,
     existOk |-> x, to |-> t]

Calls ==
    {Call("create", n, d, s, m, x, None) :
        n \in Names, d \in DataArgs, s \in BOOLEAN, m \in Modes, x \in BOOLEAN}
    \cup {Call("add", n, d, FALSE, m, FALSE, None) :
        n \in Names, d \in DataArgs, m \in AddModes}
    \cup {Call(k, n, None, FALSE, None, FALSE, None) :
        k \in {"drop", "open"}, n \in Names}
    \cup {Call("rename", n, None, FALSE, None, FALSE, t) : n, t \in Names}
    \cup {Call(k, n, None, FALSE, None, FALSE, None) :
        k \in {"index", "read", "delete", "list_indices", "search", "maintain"},
        n \in Names}
    \cup {Call("update", n, d, FALSE, None, FALSE, None) :
        n \in Names, d \in {None} \cup Payloads}

(* The endpoint requests; `tag` is the record batch an insert_data carries. *)
Req(k, n, g) == [kind |-> k, name |-> n, tag |-> g]

Requests ==
    {Req(k, n, None) :
        k \in {"list", "get", "create", "delete", "index"}, n \in Names}
    \cup {Req("insert", n, g) : n \in Names, g \in Tags}

PCs == {"idle", "ct_list", "ct_drop", "ct_open", "ct_post", "add_read",
        "add_post", "drop", "open", "rename", "index",
        "read", "update", "delete", "list_indices", "search", "maintain"}

VARIABLES
    exists, rows,   \* the server's tables
    pc,             \* the request the caller waits for, or its next step
    call, batch, result,
    before,         \* the server's tables when the call started (history)
    calls,          \* calls started
    req,            \* the request _make_request is sending
    resp,           \* the table names of the last list_tables response
    \* _make_request's loop, as in HttpRetry (variant is always "sync" and
    \* maxRetries always MaxRetries):
    variant, maxRetries, attempt, phase, log, delays, applied, value

server == <<exists, rows>>
http   == <<req, attempt, phase, log, delays, applied, value>>
vars   == <<exists, rows, pc, call, batch, result, before, calls, resp,
            variant, maxRetries, req, attempt, phase, log, delays, applied, value>>

R == INSTANCE HttpRetry WITH RetryConfigs <- {MaxRetries},
                             Variants <- {"sync"}

TypeOK ==
    /\ exists \in [Names -> BOOLEAN]
    /\ \A n \in Names : IsABag(rows[n]) /\ BagToSet(rows[n]) \subseteq Tags
    /\ pc \in PCs
    /\ call \in Calls \cup {None}
    /\ batch \in Batches
    /\ result \in Errors \cup {"ok", "pending", None}
    /\ calls \in 0..MaxCalls
    /\ req \in Requests \cup {None}
    /\ resp \subseteq Names
    /\ variant = "sync" /\ maxRetries = MaxRetries
    /\ attempt \in 0..MaxRetries
    /\ phase \in {"idle", "send", "backoff", "returned", "raised"}
    /\ log \in Seq(R!Outcomes)

Init ==
    /\ exists = [n \in Names |-> FALSE]
    /\ rows = [n \in Names |-> EmptyBag]
    /\ pc = "idle"
    /\ call = None
    /\ batch = 1
    /\ result = None
    /\ before = [e |-> exists, r |-> rows]
    /\ calls = 0
    /\ resp = {}
    /\ req = None
    /\ variant = "sync" /\ maxRetries = MaxRetries
    /\ attempt = 0 /\ phase = "idle" /\ log = <<>> /\ delays = <<>>
    /\ applied = 0 /\ value = "none"

-----------------------------------------------------------------------------
(* The server                                                              *)

Accepts(r) ==
    CASE r.kind = "list"   -> TRUE
      [] r.kind = "create" -> ~exists[r.name]
      [] OTHER             -> exists[r.name]

Apply(r) ==
    CASE r.kind = "create" ->
             /\ exists' = [exists EXCEPT ![r.name] = TRUE]
             /\ rows' = [rows EXCEPT ![r.name] = EmptyBag]
      [] r.kind = "insert" ->
             /\ rows' = [rows EXCEPT ![r.name] = @ (+) SetToBag({r.tag})]
             /\ UNCHANGED exists
      [] r.kind = "delete" ->
             /\ exists' = [exists EXCEPT ![r.name] = FALSE]
             /\ rows' = [rows EXCEPT ![r.name] = EmptyBag]
      [] OTHER -> UNCHANGED server

(* The server's side of attempt outcome o of request r.                    *)
Serve(r, o) ==
    /\ ~Accepts(r) => ~o.applied /\ o.kind # "ok"
    /\ IF o.applied THEN Apply(r) ELSE UNCHANGED server
    /\ resp' = IF r.kind = "list" /\ o.kind = "ok"
               THEN {n \in Names : exists'[n]} ELSE resp

(* One pass of _make_request's loop, and what the server does with it.     *)
Attempt ==
    /\ R!SyncAttempt
    /\ Serve(req, Last(log'))
    /\ UNCHANGED <<pc, call, batch, result, before, calls, req>>

(* The sleep before the next pass.                                         *)
Backoff ==
    /\ R!Backoff
    /\ UNCHANGED <<server, pc, call, batch, result, before, calls, resp, req>>

-----------------------------------------------------------------------------
(* The caller                                                              *)

(* An endpoint method starts _make_request for r; the caller waits at l.   *)
Issue(r, l) ==
    /\ pc' = l
    /\ req' = r
    /\ attempt' = 0 /\ phase' = "send" /\ log' = <<>> /\ delays' = <<>>
    /\ applied' = 0 /\ value' = "none"

Stay(l) == pc' = l /\ UNCHANGED http

Return(r) == pc' = "idle" /\ result' = r /\ UNCHANGED http

(* The awaited _make_request has returned a response, or raised.           *)
Answered == phase = "returned"
Failed   == phase = "raised" /\ Return("RequestException")

Step(l) ==
    /\ pc = l
    /\ UNCHANGED <<server, call, before, calls, resp, variant, maxRetries>>

StartCall ==
    /\ pc = "idle"
    /\ calls < MaxCalls
    /\ \E op \in Calls :
        /\ call' = op
        /\ CASE op.kind = "create" -> Issue(Req("list", op.name, None), "ct_list")
             [] op.kind = "drop"   -> Issue(Req("delete", op.name, None), "drop")
             [] op.kind = "open"   -> Issue(Req("get", op.name, None), "open")
             [] op.kind = "index"  -> Issue(Req("index", op.name, None), "index")
             [] op.kind = "add"    -> Stay("add_read")
             [] OTHER              -> Stay(op.kind)
    /\ before' = [e |-> exists, r |-> rows]
    /\ result' = "pending"
    /\ batch' = 1
    /\ calls' = calls + 1
    /\ UNCHANGED <<server, resp, variant, maxRetries>>

(* create_table once no table is in the way: the schema argument or        *)
(* infer_schema_from_data(data) (ValueError on None or an unreadable       *)
(* object), then client.create_table's POST.                               *)
Infer ==
    \/ (call.schema \/ call.data \in Payloads)
       /\ Issue(Req("create", call.name, None), "ct_post") /\ UNCHANGED result
    \/ ~call.schema /\ call.data \in {None, Unsupported} /\ Return("ValueError")

(* table.add(data) with no mode after the table exists or was opened.      *)
AfterCreate ==
    IF call.data = None THEN Return("ok") ELSE Stay("add_read") /\ UNCHANGED result

(* create_table: table_names() has answered; branch on the mode.           *)
CtList ==
    LET ex == call.name \in resp IN
    /\ Step("ct_list")
    /\ \/ Failed
       \/ Answered /\ ex /\ call.mode = "create" /\ ~call.existOk
          /\ Return("ValueError")
       \/ Answered /\ ex /\ call.mode = "overwrite"
          /\ Issue(Req("delete", call.name, None), "ct_drop") /\ UNCHANGED result
       \/ Answered /\ ex /\ call.mode = "append"
          /\ Issue(Req("get", call.name, None), "ct_open") /\ UNCHANGED result
       \/ Answered /\ (~ex \/ (call.mode = "create" /\ call.existOk)) /\ Infer
    /\ UNCHANGED batch

(* mode="overwrite": self.drop_table(name) has answered.                   *)
CtDrop ==
    /\ Step("ct_drop")
    /\ Failed \/ (Answered /\ Infer)
    /\ UNCHANGED batch

(* mode="append": open_table(name) has answered; table.add(data).          *)
CtOpen ==
    /\ Step("ct_open")
    /\ Failed \/ (Answered /\ AfterCreate)
    /\ UNCHANGED batch

(* A version of the step below with a plausible slip in the code: a      *)
(* failed create POST is sent again until it succeeds.                     *)
CtPostRetries ==
    /\ Step("ct_post")
    /\ \/ phase = "raised" /\ Issue(Req("create", call.name, None), "ct_post")
          /\ UNCHANGED result
       \/ Answered /\ AfterCreate
    /\ UNCHANGED batch

(* client.create_table has answered; table.add(data, mode="append").       *)
CtPost ==
    /\ Step("ct_post")
    /\ Failed \/ (Answered /\ AfterCreate)
    /\ UNCHANGED batch

(* RemoteTable.add: _into_pyarrow_reader(data), then the first batch's     *)
(* insert_data.  `mode` is never read: the POST carries insert_data's      *)
(* default mode "append".                                                  *)
AddRead ==
    /\ Step("add_read")
    /\ IF call.data \in Payloads
       THEN Issue(Req("insert", call.name, <<call.data, 1>>), "add_post")
            /\ UNCHANGED result
       ELSE Return("ConversionError")
    /\ UNCHANGED batch

(* A version of the step below with a plausible slip in the code: the      *)
(* batch loop runs one batch past the last.                                *)
AddPostOffByOne ==
    /\ Step("add_post")
    /\ \/ Failed /\ UNCHANGED batch
       \/ Answered /\ batch = NumBatches + 1 /\ Return("ok") /\ UNCHANGED batch
       \/ Answered /\ batch # NumBatches + 1 /\ batch' = batch + 1
          /\ Issue(Req("insert", call.name, <<call.data, batch + 1>>), "add_post")
          /\ UNCHANGED result

(* A version of the step below with a plausible slip in the code: the      *)
(* loop stops one batch early.                                             *)
AddPostStopsEarly ==
    /\ Step("add_post")
    /\ \/ Failed /\ UNCHANGED batch
       \/ Answered /\ batch >= NumBatches - 1 /\ Return("ok") /\ UNCHANGED batch
       \/ Answered /\ batch < NumBatches - 1 /\ batch' = batch + 1
          /\ Issue(Req("insert", call.name, <<call.data, batch + 1>>), "add_post")
          /\ UNCHANGED result

(* insert_data for the current batch has answered: the next batch's POST, *)
(* or the end of the loop.                                                 *)
AddPost ==
    /\ Step("add_post")
    /\ \/ Failed /\ UNCHANGED batch
       \/ Answered /\ batch = NumBatches /\ Return("ok") /\ UNCHANGED batch
       \/ Answered /\ batch # NumBatches /\ batch' = batch + 1
          /\ Issue(Req("insert", call.name, <<call.data, batch + 1>>), "add_post")
          /\ UNCHANGED result

(* drop_table and open_table: one request each.                            *)
DropTable ==
    /\ Step("drop")
    /\ Failed \/ (Answered /\ Return("ok"))
    /\ UNCHANGED batch

OpenTable ==
    /\ Step("open")
    /\ Failed \/ (Answered /\ Return("ok"))
    /\ UNCHANGED batch

(* rename_table raises NotImplementedError.                                *)
RenameTable ==
    /\ Step("rename")
    /\ Return("NotImplementedError")
    /\ UNCHANGED batch

(* create_index and create_fts_index: one POST to .../indexes (replace   *)
(* defaults to True and is passed to the server in the index config).      *)
CreateIndex ==
    /\ Step("index")
    /\ Failed \/ (Answered /\ Return("ok"))
    /\ UNCHANGED batch

(* count_rows and to_arrow (and to_pandas, to_polars through it) call    *)
(* self._client.query_table, which HologresCloudClient does not define:    *)
(* AttributeError before any request.                                      *)
ReadTable ==
    /\ Step("read")
    /\ Return("AttributeError")
    /\ UNCHANGED batch

(* update: ValueError when neither values nor values_sql is given, else    *)
(* the UPDATE text goes to the same missing query_table.                   *)
UpdateRows ==
    /\ Step("update")
    /\ Return(IF call.data = None THEN "ValueError" ELSE "AttributeError")
    /\ UNCHANGED batch

(* delete: the DELETE text goes to the missing query_table.                *)
DeleteRows ==
    /\ Step("delete")
    /\ Return("AttributeError")
    /\ UNCHANGED batch

(* list_indices calls the equally missing _client.list_indices inside      *)
(* `except Exception` and returns [].                                      *)
ListIndices ==
    /\ Step("list_indices")
    /\ Return("ok")
    /\ UNCHANGED batch

(* search returns HologresQuery(table=self, query=..., ...), but           *)
(* HologresQuery.__init__ takes engine, table_name and schema and no       *)
(* `table` argument: TypeError before any request.                         *)
Search ==
    /\ Step("search")
    /\ Return("TypeError")
    /\ UNCHANGED batch

(* cleanup_old_versions and compact_files return fixed statistics and send *)
(* no request.                                                             *)
Maintain ==
    /\ Step("maintain")
    /\ Return("ok")
    /\ UNCHANGED batch

Next ==
    \/ Attempt \/ Backoff
    \/ StartCall
    \/ CtList \/ CtDrop \/ CtOpen \/ CtPost
    \/ AddRead \/ AddPost
    \/ DropTable \/ OpenTable \/ RenameTable
    \/ CreateIndex \/ ReadTable \/ UpdateRows \/ DeleteRows \/ ListIndices
    \/ Search \/ Maintain

Spec == Init /\ [][Next]_vars

(* While a call runs, the caller's thread keeps taking its steps: each     *)
(* attempt ends within ClientConfig.timeout (requests' timeout), and each  *)
(* sleep ends.  Nothing obliges the caller to start another call.          *)
FairSpec == Spec /\ WF_vars(pc # "idle" /\ Next)


-----------------------------------------------------------------------------
(* Properties                                                              *)

Returned == pc = "idle" /\ call # None

(* The rows spec.md 4.2-4.3 and 8.4 promise table n after an ok call:      *)
(* "overwrite" leaves only the new rows, "append" (and "create" with       *)
(* exist_ok on an existing table) the old rows and the new.                *)
PromisedRows(op, b) ==
    LET old == b.r[op.name] IN
    IF \/ op.kind = "create" /\ b.e[op.name] /\ op.mode \in {"append", "create"}
       \/ op.kind = "add" /\ op.mode = "append"
    THEN old (+) NewRows(op.data)
    ELSE NewRows(op.data)

(* Bag r holds the promised rows p, and beyond them only extra copies of  *)
(* the call's own new rows: what resending an insert_data whose response  *)
(* was lost leaves behind (spec.md 5: callers may observe duplicate side  *)
(* effects on retry).                                                      *)
UpToResent(op, r, p) ==
    p \sqsubseteq r /\ BagToSet(r (-) p) \subseteq BagToSet(NewRows(op.data))

(* What an ok call has done to the server.                                 *)
Done(op, b) ==
    LET n == op.name IN
    /\ \A m \in Names \ {n} : exists[m] = b.e[m] /\ rows[m] = b.r[m]
    /\ CASE op.kind \in {"create", "add"} ->
                exists[n] /\ UpToResent(op, rows[n], PromisedRows(op, b))
         [] op.kind = "drop" -> ~exists[n]
         [] op.kind \in {"open", "index"} -> exists[n] /\ rows[n] = b.r[n]
         [] OTHER -> rows[n] = b.r[n]

(* A call that returns ok has done what its mode promises, except that a   *)
(* record batch whose insert_data was resent by _make_request may be       *)
(* present more than once: no promised row is missing, no old row         *)
(* survives an overwrite, no other table is touched.  The steps of         *)
(* RemoteDBConnection.create_table (list, delete, create, insert per      *)
(* batch) each go through the retry loop, on a network that may lose a     *)
(* response after the server acted.                                        *)
OkCallsAtLeastOnce ==
    Returned /\ result = "ok" => Done(call, before)

(* Every call returns, with a result or an error, on a network that loses  *)
(* responses and a server that answers 409 to a create it already applied: *)
(* each request is retried at most max_retries times, and create_table,    *)
(* drop_table and add send a bounded number of requests.                    *)
CallsReturn == pc # "idle" ~> pc = "idle"

=============================================================================
