------------------------------ MODULE HttpRetry ------------------------------
(***************************************************************************)
(* The retry loops of pyhologres: one call of                              *)
(*   HologresCloudClient._make_request        (remote/client.py, "sync")   *)
(*   HologresCloudClient._make_async_request  (remote/client.py, "async")  *)
(*   EmbeddingFunction.compute_*_with_retry   (embeddings/base.py,"embed") *)
(* against a server that may or may not apply each attempt.                *)
(*                                                                         *)
(* An attempt ends in one of the outcomes below.  `applied` says whether   *)
(* the server carried out the request (a response lost after the server   *)
(* acted, a 5xx after a partial apply); `kind` is what the client sees:    *)
(*   "ok"      2xx with a JSON body                                        *)
(*   "error"   connection error, non-2xx status (raise_for_status), or a   *)
(*             body response.json() cannot decode: requests raises a       *)
(*             RequestException, aiohttp a ClientError                     *)
(*   "timeout" the per-request timeout: requests.Timeout (a               *)
(*             RequestException), asyncio.TimeoutError for aiohttp (not a  *)
(*             ClientError)                                                *)
(* Delays are counted in units of config.retry_delay.                      *)
(***************************************************************************)
EXTENDS Integers, Sequences

CONSTANTS
    RetryConfigs,  \* values of config.max_retries / max_retries to check
    Variants,      \* which loops to check: subset of {"sync","async","embed"}
    LostResponses  \* whether a failure can follow the server's applying it

ASSUME /\ RetryConfigs \subseteq Int
       /\ Variants \subseteq {"sync", "async", "embed"}
       /\ LostResponses \in BOOLEAN

Outcomes == { o \in [applied: BOOLEAN, kind: {"error", "timeout"}] :
                LostResponses \/ ~o.applied }
            \cup {[applied |-> TRUE, kind |-> "ok"]}

VARIABLES
    variant,     \* the loop being run
    maxRetries,  \* config.max_retries
    attempt,     \* the loop variable `attempt`
    phase,       \* "send" (loop head), "backoff" (in the except branch),
                 \* "returned" or "raised"
    log,         \* outcomes of the attempts made so far (history)
    delays,      \* the sleeps made so far (history)
    applied,     \* times the server applied the request
    value        \* what the call returned or raised

vars == <<variant, maxRetries, attempt, phase, log, delays, applied, value>>

Values == {"none", "response", "RequestException", "ClientError",
           "TimeoutError", "NameError", "TypeError", "Exception"}

TypeOK ==
    /\ variant \in Variants
    /\ maxRetries \in RetryConfigs
    /\ attempt \in 0..maxRetries \cup {0}   \* drawn from range(max_retries + 1)
    /\ phase \in {"send", "backoff", "returned", "raised"}
    /\ log \in Seq(Outcomes)
    /\ delays \in Seq(Nat)
    /\ applied \in Nat
    /\ value \in Values

Init ==
    /\ variant \in Variants
    /\ maxRetries \in RetryConfigs
    /\ attempt = 0
    /\ phase = "send"
    /\ log = <<>>
    /\ delays = <<>>
    /\ applied = 0
    /\ value = "none"

(* 2^k for the backoff `retry_delay * (2 ** attempt)`.                     *)
RECURSIVE Pow2(_)
Pow2(k) == IF k = 0 THEN 1 ELSE 2 * Pow2(k - 1)

Finish(p, v) == phase' = p /\ value' = v

(* One pass of `for attempt in range(max_retries + 1)`: when the range is  *)
(* spent the loop falls through; otherwise the request is sent and the     *)
(* server may apply it whatever the client later sees.                     *)
LoopDone ==
    /\ phase = "send"
    /\ attempt > maxRetries
    /\ IF variant = "embed"
       THEN Finish("raised", "TypeError")   \* `raise last_exception` with None
       ELSE Finish("returned", "none")
    /\ UNCHANGED <<variant, maxRetries, attempt, log, delays, applied>>

Send(o) ==
    /\ phase = "send"
    /\ attempt <= maxRetries
    /\ log' = Append(log, o)
    /\ applied' = applied + (IF o.applied THEN 1 ELSE 0)

(* Versions of the steps below with a plausible slip in the code: the     *)
(* except branch tests `attempt <= max_retries`; only ConnectionError is   *)
(* caught; the backoff grows linearly.                                     *)
SyncAttemptOffByOne ==
    /\ variant = "sync"
    /\ \E o \in Outcomes :
        /\ Send(o)
        /\ \/ o.kind = "ok" /\ Finish("returned", "response")
           \/ o.kind # "ok" /\ attempt <= maxRetries
              /\ phase' = "backoff" /\ UNCHANGED value
           \/ o.kind # "ok" /\ attempt > maxRetries
              /\ Finish("raised", "RequestException")
    /\ UNCHANGED <<variant, maxRetries, attempt, delays>>

SyncAttemptNarrowCatch ==
    /\ variant = "sync"
    /\ \E o \in Outcomes :
        /\ Send(o)
        /\ \/ o.kind = "ok" /\ Finish("returned", "response")
           \/ o.kind = "timeout" /\ Finish("raised", "RequestException")
           \/ o.kind = "error" /\ attempt < maxRetries
              /\ phase' = "backoff" /\ UNCHANGED value
           \/ o.kind = "error" /\ attempt >= maxRetries
              /\ Finish("raised", "RequestException")
    /\ UNCHANGED <<variant, maxRetries, attempt, delays>>

BackoffLinear ==
    /\ phase = "backoff"
    /\ variant \in {"sync", "embed"}
    /\ delays' = Append(delays, attempt + 1)
    /\ attempt' = attempt + 1
    /\ phase' = "send"
    /\ UNCHANGED <<variant, maxRetries, log, applied, value>>

(* _make_request: every failure is a RequestException; retried while      *)
(* attempt < max_retries, re-raised on the last attempt.                   *)
SyncAttempt ==
    /\ variant = "sync"
    /\ \E o \in Outcomes :
        /\ Send(o)
        /\ \/ o.kind = "ok" /\ Finish("returned", "response")
           \/ o.kind # "ok" /\ attempt < maxRetries
              /\ phase' = "backoff" /\ UNCHANGED value
           \/ o.kind # "ok" /\ attempt >= maxRetries
              /\ Finish("raised", "RequestException")
    /\ UNCHANGED <<variant, maxRetries, attempt, delays>>

(* _make_async_request: only aiohttp.ClientError is caught; a timeout      *)
(* raises asyncio.TimeoutError out of the loop.                            *)
AsyncAttempt ==
    /\ variant = "async"
    /\ \E o \in Outcomes :
        /\ Send(o)
        /\ \/ o.kind = "ok" /\ Finish("returned", "response")
           \/ o.kind = "timeout" /\ Finish("raised", "TimeoutError")
           \/ o.kind = "error" /\ attempt < maxRetries
              /\ phase' = "backoff" /\ UNCHANGED value
           \/ o.kind = "error" /\ attempt >= maxRetries
              /\ Finish("raised", "ClientError")
    /\ UNCHANGED <<variant, maxRetries, attempt, delays>>

(* compute_*_with_retry: any Exception is caught and kept; after the last  *)
(* attempt the loop breaks and `raise last_exception` re-raises it.        *)
EmbedAttempt ==
    /\ variant = "embed"
    /\ \E o \in Outcomes :
        /\ Send(o)
        /\ \/ o.kind = "ok" /\ Finish("returned", "response")
           \/ o.kind # "ok" /\ attempt < maxRetries
              /\ phase' = "backoff" /\ UNCHANGED value
           \/ o.kind # "ok" /\ attempt >= maxRetries
              /\ Finish("raised", "Exception")
    /\ UNCHANGED <<variant, maxRetries, attempt, delays>>

(* time.sleep(retry_delay * 2 ** attempt), then `continue`.                *)
Backoff ==
    /\ phase = "backoff"
    /\ variant \in {"sync", "embed"}
    /\ delays' = Append(delays, Pow2(attempt))
    /\ attempt' = attempt + 1
    /\ phase' = "send"
    /\ UNCHANGED <<variant, maxRetries, log, applied, value>>

(* `await asyncio.sleep(delay)`: client.py never imports asyncio, so the   *)
(* name lookup raises NameError inside the except branch.                  *)
AsyncBackoff ==
    /\ phase = "backoff"
    /\ variant = "async"
    /\ Finish("raised", "NameError")
    /\ UNCHANGED <<variant, maxRetries, attempt, log, delays, applied>>

Next ==
    \/ LoopDone
    \/ SyncAttempt \/ AsyncAttempt \/ EmbedAttempt
    \/ Backoff \/ AsyncBackoff

Spec == Init /\ [][Next]_vars

-----------------------------------------------------------------------------
(* Properties                                                              *)

Failed(o) == o.kind # "ok"

(* spec.md 5 and 8.5: between attempt k and attempt k+1 the client waits   *)
(* retry_delay * 2^k, so a call that fails twice and then succeeds waits   *)
(* retry_delay and then 2 * retry_delay; it sleeps once before each retry  *)
(* and never after the last attempt.  The sync and embedding loops sleep;  *)
(* the async loop raises NameError at its first backoff and never sleeps.  *)
BackoffSchedule ==
    /\ \A i \in 1..Len(delays) : delays[i] = Pow2(i - 1)
    /\ phase = "send" => Len(delays) = Len(log)
    /\ phase \in {"returned", "raised"} /\ log # <<>> =>
           Len(delays) = Len(log) - 1

(* spec.md 7 and 8.5: a failure reaches the caller only after max_retries  *)
(* + 1 attempts that all failed (max_retries = 0: exactly one attempt).    *)
GivesUpOnlyWhenExhausted ==
    phase = "raised" =>
        /\ Len(log) = maxRetries + 1
        /\ \A i \in 1..Len(log) : Failed(log[i])

=============================================================================
