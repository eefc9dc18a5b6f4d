---------------------------- MODULE MCHttpRetry ----------------------------
(* Instances of HttpRetry for model checking.                              *)
EXTENDS HttpRetry

\* ClientConfig.max_retries values: no retry, the default 3, and between.
MCRetryConfigs == 0..3
\* A negative max_retries, which ClientConfig accepts unchecked.
MCNegativeConfigs == {-1}
MCAnyConfigs == MCNegativeConfigs \cup MCRetryConfigs
MCAllVariants == {"sync", "async", "embed"}
MCCaughtVariants == {"sync", "embed"}
MCAsync == {"async"}
MCSync == {"sync"}
=============================================================================
