\* All three retry loops, max_retries 0..3.
CONSTANTS
    RetryConfigs <- MCRetryConfigs
    Variants <- MCAllVariants
    LostResponses = TRUE
SPECIFICATION Spec
INVARIANT TypeOK BackoffSchedule
\* A call ends by returning or raising; nothing follows it.
CHECK_DEADLOCK FALSE
