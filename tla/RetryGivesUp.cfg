\* The two loops that catch every failure of an attempt, max_retries -1..3.
CONSTANTS
    RetryConfigs <- MCAnyConfigs
    Variants <- MCCaughtVariants
    LostResponses = TRUE
SPECIFICATION Spec
INVARIANT GivesUpOnlyWhenExhausted
\* A call ends by returning or raising; nothing follows it.
CHECK_DEADLOCK FALSE
