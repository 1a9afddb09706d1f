\* A rate that pays for a token in one or two ticks, a burst of two tokens,
\* and time to fill the bucket several times.
SPECIFICATION RateSpec
CONSTANTS
    K = 5
    Rate = 3
    Capacity = 2
    MaxTime = 14
INVARIANTS RateTypeOK WindowBound RefusalJustified
