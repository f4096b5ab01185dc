CONSTANTS
    Ids = {rlf}
    backOffKey = rlf
    defaultDuration = 3
    maxDuration = 3
    NoEntry = NoEntry
    MaxSetBacks = 2
    CorrectBy = 3
SPECIFICATION FairRateLimiterSpec
INVARIANT RateLimiterTypeOK
PROPERTIES ImplementsCoalescer IntervalIsKept
