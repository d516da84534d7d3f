\* Two sources under a throttle of two a minute, tokens that live longer than a minute or less,
\* lifetimes that overflow the clock, restarts with another policy.
SPECIFICATION ScanSpec
CONSTANTS
    Source = {a, b}
    Ttls = {0, 1, 3}
    IssueLimit = 2
    Minute = 2
    LastInstant = 6
    MaxClock = 5
    MaxTokens = 5
INVARIANTS
    ScanTypeOK
    IssuanceSpaced
    LiveTokensBounded
    AnswersHonest
SYMMETRY ScanSymmetry
