\* Two refreshes at a time, of one session or of two.
CONSTANTS
    r1 = r1
    r2 = r2
    Requests = {r1, r2}
    Lifetime = 1
    Leeway = 1
    MaxTokens = 3
    MaxTime = 4
SPECIFICATION FairSpec
INVARIANTS
    TypeOK
    OneTokenPerSession
    AnsweredIsUsable
PROPERTIES
    ExpiredIsPurged
    ImplementsSessions
