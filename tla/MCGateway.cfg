SPECIFICATION FairSpec
CONSTANTS
    Requests = {r1, r2}
    RouteSet <- Routes
    Configs <- MCConfigs
    TokenTTL = 3
    CacheTTL = 1
    Timeout = 1
    MaxTime = 3
INVARIANT TypeOK
INVARIANT AnswersMatchTool
INVARIANT NeverTwice
PROPERTY SendsLiveToken
PROPERTY NewestToken
PROPERTY EveryCallAnswered
CHECK_DEADLOCK FALSE
