SPECIFICATION Spec
CONSTANTS
    Requests = {r1, r2, r3}
    RouteSet <- MCTorn
    Configs <- MCWazuh
    TokenTTL = 3
    CacheTTL = 1
    Timeout = 1
    MaxTime = 2
INVARIANT NoTornToken
CHECK_DEADLOCK FALSE
