SPECIFICATION Spec
CONSTANTS
    Requests = {r1, r2, r3}
    Ids = {i1, i2}
    TenantIds = {t1}
    Names = {n1}
    NoRow = NoRow
SYMMETRY MCSymmetry
INVARIANT TypeOK
INVARIANT RealTimeOrder
INVARIANT StableAgentId
INVARIANT AnswersTrue
PROPERTY ImplementsChangeFeed
CHECK_DEADLOCK FALSE
