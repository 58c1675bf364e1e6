CONSTANTS
    q1 = q1
    q2 = q2
    None = None
    Req = {q1, q2}
    Requests <- AllRequests
    Limit = 1
    Token = "t"
    Policies = {{"k1"}, {"k2"}}
    Results <- AllResults
SPECIFICATION FairSpec
INVARIANTS
    TypeOK
    PermitsConserved
    PolicyRespected
    RepliesRecorded
PROPERTIES
    NeverBlocked
    Drains
