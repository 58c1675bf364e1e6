CONSTANTS
    q1 = q1
    q2 = q2
    q3 = q3
    None = None
    Req = {q1, q2, q3}
    Requests <- TwoRequests
    Limit = 2
    Token = "t"
    Policies = {{"k1"}}
    Results = {"ok", "Http", "MissingCachedSync"}
    LookupResults = {"ok"}
    FetchErrors = {"Http"}
    Ttls = {4}
    Skew = 1
    RequestTimeout = 1
    DerivationTime = 1
    ExpiresIn = {None}
    InstantMax = 50
    MaxTime = 7
SYMMETRY ReqSymmetry
SPECIFICATION ServiceSpec
INVARIANTS
    BoundedWait
    LockOnlyForAdmitted
    RepliesMatchCalls
