CONSTANTS
    r1 = r1
    r2 = r2
    None = None
    Req <- TwoCalls
    Ttls = {0, 2}
    Skew = 2
    RequestTimeout = 1
    ExpiresIn <- Expiries
    InstantMax = 50
    MaxTime = 4
SPECIFICATION FairSpec
INVARIANTS
    TypeOK
    SingleFlight
    NoRedundantRefresh
    NeverMissingCachedSync
    ServedFresh
    NoReuseWhenDisabled
    BoundedStaleness
    MetricsAccount
PROPERTIES
    CacheNeverRegresses
    EveryCallEnds
    ImplementsVaultCache
