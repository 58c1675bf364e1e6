CONSTANTS
    q1 = q1
    q2 = q2
    None = None
    Req = {q1, q2}
    Buckets <- SmallBuckets
    Durations = {1, 3}
    ResolveKeys <- SmallResolveKeys
    OtherKeys <- SmallOtherKeys
    WallClock <- SmallWallClock
    MaxEvents = 3
    MaxScrapes = 2
SYMMETRY ReqSymmetry
SPECIFICATION Spec
INVARIANTS
    PagesExact
PROPERTIES
    CountersMonotone
