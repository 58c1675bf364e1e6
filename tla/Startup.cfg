CONSTANTS
    None = None
    Cores = {"", "s", "t", "p", "user.id", "organization.id", "non-ascii"}
    Configs <- SmallConfigs
    Headers <- SmallHeaders
SPECIFICATION Spec
INVARIANTS
    StartsExactly
    UrlsExact
    AuthExact
