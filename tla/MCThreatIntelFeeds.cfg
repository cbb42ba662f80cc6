CONSTANTS
    IpFeeds = {ip}
    OtherFeeds = {url}
    TTL = 3
    MaxRefresh = 1
    MaxCrashes = 1
SPECIFICATION Spec
CHECK_DEADLOCK FALSE
INVARIANTS
    DataAgeBounded
    RecoversInTime
PROPERTIES
    ValidCacheCarriesOver
    EndsOnShutdown
