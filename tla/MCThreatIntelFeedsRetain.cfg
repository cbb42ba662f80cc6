CONSTANTS
    IpFeeds = {ip}
    OtherFeeds = {}
    TTL = 3
    MaxRefresh = 1
    MaxCrashes = 0
SPECIFICATION Spec
CHECK_DEADLOCK FALSE
PROPERTY
    RetainsPrevious
