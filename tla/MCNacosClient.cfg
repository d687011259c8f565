CONSTANTS
    k1 = k1  k2 = k2
    Callbacks = {k1, k2}
    MaxVersion = 3
    MaxFailures = 2
SPECIFICATION FairSpec
INVARIANT TypeOK
PROPERTIES Delivered CacheFollows
CHECK_DEADLOCK FALSE
