CONSTANTS
    k1 = k1  k2 = k2
    Callbacks = {k1}
    MaxVersion = 3
    MaxFailures = 2
SPECIFICATION FairSpec
PROPERTY RefreshForces
CHECK_DEADLOCK FALSE
