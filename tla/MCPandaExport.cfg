CONSTANTS
    k = k  l = l  c1 = c1  c2 = c2  p = p  q = q
    None = None
    Brokers = {k, l}
    Capacity = 1
    MaxMessages = 3
    Callbacks = {c1, c2}
    Profiles = {p, q}
    Default = p
    MaxProfilers = 2
    MaxChanges = 1
SPECIFICATION Spec
INVARIANTS ExportTypeOK Released Managed Follows Survives
PROPERTIES Exits
CHECK_DEADLOCK FALSE
