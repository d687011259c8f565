CONSTANTS
    p1 = p1  p2 = p2
    c1 = c1  c2 = c2
    h1 = h1  h2 = h2
    s1 = s1  s2 = s2
    None = None
    Namespaces <- ThreeNamespaces
    Default = 4
    Pods = {p1, p2}
    Services = {s1}
    Callers = {c1, c2}
    Handlers = {h1}
    PodOf <- TwoPods
    Placements <- Roaming
    MaxDisruptions = 2
SPECIFICATION Spec
INVARIANTS CalmCallsAnswer OnlyListed
