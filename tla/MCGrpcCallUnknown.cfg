CONSTANTS
    p1 = p1  p2 = p2
    c1 = c1  c2 = c2
    h1 = h1  h2 = h2
    s1 = s1  s2 = s2
    None = None
    Namespaces <- ThreeNamespaces
    Default = 2
    Pods = {p1}
    Services = {s1}
    Callers = {c1, c2}
    Handlers = {h1}
    PodOf <- OnePod
    Placements <- Anywhere
    MaxDisruptions = 1
SPECIFICATION Spec
INVARIANT UnknownServiceReported
