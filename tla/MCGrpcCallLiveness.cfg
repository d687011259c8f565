CONSTANTS
    p1 = p1  p2 = p2
    c1 = c1  c2 = c2
    h1 = h1  h2 = h2
    s1 = s1  s2 = s2
    None = None
    Namespaces <- TwoNamespaces
    Default = 2
    Pods = {p1}
    Services = {s1, s2}
    Callers = {c1, c2}
    Handlers = {h1, h2}
    PodOf <- OnePod
    Placements <- HalfwayS1
    MaxDisruptions = 1
SPECIFICATION SettingSpec
PROPERTIES CallsReturn Heals
