--------------------------- MODULE MCConfigPublish ---------------------------
EXTENDS NacosConsole, TLC

CONSTANTS a, b, x, y, home, public

Missing == {{}}

Symmetric == Permutations(Clients) \cup Permutations(Admins)

\* Both administrators work in the namespace of the configuration.
Scopes == [i \in Admins |-> home]
=============================================================================
