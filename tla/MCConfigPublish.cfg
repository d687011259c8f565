CONSTANTS
    a = a  b = b  x = x  y = y
    home = home  public = public
    Base = Base
    None = None
    Clients = {a, b}
    Existing <- Missing
    Admins = {x, y}
    Namespaces = {home, public}
    Home = home
    Public = public
    NamespaceId <- Scopes
    MaxOperations = 2
    MaxDeliveries = 2
SYMMETRY Symmetric
SPECIFICATION ConsoleSpec
INVARIANTS Kept AppliedOnce CreatedOnce
PROPERTIES Scoped
CHECK_DEADLOCK FALSE
