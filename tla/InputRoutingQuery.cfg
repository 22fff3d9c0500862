CONSTANTS
    a = a
    b = b
    None = None
    Names = {a, b}
    Rank <- MCRank
    Roles = {"query", "lookup"}
    Bindings = {FALSE}
    Arrivals = {"http"}
    Authors = {"hook"}
    Rewrites = FALSE
SPECIFICATION Spec
INVARIANTS
    RouteScopesTheLookup
CHECK_DEADLOCK FALSE
