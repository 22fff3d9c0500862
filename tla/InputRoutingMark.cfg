CONSTANTS
    a = a
    b = b
    None = None
    Names = {a, b}
    Rank <- MCRank
    Roles = {"lookup_url", "lookup_hides"}
    Bindings = {FALSE}
    Arrivals = {"offline"}
    Authors = {"hook"}
    Rewrites = FALSE
SPECIFICATION Spec
INVARIANTS
    HiddenLookupKeyIsTheServers
CHECK_DEADLOCK FALSE
