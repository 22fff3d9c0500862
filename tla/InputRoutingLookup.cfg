CONSTANTS
    a = a
    b = b
    None = None
    Names = {a, b}
    Rank <- MCRank
    Roles = {"field", "url", "query", "lookup", "lookup_hides", "lookup_owned"}
    Bindings = {TRUE, FALSE}
    Arrivals = {"http", "offline"}
    Authors = {"hook"}
    Rewrites = FALSE
SPECIFICATION Spec
INVARIANTS
    UrlIsTheUrls
    FieldScopesNoLookup
    HiddenLookupKeyIsTheServers
    KernelTakesIt
CHECK_DEADLOCK FALSE
