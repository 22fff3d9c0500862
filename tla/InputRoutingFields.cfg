CONSTANTS
    a = a
    b = b
    None = None
    Names = {a, b}
    Rank <- MCRank
    Roles = {"field", "hides", "owned", "seed", "lookup"}
    Bindings = {TRUE, FALSE}
    Arrivals = {"offline"}
    Authors = {"hook", "provider", "input"}
    Rewrites = TRUE
SPECIFICATION Spec
INVARIANTS
    TypeOK
    NeverTheClients
    AuthorOutranksClient
    OwnedIsTheProviders
    ServerValueIsTheFields
CHECK_DEADLOCK FALSE
