CONSTANTS
    create = create
    update = update
    bulk = bulk
    read = read
    find = find
    list = list
    None = None
    Calls = {c1, c2, c3}
    Tasks = {t1}
    Rows = {r1}
    Specs = {update}
    Decl <- MCDecl
    Origins = {"http"}
SPECIFICATION Spec
SYMMETRY Symmetric
INVARIANTS
    OwnBody
    CommittedWhenAllReturned
