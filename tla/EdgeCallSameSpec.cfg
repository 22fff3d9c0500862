CONSTANTS
    create = create
    update = update
    bulk = bulk
    read = read
    find = find
    list = list
    None = None
    Calls = {c1, c2}
    Tasks = {t1}
    Rows = {r1}
    Specs = {update, list}
    Decl <- MCDecl
    Origins = {"offline"}
SPECIFICATION Spec
SYMMETRY Symmetric
INVARIANTS
    OwnBody
