CONSTANTS
    create = create
    update = update
    bulk = bulk
    read = read
    find = find
    list = list
    None = None
    Calls = {c1, c2}
    Tasks = {t1, t2}
    Rows = {r1, r2}
    Specs = {update, bulk, read, find}
    Decl <- MCDecl
    Origins = {"http", "offline"}
SPECIFICATION Spec
SYMMETRY Symmetric
INVARIANTS
    TypeOK
    GuardedOnItsOwnTarget
    NotFoundRanNothing
    EdgeCallIsInnermost
    IdleTaskIsClean
PROPERTIES
    PromiseSpec
