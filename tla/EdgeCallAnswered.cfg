CONSTANTS
    create = create
    update = update
    bulk = bulk
    read = read
    find = find
    list = list
    None = None
    Calls = {c1, c2}
    Tasks = {t1, t2}
    Rows = {r1}
    Specs = {list, read}
    Decl <- MCDecl
    Origins = {"patch"}
SPECIFICATION FairSpec
PROPERTIES
    EveryCallAnswered
