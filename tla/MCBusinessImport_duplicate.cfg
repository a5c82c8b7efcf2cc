SPECIFICATION Spec
CONSTANTS
    f1 = f1
    f2 = f2
    j1 = j1
    j2 = j2
    p1 = p1
    p2 = p2
    p3 = p3
    None = None
    Jobs = {j1, j2}
    Names = {n1, n2}
    Files = {f1, f2}
    Proposals = {p1, p2}
    Applies = {a1, a2}
    Catalog = {}
    FileOf <- TwoFiles
    JobOf <- OneEach
INVARIANTS NoDuplicateProduct
CHECK_DEADLOCK FALSE
