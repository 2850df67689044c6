SPECIFICATION Spec
CONSTANTS
    None = None
    a = a
    b = b
    r1 = r1
    r2 = r2
    l1 = l1
    l2 = l2
    Company <- MCCompany
    Request <- MCRequest
    Link <- MCLink
    Message = {x, y}
    InScope = {x}
    HourlyCap = 1
SYMMETRY Alike
INVARIANTS
    NoOrphanData
    ActiveIsAttached
    
