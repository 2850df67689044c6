SPECIFICATION Spec
CONSTANTS
    Nobody = Nobody
    u1 = u1
    u2 = u2
    t1 = t1
    t2 = t2
    t3 = t3
    User <- MCUser
    Token <- MCToken
    Company = {"company"}
    MaxCrashes = 1
SYMMETRY Alike
INVARIANTS
    AdminRemains
    OneTokenPerLogin
    
CHECK_DEADLOCK FALSE
