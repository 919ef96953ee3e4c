SPECIFICATION Spec
CONSTANTS
    Tokens = {t1, t2}
    Sids = {s1, s2}
    Grants = {g1}
    Ttls <- TtlsBounded
    Callers = {c1, c2}
    Capacity = 1
    MaxNow = 1
    MaxFaults = 1
    None = None
SYMMETRY Interchangeable
INVARIANT TypeOK
 
