CONSTANTS
    t1 = t1  t2 = t2
    h1 = h1  h2 = h2
    n1 = n1  n2 = n2  n3 = n3
    s1 = s1  b1 = b1
    None = None
    Task = {t1, t2}
    Hash = {h1}
    Temp = {n1, n2}
    OutPath = {s1}
    Build = {b1}
    Chunks = 2
    MaxRetries = 2
    MayCancel = FALSE
    MaxCrash = 0
SPECIFICATION Spec
SYMMETRY Symmetry
INVARIANTS
    HeldComplete
