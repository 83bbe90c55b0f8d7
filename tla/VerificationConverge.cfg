SPECIFICATION Spec
CONSTANTS
    n1 = n1  n2 = n2  n3 = n3  k1 = k1  k2 = k2  v1 = v1  v2 = v2
    Run = {n1, n2}
    Field = {k1, k2}
    Reviewer = {}
    MaxRunning = 2
SYMMETRY MCSymmetry
INVARIANT RunsConverge
CHECK_DEADLOCK FALSE
