SPECIFICATION ScenarioSpec
CONSTANTS
    s1 = s1  f1 = f1  f2 = f2  l1 = l1  w1 = w1  w2 = w2
    Template = {s1, f1, f2}
    Seeded <- MCSeeded
    Lib = {l1}
    Content <- MCContent
    Targets <- MCTargets
    Request = {w1, w2}
    MaxPlans = 2
    MaxEdits = 1
SYMMETRY MCSymmetry
INVARIANTS
    TypeOK
    OnceWhileApart
PROPERTIES
    TasksKeepPlans
    AppliedAsListed
CHECK_DEADLOCK FALSE
