SPECIFICATION ScenarioSpec
CONSTANTS
    f1 = f1  f2 = f2  s1 = s1  s2 = s2  k1 = k1
    h1 = h1  h2 = h2  r1 = r1  r2 = r2
    Firm = {f1, f2}
    Subscription = {s1, s2}
    Code = {k1}
    MaxEvents = 4
    MaxSlots = 2
    Handler = {h1, h2}
    Redeemer = {r1, r2}
SYMMETRY MCSymmetry
INVARIANTS
    TypeOK
    EventsApplyOnce
    AccessEarned
    GrantsLast
    SlotsCountFirms
CHECK_DEADLOCK FALSE
