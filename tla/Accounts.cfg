SPECIFICATION AccountsSpec
CONSTANTS
    a1 = a1  a2 = a2  b1 = b1  b2 = b2  o1 = o1  o2 = o2  p1 = p1  p2 = p2  p3 = p3
    Org = {o1, o2}
    Home = o1
    Firm = {a1, a2}
    Staff = {p1}
    Owner = {p2}
    Collaborator = {p3}
    SeatLimit = 1
    Hook = {b1, b2}
    Desk = {a1, a2}
    State = {a1, a2}
    Caller = {b1, b2}
    Inserted = {"documents", "engagement_comments"}
SYMMETRY MCSymmetry
INVARIANTS
    AccountsTypeOK
    FirmCanOnboard
    MembersProvisioned
    StateSpentOnce
    SecretsWiped
    DocumentsKeepBytes
CHECK_DEADLOCK FALSE
