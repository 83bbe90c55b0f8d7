SPECIFICATION RequestsSpec
CONSTANTS
    g1 = g1  g2 = g2  blank = blank  both = both  none = none
    r1 = r1  r2 = r2  c1 = c1  c2 = c2  k1 = k1
    MaxSeq = 3
    Gap <- MCGap
    Content <- MCContent
    Blank = blank
    Complete <- MCComplete
    Fires <- MCFires
    Plan = {}
    Targets <- MCTargets
    Worker = {1, 2}
    Slot = {r1, r2}
    Client = {k1}
    Connection = {c1, c2}
    Limit = 1
    Sections <- MCSections
    Queries <- MCQueries
    Calls <- MCCalls
    Roles = {"advisor"}
    Kinds = {"ready", "metrics", "download", "webhook", "function"}
INVARIANTS
    GatewayTypeOK
    LeasesLive
PROPERTIES
    AllAnswered
    RequestsFinish
CHECK_DEADLOCK FALSE
