SPECIFICATION ScenarioSpec
CONSTANTS
    g1 = g1  g2 = g2  blank = blank  both = both  none = none
    p1 = p1  w1 = w1  w2 = w2
    MaxSeq = 3
    Gap <- MCGap
    Content <- MCContent
    Blank = blank
    Complete <- MCComplete
    Fires <- MCFires
    Plan = {}
    Targets <- MCTargets
    Worker = {w1, w2}
PROPERTY CompletedAnswersFrozen
CHECK_DEADLOCK FALSE
