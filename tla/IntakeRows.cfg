SPECIFICATION EvidenceSpec
CONSTANTS
    a1 = a1  a2 = a2  b1 = b1  b2 = b2  e1 = e1  f1 = f1  f2 = f2  p1 = p1  p2 = p2
    t1 = t1  t2 = t2  t3 = t3
    Run = {a1, a2}
    Field = {e1}
    Reviewer = {b1, b2}
    MaxRunning = 1
    File = {f1, f2}
    Allowed = {f1}
    Doc = {a1, a2}
    Evidence = {e1}
    Uploader = {b1, b2}
    Checker = {p1}
    Sweep = {p2}
    Prompt = {a1, a2}
    Value = {b1, b2}
    Text = {t1, t2, t3}
    Foreign = {t2}
    Uncited = {t3}
    Composed = t1
    MaxDocs = 2
    Rubric <- MCRubric
    DrsWeight <- MCDrsWeight
    Gaps <- MCGaps
    AnswerType <- MCAnswerType
    Values <- MCValues
    RulesVersion <- MCRules
    OwnBook <- MCOwnBook
    Market <- MCMarket
    ReportedEbitda <- MCReported
    Amount <- MCAmount
    Override = {42}
    Debt = {90}
    Backed = {0, 4, 7}
INVARIANT PageShowsRows
CHECK_DEADLOCK FALSE
