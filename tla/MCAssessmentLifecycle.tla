----------------------- MODULE MCAssessmentLifecycle -----------------------
EXTENDS AssessmentLifecycle, TLC
CONSTANTS g1, g2, blank, both, none, p1, w1, w2
MCGap == {g1, g2}
MCContent == {blank, both, none}
MCComplete == {both, none}
MCFires == [c \in MCContent |-> IF c = both THEN MCGap ELSE {}]
MCTargets == [p \in Plan |-> {g1}]
MCSymmetry == Permutations({w1, w2})

\* Two scenarios, told apart for good by the initial state: requests race and no
\* plan is applied, or one request is in flight at a time and a plan is.
VARIABLE solo

ScenarioInit == Init /\ solo \in BOOLEAN

ScenarioNext ==
    /\ Next
    /\ UNCHANGED solo
    /\ solo => \A v, w \in Worker : v = w \/ job'[v] = Idle \/ job'[w] = Idle
    /\ solo \/ UNCHANGED plan

ScenarioSpec == ScenarioInit /\ [][ScenarioNext]_<<vars, solo>>

\* When scorings do not overlap, each leaves open exactly the gaps it fired, in
\* one row each, whatever earlier scorings and corrections left behind.
GapsFollowScore == [][solo => LeavesItsGaps]_vars
=============================================================================
