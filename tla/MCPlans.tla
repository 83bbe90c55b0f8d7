-------------------------------- MODULE MCPlans --------------------------------
EXTENDS Plans, TLC
CONSTANTS s1, f1, f2, l1, w1, w2
MCContent == {{l1}, {}}
MCSeeded == s1 :> {l1}
MCTargets == [t \in Template |-> IF t = s1 THEN {l1} ELSE {}]
MCSymmetry == Permutations(Request) \cup Permutations(Template \ System)

\* History: so far no two applications have met between check and commit.  It
\* restricts nothing: requests overlap as they like.
VARIABLE apart

HistoryInit == Init /\ apart = TRUE
HistoryNext == Next /\ apart' = (apart /\ AppliesApart')
HistorySpec == HistoryInit /\ [][HistoryNext]_<<vars, apart>>

\* A bound, told apart for good by the initial state: what overlaps and follows the
\* applications is the scoring of assessments or the editing of plans.
VARIABLE scoring

ScenarioInit == HistoryInit /\ scoring \in BOOLEAN

ScenarioNext ==
    /\ HistoryNext
    /\ UNCHANGED scoring
    /\ \A w \in Request : job'[w].pc # IF scoring THEN "edit" ELSE "score"

ScenarioSpec == ScenarioInit /\ [][ScenarioNext]_<<vars, apart, scoring>>

\* Applying is idempotent until two applications overlap (applyPlan): overlapping
\* edits, scorings, removals, automatic applications and failures do not matter.
OnceWhileApart == apart => OncePerEngagement
=============================================================================
