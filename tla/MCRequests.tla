---------------------------- MODULE MCRequests ----------------------------
(***************************************************************************)
(* Two questions about waiting, asked side by side: requests of the        *)
(* gateway wait for connections of its pool, and scorings of one           *)
(* engagement wait for each other's rows.  The part decides which of the   *)
(* two moves; the other rests in a state where nothing is pending, so its  *)
(* fairness asks nothing of it.                                            *)
(***************************************************************************)
EXTENDS Gateway, TLC

CONSTANTS MaxSeq, Gap, Content, Blank, Complete, Fires, Plan, Targets, Worker,
          g1, g2, blank, both, none, r1, r2, c1, c2, k1

VARIABLES status, answers, score, successor, resolvedBy, plan, job, part

L == INSTANCE AssessmentLifecycle
lifecycle == <<status, answers, score, successor, resolvedBy, plan, job>>

MCGap == {g1, g2}
MCContent == {blank, both, none}
MCComplete == {both, none}
MCFires == [c \in MCContent |-> IF c = both THEN MCGap ELSE {}]
MCTargets == [p \in {} |-> {}]

MCSections == <<"metrics", "corpus">>
MCQueries == [s \in {"metrics", "corpus"} |-> IF s = "metrics" THEN 2 ELSE 1]
MCCalls == {f \in Function : f.fn \in {"render-cim-pdf", "score-assessment"}}

\* A later moment of an engagement: the baseline was scored and fired both gaps,
\* and the next assessment is drafted: it can be scored while the baseline is
\* corrected, and both resolve the same two gap rows.
Drafted ==
    /\ status = [a \in L!Assessment |-> IF a = 1 THEN "completed"
                                        ELSE IF a = 2 THEN "in_progress" ELSE "absent"]
    /\ answers = [a \in L!Assessment |-> IF a = 1 THEN both
                                         ELSE IF a = 2 THEN none ELSE blank]
    /\ score = [a \in L!Assessment |-> IF a = 1 THEN both ELSE L!NoScore]
    /\ successor = [a \in L!Assessment |-> 0]
    /\ resolvedBy = [r \in L!Row |-> IF r[2] = 1 THEN 0 ELSE L!NoRow]
    /\ plan = [p \in Plan |-> "unapplied"]
    /\ job = [w \in Worker |-> L!Idle]

\* A bound: the answers of a draft are written once.
WrittenOnce == \A a \in L!Assessment : answers[a] # blank => answers'[a] = answers[a]

RequestsInit ==
    /\ GatewayInit
    /\ Drafted
    /\ part \in {"gateway", "scoring"}

RequestsNext ==
    /\ \/ part = "gateway" /\ GatewayNext /\ UNCHANGED lifecycle
       \/ part = "scoring" /\ L!Next /\ WrittenOnce /\ UNCHANGED gatewayVars
    /\ UNCHANGED part

RequestsSpec ==
    /\ RequestsInit
    /\ [][RequestsNext]_<<gatewayVars, lifecycle, part>>
    /\ GatewayFairness
    /\ L!Fairness

\* Every accepted request that scores, corrects, starts or writes an assessment
\* comes to an end (server/scoring.ts): waits for index entries and rows end, and a
\* cycle of them is broken.
RequestsFinish == L!RequestsFinish
=============================================================================
