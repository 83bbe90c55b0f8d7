---------------------- MODULE AssessmentLifecycleProofs ----------------------
(***************************************************************************)
(* Proofs about AssessmentLifecycle for every engagement length, set of    *)
(* gap definitions, scoring function and number of concurrent requests.    *)
(***************************************************************************)
EXTENDS MCAssessmentLifecycle, FiniteSetTheorems, TLAPS

\* The scores of an assessment are written by the transaction that completes it.
ScoredIffCompleted ==
    \A a \in Assessment : status[a] = "completed" <=> score[a] # NoScore

\* A superseded assessment links to a completed one with a higher number.
CorrectionChain ==
    \A a \in Assessment : successor[a] # 0 =>
        /\ status[a] = "completed"
        /\ a < successor[a]
        /\ status[successor[a]] = "completed"

HoldingPc == {"gaps", "resolve", "link", "commit"}

\* What a request relies on between its statements: the assessment it corrects
\* is completed and older than the correction; while it holds result rows nobody
\* has scored its target; it opens gaps its scores fire and resolves, among the
\* rows on record, gaps they do not fire.
JobOK(w) ==
    LET j == job[w] IN
    /\ j.pc \notin {"idle", "next"} => j.target \in Assessment
    /\ j.pc \in {"next", "insert"} => j.old # 0
    /\ j.old # 0 => status[j.old] = "completed"
    /\ j.old # 0 /\ j.pc # "next" => j.old < j.target
    /\ j.pc \in HoldingPc => score[j.target] = NoScore
    /\ j.pc \notin {"resolve", "link", "commit"} => j.opens = {} /\ j.todo = {} /\ j.held = {}
    /\ j.opens \subseteq Fires[j.content]
    /\ \A r \in j.todo \cup j.held : resolvedBy[r] # NoRow /\ r[1] \notin Fires[j.content]

\* unique (assessment_id, sub_score_id) as a mutual exclusion of transactions.
OneScorer ==
    \A v, w \in Worker :
        /\ v # w
        /\ job[v].pc \in HoldingPc
        /\ job[w].pc \in HoldingPc
        => job[v].target # job[w].target

IInv ==
    /\ TypeOK
    /\ ScoredIffCompleted
    /\ CorrectionChain
    /\ CurrentScoreExists
    /\ GapEvidence
    /\ \A w \in Worker : JobOK(w)
    /\ OneScorer

-----------------------------------------------------------------------------
LEMMA AssessmentNumber ==
    ASSUME NEW a \in Assessment
    PROVE  a \in 0 .. MaxSeq /\ a # 0
BY MaxSeqAssumption DEF Assessment

LEMMA NoRowNumber == \A n \in Nat : n # NoRow
BY DEF NoRow

LEMMA IdleType == Idle \in Job
BY MaxSeqAssumption, ContentAssumption DEF Idle, Job, PcSet, ScorePc

LEMMA InitType == Init => TypeOK
<1> SUFFICES ASSUME Init PROVE TypeOK
  OBVIOUS
<1>1. 0 \in 0 .. MaxSeq /\ Blank \in Content
  BY MaxSeqAssumption, ContentAssumption
<1> QED BY <1>1, IdleType DEF Init, TypeOK

LEMMA JobType ==
    ASSUME TypeOK, NEW w \in Worker
    PROVE  /\ job[w] \in Job
           /\ job[w].pc \in PcSet
           /\ job[w].target \in 0 .. MaxSeq
           /\ job[w].old \in 0 .. MaxSeq
           /\ job[w].content \in Content
           /\ job[w].opens \in SUBSET Gap
           /\ job[w].todo \in SUBSET Row
           /\ job[w].held \in SUBSET Row
           /\ job[w].plans \in SUBSET Plan
           /\ job[w].met \in SUBSET Plan
           /\ job[w].done \in SUBSET Plan
BY DEF TypeOK, Job

\* Steps that write no table: only the record of one request changes.
LEMMA LocalType ==
    ASSUME TypeOK, UNCHANGED tables,
           NEW w \in Worker, NEW j \in Job, job' = [job EXCEPT ![w] = j]
    PROVE  TypeOK'
BY DEF TypeOK, tables

LEMMA StepType ==
    ASSUME TypeOK, NEW w \in Worker, Step(w)
    PROVE  TypeOK'
<1> USE MaxSeqAssumption, ContentAssumption
<1>j. job[w] \in Job /\ job \in [Worker -> Job]
  BY JobType DEF TypeOK
<1>l. Leave(w) => TypeOK'
  BY LocalType, IdleType DEF Leave
<1>g. ASSUME NEW pc \in PcSet, Goto(w, pc)
      PROVE  TypeOK'
  <2> [job[w] EXCEPT !.pc = pc] \in Job
    BY <1>j DEF Job
  <2> QED BY <1>g, LocalType DEF Goto
<1>1. CASE ReadNextSequence(w)
  <2>1. ASSUME NEW n \in Assessment,
               job' = [job EXCEPT ![w].pc = "insert", ![w].target = n],
               UNCHANGED tables
        PROVE  TypeOK'
    <3> DEFINE k == [job[w] EXCEPT !.pc = "insert", !.target = n]
    <3>1. k \in Job
      BY <1>j, AssessmentNumber DEF Job, PcSet
    <3>2. job' = [job EXCEPT ![w] = k]
      BY <2>1, <1>j
    <3> HIDE DEF k
    <3> QED BY <3>1, <3>2, <2>1, LocalType
  <2> QED BY <1>1, <1>l, <2>1 DEF ReadNextSequence
<1>2. CASE InsertCorrection(w)
  BY <1>2, <1>l, <1>g DEF InsertCorrection, PcSet, ScorePc
<1>3. CASE LoadAnswers(w)
  <2> DEFINE c == IF job[w].old = 0 THEN answers[job[w].target] ELSE job[w].content
             k == [job[w] EXCEPT !.pc = "persist", !.content = c]
  <2>1. ASSUME c \in Complete, job' = [job EXCEPT ![w].pc = "persist", ![w].content = c],
               UNCHANGED tables
        PROVE  TypeOK'
    <3>1. k \in Job
      BY <2>1, <1>j DEF Job, PcSet, ScorePc
    <3>2. job' = [job EXCEPT ![w] = k]
      BY <2>1, <1>j
    <3> HIDE DEF k
    <3> QED BY <3>1, <3>2, <2>1, LocalType
  <2> QED BY <1>3, <1>l, <2>1 DEF LoadAnswers
<1>4. CASE PersistScores(w)
  BY <1>4, <1>l, <1>g DEF PersistScores, PcSet, ScorePc
<1>5. CASE ReadOpenGaps(w)
  <2> PICK m \in OpenByCode :
         job' = [job EXCEPT ![w].pc = "resolve",
                            ![w].opens = Fires[job[w].content] \ {r[1] : r \in m},
                            ![w].todo = {r \in m : r[1] \notin Fires[job[w].content]}]
    BY <1>5 DEF ReadOpenGaps
  <2> DEFINE k == [job[w] EXCEPT !.pc = "resolve",
                            !.opens = Fires[job[w].content] \ {r[1] : r \in m},
                            !.todo = {r \in m : r[1] \notin Fires[job[w].content]}]
  <2>1. m \subseteq Row
    BY DEF OpenByCode, OpenRows
  <2>2. Fires[job[w].content] \subseteq Gap
    BY JobType
  <2>3. k \in Job
    BY <1>j, <2>1, <2>2 DEF Job, PcSet, ScorePc
  <2>4. job' = [job EXCEPT ![w] = k]
    BY <1>j
  <2> HIDE DEF k
  <2> QED BY <2>3, <2>4, <1>5, LocalType DEF ReadOpenGaps
<1>6. ASSUME NEW r \in Row, ResolveGap(w, r)
      PROVE  TypeOK'
  <2> DEFINE k == [job[w] EXCEPT !.todo = @ \ {r}, !.held = @ \cup {r}]
  <2>1. k \in Job
    BY <1>j DEF Job
  <2>2. job' = [job EXCEPT ![w] = k]
    BY <1>6, <1>j DEF ResolveGap
  <2> HIDE DEF k
  <2> QED BY <2>1, <2>2, <1>6, LocalType DEF ResolveGap
<1>7. CASE ReadActivePlans(w)
  <2> DEFINE k == [job[w] EXCEPT !.pc = IF job[w].old = 0 THEN "commit" ELSE "link",
                                 !.plans = {p \in Plan : plan[p] = "active"}]
  <2>1. k \in Job
    BY <1>j DEF Job, PcSet, ScorePc
  <2>2. job' = [job EXCEPT ![w] = k]
    BY <1>7, <1>j DEF ReadActivePlans
  <2> HIDE DEF k
  <2> QED BY <2>1, <2>2, <1>7, LocalType DEF ReadActivePlans
<1>14. ASSUME NEW p \in Plan, CheckPlan(w, p)
       PROVE  TypeOK'
  <2> DEFINE met == IF Remediated(p, Mine(w)) THEN {p} ELSE {}
             k == [job[w] EXCEPT !.plans = @ \ {p}, !.met = met]
  <2>1. met \in SUBSET Plan
    OBVIOUS
  <2>2. job' = [job EXCEPT ![w] = k]
    BY <1>14, <1>j DEF CheckPlan
  <2> HIDE DEF met
  <2>3. k \in Job
    BY <1>j, <2>1 DEF Job
  <2> HIDE DEF k
  <2> QED BY <2>2, <2>3, <1>14, LocalType DEF CheckPlan
<1>15. ASSUME NEW p \in Plan, CompletePlan(w, p)
       PROVE  TypeOK'
  <2> DEFINE k == [job[w] EXCEPT !.met = {}, !.done = @ \cup {p}]
  <2>1. k \in Job
    BY <1>j DEF Job
  <2>2. job' = [job EXCEPT ![w] = k]
    BY <1>15, <1>j DEF CompletePlan
  <2> HIDE DEF k
  <2> QED BY <2>1, <2>2, <1>15, LocalType DEF CompletePlan
<1>8. CASE LinkOld(w)
  BY <1>8, <1>g DEF LinkOld, PcSet, ScorePc
<1>9. CASE Commit(w)
  <2>1. Mine(w) \in [Row -> {NoRow} \cup (0 .. MaxSeq)]
    BY <1>j DEF Mine, TypeOK, Job
  <2> QED BY <1>9, <1>j, <2>1, IdleType DEF Commit, TypeOK, Job
<1>10. CASE InsertAssessment(w)
  <2>1. [job[w] EXCEPT !.pc = "seed"] \in Job
    BY <1>j DEF Job, PcSet
  <2> QED BY <1>10, <1>l, <2>1 DEF InsertAssessment, TypeOK
<1>11. ASSUME NEW c \in Content, SeedAnswers(w, c)
       PROVE  TypeOK'
  BY <1>11, IdleType DEF SeedAnswers, TypeOK
<1>12. ASSUME NEW c \in Content, ServiceWrite(w, c)
       PROVE  TypeOK'
  <2>1. [job[w] EXCEPT !.pc = "more"] \in Job
    BY <1>j DEF Job, PcSet
  <2> QED BY <1>12, <2>1, IdleType DEF ServiceWrite, TypeOK
<1>13. CASE DeadlockAbort(w)
  BY <1>13, <1>l DEF DeadlockAbort
<1> QED
  BY <1>1, <1>2, <1>3, <1>4, <1>5, <1>6, <1>7, <1>8, <1>9, <1>10, <1>11, <1>12, <1>13,
     <1>14, <1>15 DEF Step

LEMMA RequestType ==
    ASSUME TypeOK, NEW w \in Worker, Request(w) \/ Abort(w)
    PROVE  TypeOK'
<1> USE MaxSeqAssumption, ContentAssumption
<1> DEFINE Local(k) == job' = [job EXCEPT ![w] = k] /\ UNCHANGED tables
<1>l. ASSUME NEW k \in Job, Local(k)
      PROVE  TypeOK'
  BY <1>l, LocalType
<1>1. ASSUME NEW a \in Assessment, RequestScore(w, a)
      PROVE  TypeOK'
  <2> DEFINE k == [Idle EXCEPT !.pc = "load", !.target = a]
  <2>1. k \in Job
    BY IdleType, AssessmentNumber DEF Job, PcSet, ScorePc
  <2>2. Local(k)
    BY <1>1 DEF RequestScore
  <2> HIDE DEF k, Local
  <2> QED BY <2>1, <2>2, <1>l
<1>2. ASSUME NEW a \in Assessment, NEW c \in Content, RequestSupersede(w, a, c)
      PROVE  TypeOK'
  <2> DEFINE k == [Idle EXCEPT !.pc = "next", !.old = a, !.content = c]
  <2>1. k \in Job
    BY IdleType, AssessmentNumber DEF Job, PcSet
  <2>2. Local(k)
    BY <1>2 DEF RequestSupersede
  <2> HIDE DEF k, Local
  <2> QED BY <2>1, <2>2, <1>l
<1>3. CASE StartAssessment(w)
  <2> PICK n \in Assessment :
        job' = [job EXCEPT ![w] = [Idle EXCEPT !.pc = "start", !.target = n]]
    BY <1>3 DEF StartAssessment
  <2> DEFINE k == [Idle EXCEPT !.pc = "start", !.target = n]
  <2>1. k \in Job
    BY IdleType, AssessmentNumber DEF Job, PcSet
  <2>2. Local(k)
    BY <1>3 DEF StartAssessment
  <2> HIDE DEF k, Local
  <2> QED BY <2>1, <2>2, <1>l
<1>4. ASSUME NEW a \in Assessment, ServiceCheck(w, a)
      PROVE  TypeOK'
  <2> DEFINE k == [Idle EXCEPT !.pc = "service", !.target = a]
  <2>1. k \in Job
    BY IdleType, AssessmentNumber DEF Job, PcSet
  <2>2. Local(k)
    BY <1>4 DEF ServiceCheck
  <2> HIDE DEF k, Local
  <2> QED BY <2>1, <2>2, <1>l
<1>5. CASE Abort(w)
  BY <1>5, LocalType, IdleType DEF Abort, Leave
<1> QED
  BY <1>1, <1>2, <1>3, <1>4, <1>5 DEF Request

\* The tables and the requests' records keep their types.
THEOREM TypeCorrect == Spec => []TypeOK
<1>1. TypeOK /\ [Next]_vars => TypeOK'
  <2> SUFFICES ASSUME TypeOK, [Next]_vars
               PROVE  TypeOK'
    OBVIOUS
  <2>1. ASSUME NEW w \in Worker, Request(w) \/ Step(w) \/ Abort(w)
        PROVE  TypeOK'
    BY <2>1, StepType, RequestType
  <2>2. ASSUME NEW a \in Assessment, NEW c \in Content, SaveAnswers(a, c)
        PROVE  TypeOK'
    BY <2>2 DEF SaveAnswers, TypeOK
  <2>3. ASSUME NEW p \in Plan, ApplyPlan(p) \/ RemovePlan(p)
        PROVE  TypeOK'
    BY <2>3 DEF ApplyPlan, RemovePlan, TypeOK
  <2>4. CASE UNCHANGED vars
    BY <2>4 DEF vars, TypeOK
  <2> QED BY <2>1, <2>2, <2>3, <2>4 DEF Next
<1> QED BY <1>1, InitType, PTL DEF Spec

-----------------------------------------------------------------------------
LEMMA InitInv == Init => IInv
<1> SUFFICES ASSUME Init PROVE IInv
  OBVIOUS
<1>1. TypeOK
  BY InitType
<1>2. ASSUME NEW w \in Worker
      PROVE  JobOK(w)
  BY <1>1 DEF Init, JobOK, Idle, HoldingPc
<1>3. ScoredIffCompleted /\ CorrectionChain /\ CurrentScoreExists /\ GapEvidence
  BY DEF Init, ScoredIffCompleted, CorrectionChain, CurrentScoreExists, GapEvidence
<1>4. OneScorer
  BY DEF Init, OneScorer, Idle, HoldingPc
<1> QED BY <1>1, <1>2, <1>3, <1>4 DEF IInv

\* An idle record satisfies whatever a request relies on.
LEMMA IdleOK ==
    ASSUME NEW w \in Worker, job[w] = Idle
    PROVE  JobOK(w) /\ job[w].pc \notin HoldingPc
BY DEF JobOK, Idle, HoldingPc

\* A step of request w that writes no table keeps the invariant if what w relies
\* on still holds and w does not join another scorer of its target.
LEMMA LocalInv ==
    ASSUME IInv, TypeOK', UNCHANGED tables,
           NEW w \in Worker,
           \A v \in Worker \ {w} : job'[v] = job[v],
           JobOK(w)',
           \A v \in Worker \ {w} :
              job'[w].pc \in HoldingPc /\ job[v].pc \in HoldingPc
                 => job'[w].target # job[v].target
    PROVE  IInv'
<1>1. (ScoredIffCompleted /\ CorrectionChain /\ CurrentScoreExists /\ GapEvidence)'
  BY DEF IInv, tables, ScoredIffCompleted, CorrectionChain, CurrentScoreExists, GapEvidence
<1>2. ASSUME NEW v \in Worker
      PROVE  JobOK(v)'
  <2>1. CASE v = w
    BY <2>1
  <2>2. CASE v # w
    BY <2>2 DEF IInv, tables, JobOK
  <2> QED BY <2>1, <2>2
<1>3. OneScorer'
  BY DEF IInv, OneScorer
<1> QED BY <1>1, <1>2, <1>3 DEF IInv

LEMMA LeaveInv ==
    ASSUME IInv, TypeOK', NEW w \in Worker, Leave(w)
    PROVE  IInv'
<1>1. /\ UNCHANGED tables
      /\ \A v \in Worker \ {w} : job'[v] = job[v]
      /\ job'[w] = Idle
  BY DEF Leave, IInv, TypeOK
<1>2. JobOK(w)' /\ job'[w].pc \notin HoldingPc
  BY <1>1 DEF JobOK, Idle, HoldingPc
<1> QED BY <1>1, <1>2, LocalInv

LEMMA RequestInv ==
    ASSUME IInv, TypeOK', NEW w \in Worker, Request(w) \/ Abort(w)
    PROVE  IInv'
<1> USE DEF IInv
<1>1. ASSUME NEW a \in Assessment, RequestScore(w, a)
      PROVE  IInv'
  <2>1. /\ UNCHANGED tables
        /\ \A v \in Worker \ {w} : job'[v] = job[v]
        /\ job'[w] = [Idle EXCEPT !.pc = "load", !.target = a]
    BY <1>1 DEF RequestScore, TypeOK
  <2>2. JobOK(w)' /\ job'[w].pc \notin HoldingPc
    BY <2>1 DEF JobOK, Idle, HoldingPc
  <2> QED BY <2>1, <2>2, LocalInv
<1>2. ASSUME NEW a \in Assessment, NEW c \in Content, RequestSupersede(w, a, c)
      PROVE  IInv'
  <2>1. /\ UNCHANGED tables
        /\ \A v \in Worker \ {w} : job'[v] = job[v]
        /\ job'[w] = [Idle EXCEPT !.pc = "next", !.old = a, !.content = c]
        /\ status[a] = "completed"
    BY <1>2 DEF RequestSupersede, TypeOK
  <2>2. JobOK(w)' /\ job'[w].pc \notin HoldingPc
    BY <2>1, AssessmentNumber DEF JobOK, Idle, HoldingPc, tables
  <2> QED BY <2>1, <2>2, LocalInv
<1>3. ASSUME NEW a \in Assessment, NEW pc \in {"start", "service"},
             UNCHANGED tables,
             job' = [job EXCEPT ![w] = [Idle EXCEPT !.pc = pc, !.target = a]]
      PROVE  IInv'
  <2>1. /\ \A v \in Worker \ {w} : job'[v] = job[v]
        /\ job'[w] = [Idle EXCEPT !.pc = pc, !.target = a]
    BY <1>3 DEF TypeOK
  <2>2. JobOK(w)' /\ job'[w].pc \notin HoldingPc
    BY <2>1 DEF JobOK, Idle, HoldingPc
  <2> QED BY <1>3, <2>1, <2>2, LocalInv
<1>4. CASE StartAssessment(w)
  BY <1>4, <1>3 DEF StartAssessment
<1>5. ASSUME NEW a \in Assessment, ServiceCheck(w, a)
      PROVE  IInv'
  BY <1>5, <1>3 DEF ServiceCheck
<1>6. CASE Abort(w)
  BY <1>6, LeaveInv DEF Abort
<1> QED BY <1>1, <1>2, <1>4, <1>5, <1>6 DEF Request

\* The steps of a transaction before its commit.
LEMMA TransactionInv ==
    ASSUME IInv, TypeOK', NEW w \in Worker,
           \/ ReadNextSequence(w) \/ InsertCorrection(w) \/ LoadAnswers(w)
           \/ PersistScores(w) \/ ReadOpenGaps(w) \/ \E r \in Row : ResolveGap(w, r)
           \/ ReadActivePlans(w) \/ \E p \in Plan : CheckPlan(w, p) \/ CompletePlan(w, p)
           \/ LinkOld(w) \/ DeadlockAbort(w)
    PROVE  IInv'
<1> USE DEF IInv
<1>j. /\ JobOK(w)
      /\ job \in [Worker -> Job]
      /\ job[w] \in Job
  BY JobType DEF TypeOK
<1>1. CASE ReadNextSequence(w)
  <2>1. ASSUME NEW n \in Assessment, IsNextSequence(n), job[w].pc = "next",
               UNCHANGED tables,
               job' = [job EXCEPT ![w].pc = "insert", ![w].target = n]
        PROVE  IInv'
    <3>1. /\ \A v \in Worker \ {w} : job'[v] = job[v]
          /\ job'[w] = [job[w] EXCEPT !.pc = "insert", !.target = n]
      BY <2>1, <1>j
    <3>2. job[w].old # 0 /\ job[w].old \in Assessment /\ status[job[w].old] = "completed"
      BY <2>1, <1>j, MaxSeqAssumption DEF JobOK, Job, Assessment
    <3>3. job[w].old < n
      BY <2>1, <3>2 DEF IsNextSequence
    <3>4. JobOK(w)' /\ job'[w].pc \notin HoldingPc
      BY <2>1, <1>j, <3>1, <3>2, <3>3 DEF JobOK, Job, HoldingPc, tables
    <3> QED BY <2>1, <3>1, <3>4, LocalInv
  <2> QED BY <1>1, <2>1, LeaveInv DEF ReadNextSequence
<1>2. CASE InsertCorrection(w)
  <2>1. ASSUME Goto(w, "load")
        PROVE  IInv'
    <3>1. /\ UNCHANGED tables
          /\ \A v \in Worker \ {w} : job'[v] = job[v]
          /\ job'[w] = [job[w] EXCEPT !.pc = "load"]
      BY <2>1, <1>j DEF Goto
    <3>2. JobOK(w)' /\ job'[w].pc \notin HoldingPc
      BY <1>2, <1>j, <3>1 DEF InsertCorrection, JobOK, Job, HoldingPc, tables
    <3> QED BY <3>1, <3>2, LocalInv
  <2> QED BY <1>2, <2>1, LeaveInv DEF InsertCorrection
<1>3. CASE LoadAnswers(w)
  <2>1. ASSUME NEW c \in Complete, job[w].pc = "load", UNCHANGED tables,
               job' = [job EXCEPT ![w].pc = "persist", ![w].content = c],
               job[w].opens = {}, job[w].todo = {}, job[w].held = {}
        PROVE  IInv'
    <3>1. /\ \A v \in Worker \ {w} : job'[v] = job[v]
          /\ job'[w] = [job[w] EXCEPT !.pc = "persist", !.content = c]
      BY <2>1, <1>j
    <3>2. JobOK(w)' /\ job'[w].pc \notin HoldingPc
      BY <1>j, <2>1, <3>1 DEF JobOK, Job, HoldingPc, tables
    <3> QED BY <2>1, <3>1, <3>2, LocalInv
  <2> QED BY <1>3, <1>j, <2>1, LeaveInv DEF LoadAnswers, JobOK
<1>4. CASE PersistScores(w)
  <2>1. ASSUME Goto(w, "gaps"), score[job[w].target] = NoScore
        PROVE  IInv'
    <3>1. /\ UNCHANGED tables
          /\ \A v \in Worker \ {w} : job'[v] = job[v]
          /\ job'[w] = [job[w] EXCEPT !.pc = "gaps"]
      BY <2>1, <1>j DEF Goto
    <3>2. JobOK(w)'
      BY <1>4, <1>j, <2>1, <3>1 DEF PersistScores, JobOK, Job, HoldingPc, tables
    <3>3. \A v \in Worker \ {w} : job[v].pc \in HoldingPc => job'[w].target # job[v].target
      BY <1>4, <1>j, <3>1 DEF PersistScores, HoldsScore, HoldingPc, ScorePc, Job
    <3> QED BY <3>1, <3>2, <3>3, LocalInv
  <2> QED BY <1>4, <2>1, LeaveInv DEF PersistScores
<1>5. CASE ReadOpenGaps(w)
  <2> PICK m \in OpenByCode :
         job' = [job EXCEPT ![w].pc = "resolve",
                            ![w].opens = Fires[job[w].content] \ {r[1] : r \in m},
                            ![w].todo = {r \in m : r[1] \notin Fires[job[w].content]}]
    BY <1>5 DEF ReadOpenGaps
  <2>a. m \subseteq OpenRows
    BY DEF OpenByCode
  <2>b. 0 # NoRow
    BY NoRowNumber
  <2>1. \A r \in m : resolvedBy[r] # NoRow
    BY <2>a, <2>b DEF OpenRows
  <2>2. /\ UNCHANGED tables
        /\ \A v \in Worker \ {w} : job'[v] = job[v]
        /\ job'[w] = [job[w] EXCEPT !.pc = "resolve",
                            !.opens = Fires[job[w].content] \ {r[1] : r \in m},
                            !.todo = {r \in m : r[1] \notin Fires[job[w].content]}]
    BY <1>5, <1>j DEF ReadOpenGaps
  <2>c. /\ job[w].pc = "gaps" /\ job'[w].pc = "resolve"
        /\ job'[w].target = job[w].target /\ job'[w].old = job[w].old
        /\ job'[w].content = job[w].content /\ job'[w].held = job[w].held
        /\ job'[w].opens \subseteq Fires[job[w].content]
        /\ job'[w].todo = {r \in m : r[1] \notin Fires[job[w].content]}
    BY <1>5, <1>j, <2>2 DEF ReadOpenGaps, Job
  <2>d. job[w].held = {}
    BY <1>j, <2>c DEF JobOK
  <2>3. JobOK(w)'
    BY <1>5, <1>j, <2>1, <2>c, <2>d DEF ReadOpenGaps, JobOK, HoldingPc, tables
  <2>4. \A v \in Worker \ {w} : job[v].pc \in HoldingPc => job'[w].target # job[v].target
    BY <1>5, <1>j, <2>2 DEF ReadOpenGaps, OneScorer, HoldingPc, Job
  <2> QED BY <2>2, <2>3, <2>4, LocalInv
<1>6. ASSUME NEW r \in Row, ResolveGap(w, r)
      PROVE  IInv'
  <2>1. /\ UNCHANGED tables
        /\ \A v \in Worker \ {w} : job'[v] = job[v]
        /\ job'[w] = [job[w] EXCEPT !.todo = @ \ {r}, !.held = @ \cup {r}]
    BY <1>6, <1>j DEF ResolveGap
  <2>a. /\ job[w].pc = "resolve" /\ job'[w].pc = "resolve"
        /\ job'[w].target = job[w].target /\ job'[w].old = job[w].old
        /\ job'[w].content = job[w].content /\ job'[w].opens = job[w].opens
        /\ job'[w].todo \cup job'[w].held \subseteq job[w].todo \cup job[w].held
    BY <1>6, <1>j, <2>1 DEF ResolveGap, Job
  <2>2. JobOK(w)'
    BY <1>6, <1>j, <2>1, <2>a DEF ResolveGap, JobOK, HoldingPc, tables
  <2>3. \A v \in Worker \ {w} : job[v].pc \in HoldingPc => job'[w].target # job[v].target
    BY <1>6, <1>j, <2>1 DEF ResolveGap, OneScorer, HoldingPc, Job
  <2> QED BY <2>1, <2>2, <2>3, LocalInv
<1>7. CASE ReadActivePlans(w)
  <2>1. /\ UNCHANGED tables
        /\ \A v \in Worker \ {w} : job'[v] = job[v]
        /\ job'[w] = [job[w] EXCEPT !.pc = IF job[w].old = 0 THEN "commit" ELSE "link",
                                    !.plans = {p \in Plan : plan[p] = "active"}]
    BY <1>7, <1>j DEF ReadActivePlans
  <2>2. JobOK(w)'
    BY <1>7, <1>j, <2>1 DEF ReadActivePlans, JobOK, Job, HoldingPc, tables
  <2>3. \A v \in Worker \ {w} : job[v].pc \in HoldingPc => job'[w].target # job[v].target
    BY <1>7, <1>j, <2>1 DEF ReadActivePlans, OneScorer, HoldingPc, Job
  <2> QED BY <2>1, <2>2, <2>3, LocalInv
<1>10. ASSUME NEW k \in Job, UNCHANGED tables, job' = [job EXCEPT ![w] = k],
              k.pc = job[w].pc, k.target = job[w].target, k.old = job[w].old,
              k.content = job[w].content, k.opens = job[w].opens,
              k.todo = job[w].todo, k.held = job[w].held
       PROVE  IInv'
  <2>1. job'[w] = k /\ \A v \in Worker \ {w} : job'[v] = job[v]
    BY <1>10, <1>j
  <2>2. JobOK(w)'
    BY <1>10, <1>j, <2>1 DEF JobOK, tables
  <2>3. \A v \in Worker \ {w} :
          job[v].pc \in HoldingPc /\ k.pc \in HoldingPc => job'[w].target # job[v].target
    BY <1>10, <1>j, <2>1 DEF OneScorer
  <2> QED BY <1>10, <2>1, <2>2, <2>3, LocalInv
<1>11. ASSUME NEW p \in Plan, CheckPlan(w, p)
       PROVE  IInv'
  <2> DEFINE met == IF Remediated(p, Mine(w)) THEN {p} ELSE {}
             k == [job[w] EXCEPT !.plans = @ \ {p}, !.met = met]
  <2>1. met \in SUBSET Plan
    OBVIOUS
  <2>2. job' = [job EXCEPT ![w] = k] /\ UNCHANGED tables
    BY <1>11, <1>j DEF CheckPlan
  <2> HIDE DEF met
  <2>3. /\ k \in Job
        /\ k.pc = job[w].pc /\ k.target = job[w].target /\ k.old = job[w].old
        /\ k.content = job[w].content /\ k.opens = job[w].opens
        /\ k.todo = job[w].todo /\ k.held = job[w].held
    BY <1>j, <2>1 DEF Job
  <2> HIDE DEF k
  <2> QED BY <2>2, <2>3, <1>10
<1>12. ASSUME NEW p \in Plan, CompletePlan(w, p)
       PROVE  IInv'
  <2> DEFINE k == [job[w] EXCEPT !.met = {}, !.done = @ \cup {p}]
  <2>1. job' = [job EXCEPT ![w] = k] /\ UNCHANGED tables
    BY <1>12, <1>j DEF CompletePlan
  <2>2. /\ k \in Job
        /\ k.pc = job[w].pc /\ k.target = job[w].target /\ k.old = job[w].old
        /\ k.content = job[w].content /\ k.opens = job[w].opens
        /\ k.todo = job[w].todo /\ k.held = job[w].held
    BY <1>j DEF Job
  <2> HIDE DEF k
  <2> QED BY <2>1, <2>2, <1>10
<1>8. CASE LinkOld(w)
  <2>1. /\ UNCHANGED tables
        /\ \A v \in Worker \ {w} : job'[v] = job[v]
        /\ job'[w] = [job[w] EXCEPT !.pc = "commit"]
    BY <1>8, <1>j DEF LinkOld, Goto
  <2>2. JobOK(w)'
    BY <1>8, <1>j, <2>1 DEF LinkOld, JobOK, Job, HoldingPc, tables
  <2>3. \A v \in Worker \ {w} : job[v].pc \in HoldingPc => job'[w].target # job[v].target
    BY <1>8, <1>j, <2>1 DEF LinkOld, OneScorer, HoldingPc, Job
  <2> QED BY <2>1, <2>2, <2>3, LocalInv
<1>9. CASE DeadlockAbort(w)
  BY <1>9, LeaveInv DEF DeadlockAbort
<1> QED BY <1>1, <1>2, <1>3, <1>4, <1>5, <1>6, <1>7, <1>8, <1>9,
       <1>11, <1>12

\* The commit of a scoring: its target was not scored before, and is completed
\* and current after it.
LEMMA CommitInv ==
    ASSUME IInv, TypeOK', NEW w \in Worker, Commit(w)
    PROVE  IInv'
<1> USE DEF IInv
<1> DEFINE t == job[w].target
           o == job[w].old
           c == job[w].content
<1>j. /\ job[w] \in Job /\ job \in [Worker -> Job]
      /\ t \in Assessment /\ t # 0 /\ t \in 0 .. MaxSeq
      /\ c \in Content /\ c # NoScore
      /\ score[t] = NoScore
      /\ o # 0 => o \in Assessment /\ o < t /\ status[o] = "completed"
      /\ job[w].opens \subseteq Fires[c]
      /\ \A r \in job[w].held : resolvedBy[r] # NoRow /\ r[1] \notin Fires[c]
      /\ job[w].pc = "commit"
  <2>1. JobOK(w) /\ job[w].pc = "commit"
    BY DEF Commit
  <2>2. job[w] \in Job /\ job \in [Worker -> Job] /\ o \in 0 .. MaxSeq /\ c \in Content
    BY JobType DEF TypeOK
  <2>3. c # NoScore
    BY <2>2, ContentAssumption
  <2>4. t \in Assessment /\ score[t] = NoScore
    BY <2>1 DEF JobOK, HoldingPc
  <2>5. o # 0 => o \in Assessment /\ o < t /\ status[o] = "completed"
    BY <2>1, <2>2, MaxSeqAssumption DEF JobOK, Assessment
  <2>6. /\ job[w].opens \subseteq Fires[c]
        /\ \A r \in job[w].held : resolvedBy[r] # NoRow /\ r[1] \notin Fires[c]
    BY <2>1 DEF JobOK
  <2> QED BY <2>1, <2>2, <2>3, <2>4, <2>5, <2>6, AssessmentNumber
<1>t. /\ status' = [status EXCEPT ![t] = "completed"]
      /\ score' = [score EXCEPT ![t] = c]
      /\ successor' = IF o = 0 THEN successor ELSE [successor EXCEPT ![o] = t]
      /\ resolvedBy' = Mine(w)
      /\ job' = [job EXCEPT ![w] = Idle]
  BY DEF Commit
<1>f. /\ status \in [Assessment -> {"absent", "in_progress", "completed"}]
      /\ score \in [Assessment -> Content \cup {NoScore}]
      /\ successor \in [Assessment -> 0 .. MaxSeq]
      /\ resolvedBy \in [Row -> {NoRow} \cup (0 .. MaxSeq)]
  BY DEF TypeOK
<1>n. status[t] # "completed" /\ successor[t] = 0
  BY <1>j DEF ScoredIffCompleted, CorrectionChain
<1>1. ScoredIffCompleted'
  BY <1>j, <1>t, <1>f DEF ScoredIffCompleted
<1>2. CorrectionChain'
  <2> SUFFICES ASSUME NEW a \in Assessment, successor'[a] # 0
               PROVE  /\ status'[a] = "completed"
                      /\ a < successor'[a]
                      /\ status'[successor'[a]] = "completed"
    BY DEF CorrectionChain
  <2>1. CASE o # 0 /\ a = o
    BY <2>1, <1>j, <1>t, <1>f
  <2>2. CASE ~(o # 0 /\ a = o)
    <3>1. successor'[a] = successor[a]
      BY <2>2, <1>j, <1>t, <1>f
    <3>2. successor[a] \in Assessment
      BY <3>1, <1>f, MaxSeqAssumption DEF Assessment
    <3> QED BY <3>1, <3>2, <1>t, <1>f DEF CorrectionChain
  <2> QED BY <2>1, <2>2
<1>3. CurrentScoreExists'
  <2>1. status'[t] = "completed"
    BY <1>j, <1>t, <1>f
  <2>2. successor'[t] = 0
    BY <1>j, <1>t, <1>f, <1>n, MaxSeqAssumption DEF Assessment
  <2> QED BY <2>1, <2>2, <1>j DEF CurrentScoreExists
<1>s. /\ \A a \in Assessment : status[a] = "completed" =>
            status'[a] = "completed" /\ score'[a] = score[a]
      /\ status'[t] = "completed" /\ score'[t] = c
  BY <1>j, <1>t, <1>f, <1>n
<1>4. GapEvidence'
  <2> SUFFICES ASSUME NEW r \in Row, Mine(w)[r] # NoRow
               PROVE  /\ status'[r[2]] = "completed"
                      /\ r[1] \in Fires[score'[r[2]]]
                      /\ Mine(w)[r] # 0 =>
                           /\ status'[Mine(w)[r]] = "completed"
                           /\ r[1] \notin Fires[score'[Mine(w)[r]]]
    BY <1>t DEF GapEvidence
  <2>0. r[2] \in Assessment
    BY DEF Row
  <2>1. CASE r \in job[w].held
    <3>1. Mine(w)[r] = t
      BY <2>1 DEF Mine
    <3>2. status[r[2]] = "completed" /\ r[1] \in Fires[score[r[2]]]
      BY <2>1, <1>j DEF GapEvidence
    <3> QED BY <2>0, <2>1, <3>1, <3>2, <1>s, <1>j
  <2>2. CASE r \notin job[w].held /\ r[1] \in job[w].opens /\ r[2] = t
    <3>1. Mine(w)[r] = 0
      BY <2>2 DEF Mine
    <3> QED BY <2>2, <3>1, <1>s, <1>j
  <2>3. CASE r \notin job[w].held /\ ~(r[1] \in job[w].opens /\ r[2] = t)
    <3>1. Mine(w)[r] = resolvedBy[r]
      BY <2>3 DEF Mine
    <3>2. resolvedBy[r] # 0 => resolvedBy[r] \in Assessment
      BY <3>1, <1>f, MaxSeqAssumption DEF Assessment
    <3> QED BY <2>0, <3>1, <3>2, <1>s DEF GapEvidence
  <2> QED BY <2>1, <2>2, <2>3
<1>5. ASSUME NEW v \in Worker
      PROVE  JobOK(v)'
  <2>1. CASE v = w
    <3> job'[v] = Idle
      BY <2>1, <1>t, <1>j
    <3> QED BY DEF JobOK, Idle, HoldingPc
  <2>2. CASE v # w
    <3>1. job'[v] = job[v] /\ JobOK(v)
      BY <2>2, <1>t, <1>j
    <3>2. job[v].old # 0 => job[v].old \in Assessment
      BY JobType, MaxSeqAssumption DEF Assessment
    <3>3. job[v].old # 0 => status'[job[v].old] = "completed"
      BY <3>1, <3>2, <1>s DEF JobOK
    <3>4. job[v].pc \in HoldingPc => score'[job[v].target] = NoScore
      <4> SUFFICES ASSUME job[v].pc \in HoldingPc
                   PROVE  score'[job[v].target] = NoScore
        OBVIOUS
      <4>1. job[v].target # t
        BY <2>2, <1>j DEF OneScorer, HoldingPc
      <4>2. job[v].target \in Assessment /\ score[job[v].target] = NoScore
        BY <3>1 DEF JobOK, HoldingPc
      <4> QED BY <4>1, <4>2, <1>t, <1>f
    <3>5. ASSUME NEW r \in Row, resolvedBy[r] # NoRow
          PROVE  resolvedBy'[r] # NoRow
      <4>1. 0 # NoRow /\ t # NoRow
        BY <1>j, NoRowNumber, MaxSeqAssumption DEF Assessment
      <4> QED BY <4>1, <3>5, <1>t DEF Mine
    <3>6. job[v].todo \cup job[v].held \subseteq Row
      BY JobType
    <3> QED BY <3>1, <3>3, <3>4, <3>5, <3>6 DEF JobOK
  <2> QED BY <2>1, <2>2
<1>6. OneScorer'
  BY <1>t, <1>j DEF OneScorer, Idle, HoldingPc
<1> QED BY <1>1, <1>2, <1>3, <1>4, <1>5, <1>6

\* The writers of drafts and of plans touch neither scores nor links nor gaps.
LEMMA DraftInv ==
    ASSUME IInv, TypeOK',
           score' = score, successor' = successor, resolvedBy' = resolvedBy,
           \A a \in Assessment : status'[a] = "completed" <=> status[a] = "completed",
           \A v \in Worker :
              \/ job'[v] = job[v]
              \/ job'[v] = Idle
              \/ /\ job[v].pc \in {"start", "service"}
                 /\ \E pc \in {"seed", "more"} : job'[v] = [job[v] EXCEPT !.pc = pc]
    PROVE  IInv'
<1> USE DEF IInv
<1>f. /\ successor \in [Assessment -> 0 .. MaxSeq]
      /\ resolvedBy \in [Row -> {NoRow} \cup (0 .. MaxSeq)]
  BY DEF TypeOK
<1>1. ScoredIffCompleted'
  BY DEF ScoredIffCompleted
<1>2. CorrectionChain'
  <2>1. ASSUME NEW a \in Assessment, successor[a] # 0
        PROVE  successor[a] \in Assessment
    BY <2>1, <1>f, MaxSeqAssumption DEF Assessment
  <2> QED BY <2>1 DEF CorrectionChain
<1>3. CurrentScoreExists'
  BY DEF CurrentScoreExists
<1>4. GapEvidence'
  <2>1. ASSUME NEW r \in Row
        PROVE  /\ r[2] \in Assessment
               /\ resolvedBy[r] \notin {NoRow, 0} => resolvedBy[r] \in Assessment
    BY <1>f, MaxSeqAssumption DEF Assessment, Row
  <2> QED BY <2>1 DEF GapEvidence
<1>5. ASSUME NEW v \in Worker
      PROVE  JobOK(v)' /\ (job'[v].pc \in HoldingPc => job'[v] = job[v])
  <2>0. job[v] \in Job /\ JobOK(v)
    BY JobType
  <2>1. CASE job'[v] = job[v]
    <3>1. job[v].old # 0 => job[v].old \in Assessment
      BY JobType, MaxSeqAssumption DEF Assessment
    <3> QED BY <2>0, <2>1, <3>1 DEF JobOK
  <2>2. CASE job'[v] = Idle
    BY <2>2 DEF JobOK, Idle, HoldingPc
  <2>3. ASSUME NEW pc \in {"seed", "more"}, job[v].pc \in {"start", "service"},
               job'[v] = [job[v] EXCEPT !.pc = pc]
        PROVE  JobOK(v)' /\ (job'[v].pc \in HoldingPc => job'[v] = job[v])
    <3>1. job[v].old # 0 => job[v].old \in Assessment
      BY JobType, MaxSeqAssumption DEF Assessment
    <3>2. /\ job'[v].pc \in {"seed", "more"} /\ job'[v].old = job[v].old
          /\ job'[v].target = job[v].target /\ job'[v].content = job[v].content
          /\ job'[v].opens = job[v].opens /\ job'[v].todo = job[v].todo
          /\ job'[v].held = job[v].held
      BY <2>0, <2>3 DEF Job
    <3> QED BY <2>0, <2>3, <3>1, <3>2 DEF JobOK, HoldingPc
  <2> QED BY <2>1, <2>2, <2>3
<1>6. OneScorer'
  BY <1>5 DEF OneScorer
<1> QED BY <1>1, <1>2, <1>3, <1>4, <1>5, <1>6

LEMMA NextInv ==
    ASSUME IInv, TypeOK', [Next]_vars
    PROVE  IInv'
<1> USE DEF IInv
<1>t. /\ status \in [Assessment -> {"absent", "in_progress", "completed"}]
      /\ job \in [Worker -> Job]
  BY DEF TypeOK
<1> DEFINE KeepsScores == /\ score' = score /\ successor' = successor
                         /\ resolvedBy' = resolvedBy
                         /\ \A a \in Assessment :
                               status'[a] = "completed" <=> status[a] = "completed"
<1>1. ASSUME NEW w \in Worker, Step(w)
      PROVE  IInv'
  <2>1. CASE InsertAssessment(w)
    <3>1. CASE Leave(w)
      BY <3>1, LeaveInv
    <3>2. CASE ~Leave(w)
      <4>1. KeepsScores
        BY <2>1, <3>2, <1>t DEF InsertAssessment
      <4>2. \A v \in Worker :
              \/ job'[v] = job[v]
              \/ job[v].pc = "start" /\ job'[v] = [job[v] EXCEPT !.pc = "seed"]
        BY <2>1, <3>2, <1>t, JobType DEF InsertAssessment
      <4> QED BY <4>1, <4>2, DraftInv
    <3> QED BY <3>1, <3>2
  <2>2. ASSUME NEW c \in Content, SeedAnswers(w, c) \/ ServiceWrite(w, c)
        PROVE  IInv'
    <3>1. KeepsScores
      BY <2>2 DEF SeedAnswers, ServiceWrite
    <3>2. ASSUME NEW v \in Worker
          PROVE  \/ job'[v] = job[v]
                 \/ job'[v] = Idle
                 \/ /\ job[v].pc \in {"start", "service"}
                    /\ \E pc \in {"seed", "more"} : job'[v] = [job[v] EXCEPT !.pc = pc]
      BY <2>2, <1>t, JobType DEF SeedAnswers, ServiceWrite
    <3> QED BY <3>1, <3>2, <1>t, DraftInv DEF KeepsScores
  <2> QED BY <1>1, <2>1, <2>2, TransactionInv, CommitInv DEF Step
<1>2. ASSUME NEW w \in Worker, Request(w) \/ Abort(w)
      PROVE  IInv'
  BY <1>2, RequestInv
<1>k. ASSUME KeepsScores, job' = job
      PROVE  IInv'
  BY <1>k, DraftInv
<1>3. ASSUME NEW a \in Assessment, NEW c \in Content, SaveAnswers(a, c)
      PROVE  IInv'
  BY <1>3, <1>k DEF SaveAnswers
<1>4. ASSUME NEW p \in Plan, ApplyPlan(p) \/ RemovePlan(p)
      PROVE  IInv'
  BY <1>4, <1>k DEF ApplyPlan, RemovePlan
<1>5. CASE UNCHANGED vars
  BY <1>5, <1>k DEF vars
<1> QED BY <1>1, <1>2, <1>3, <1>4, <1>5 DEF Next

THEOREM Invariance == Spec => []IInv
BY InitInv, NextInv, TypeCorrect, PTL DEF Spec

\* Whatever corrections race, an engagement with a score has a current score.
THEOREM CurrentScore == Spec => []CurrentScoreExists
<1>1. IInv => CurrentScoreExists
  BY DEF IInv
<1> QED BY <1>1, Invariance, PTL

\* Every gap row is backed by the scores that opened and resolved it.
THEOREM Evidence == Spec => []GapEvidence
<1>1. IInv => GapEvidence
  BY DEF IInv
<1> QED BY <1>1, Invariance, PTL

\* Nothing rewrites the scores of a completed assessment or reopens it.
THEOREM Frozen == Spec => ScoresFrozen
<1>1. ASSUME IInv, TypeOK', [Next]_vars, NEW a \in Assessment, status[a] = "completed"
      PROVE  status'[a] = "completed" /\ score'[a] = score[a]
  <2>t. /\ status \in [Assessment -> {"absent", "in_progress", "completed"}]
        /\ score \in [Assessment -> Content \cup {NoScore}]
    BY <1>1 DEF IInv, TypeOK
  <2>1. ASSUME NEW w \in Worker, Commit(w)
        PROVE  status'[a] = "completed" /\ score'[a] = score[a]
    <3>1. job[w].target \in Assessment /\ score[job[w].target] = NoScore
      BY <1>1, <2>1 DEF IInv, JobOK, HoldingPc, Commit
    <3>2. job[w].target # a
      BY <1>1, <3>1 DEF IInv, ScoredIffCompleted
    <3> QED BY <1>1, <2>1, <2>t, <3>1, <3>2 DEF Commit
  <2>2. ASSUME NEW w \in Worker, InsertAssessment(w)
        PROVE  status'[a] = "completed" /\ score'[a] = score[a]
    BY <1>1, <2>2, <2>t DEF InsertAssessment, Leave, tables
  <2>3. ASSUME NEW w \in Worker, Step(w), ~Commit(w), ~InsertAssessment(w)
        PROVE  UNCHANGED <<status, score>>
    BY <2>3 DEF Step, ReadNextSequence, InsertCorrection, LoadAnswers, PersistScores,
         ReadOpenGaps, ResolveGap, ReadActivePlans, CheckPlan, CompletePlan, LinkOld, SeedAnswers, ServiceWrite,
         DeadlockAbort, Goto, Leave, tables
  <2>4. ASSUME NEW w \in Worker, Request(w) \/ Abort(w)
        PROVE  UNCHANGED <<status, score>>
    BY <2>4 DEF Request, Abort, RequestScore, ServiceCheck, RequestSupersede,
         StartAssessment, Leave, tables
  <2>5. ASSUME NEW b \in Assessment, NEW c \in Content, SaveAnswers(b, c)
        PROVE  UNCHANGED <<status, score>>
    BY <2>5 DEF SaveAnswers
  <2>6. ASSUME NEW p \in Plan, ApplyPlan(p) \/ RemovePlan(p)
        PROVE  UNCHANGED <<status, score>>
    BY <2>6 DEF ApplyPlan, RemovePlan
  <2>7. CASE UNCHANGED vars
    BY <1>1, <2>7 DEF vars
  <2> QED BY <1>1, <2>1, <2>2, <2>3, <2>4, <2>5, <2>6, <2>7 DEF Next
<1>2. IInv /\ TypeOK' /\ [Next]_vars
        => [\A a \in Assessment : status[a] = "completed" =>
               status'[a] = "completed" /\ score'[a] = score[a]]_vars
  BY <1>1
<1> QED BY <1>2, Invariance, TypeCorrect, PTL DEF Spec, ScoresFrozen

-----------------------------------------------------------------------------
\* Only Commit touches the history; it appends one snapshot.
LEMMA HistoryStep ==
    ASSUME IInv, TypeOK', [Next]_vars
    PROVE  [History!Next]_(History!vars)
<1> SUFFICES ASSUME ~UNCHANGED <<score, successor>>
             PROVE  History!Next
  BY DEF History!vars
<1>1. PICK w \in Worker : Commit(w)
  <2>1. ASSUME NEW w \in Worker, Step(w), ~Commit(w)
        PROVE  UNCHANGED <<score, successor>>
    BY <2>1 DEF Step, ReadNextSequence, InsertCorrection, LoadAnswers, PersistScores,
         ReadOpenGaps, ResolveGap, ReadActivePlans, CheckPlan, CompletePlan, LinkOld, InsertAssessment,
         SeedAnswers, ServiceWrite, DeadlockAbort, Goto, Leave, tables
  <2>2. ASSUME NEW w \in Worker, Request(w) \/ Abort(w)
        PROVE  UNCHANGED <<score, successor>>
    BY <2>2 DEF Request, Abort, RequestScore, ServiceCheck, RequestSupersede,
         StartAssessment, Leave, tables
  <2>3. ASSUME NEW a \in Assessment, NEW c \in Content, SaveAnswers(a, c)
        PROVE  UNCHANGED <<score, successor>>
    BY <2>3 DEF SaveAnswers
  <2>4. ASSUME NEW p \in Plan, ApplyPlan(p) \/ RemovePlan(p)
        PROVE  UNCHANGED <<score, successor>>
    BY <2>4 DEF ApplyPlan, RemovePlan
  <2>5. CASE UNCHANGED vars
    BY <2>5 DEF vars
  <2> QED BY <2>1, <2>2, <2>3, <2>4, <2>5 DEF Next
<1> DEFINE t == job[w].target
           o == job[w].old
<1>2. t \in Assessment /\ score[t] = NoScore
  BY <1>1 DEF IInv, JobOK, HoldingPc, Commit
<1>3. History!Take(t)
  <2>1. job[w].content \in Content
    BY JobType DEF IInv
  <2> QED BY <1>1, <1>2, <2>1 DEF Commit, History!Take
<1>4. CASE o = 0
  BY <1>1, <1>2, <1>3, <1>4 DEF Commit, History!Next
<1>5. CASE o # 0
  <2>1. o \in Assessment /\ o < t /\ status[o] = "completed"
    <3>1. o \in 0 .. MaxSeq
      BY JobType DEF IInv
    <3>2. o < t /\ status[o] = "completed"
      BY <1>1, <1>5 DEF IInv, JobOK, Commit
    <3> QED BY <1>5, <3>1, <3>2, MaxSeqAssumption DEF Assessment
  <2>2. score[o] # NoScore
    BY <2>1 DEF IInv, ScoredIffCompleted
  <2>3. History!Correct(o, t)
    BY <1>1, <1>5, <2>1, <2>2 DEF Commit, History!Correct
  <2> QED BY <1>2, <1>3, <2>1, <2>3 DEF History!Next
<1> QED BY <1>4, <1>5

\* The detailed specification implements the append-only history of snapshots, for
\* any number of requests, however they race, fail or are rolled back.
THEOREM Implements == Spec => HistorySpec
<1>1. Init => History!Init
  BY DEF Init, History!Init
<1>2. IInv /\ TypeOK' /\ [Next]_vars => [History!Next]_(History!vars)
  BY HistoryStep
<1> QED BY <1>1, <1>2, Invariance, TypeCorrect, PTL DEF Spec, HistorySpec, History!Spec

-----------------------------------------------------------------------------
\* One request in flight at a time.
ScoringsApart == \A v, w \in Worker : v = w \/ job[v] = Idle \/ job[w] = Idle

\* The Map of open gaps by code forgets none of them.
OneRowPerCode == \A r, s \in OpenRows : r[1] = s[1] => r = s

\* A request that has not come to the plans yet.
Untouched(j) == j.plans = {} /\ j.met = {} /\ j.done = {}

\* What a scoring that meets no other knows of the committed rows: it opens the
\* codes it fires that have no open row, it has resolved or will resolve every
\* open row of another code, and the rows it leaves remediate the plans it
\* completes.
ScoringKnows(w) ==
    LET j == job[w] IN
    /\ j.pc \in {"resolve", "link", "commit"} =>
         /\ j.opens = Fires[j.content] \ {r[1] : r \in OpenRows}
         /\ j.todo \cup j.held = {r \in OpenRows : r[1] \notin Fires[j.content]}
    /\ j.pc \in {"link", "commit"} =>
         /\ j.todo = {}
         /\ \A p \in j.met \cup j.done : Remediated(p, Mine(w))
    /\ j.pc \notin {"link", "commit"} => Untouched(j)

SamePlans(j, k) == j.plans = k.plans /\ j.met = k.met /\ j.done = k.done

ApartInv == OneRowPerCode /\ \A w \in Worker : ScoringKnows(w)

LEMMA AllOpenRows ==
    ASSUME OneRowPerCode, NEW m \in OpenByCode
    PROVE  m = OpenRows
<1>1. m \subseteq OpenRows
  BY DEF OpenByCode
<1>2. ASSUME NEW r \in OpenRows
      PROVE  r \in m
  <2>1. Cardinality({s \in m : s[1] = r[1]}) = 1
    BY DEF OpenByCode
  <2>2. {s \in m : s[1] = r[1]} # {}
    BY <2>1, FS_EmptySet
  <2>3. PICK s \in m : s[1] = r[1]
    BY <2>2
  <2> QED BY <2>3, <1>1 DEF OneRowPerCode
<1> QED BY <1>1, <1>2

\* A step of one request that leaves the gap rows and the plans alone.
LEMMA LocalKnows ==
    ASSUME ApartInv, UNCHANGED <<resolvedBy, plan>>, NEW w \in Worker,
           \A v \in Worker \ {w} : job'[v] = job[v],
           ScoringKnows(w)'
    PROVE  ApartInv'
<1>1. OpenRows' = OpenRows
  BY DEF OpenRows
<1>2. OneRowPerCode'
  BY <1>1 DEF ApartInv, OneRowPerCode
<1>3. ASSUME NEW v \in Worker \ {w}
      PROVE  ScoringKnows(v)'
  <2>1. job'[v] = job[v] /\ ScoringKnows(v)
    BY DEF ApartInv
  <2> QED BY <1>1, <2>1 DEF ScoringKnows, Remediated, Mine
<1> QED BY <1>2, <1>3 DEF ApartInv

\* Before its gap rows are read, a request knows nothing and completes nothing.
LEMMA IgnorantKnows ==
    ASSUME ApartInv, UNCHANGED <<resolvedBy, plan>>, NEW w \in Worker,
           \A v \in Worker \ {w} : job'[v] = job[v],
           job'[w].pc \notin {"resolve", "link", "commit"}, Untouched(job'[w])
    PROVE  ApartInv'
BY LocalKnows DEF ScoringKnows

\* A scoring leaves open the gaps it fires, in one row each, and completes plans
\* that the rows it leaves remediate.
LEMMA CommitApart ==
    ASSUME IInv, ApartInv, ScoringsApart, NEW w \in Worker, Commit(w)
    PROVE  /\ ApartInv'
           /\ LeavesItsGaps
           /\ \A p \in Plan : plan[p] # "completed" /\ plan'[p] = "completed" =>
                 Remediated(p, resolvedBy')
<1> DEFINE t == job[w].target
           c == job[w].content
           fired == Fires[c]
           open == {r \in Row : resolvedBy'[r] = 0}
<1>j. /\ job[w] \in Job /\ job \in [Worker -> Job] /\ job[w].pc = "commit"
      /\ t \in Assessment /\ t # 0 /\ c \in Content /\ c # NoScore /\ score[t] = NoScore
      /\ job[w].opens \subseteq fired /\ job[w].opens \subseteq Gap
  BY JobType, ContentAssumption, AssessmentNumber DEF IInv, JobOK, HoldingPc, Commit, TypeOK
<1>k. /\ job[w].opens = fired \ {r[1] : r \in OpenRows}
      /\ job[w].held = {r \in OpenRows : r[1] \notin fired}
      /\ \A p \in job[w].done : Remediated(p, Mine(w))
  BY <1>j DEF ApartInv, ScoringKnows
<1>c. /\ score' = [score EXCEPT ![t] = c]
      /\ resolvedBy' = Mine(w)
      /\ plan' = [p \in Plan |-> IF p \in job[w].done THEN "completed" ELSE plan[p]]
      /\ job' = [job EXCEPT ![w] = Idle]
  BY DEF Commit
<1>f. fired \subseteq Gap
  BY <1>j, ContentAssumption
<1>1. ASSUME NEW r \in Row
      PROVE  r \in open <=> /\ r[1] \in fired
                            /\ r \in OpenRows \/ (r[1] \in job[w].opens /\ r[2] = t)
  <2>1. resolvedBy'[r] = IF r \in job[w].held THEN t
                         ELSE IF r[1] \in job[w].opens /\ r[2] = t THEN 0
                         ELSE resolvedBy[r]
    BY <1>c DEF Mine
  <2> QED BY <2>1, <1>j, <1>k DEF OpenRows
<1>2. {r[1] : r \in open} = fired
  <2>1. ASSUME NEW r \in open
        PROVE  r[1] \in fired
    BY <1>1
  <2>2. ASSUME NEW g \in fired
        PROVE  \E r \in open : r[1] = g
    <3>1. CASE g \in {r[1] : r \in OpenRows}
      <4> PICK r \in OpenRows : r[1] = g
        BY <3>1
      <4> r \in Row
        BY DEF OpenRows
      <4> QED BY <1>1
    <3>2. CASE g \notin {r[1] : r \in OpenRows}
      <4>1. g \in job[w].opens
        BY <3>2, <1>k
      <4>2. <<g, t>> \in Row /\ <<g, t>>[1] = g /\ <<g, t>>[2] = t
        BY <1>f, <1>j DEF Row
      <4> QED BY <4>1, <4>2, <1>1
    <3> QED BY <3>1, <3>2
  <2> HIDE DEF open, fired
  <2> QED BY <2>1, <2>2
<1>3. ASSUME NEW r \in open, NEW s \in open, r[1] = s[1]
      PROVE  r = s
  <2>1. CASE r \in OpenRows /\ s \in OpenRows
    BY <2>1, <1>3 DEF ApartInv, OneRowPerCode
  <2>2. CASE r[1] \in job[w].opens
    <3>1. r \notin OpenRows /\ s \notin OpenRows
      BY <2>2, <1>3, <1>k
    <3>2. r[2] = t /\ s[2] = t
      BY <3>1, <1>1
    <3>3. r = <<r[1], r[2]>> /\ s = <<s[1], s[2]>>
      BY DEF Row
    <3> QED BY <3>2, <3>3, <1>3
  <2> QED BY <2>1, <2>2, <1>1, <1>3
<1>4. ASSUME NEW a \in Assessment, score[a] = NoScore, score'[a] # NoScore
      PROVE  a = t /\ score'[a] = c
  BY <1>4, <1>c, <1>j DEF IInv, TypeOK
<1>5. LeavesItsGaps
  <2> SUFFICES ASSUME NEW a \in Assessment, score[a] = NoScore, score'[a] # NoScore
               PROVE  /\ {r[1] : r \in open} = Fires[score'[a]]
                      /\ \A r, s \in open : r[1] = s[1] => r = s
    BY DEF LeavesItsGaps
  <2> QED BY <1>2, <1>3, <1>4
<1>6. ApartInv'
  <2>1. OneRowPerCode'
    BY <1>3 DEF OneRowPerCode, OpenRows
  <2>2. ASSUME NEW v \in Worker
        PROVE  job'[v] = Idle
    <3>1. job[w] # Idle
      BY <1>j DEF Idle
    <3> QED BY <3>1, <1>c, <1>j DEF ScoringsApart
  <2> QED BY <2>1, <2>2 DEF ApartInv, ScoringKnows, Idle, Untouched
<1>7. ASSUME NEW p \in Plan, plan[p] # "completed", plan'[p] = "completed"
      PROVE  Remediated(p, resolvedBy')
  <2>1. p \in job[w].done
    BY <1>7, <1>c
  <2>2. Remediated(p, Mine(w))
    BY <2>1, <1>k
  <2> HIDE DEF Mine
  <2> QED BY <2>2, <1>c DEF Remediated
<1> QED BY <1>5, <1>6, <1>7

\* Every step that is not a commit leaves the scores and the gap rows alone, and
\* completes no plan.
LEMMA ApartNext ==
    ASSUME IInv, ApartInv, ScoringsApart, [Next]_vars
    PROVE  /\ ApartInv'
           /\ LeavesItsGaps
           /\ \A p \in Plan : plan[p] # "completed" /\ plan'[p] = "completed" =>
                 Remediated(p, resolvedBy')
<1> DEFINE Local(w) == \A v \in Worker \ {w} : job'[v] = job[v]
           Earned == \A p \in Plan : plan[p] # "completed" /\ plan'[p] = "completed" =>
                        Remediated(p, resolvedBy')
<1>j. job \in [Worker -> Job] /\ plan \in [Plan -> {"unapplied", "active", "completed", "removed"}]
  BY DEF IInv, TypeOK
<1>t. ASSUME NEW w \in Worker
      PROVE  job[w] \in Job
  BY <1>j
<1>k. ASSUME NEW w \in Worker, job[w].pc \notin {"link", "commit"}
      PROVE  Untouched(job[w])
  BY <1>k DEF ApartInv, ScoringKnows
<1>q. score' = score => LeavesItsGaps
  BY DEF LeavesItsGaps
<1>p. plan' = plan => Earned
  OBVIOUS
<1>i. Idle.pc = "idle" /\ Untouched(Idle)
  BY DEF Idle, Untouched
<1>g. ASSUME NEW w \in Worker, UNCHANGED <<score, resolvedBy, plan>>, Local(w),
             job'[w].pc \notin {"resolve", "link", "commit"}, Untouched(job'[w])
      PROVE  ApartInv' /\ LeavesItsGaps /\ Earned
  BY <1>g, <1>q, <1>p, IgnorantKnows
<1>l. ASSUME NEW w \in Worker, Leave(w)
      PROVE  ApartInv' /\ LeavesItsGaps /\ Earned
  <2>1. UNCHANGED <<score, resolvedBy, plan>> /\ Local(w) /\ job'[w] = Idle
    BY <1>l, <1>j DEF Leave, tables
  <2> QED BY <2>1, <1>g, <1>i
<1>a. ASSUME NEW w \in Worker, NEW pc \in {"load", "gaps"}, Goto(w, pc),
             job[w].pc \notin {"link", "commit"}
      PROVE  ApartInv' /\ LeavesItsGaps /\ Earned
  <2>1. UNCHANGED <<score, resolvedBy, plan>> /\ Local(w)
        /\ job'[w] = [job[w] EXCEPT !.pc = pc]
    BY <1>a, <1>j DEF Goto, tables
  <2>2. job'[w].pc = pc /\ SamePlans(job'[w], job[w])
    BY <2>1, <1>t DEF Job, SamePlans
  <2> QED BY <2>1, <2>2, <1>a, <1>g, <1>k DEF Untouched, SamePlans
<1>1. ASSUME NEW w \in Worker, ReadNextSequence(w)
      PROVE  ApartInv' /\ LeavesItsGaps /\ Earned
  <2>1. CASE Leave(w)
    BY <2>1, <1>l
  <2>2. CASE ~Leave(w)
    <3>1. PICK n \in Assessment : job' = [job EXCEPT ![w].pc = "insert", ![w].target = n]
      BY <2>2, <1>1 DEF ReadNextSequence
    <3>2. UNCHANGED <<score, resolvedBy, plan>> /\ Local(w) /\ job[w].pc = "next"
          /\ job'[w] = [job[w] EXCEPT !.pc = "insert", !.target = n]
      BY <2>2, <3>1, <1>1, <1>j DEF ReadNextSequence, tables
    <3>3. job'[w].pc = "insert" /\ SamePlans(job'[w], job[w])
      BY <3>2, <1>t DEF Job, SamePlans
    <3> QED BY <3>2, <3>3, <1>g, <1>k DEF Untouched, SamePlans
  <2> QED BY <2>1, <2>2
<1>2. ASSUME NEW w \in Worker, InsertCorrection(w) \/ PersistScores(w)
      PROVE  ApartInv' /\ LeavesItsGaps /\ Earned
  BY <1>2, <1>l, <1>a DEF InsertCorrection, PersistScores
<1>3. ASSUME NEW w \in Worker, LoadAnswers(w)
      PROVE  ApartInv' /\ LeavesItsGaps /\ Earned
  <2>1. CASE Leave(w)
    BY <2>1, <1>l
  <2>2. CASE ~Leave(w)
    <3>1. PICK c \in Complete : job' = [job EXCEPT ![w].pc = "persist", ![w].content = c]
      BY <2>2, <1>3 DEF LoadAnswers
    <3>2. UNCHANGED <<score, resolvedBy, plan>> /\ Local(w) /\ job[w].pc = "load"
          /\ job'[w] = [job[w] EXCEPT !.pc = "persist", !.content = c]
      BY <2>2, <3>1, <1>3, <1>j DEF LoadAnswers, tables
    <3>3. job'[w].pc = "persist" /\ SamePlans(job'[w], job[w])
      BY <3>2, <1>t DEF Job, SamePlans
    <3> QED BY <3>2, <3>3, <1>g, <1>k DEF Untouched, SamePlans
  <2> QED BY <2>1, <2>2
<1>4. ASSUME NEW w \in Worker, ReadOpenGaps(w)
      PROVE  ApartInv' /\ LeavesItsGaps /\ Earned
  <2> DEFINE fired == Fires[job[w].content]
  <2>1. UNCHANGED <<score, resolvedBy, plan>> /\ job[w].pc = "gaps"
    BY <1>4 DEF ReadOpenGaps, tables
  <2>2. job' = [job EXCEPT ![w].pc = "resolve",
                          ![w].opens = fired \ {r[1] : r \in OpenRows},
                          ![w].todo = {r \in OpenRows : r[1] \notin fired}]
    BY <1>4, AllOpenRows DEF ReadOpenGaps, ApartInv
  <2>3. Local(w) /\ job'[w] = [job[w] EXCEPT !.pc = "resolve",
                                  !.opens = fired \ {r[1] : r \in OpenRows},
                                  !.todo = {r \in OpenRows : r[1] \notin fired}]
    BY <2>2, <1>j
  <2>4. /\ job'[w].pc = "resolve" /\ job'[w].content = job[w].content
        /\ job'[w].opens = fired \ {r[1] : r \in OpenRows}
        /\ job'[w].todo = {r \in OpenRows : r[1] \notin fired}
        /\ job'[w].held = job[w].held /\ SamePlans(job'[w], job[w])
    BY <2>3, <1>t DEF Job, SamePlans
  <2>5. job[w].held = {} /\ Untouched(job[w])
    BY <2>1, <1>k DEF IInv, JobOK
  <2>6. OpenRows' = OpenRows
    BY <2>1 DEF OpenRows
  <2>7. ScoringKnows(w)'
    BY <2>4, <2>5, <2>6 DEF ScoringKnows, Untouched, SamePlans
  <2> QED BY <2>1, <2>3, <2>7, <1>q, <1>p, LocalKnows
<1>5. ASSUME NEW w \in Worker, NEW r \in Row, ResolveGap(w, r)
      PROVE  ApartInv' /\ LeavesItsGaps /\ Earned
  <2>1. /\ UNCHANGED <<score, resolvedBy, plan>> /\ Local(w)
        /\ job[w].pc = "resolve" /\ r \in job[w].todo
        /\ job'[w] = [job[w] EXCEPT !.todo = @ \ {r}, !.held = @ \cup {r}]
    BY <1>5, <1>j DEF ResolveGap, tables
  <2>2. /\ job'[w].pc = "resolve" /\ job'[w].content = job[w].content
        /\ job'[w].opens = job[w].opens /\ SamePlans(job'[w], job[w])
        /\ job'[w].todo = job[w].todo \ {r} /\ job'[w].held = job[w].held \cup {r}
    BY <2>1, <1>t DEF Job, SamePlans
  <2>3. job'[w].todo \cup job'[w].held = job[w].todo \cup job[w].held
    BY <2>1, <2>2
  <2>4. OpenRows' = OpenRows /\ ScoringKnows(w)
    BY <2>1 DEF OpenRows, ApartInv
  <2>5. ScoringKnows(w)'
    BY <2>1, <2>2, <2>3, <2>4 DEF ScoringKnows, Untouched, SamePlans
  <2> QED BY <2>1, <2>5, <1>q, <1>p, LocalKnows
<1>6. ASSUME NEW w \in Worker, ReadActivePlans(w)
      PROVE  ApartInv' /\ LeavesItsGaps /\ Earned
  <2>1. /\ UNCHANGED <<score, resolvedBy, plan>> /\ Local(w)
        /\ job[w].pc = "resolve" /\ job[w].todo = {}
        /\ job'[w] = [job[w] EXCEPT !.pc = IF job[w].old = 0 THEN "commit" ELSE "link",
                                    !.plans = {p \in Plan : plan[p] = "active"}]
    BY <1>6, <1>j DEF ReadActivePlans, tables
  <2>2. /\ job'[w].pc \in {"link", "commit"} /\ job'[w].content = job[w].content
        /\ job'[w].opens = job[w].opens /\ job'[w].todo = job[w].todo
        /\ job'[w].held = job[w].held
        /\ job'[w].met = {} /\ job'[w].done = {}
    BY <2>1, <1>t, <1>k DEF Job, Untouched
  <2>3. OpenRows' = OpenRows /\ ScoringKnows(w)
    BY <2>1 DEF OpenRows, ApartInv
  <2>4. ScoringKnows(w)'
    BY <2>1, <2>2, <2>3 DEF ScoringKnows
  <2> QED BY <2>1, <2>4, <1>q, <1>p, LocalKnows
<1>u. ASSUME NEW w \in Worker, NEW k \in Job, job' = [job EXCEPT ![w] = k],
             UNCHANGED <<score, resolvedBy, plan>>,
             job[w].pc \in {"link", "commit"}, k.pc \in {"link", "commit"},
             k.target = job[w].target, k.content = job[w].content,
             k.opens = job[w].opens, k.todo = job[w].todo, k.held = job[w].held,
             \A p \in k.met \cup k.done : Remediated(p, Mine(w))
      PROVE  ApartInv' /\ LeavesItsGaps /\ Earned
  <2>1. Local(w) /\ job'[w] = k
    BY <1>u, <1>j
  <2>2. Mine(w)' = Mine(w) /\ OpenRows' = OpenRows /\ ScoringKnows(w)
    BY <1>u, <2>1 DEF Mine, OpenRows, ApartInv
  <2>3. \A p \in k.met \cup k.done : Remediated(p, Mine(w))'
    BY <1>u, <2>2 DEF Remediated
  <2>4. ScoringKnows(w)'
    BY <1>u, <2>1, <2>2, <2>3 DEF ScoringKnows
  <2> QED BY <1>u, <2>1, <2>4, <1>q, <1>p, LocalKnows
<1>15. ASSUME NEW w \in Worker, NEW p \in Plan, CheckPlan(w, p)
       PROVE  ApartInv' /\ LeavesItsGaps /\ Earned
  <2> DEFINE met == IF Remediated(p, Mine(w)) THEN {p} ELSE {}
             k == [job[w] EXCEPT !.plans = @ \ {p}, !.met = met]
  <2>1. /\ job' = [job EXCEPT ![w] = k] /\ UNCHANGED <<score, resolvedBy, plan>>
        /\ p \in job[w].plans
    BY <1>15, <1>j DEF CheckPlan, tables
  <2>2. met \in SUBSET Plan /\ \A q \in met : Remediated(q, Mine(w))
    OBVIOUS
  <2> HIDE DEF met
  <2>3. job[w].pc \in {"link", "commit"}
    BY <2>1, <1>k DEF Untouched
  <2>4. \A q \in job[w].done : Remediated(q, Mine(w))
    BY <2>3 DEF ApartInv, ScoringKnows
  <2>5. /\ k \in Job /\ k.pc = job[w].pc
        /\ k.target = job[w].target /\ k.content = job[w].content
        /\ k.opens = job[w].opens /\ k.todo = job[w].todo /\ k.held = job[w].held
        /\ k.met = met /\ k.done = job[w].done
    BY <1>t, <2>2 DEF Job
  <2> HIDE DEF k
  <2>6. \A q \in k.met \cup k.done : Remediated(q, Mine(w))
    BY <2>2, <2>4, <2>5
  <2> QED BY <2>1, <2>3, <2>5, <2>6, <1>u
<1>16. ASSUME NEW w \in Worker, NEW p \in Plan, CompletePlan(w, p)
       PROVE  ApartInv' /\ LeavesItsGaps /\ Earned
  <2> DEFINE k == [job[w] EXCEPT !.met = {}, !.done = @ \cup {p}]
  <2>1. /\ job' = [job EXCEPT ![w] = k] /\ UNCHANGED <<score, resolvedBy, plan>>
        /\ p \in job[w].met
    BY <1>16, <1>j DEF CompletePlan, tables
  <2>3. job[w].pc \in {"link", "commit"}
    BY <2>1, <1>k DEF Untouched
  <2>4. \A q \in job[w].met \cup job[w].done : Remediated(q, Mine(w))
    BY <2>3 DEF ApartInv, ScoringKnows
  <2>5. /\ k \in Job /\ k.pc = job[w].pc
        /\ k.target = job[w].target /\ k.content = job[w].content
        /\ k.opens = job[w].opens /\ k.todo = job[w].todo /\ k.held = job[w].held
        /\ k.met = {} /\ k.done = job[w].done \cup {p}
    BY <1>t DEF Job
  <2> HIDE DEF k
  <2>6. \A q \in k.met \cup k.done : Remediated(q, Mine(w))
    BY <2>1, <2>4, <2>5
  <2> QED BY <2>1, <2>3, <2>5, <2>6, <1>u
<1>7. ASSUME NEW w \in Worker, LinkOld(w)
      PROVE  ApartInv' /\ LeavesItsGaps /\ Earned
  <2>1. /\ UNCHANGED <<score, resolvedBy, plan>> /\ Local(w) /\ job[w].pc = "link"
        /\ job'[w] = [job[w] EXCEPT !.pc = "commit"]
    BY <1>7, <1>j DEF LinkOld, Goto, tables
  <2>2. /\ job'[w].pc = "commit" /\ SamePlans(job'[w], job[w])
        /\ job'[w].content = job[w].content /\ job'[w].target = job[w].target
        /\ job'[w].opens = job[w].opens /\ job'[w].todo = job[w].todo
        /\ job'[w].held = job[w].held
    BY <2>1, <1>t DEF Job, SamePlans
  <2>3. Mine(w)' = Mine(w) /\ OpenRows' = OpenRows /\ ScoringKnows(w)
    BY <2>1, <2>2 DEF Mine, OpenRows, ApartInv
  <2>4. \A p \in job'[w].met \cup job'[w].done : Remediated(p, Mine(w))'
    BY <2>1, <2>2, <2>3 DEF Remediated, ScoringKnows, SamePlans
  <2>5. ScoringKnows(w)'
    BY <2>1, <2>2, <2>3, <2>4 DEF ScoringKnows
  <2> QED BY <2>1, <2>5, <1>q, <1>p, LocalKnows
<1>8. ASSUME NEW w \in Worker, InsertAssessment(w)
      PROVE  ApartInv' /\ LeavesItsGaps /\ Earned
  <2>1. CASE Leave(w)
    BY <2>1, <1>l
  <2>2. CASE ~Leave(w)
    <3>1. UNCHANGED <<score, resolvedBy, plan>> /\ Local(w) /\ job[w].pc = "start"
          /\ job'[w] = [job[w] EXCEPT !.pc = "seed"]
      BY <2>2, <1>8, <1>j DEF InsertAssessment
    <3>2. job'[w].pc = "seed" /\ SamePlans(job'[w], job[w])
      BY <3>1, <1>t DEF Job, SamePlans
    <3> QED BY <3>1, <3>2, <1>g, <1>k DEF Untouched, SamePlans
  <2> QED BY <2>1, <2>2
<1>9. ASSUME NEW w \in Worker, NEW c \in Content, SeedAnswers(w, c) \/ ServiceWrite(w, c)
      PROVE  ApartInv' /\ LeavesItsGaps /\ Earned
  <2>1. /\ UNCHANGED <<score, resolvedBy, plan>> /\ Local(w)
        /\ job[w].pc \in {"seed", "service", "more"}
        /\ job'[w] = Idle \/ job'[w] = [job[w] EXCEPT !.pc = "more"]
    BY <1>9, <1>j DEF SeedAnswers, ServiceWrite
  <2>2. job'[w].pc \in {"idle", "more"} /\ Untouched(job'[w])
    <3>1. job[w] \in Job /\ Untouched(job[w])
      BY <2>1, <1>t, <1>k
    <3> QED BY <2>1, <3>1, <1>i DEF Job, Untouched
  <2> QED BY <2>1, <2>2, <1>g
<1>10. ASSUME NEW w \in Worker, Request(w)
       PROVE  ApartInv' /\ LeavesItsGaps /\ Earned
  <2> DEFINE Begun(j) == /\ UNCHANGED tables /\ job' = [job EXCEPT ![w] = j]
                         /\ j.pc \in {"load", "next", "start", "service"} /\ Untouched(j)
  <2>1. ASSUME NEW a \in Assessment
        PROVE  /\ RequestScore(w, a) => Begun([Idle EXCEPT !.pc = "load", !.target = a])
               /\ ServiceCheck(w, a) => Begun([Idle EXCEPT !.pc = "service", !.target = a])
    BY DEF RequestScore, ServiceCheck, Idle, Untouched
  <2>2. ASSUME NEW a \in Assessment, NEW c \in Content, RequestSupersede(w, a, c)
        PROVE  Begun([Idle EXCEPT !.pc = "next", !.old = a, !.content = c])
    BY <2>2 DEF RequestSupersede, Idle, Untouched
  <2>3. ASSUME StartAssessment(w)
        PROVE  \E n \in Assessment : Begun([Idle EXCEPT !.pc = "start", !.target = n])
    BY <2>3 DEF StartAssessment, Idle, Untouched
  <2>4. PICK j : Begun(j)
    <3> HIDE DEF Begun
    <3> QED BY <1>10, <2>1, <2>2, <2>3 DEF Request
  <2>5. UNCHANGED <<score, resolvedBy, plan>> /\ Local(w) /\ job'[w] = j
    BY <2>4, <1>j DEF tables
  <2> QED BY <2>4, <2>5, <1>g
<1>11. ASSUME NEW p \in Plan, ApplyPlan(p) \/ RemovePlan(p)
       PROVE  ApartInv' /\ LeavesItsGaps /\ Earned
  <2>1. UNCHANGED <<score, resolvedBy, job>> /\ plan'[p] \in {"active", "removed"}
        /\ \A r \in Plan \ {p} : plan'[r] = plan[r]
    BY <1>11, <1>j DEF ApplyPlan, RemovePlan
  <2>3. OpenRows' = OpenRows
    BY <2>1 DEF OpenRows
  <2>4. ASSUME NEW w \in Worker
        PROVE  ScoringKnows(w)'
    <3>1. ScoringKnows(w) /\ Mine(w)' = Mine(w)
      BY <2>1 DEF ApartInv, Mine
    <3> QED BY <3>1, <2>1, <2>3 DEF ScoringKnows, Remediated
  <2>5. OneRowPerCode'
    BY <2>3 DEF ApartInv, OneRowPerCode
  <2>6. Earned
    BY <2>1
  <2> QED BY <2>1, <2>4, <2>5, <2>6, <1>q DEF ApartInv
<1>12. ASSUME UNCHANGED <<score, resolvedBy, plan, job>>
       PROVE  ApartInv' /\ LeavesItsGaps /\ Earned
  <2>1. OpenRows' = OpenRows
    BY <1>12 DEF OpenRows
  <2>2. ASSUME NEW w \in Worker
        PROVE  ScoringKnows(w)'
    <3>1. Mine(w)' = Mine(w) /\ ScoringKnows(w)
      BY <1>12 DEF Mine, ApartInv
    <3> QED BY <2>1, <3>1, <1>12 DEF ScoringKnows, Remediated
  <2>3. OneRowPerCode'
    BY <2>1 DEF ApartInv, OneRowPerCode
  <2> QED BY <2>2, <2>3, <1>12, <1>q, <1>p DEF ApartInv
<1>13. CASE Next
  <2>1. ASSUME NEW w \in Worker, Step(w)
        PROVE  ApartInv' /\ LeavesItsGaps /\ Earned
    BY <2>1, <1>1, <1>2, <1>3, <1>4, <1>5, <1>6, <1>7, <1>8, <1>9,
       <1>15, <1>16, <1>l, CommitApart DEF Step, DeadlockAbort
  <2>2. ASSUME NEW a \in Assessment, NEW c \in Content, SaveAnswers(a, c)
        PROVE  ApartInv' /\ LeavesItsGaps /\ Earned
    BY <2>2, <1>12 DEF SaveAnswers
  <2>3. ASSUME NEW w \in Worker, Abort(w)
        PROVE  ApartInv' /\ LeavesItsGaps /\ Earned
    BY <2>3, <1>l DEF Abort
  <2> QED BY <1>13, <2>1, <2>2, <2>3, <1>10, <1>11 DEF Next
<1>14. CASE UNCHANGED vars
  BY <1>14, <1>12 DEF vars
<1> QED BY <1>13, <1>14

LEMMA ApartInit == Init => ApartInv /\ ScoringsApart
<1> SUFFICES ASSUME Init PROVE ApartInv /\ ScoringsApart
  OBVIOUS
<1>1. OpenRows = {}
  BY NoRowNumber DEF Init, OpenRows
<1> QED BY <1>1 DEF Init, ApartInv, OneRowPerCode, ScoringKnows, ScoringsApart, Idle, Untouched

-----------------------------------------------------------------------------
\* Of scorings that do not overlap each leaves open exactly the gaps it fires, in
\* one row each, and completes a plan only when the rows it leaves remediate it
\* (scoreAndPersist, reconcileEngagementPlans).
THEOREM ApartRight ==
    Spec /\ []ScoringsApart => [][LeavesItsGaps]_vars /\ PlansEarnCompletion
<1>1. Init => ApartInv
  BY ApartInit
<1>2. IInv /\ ApartInv /\ ScoringsApart /\ [Next]_vars => ApartInv'
  BY ApartNext
<1>3. IInv /\ ApartInv /\ ScoringsApart /\ [Next]_vars => [LeavesItsGaps]_vars
  BY ApartNext
<1>4. IInv /\ ApartInv /\ ScoringsApart /\ [Next]_vars =>
        [\A p \in Plan : plan[p] # "completed" /\ plan'[p] = "completed" =>
            Remediated(p, resolvedBy')]_vars
  BY ApartNext
<1> QED BY <1>1, <1>2, <1>3, <1>4, Invariance, PTL DEF Spec, PlansEarnCompletion

\* The two scenarios of the model-checking module: requests race and no plan is
\* applied, or they do not and one is.
LEMMA Scenario ==
    ScenarioSpec => Spec /\ [](solo => ScoringsApart /\ ApartInv)
<1>1. ScenarioInit => Init /\ (solo => ScoringsApart /\ ApartInv)
  BY ApartInit DEF ScenarioInit
<1>2. [ScenarioNext]_<<vars, solo>> => [Next]_vars
  BY DEF ScenarioNext
<1>3. ScenarioSpec => Spec
  BY <1>1, <1>2, PTL DEF ScenarioSpec, Spec
<1>4. /\ IInv /\ (solo => ScoringsApart /\ ApartInv)
      /\ [Next]_vars /\ [ScenarioNext]_<<vars, solo>>
      => (solo => ScoringsApart /\ ApartInv)'
  <2> SUFFICES ASSUME IInv, solo => ScoringsApart /\ ApartInv, [Next]_vars,
                      [ScenarioNext]_<<vars, solo>>, solo'
               PROVE  ScoringsApart' /\ ApartInv'
    OBVIOUS
  <2>1. solo
    BY DEF ScenarioNext
  <2>2. ScoringsApart'
    BY <2>1 DEF ScenarioNext, ScoringsApart, vars
  <2> QED BY <2>1, <2>2, ApartNext
<1> QED BY <1>1, <1>2, <1>3, <1>4, Invariance, PTL DEF ScenarioSpec

\* A scoring that meets no other leaves open exactly the gaps it fires
\* (scoreAndPersist).
THEOREM GapsFollow == ScenarioSpec => GapsFollowScore
<1>1. IInv /\ (solo => ScoringsApart /\ ApartInv) /\ [Next]_vars
        => [solo => LeavesItsGaps]_vars
  BY ApartNext
<1> QED BY <1>1, Scenario, Invariance, PTL DEF Spec, GapsFollowScore

\* A plan becomes completed only by a scoring that leaves its gaps resolved
\* (reconcileEngagementPlans).
THEOREM PlansEarn == ScenarioSpec => PlansEarnCompletion
<1>1. /\ IInv /\ (solo => ScoringsApart /\ ApartInv)
      /\ [Next]_vars /\ [ScenarioNext]_<<vars, solo>>
      => [\A p \in Plan : plan[p] # "completed" /\ plan'[p] = "completed" =>
             Remediated(p, resolvedBy')]_vars
  BY ApartNext DEF ScenarioNext
<1> QED BY <1>1, Scenario, Invariance, PTL DEF Spec, ScenarioSpec, PlansEarnCompletion
=============================================================================
