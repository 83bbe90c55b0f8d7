------------------------ MODULE AssessmentLifecycle ------------------------
(***************************************************************************)
(* The assessments of one engagement: drafting, scoring, correction by     *)
(* supersession, and the gap rows and applied plans that every scoring     *)
(* transaction rewrites (server/scoring.ts, with the client writers of     *)
(* src/pages and src/lib and the service-role answer writers).             *)
(*                                                                         *)
(* The server runs each request on a connection of its own under           *)
(* PostgreSQL's READ COMMITTED: a statement sees what was committed when   *)
(* it started, plus its own transaction's writes.  So the VARIABLES below  *)
(* are the committed tables, and what a transaction has written but not    *)
(* committed lives in job[w] until Commit.  A statement that needs a row   *)
(* or an index entry another transaction holds waits for it: its action is *)
(* not enabled.                                                            *)
(***************************************************************************)
EXTENDS Integers, FiniteSets

CONSTANTS
    MaxSeq,     \* bound: sequence numbers of the engagement's assessments
    Gap,        \* gap definitions (by code)
    Content,    \* states of an assessment's answer rows, as scoring tells them apart
    Blank,      \* no answer rows yet
    Complete,   \* the contents validateCompleteness and validateAnswers accept
    Fires,      \* the gap codes the engine returns for a content
    Plan,       \* engagement_plans rows
    Targets,    \* gap definitions a plan's template is mapped to (gap_plan_map)
    Worker      \* requests in flight: one database session each

\* unique (engagement_id, sequence_number) lets the number stand for the row.
Assessment == 1 .. MaxSeq

ASSUME MaxSeqAssumption == MaxSeq \in Nat \ {0}
NoScore == "no score"

ASSUME ContentAssumption ==
    /\ NoScore \notin Content
    /\ Complete \subseteq Content
    /\ Blank \in Content \ Complete
    /\ Fires \in [Content -> SUBSET Gap]
ASSUME TargetsAssumption == Targets \in [Plan -> SUBSET Gap]

VARIABLES
    status,      \* assessments.status, "absent" before the row exists
    answers,     \* the answer rows of an assessment
    score,       \* the content its stored scores were computed from
    successor,   \* superseded_by_assessment_id; 0 while record_status is 'active'
    resolvedBy,  \* the gap rows <<code, opener>>: NoRow when there is no row, else
                 \* resolved_by_assessment_id, 0 while the gap is open
    plan,        \* engagement_plans.status
    job          \* what each request is doing, with its uncommitted writes

tables == <<status, answers, score, successor, resolvedBy, plan>>
vars == <<status, answers, score, successor, resolvedBy, plan, job>>

NoRow == -1
Row == Gap \X Assessment

(***************************************************************************)
(* A request: its program counter, the assessment it scores or writes, the *)
(* one it corrects (0 if none), the content it loaded or was given, the    *)
(* codes its transaction opens, the gap rows it still has to resolve, the  *)
(* gap rows it has resolved, the plans it read as active and has still to  *)
(* examine, the one it found remediated and has still to update, and the   *)
(* plans it has completed.                                                 *)
(***************************************************************************)
Idle == [pc |-> "idle", target |-> 0, old |-> 0, content |-> Blank,
         opens |-> {}, todo |-> {}, held |-> {},
         plans |-> {}, met |-> {}, done |-> {}]

ScorePc == {"load", "persist", "gaps", "resolve", "link", "commit"}
PcSet == ScorePc \cup {"idle", "next", "insert", "start", "seed", "service", "more"}

Job == [pc : PcSet, target : 0 .. MaxSeq, old : 0 .. MaxSeq, content : Content,
        opens : SUBSET Gap, todo : SUBSET Row, held : SUBSET Row,
        plans : SUBSET Plan, met : SUBSET Plan, done : SUBSET Plan]

TypeOK ==
    /\ status \in [Assessment -> {"absent", "in_progress", "completed"}]
    /\ answers \in [Assessment -> Content]
    /\ score \in [Assessment -> Content \cup {NoScore}]
    /\ successor \in [Assessment -> 0 .. MaxSeq]
    /\ resolvedBy \in [Row -> {NoRow} \cup (0 .. MaxSeq)]
    /\ plan \in [Plan -> {"unapplied", "active", "completed", "removed"}]
    /\ job \in [Worker -> Job]

Init ==
    /\ status = [a \in Assessment |-> "absent"]
    /\ answers = [a \in Assessment |-> Blank]
    /\ score = [a \in Assessment |-> NoScore]
    /\ successor = [a \in Assessment |-> 0]
    /\ resolvedBy = [r \in Row |-> NoRow]
    /\ plan = [p \in Plan |-> "unapplied"]
    /\ job = [w \in Worker |-> Idle]

-----------------------------------------------------------------------------
\* coalesce(max(sequence_number), 0) + 1 over the committed rows, whose numbers
\* have no holes.
IsNextSequence(n) == \A a \in Assessment : status[a] # "absent" <=> a < n

\* The uncommitted writes that make another session's statement wait.
InsertsRow(w, a) == job[w].old # 0 /\ job[w].target = a /\ job[w].pc \in ScorePc
HoldsScore(w, a) == job[w].target = a /\ job[w].pc \in ScorePc \ {"load", "persist"}
HoldsRow(w, a) == job[w].old = a /\ job[w].pc = "commit"

\* Rollback, an error reply or the end of the request: nothing stays behind.
Leave(w) == job' = [job EXCEPT ![w] = Idle] /\ UNCHANGED tables
Goto(w, pc) == job' = [job EXCEPT ![w].pc = pc] /\ UNCHANGED tables

-----------------------------------------------------------------------------
\* scoreAssessment: the status is checked before the transaction begins.
RequestScore(w, a) ==
    /\ job[w].pc = "idle"
    /\ status[a] = "in_progress"
    /\ job' = [job EXCEPT ![w] = [Idle EXCEPT !.pc = "load", !.target = a]]
    /\ UNCHANGED tables

\* supersedeAssessment: so are the old row's status and record_status.
RequestSupersede(w, a, c) ==
    /\ job[w].pc = "idle"
    /\ status[a] = "completed"
    /\ successor[a] = 0
    /\ job' = [job EXCEPT ![w] = [Idle EXCEPT !.pc = "next", !.old = a, !.content = c]]
    /\ UNCHANGED tables

\* Faulty variant: one number too far.
ReadNextSequenceTwice(w) ==
    /\ job[w].pc = "next"
    /\ \E n \in Assessment :
         /\ IsNextSequence(n)
         /\ job' = [job EXCEPT ![w].pc = "insert", ![w].target = n + 1]
    /\ UNCHANGED tables

\* At the bound MaxSeq there is no next number and the request ends.
ReadNextSequence(w) ==
    /\ job[w].pc = "next"
    /\ \/ \E n \in Assessment :
            /\ IsNextSequence(n)
            /\ job' = [job EXCEPT ![w].pc = "insert", ![w].target = n]
            /\ UNCHANGED tables
       \/ (\A a \in Assessment : status[a] # "absent") /\ Leave(w)

\* The corrected assessment and its answers, not visible before Commit.  Waits
\* for a rival's uncommitted row, then fails if that row was committed.
InsertCorrection(w) ==
    LET n == job[w].target IN
    /\ job[w].pc = "insert"
    /\ \A v \in Worker \ {w} : ~InsertsRow(v, n)
    /\ \/ status[n] = "absent" /\ Goto(w, "load")
       \/ status[n] # "absent" /\ Leave(w)

\* scoreAndPersist: a scorer reads the committed answers, a correction its own.
LoadAnswers(w) ==
    LET c == IF job[w].old = 0 THEN answers[job[w].target] ELSE job[w].content IN
    /\ job[w].pc = "load"
    /\ \/ /\ c \in Complete
          /\ job' = [job EXCEPT ![w].pc = "persist", ![w].content = c]
          /\ UNCHANGED tables
       \/ c \notin Complete /\ Leave(w)

\* Faulty variant: no unique constraint on the result rows.
PersistScoresUnchecked(w) == job[w].pc = "persist" /\ Goto(w, "gaps")

\* unique (assessment_id, sub_score_id): the second scorer waits, then fails.
PersistScores(w) ==
    LET a == job[w].target IN
    /\ job[w].pc = "persist"
    /\ \A v \in Worker \ {w} : ~HoldsScore(v, a)
    /\ \/ score[a] = NoScore /\ Goto(w, "gaps")
       \/ score[a] # NoScore /\ Leave(w)

\* The open gaps by code: of several rows of one code the Map keeps one.
OpenRows == {r \in Row : resolvedBy[r] = 0}
OpenByCode == {m \in SUBSET OpenRows :
                 \A r \in OpenRows : Cardinality({s \in m : s[1] = r[1]}) = 1}

\* Faulty variants: every open gap is resolved; a fired gap is always inserted.
ReadOpenGapsResolveAll(w) ==
    LET fired == Fires[job[w].content] IN
    /\ job[w].pc = "gaps"
    /\ \E m \in OpenByCode :
         job' = [job EXCEPT ![w].pc = "resolve", ![w].todo = m,
                            ![w].opens = fired \ {r[1] : r \in m}]
    /\ UNCHANGED tables

ReadOpenGapsInsertAll(w) ==
    LET fired == Fires[job[w].content] IN
    /\ job[w].pc = "gaps"
    /\ \E m \in OpenByCode :
         job' = [job EXCEPT ![w].pc = "resolve", ![w].opens = fired,
                            ![w].todo = {r \in m : r[1] \notin fired}]
    /\ UNCHANGED tables

ReadOpenGaps(w) ==
    LET fired == Fires[job[w].content] IN
    /\ job[w].pc = "gaps"
    /\ \E m \in OpenByCode :
         job' = [job EXCEPT ![w].pc = "resolve",
                            ![w].opens = fired \ {r[1] : r \in m},
                            ![w].todo = {r \in m : r[1] \notin fired}]
    /\ UNCHANGED tables

\* One update per gap, in the unspecified order of the select; each holds its
\* row until the transaction ends.
ResolveGap(w, r) ==
    /\ job[w].pc = "resolve"
    /\ r \in job[w].todo
    /\ \A v \in Worker \ {w} : r \notin job[v].held
    /\ job' = [job EXCEPT ![w].todo = @ \ {r}, ![w].held = @ \cup {r}]
    /\ UNCHANGED tables

\* The gap rows as the transaction sees them: committed, with its own writes.
Mine(w) == [r \in Row |-> IF r \in job[w].held THEN job[w].target
                          ELSE IF r[1] \in job[w].opens /\ r[2] = job[w].target THEN 0
                          ELSE resolvedBy[r]]

Remediated(p, gaps) ==
    LET targeted == {r \in Row : r[1] \in Targets[p] /\ gaps[r] # NoRow} IN
    /\ targeted # {}
    /\ \A r \in targeted : gaps[r] # 0

\* reconcileEngagementPlans, inside the scoring transaction: one select of the
\* active plans, then a count and an update for each.
ReadActivePlans(w) ==
    /\ job[w].pc = "resolve"
    /\ job[w].todo = {}
    /\ job' = [job EXCEPT ![w].pc = IF job[w].old = 0 THEN "commit" ELSE "link",
                          ![w].plans = {p \in Plan : plan[p] = "active"}]
    /\ UNCHANGED tables

\* Faulty variant: counts the gap rows as they were before they are rewritten.
CheckPlanEarly(w, p) ==
    /\ p \in job[w].plans
    /\ job[w].met = {}
    /\ job' = [job EXCEPT ![w].plans = @ \ {p},
                          ![w].met = IF Remediated(p, resolvedBy) THEN {p} ELSE {}]
    /\ UNCHANGED tables

CheckPlan(w, p) ==
    /\ p \in job[w].plans
    /\ job[w].met = {}
    /\ job' = [job EXCEPT ![w].plans = @ \ {p},
                          ![w].met = IF Remediated(p, Mine(w)) THEN {p} ELSE {}]
    /\ UNCHANGED tables

\* The update names the plan's id only, whatever its status is by now.
CompletePlan(w, p) ==
    /\ p \in job[w].met
    /\ \A v \in Worker \ {w} : p \notin job[v].done
    /\ job' = [job EXCEPT ![w].met = {}, ![w].done = @ \cup {p}]
    /\ UNCHANGED tables

Reconciled(w) == job[w].plans = {} /\ job[w].met = {}

\* The update of the old row names its id only: it does not look again at
\* record_status after waiting for a rival correction.
LinkOld(w) ==
    /\ job[w].pc = "link" /\ Reconciled(w)
    /\ \A v \in Worker \ {w} : ~HoldsRow(v, job[w].old)
    /\ Goto(w, "commit")

\* Faulty variant: the last update is not limited to the old row's id.
CommitSupersedingAll(w) ==
    LET j == job[w] IN
    /\ j.pc = "commit" /\ Reconciled(w)
    /\ status' = [status EXCEPT ![j.target] = "completed"]
    /\ score' = [score EXCEPT ![j.target] = j.content]
    /\ answers' = IF j.old = 0 THEN answers ELSE [answers EXCEPT ![j.target] = j.content]
    /\ successor' = IF j.old = 0 THEN successor
                    ELSE [a \in Assessment |->
                            IF status'[a] = "absent" THEN 0 ELSE j.target]
    /\ resolvedBy' = Mine(w)
    /\ plan' = [p \in Plan |-> IF p \in j.done THEN "completed" ELSE plan[p]]
    /\ job' = [job EXCEPT ![w] = Idle]

Commit(w) ==
    LET j == job[w] IN
    /\ j.pc = "commit" /\ Reconciled(w)
    /\ status' = [status EXCEPT ![j.target] = "completed"]
    /\ score' = [score EXCEPT ![j.target] = j.content]
    /\ answers' = IF j.old = 0 THEN answers ELSE [answers EXCEPT ![j.target] = j.content]
    /\ successor' = IF j.old = 0 THEN successor ELSE [successor EXCEPT ![j.old] = j.target]
    /\ resolvedBy' = Mine(w)
    /\ plan' = [p \in Plan |-> IF p \in j.done THEN "completed" ELSE plan[p]]
    /\ job' = [job EXCEPT ![w] = Idle]

\* A lost connection, a crashed server or a statement error rolls back.
Abort(w) == job[w].pc # "idle" /\ Leave(w)

\* Everyone in S waits for a gap row or a plan that another in S has written.
Deadlocked(S) ==
    \A v \in S :
        \/ /\ job[v].pc = "resolve"
           /\ job[v].todo # {}
           /\ \A r \in job[v].todo : \E u \in S \ {v} : r \in job[u].held
        \/ \E p \in job[v].met, u \in S \ {v} : p \in job[u].done

\* Faulty variant: nothing breaks a cycle of waits.
NoDeadlockAbort(w) == FALSE

\* PostgreSQL's deadlock detector, for the gap rows and plans scorers take in
\* different orders: one of them is rolled back.
DeadlockAbort(w) ==
    /\ \E S \in SUBSET Worker : w \in S /\ Deadlocked(S)
    /\ Leave(w)

-----------------------------------------------------------------------------
\* startAssessment and saveAsNew, from the browser: read the last number, insert
\* the next (autocommitted), then seed its answers.
StartAssessment(w) ==
    /\ job[w].pc = "idle"
    /\ \E n \in Assessment :
         /\ IsNextSequence(n)
         /\ job' = [job EXCEPT ![w] = [Idle EXCEPT !.pc = "start", !.target = n]]
    /\ UNCHANGED tables

InsertAssessment(w) ==
    LET n == job[w].target IN
    /\ job[w].pc = "start"
    /\ \A v \in Worker \ {w} : ~InsertsRow(v, n)
    /\ \/ /\ status[n] = "absent"
          /\ status' = [status EXCEPT ![n] = "in_progress"]
          /\ job' = [job EXCEPT ![w].pc = "seed"]
          /\ UNCHANGED <<answers, score, successor, resolvedBy, plan>>
       \/ status[n] # "absent" /\ Leave(w)

\* The carried-forward answers or the workbench's drafts; plain inserts, so
\* they fail as a whole once the assessment has answers.
SeedAnswers(w, c) ==
    LET n == job[w].target IN
    /\ job[w].pc = "seed"
    /\ answers' = IF answers[n] = Blank THEN [answers EXCEPT ![n] = c] ELSE answers
    /\ job' = [job EXCEPT ![w] = Idle]
    /\ UNCHANGED <<status, score, successor, resolvedBy, plan>>

\* saveAnswers (its upsert and its delete are a step each), under the advisor's
\* or the owner's row policies: the trigger freeze_completed_child refuses it once
\* the completion is committed.  Rows inserted after that answer questions that
\* scoring does not require, and are below Content's grain.
SaveAnswers(a, c) ==
    /\ status[a] = "in_progress"
    /\ answers' = [answers EXCEPT ![a] = c]
    /\ UNCHANGED <<status, score, successor, resolvedBy, plan, job>>

\* syncLedgerToAssessment, enterManualFinancials and confirmAnswerCandidate check
\* the status and write later, as the service role, which no trigger constrains.
ServiceCheck(w, a) ==
    /\ job[w].pc = "idle"
    /\ status[a] = "in_progress"
    /\ job' = [job EXCEPT ![w] = [Idle EXCEPT !.pc = "service", !.target = a]]
    /\ UNCHANGED tables

\* One autocommitted write per answer; two stand for several.
ServiceWrite(w, c) ==
    /\ job[w].pc \in {"service", "more"}
    /\ answers' = [answers EXCEPT ![job[w].target] = c]
    /\ \/ job[w].pc = "service" /\ job' = [job EXCEPT ![w].pc = "more"]
       \/ job' = [job EXCEPT ![w] = Idle]
    /\ UNCHANGED <<status, score, successor, resolvedBy, plan>>

-----------------------------------------------------------------------------
\* applyPlan, and the roadmap's remove button, which waits for a reconciliation
\* that has written the same row.
ApplyPlan(p) ==
    /\ plan[p] = "unapplied"
    /\ plan' = [plan EXCEPT ![p] = "active"]
    /\ UNCHANGED <<status, answers, score, successor, resolvedBy, job>>

RemovePlan(p) ==
    /\ plan[p] \in {"active", "completed"}
    /\ \A v \in Worker : p \notin job[v].done
    /\ plan' = [plan EXCEPT ![p] = "removed"]
    /\ UNCHANGED <<status, answers, score, successor, resolvedBy, job>>

-----------------------------------------------------------------------------
\* The next step of a request that has begun, its own failure apart.
Step(w) ==
    \/ ReadNextSequence(w)
    \/ InsertCorrection(w)
    \/ LoadAnswers(w)
    \/ PersistScores(w)
    \/ ReadOpenGaps(w)
    \/ \E r \in Row : ResolveGap(w, r)
    \/ ReadActivePlans(w)
    \/ \E p \in Plan : CheckPlan(w, p) \/ CompletePlan(w, p)
    \/ LinkOld(w)
    \/ Commit(w)
    \/ InsertAssessment(w)
    \/ \E c \in Content : SeedAnswers(w, c) \/ ServiceWrite(w, c)
    \/ DeadlockAbort(w)

Request(w) ==
    \/ \E a \in Assessment : RequestScore(w, a) \/ ServiceCheck(w, a)
    \/ \E a \in Assessment, c \in Content : RequestSupersede(w, a, c)
    \/ StartAssessment(w)

Next ==
    \/ \E w \in Worker : Request(w) \/ Step(w) \/ Abort(w)
    \/ \E a \in Assessment, c \in Content : SaveAnswers(a, c)
    \/ \E p \in Plan : ApplyPlan(p) \/ RemovePlan(p)

Spec == Init /\ [][Next]_vars

\* An accepted request is driven to its end (Abort is the case where its
\* connection or its browser tab dies instead).  Strong fairness for the waits:
\* PostgreSQL grants a lock in the order of its queue.
Fairness == \A w \in Worker : SF_vars(Step(w))

-----------------------------------------------------------------------------
\* An engagement that has ever been scored always has a current score: the
\* chain of superseded_by links leads from every superseded assessment to a
\* completed one nobody has superseded, whatever corrections race.
CurrentScoreExists ==
    (\E a \in Assessment : status[a] = "completed")
        => \E a \in Assessment : status[a] = "completed" /\ successor[a] = 0

\* The gap rows are backed by the scores on record: a gap was opened by a
\* completed assessment that fires it, and resolved by one that does not.
GapEvidence ==
    \A r \in Row : resolvedBy[r] # NoRow =>
        /\ status[r[2]] = "completed"
        /\ r[1] \in Fires[score[r[2]]]
        /\ resolvedBy[r] # 0 =>
             /\ status[resolvedBy[r]] = "completed"
             /\ r[1] \notin Fires[score[resolvedBy[r]]]

\* No step changes the scores of a completed assessment, or reopens it, however
\* many requests score it, correct it or race for its sequence number.
ScoresFrozen ==
    [][\A a \in Assessment : status[a] = "completed" =>
          status'[a] = "completed" /\ score'[a] = score[a]]_vars

\* A scoring leaves open exactly the gaps it fired, in one row each.
LeavesItsGaps ==
    \A a \in Assessment : score[a] = NoScore /\ score'[a] # NoScore =>
        LET open == {r \in Row : resolvedBy'[r] = 0} IN
        /\ {r[1] : r \in open} = Fires[score'[a]]
        /\ \A r, s \in open : r[1] = s[1] => r = s

\* When scorings do not overlap, a plan becomes completed only by the scoring
\* that leaves it with targeted gaps on record and every one of them resolved.
PlansEarnCompletion ==
    [][\A p \in Plan : plan[p] # "completed" /\ plan'[p] = "completed" =>
          Remediated(p, resolvedBy')]_vars

\* A completed assessment is immutable, its answers included (docs/02, rule 1).
CompletedAnswersFrozen ==
    [][\A a \in Assessment : status[a] = "completed" => answers'[a] = answers[a]]_vars

\* Every accepted request comes to an end, though scorings wait for each other's
\* index entries and rows and can take the gap rows in opposite orders.
RequestsFinish == \A w \in Worker : job[w].pc # "idle" ~> job[w].pc = "idle"

\* The scored assessments and their corrections implement the append-only history
\* of snapshots: whatever requests race, every step takes one new snapshot, takes
\* one as the correction of an earlier one, or leaves the history as it is.
History == INSTANCE SnapshotHistory WITH
    Number <- Assessment, None <- NoScore, snapshot <- score
HistorySpec == History!Spec

=============================================================================
