------------------------- MODULE VerificationPipeline -------------------------
(***************************************************************************)
(* The verification runs of one engagement (server/sellside.ts,            *)
(* server/pipeline, server/findings/run.ts) and the review queue they fill *)
(* (server/review-queue.ts).                                               *)
(*                                                                         *)
(* A run is a request: it drives a new job through its steps, each a       *)
(* transaction of its own that deletes what earlier runs left and writes   *)
(* this run's, and no lock keeps two runs of an engagement apart.  A run   *)
(* that fails or dies is not resumed by anything.  Reviewers read an item  *)
(* in one statement and write it in another.                               *)
(***************************************************************************)
EXTENDS Integers, FiniteSets

CONSTANTS
    Run,         \* verification requests; each has one job and one extraction run
    Field,       \* the reconciled fields, ASSESSMENT_FIELD_MAP
    Reviewer,    \* requests on the review queue
    MaxRunning   \* how many runs are in flight at a time

NoRun == "no run"
NoItem == <<NoRun, "nothing">>

ASSUME NamesAssumption ==
    /\ NoRun \notin Run
    /\ "finding" \notin Field

VARIABLES
    job,      \* by run: the step it is at, and what it parsed
    facts,    \* document_fields: the runs whose extracted facts are there
    graph,    \* graph_nodes: the run whose facts they were built from
    value,    \* assessment_values, by field
    finding,  \* findings, by the run that made them
    item,     \* review_items, by the run that queued them and their subject
    review,   \* what each reviewer's request is doing
    latest    \* history: the run that ended last, if it succeeded

rows == <<facts, graph, value, finding, item>>
vars == <<job, rows, review, latest>>

\* An item's payload names a field, or the finding its run made.
Subject == Field \cup {"finding"}
Item == Run \X Subject

Steps == {"parse", "extract", "graph", "reconcile", "findings"}
InFlight == {r \in Run : job[r].pc \in Steps}

\* A fact is "flagged" when it conflicts with the self-reported answer or its
\* confidence is low, "clear" otherwise; matches: a finding pattern fits the graph.
Job == [pc : {"new", "done", "failed"} \cup Steps,
        parsed : [Field -> {"none", "clear", "flagged"}], matches : BOOLEAN]

\* by: the run whose fact it holds.  human: the run whose item a reviewer resolved
\* to set it (resolved_by), NoRun while nobody did.
Row == [by : Run \cup {NoRun}, flagged : BOOLEAN, human : Run \cup {NoRun}]
NoRow == [by |-> NoRun, flagged |-> FALSE, human |-> NoRun]

Review == [pc : {"idle", "claim", "resolve", "write", "escalate"},
           item : Item \cup {NoItem}, seen : Run \cup {NoRun}]
IdleReview == [pc |-> "idle", item |-> NoItem, seen |-> NoRun]

Open == {"pending", "in_review", "escalated"}

TypeOK ==
    /\ job \in [Run -> Job]
    /\ facts \in SUBSET Run
    /\ graph \in Run \cup {NoRun}
    /\ value \in [Field -> Row]
    /\ finding \in [Run -> {"none", "pending", "approved", "rejected"}]
    /\ item \in [Item -> {"none", "resolved"} \cup Open]
    /\ review \in [Reviewer -> Review]
    /\ latest \in Run \cup {NoRun}

Init ==
    /\ job = [r \in Run |-> [pc |-> "new", parsed |-> [k \in Field |-> "none"], matches |-> FALSE]]
    /\ facts = {}
    /\ graph = NoRun
    /\ value = [k \in Field |-> NoRow]
    /\ finding = [r \in Run |-> "none"]
    /\ item = [i \in Item |-> "none"]
    /\ review = [v \in Reviewer |-> IdleReview]
    /\ latest = NoRun

-----------------------------------------------------------------------------
GoTo(r, step) == job' = [job EXCEPT ![r].pc = step]

\* loadSelfReported, createJob and the intake step, which only mint ids.
StartRun(r) ==
    /\ job[r].pc = "new"
    /\ Cardinality(InFlight) < MaxRunning
    /\ GoTo(r, "parse")
    /\ UNCHANGED <<rows, review, latest>>

\* The parsed fields wait in the job's checkpoint.
Parse(r) ==
    /\ job[r].pc = "parse"
    /\ \E parsed \in [Field -> {"none", "clear", "flagged"}], matches \in BOOLEAN :
         job' = [job EXCEPT ![r] = [pc |-> "extract", parsed |-> parsed, matches |-> matches]]
    /\ UNCHANGED <<rows, review, latest>>

\* Faulty variant: the facts of earlier runs are not deleted.
ExtractAppending(r) ==
    /\ job[r].pc = "extract"
    /\ GoTo(r, "graph")
    /\ facts' = facts \cup {r}
    /\ UNCHANGED <<graph, value, finding, item, review, latest>>

\* The facts of every other run go, whether or not that run is over.
Extract(r) ==
    /\ job[r].pc = "extract"
    /\ GoTo(r, "graph")
    /\ facts' = {r}
    /\ UNCHANGED <<graph, value, finding, item, review, latest>>

\* The engagement's graph is rebuilt from the facts this run still has.
PopulateGraph(r) ==
    /\ job[r].pc = "graph"
    /\ GoTo(r, "reconcile")
    /\ graph' = IF r \in facts THEN r ELSE NoRun
    /\ UNCHANGED <<facts, value, finding, item, review, latest>>

Reported(r, k) == r \in facts /\ job[r].parsed[k] # "none"
Flags(r, k) == r \in facts /\ job[r].parsed[k] = "flagged"

Reconciled(r) ==
    [k \in Field |-> IF Reported(r, k)
                     THEN [by |-> r, flagged |-> Flags(r, k), human |-> NoRun]
                     ELSE NoRow]

\* Values are deleted whoever resolved them, items only while pending: one that a
\* reviewer claimed outlives the value it is about.
Reconcile(r) ==
    /\ job[r].pc = "reconcile"
    /\ GoTo(r, "findings")
    /\ value' = Reconciled(r)
    /\ item' = [i \in Item |-> IF i[1] = r /\ i[2] \in Field /\ Flags(r, i[2]) THEN "pending"
                               ELSE IF item[i] = "pending" /\ i[2] \in Field THEN "none" ELSE item[i]]
    /\ UNCHANGED <<facts, graph, finding, review, latest>>

\* Faulty variant: findings of earlier runs stay while their pending items go.
RunFindingsAppending(r) ==
    LET match == graph # NoRun /\ job[graph].matches IN
    /\ job[r].pc = "findings"
    /\ GoTo(r, "done")
    /\ finding' = [finding EXCEPT ![r] = IF match THEN "pending" ELSE "none"]
    /\ item' = [i \in Item |-> IF i[2] # "finding" THEN item[i]
                               ELSE IF i[1] = r /\ match THEN "pending"
                               ELSE IF item[i] = "pending" THEN "none" ELSE item[i]]
    /\ latest' = r
    /\ UNCHANGED <<facts, graph, value, review>>

\* The job has parked at the score step, which nobody has written.  runFindings
\* rebuilds the engagement's findings from the graph as it is now.
RunFindings(r) ==
    LET match == graph # NoRun /\ job[graph].matches IN
    /\ job[r].pc = "findings"
    /\ GoTo(r, "done")
    /\ finding' = [q \in Run |-> IF q = r /\ match THEN "pending" ELSE "none"]
    /\ item' = [i \in Item |-> IF i[2] # "finding" THEN item[i]
                               ELSE IF i[1] = r /\ match THEN "pending"
                               ELSE IF item[i] = "pending" THEN "none" ELSE item[i]]
    /\ latest' = r
    /\ UNCHANGED <<facts, graph, value, review>>

\* A step throws and is rolled back, or the process dies: earlier steps stay.
FailRun(r) ==
    /\ job[r].pc \in Steps
    /\ GoTo(r, "failed")
    /\ latest' = NoRun
    /\ UNCHANGED <<rows, review>>

-----------------------------------------------------------------------------
ReviewOnly == UNCHANGED <<job, facts, graph, latest>>

\* loadItem, with the check of its status: an item that is resolved is refused.
\* Who holds an item is not kept: a second claim of it changes nothing else.
LoadItem(v, i, what) ==
    /\ review[v].pc = "idle"
    /\ item[i] \in Open
    /\ what = "claim" => item[i] # "in_review"
    /\ review' = [review EXCEPT ![v] = [pc |-> what, item |-> i, seen |-> NoRun]]
    /\ UNCHANGED <<value, finding, item>> /\ ReviewOnly

\* An update by id: of no row if a run has deleted the item since.
SetItem(i, status) ==
    item' = [item EXCEPT ![i] = IF @ = "none" THEN "none" ELSE status]

ClaimItem(v) ==
    /\ review[v].pc = "claim"
    /\ SetItem(review[v].item, "in_review")
    /\ review' = [review EXCEPT ![v] = IdleReview]
    /\ UNCHANGED <<value, finding>> /\ ReviewOnly

EscalateItem(v) ==
    /\ review[v].pc = "escalate"
    /\ SetItem(review[v].item, "escalated")
    /\ review' = [review EXCEPT ![v] = IdleReview]
    /\ UNCHANGED <<value, finding>> /\ ReviewOnly

\* resolveReviewItem.  The update of the value starts: it sees the row of the
\* moment, and may then wait for a run that is deleting it.
SeeValue(v) ==
    LET k == review[v].item[2] IN
    /\ review[v].pc = "resolve"
    /\ review' = [review EXCEPT ![v].pc = "write",
                                ![v].seen = IF k = "finding" THEN NoRun ELSE value[k].by]
    /\ UNCHANGED <<value, finding, item>> /\ ReviewOnly

\* Faulty variants: resolved_by takes the item's field; a decision on a field is
\* recorded in the item only.
ResolveItemByField(v) ==
    LET i == review[v].item IN
    /\ review[v].pc = "write"
    /\ i[2] \in Field /\ value' = [value EXCEPT ![i[2]].human = i[2]]
    /\ SetItem(i, "resolved")
    /\ review' = [review EXCEPT ![v] = IdleReview]
    /\ UNCHANGED finding /\ ReviewOnly

ResolveItemOnly(v) ==
    /\ review[v].pc = "write"
    /\ SetItem(review[v].item, "resolved")
    /\ review' = [review EXCEPT ![v] = IdleReview]
    /\ UNCHANGED <<value, finding>> /\ ReviewOnly

\* The rest of the transaction.  The value's row is written if it is still the
\* one seen; the item is resolved in any case.
ResolveItem(v) ==
    LET i == review[v].item
        r == i[1]
        k == i[2] IN
    /\ review[v].pc = "write"
    /\ \/ /\ k \in Field
          /\ value' = IF value[k].by # review[v].seen \/ value[k].by = NoRun THEN value
                      ELSE [value EXCEPT ![k].human = r]
          /\ UNCHANGED finding
       \/ /\ k = "finding"
          /\ \E decision \in {"approved", "rejected"} :
               finding' = [finding EXCEPT ![r] = IF @ = "none" THEN "none" ELSE decision]
          /\ UNCHANGED value
    /\ SetItem(i, "resolved")
    /\ review' = [review EXCEPT ![v] = IdleReview]
    /\ ReviewOnly

FailReview(v) ==
    /\ review[v].pc # "idle"
    /\ review' = [review EXCEPT ![v] = IdleReview]
    /\ UNCHANGED <<value, finding, item>> /\ ReviewOnly

-----------------------------------------------------------------------------
RunStep(r) ==
    \/ StartRun(r)
    \/ Parse(r)
    \/ Extract(r)
    \/ PopulateGraph(r)
    \/ Reconcile(r)
    \/ RunFindings(r)
    \/ FailRun(r)

ReviewStep(v) ==
    \/ \E i \in Item, what \in {"claim", "resolve", "escalate"} : LoadItem(v, i, what)
    \/ ClaimItem(v)
    \/ EscalateItem(v)
    \/ SeeValue(v)
    \/ ResolveItem(v)
    \/ FailReview(v)

Next ==
    \/ \E r \in Run : RunStep(r)
    \/ \E v \in Reviewer : ReviewStep(v)

Spec == Init /\ [][Next]_vars

-----------------------------------------------------------------------------
\* engagementMetrics: a value nobody resolved and nothing open is queued against.
AutoResolved ==
    {k \in Field : /\ value[k].by # NoRun
                   /\ value[k].human = NoRun
                   /\ \A r \in Run : item[<<r, k>>] \notin Open}

\* What the automation ratio counts as resolved by the pipeline was resolved with
\* confidence: a conflicting or unsure value nobody decided on is in the queue,
\* through claims, late decisions, failures and reruns.
AutoIsConfident == \A k \in AutoResolved : ~value[k].flagged

\* Every finding the advisor has not decided on has its approval item open.
FindingsQueued == \A r \in Run : finding[r] = "pending" => item[<<r, "finding">>] \in Open

\* The engagement shows what run r extracted, and nothing else.
Shows(r) ==
    /\ facts = {r} /\ graph = r
    /\ \A k \in Field : /\ value[k].by = IF job[r].parsed[k] = "none" THEN NoRun ELSE r
                        /\ value[k].flagged = (job[r].parsed[k] = "flagged")
    /\ (\E q \in Run : finding[q] # "none") <=> job[r].matches

\* When a run has ended well and none is in flight, the engagement shows that
\* run's data, whatever failed runs before it left behind.
LatestShows == InFlight = {} /\ latest # NoRun => Shows(latest)

\* Safe to re-run: it converges to the same state (server/pipeline/steps.ts).  When
\* every run that ended succeeded and none is in flight, the engagement shows one.
RunsConverge ==
    (\E r \in Run : job[r].pc = "done") /\ (\A r \in Run : job[r].pc \in {"new", "done"})
    => \E r \in Run : job[r].pc = "done" /\ Shows(r)

=============================================================================
