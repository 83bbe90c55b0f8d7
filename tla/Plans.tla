--------------------------------- MODULE Plans ---------------------------------
(***************************************************************************)
(* The plans of one firm (plan_templates, with their versions) and what is *)
(* applied of them to one engagement (server/plans.ts, server/roadmap.ts,  *)
(* the remove button of RoadmapPage).                                      *)
(*                                                                         *)
(* Requests check before they begin their transaction, and nothing locks   *)
(* what they checked: the versions of a plan, the plans applied and the    *)
(* library tasks on the roadmap may change in between.                     *)
(***************************************************************************)
EXTENDS Integers, FiniteSets

CONSTANTS
    Template,    \* rows of plan_templates, the seeded ones among them
    Seeded,      \* the items of the templates that were seeded: active, no firm may edit them
    Lib,         \* library tasks; each stands for the readiness area it belongs to
    Content,     \* what a firm's plan may list, as sets of library tasks
    Targets,     \* gap_plan_map: by template, the areas whose gaps it remedies
    Request,     \* requests that handlers serve
    MaxPlans,    \* how many plans are ever applied to the engagement
    MaxEdits     \* how often a draft is edited in place

ASSUME TemplateAssumption == IsFiniteSet(Template) /\ Template # {}
ASSUME ContentAssumption == Content \subseteq SUBSET Lib
ASSUME SeededAssumption == DOMAIN Seeded \subseteq Template /\ \A t \in DOMAIN Seeded : Seeded[t] \subseteq Lib
ASSUME TargetsAssumption == Targets \in [Template -> SUBSET Lib]
ASSUME BoundsAssumption == MaxPlans \in Nat /\ MaxEdits \in Nat

VARIABLES
    template,  \* plan_templates and their items
    plan,      \* engagement_plans
    task,      \* tasks laid by plans: who owns the one a plan created for a library task
    gap,       \* the gaps of the engagement, by area
    job        \* what each request is doing

vars == <<template, plan, task, gap, job>>

System == DOMAIN Seeded
Plan == 1 .. MaxPlans
None == 0

\* edition: counts rewrites of the item rows, which get new ids.
TemplateRow == [status : {"none", "draft", "active", "retired"}, lineage : Template,
                version : 0 .. Cardinality(Template), items : SUBSET Lib, edition : 0 .. MaxEdits]
NoTemplate(t) == [status |-> "none", lineage |-> t, version |-> 0, items |-> {}, edition |-> 0]

\* items: what was laid down.
PlanRow == [status : {"none", "active", "completed", "removed"}, of : Template,
            version : 0 .. Cardinality(Template), items : SUBSET Lib]

\* A task is named by the plan and the library task it was created for.
Task == Plan \X Lib

Job == [pc : {"idle", "edit", "queue", "begin", "lay", "score"},
        of : Template,                         \* the template the request works on
        row : TemplateRow,                     \* as it was read
        todo : SUBSET Template,                \* templates still to apply
        found : [Lib -> Plan \cup {None}],     \* by library task, who created the one seen
        seen : SUBSET Plan,                    \* active plans a scoring has read
        opened : SUBSET Lib,                   \* areas in which a scoring has opened gaps,
        resolved : SUBSET Lib]                 \* and those whose gaps it has resolved

IdleJob ==
    LET t == CHOOSE t \in Template : TRUE
    IN [pc |-> "idle", of |-> t, row |-> NoTemplate(t), todo |-> {},
        found |-> [l \in Lib |-> None], seen |-> {}, opened |-> {}, resolved |-> {}]

Live(p) == plan[p].status \in {"active", "completed"}
NewPlan == CHOOSE p \in Plan : plan[p].status = "none"
HasRoom == \E p \in Plan : plan[p].status = "none"

TypeOK ==
    /\ template \in [Template -> TemplateRow]
    /\ plan \in [Plan -> PlanRow]
    /\ task \in [Task -> Plan \cup {None}]
    /\ gap \in [Lib -> {"none", "open", "resolved"}]
    /\ job \in [Request -> Job]

Init ==
    /\ template = [t \in Template |->
                     IF t \in System
                     THEN [NoTemplate(t) EXCEPT !.status = "active", !.version = 1, !.items = Seeded[t]]
                     ELSE NoTemplate(t)]
    /\ plan = [p \in Plan |-> [status |-> "none", of |-> IdleJob.of, version |-> 0,
                               items |-> {}]]
    /\ task = [x \in Task |-> None]
    /\ gap = [l \in Lib |-> "none"]
    /\ job = [w \in Request |-> IdleJob]

-----------------------------------------------------------------------------
End(w) == job' = [job EXCEPT ![w] = IdleJob]

\* createPlan: one transaction, nothing read before it.
CreatePlan(t, items, status) ==
    /\ template[t].status = "none"
    /\ template' = [template EXCEPT ![t] = [status |-> status, lineage |-> t, version |-> 1,
                                            items |-> items, edition |-> 0]]
    /\ UNCHANGED <<plan, task, gap, job>>

\* updatePlan before its transaction: the row, and the items it is to carry.
CheckUpdate(w, t, items) ==
    /\ job[w].pc = "idle"
    /\ t \notin System
    /\ template[t].status \in {"draft", "active"}
    /\ job' = [job EXCEPT ![w].pc = "edit", ![w].of = t,
                          ![w].row = [template[t] EXCEPT !.items = items]]
    /\ UNCHANGED <<template, plan, task, gap>>

\* A draft is rewritten in place: its status was read before the transaction.
EditDraft(w, status) ==
    LET t == job[w].of IN
    /\ job[w].pc = "edit" /\ job[w].row.status = "draft"
    /\ template[t].edition < MaxEdits
    /\ template' = [template EXCEPT ![t].status = status, ![t].items = job[w].row.items,
                                    ![t].edition = @ + 1]
    /\ End(w)
    /\ UNCHANGED <<plan, task, gap>>

Minted(w, t, n) ==
    [template EXCEPT ![n] = [status |-> "active", lineage |-> template[t].lineage,
                             version |-> job[w].row.version + 1,
                             items |-> job[w].row.items, edition |-> 0]]

\* An active plan is kept: a new version takes its place.
MintVersion(w, n) ==
    LET t == job[w].of IN
    /\ job[w].pc = "edit" /\ job[w].row.status = "active"
    /\ template[n].status = "none"
    /\ template' = [Minted(w, t, n) EXCEPT ![t].status = "retired"]
    /\ End(w)
    /\ UNCHANGED <<plan, task, gap>>

-----------------------------------------------------------------------------
\* apply-plan takes a template of whatever status, drafts and retired ones too; the
\* automatic path has chosen its own.
ToApply(w, t) ==
    \/ job[w].pc = "idle" /\ template[t].status # "none"
    \/ job[w].pc = "queue" /\ t \in job[w].todo

\* Half of the content or more is in an area with an open gap.
OnTarget(t) ==
    LET hit == {l \in template[t].items : gap[l] = "open"}
    IN hit # {} /\ 2 * Cardinality(hit) >= Cardinality(template[t].items)

Applied == {template[plan[p].of].lineage : p \in {q \in Plan : Live(q)}}

Candidates == {t \in Template : /\ template[t].status = "active"
                                /\ template[t].lineage \notin Applied
                                /\ OnTarget(t)}

\* autoApplyQualifyingPlans, called by generate-roadmap or after a scoring: the
\* candidates are chosen once, then applied one transaction after another.
AutoApply(w) ==
    /\ job[w].pc = "idle"
    /\ Candidates # {}
    /\ job' = [job EXCEPT ![w].pc = "queue", ![w].todo = Candidates]
    /\ UNCHANGED <<template, plan, task, gap>>

\* applyPlan before its transaction: an applied template is answered as it is,
\* for another the row and its items are read.
CheckApply(w, t) ==
    LET already == \E p \in Plan : Live(p) /\ plan[p].of = t
        left == job[w].todo \ {t} IN
    /\ ToApply(w, t)
    /\ job' = [job EXCEPT ![w] =
                 IF ~already THEN [@ EXCEPT !.pc = "begin", !.of = t, !.row = template[t]]
                 ELSE IF left = {} THEN IdleJob ELSE [@ EXCEPT !.todo = left]]
    /\ UNCHANGED <<template, plan, task, gap>>

OnRoadmap(l) == {p \in Plan : task[<<p, l>>] # None}

\* Faulty variant: the tasks of plans that are still active are not looked up.
ReadTasksUnowned(w) ==
    /\ job[w].pc = "begin"
    /\ \E found \in [Lib -> Plan \cup {None}] :
         /\ \A l \in Lib : LET free == {p \in OnRoadmap(l) : ~Live(task[<<p, l>>])}
                           IN IF l \notin job[w].row.items \/ free = {} THEN found[l] = None ELSE found[l] \in free
         /\ job' = [job EXCEPT ![w].pc = "lay", ![w].found = found]
    /\ UNCHANGED <<template, plan, task, gap>>

\* The transaction begins and reads the library tasks on the roadmap; of two for
\* one library task it keeps the one that came last, in no stated order.
ReadTasks(w) ==
    /\ job[w].pc = "begin"
    /\ \E found \in [Lib -> Plan \cup {None}] :
         /\ \A l \in Lib : IF l \notin job[w].row.items \/ OnRoadmap(l) = {}
                           THEN found[l] = None ELSE found[l] \in OnRoadmap(l)
         /\ job' = [job EXCEPT ![w].pc = "lay", ![w].found = found]
    /\ UNCHANGED <<template, plan, task, gap>>

Claimed(w) == {<<job[w].found[l], l>> : l \in {k \in job[w].row.items : job[w].found[k] # None}}
Created(w, p) == {<<p, l>> : l \in {k \in job[w].row.items : job[w].found[k] = None}}

Snapshot(w) == [status |-> "active", of |-> job[w].of, version |-> job[w].row.version,
                items |-> job[w].row.items]

\* Item rows that an edit has replaced since are gone: the foreign key refuses
\* the snapshot's items and LayDown cannot happen, FailRequest does.
ItemsThere(w) == \/ job[w].row.items = {}
                 \/ job[w].row.edition = template[job[w].of].edition

NextApply(w) ==
    LET left == job[w].todo \ {job[w].of}
    IN job' = [job EXCEPT ![w] = IF left = {} THEN IdleJob
                                 ELSE [IdleJob EXCEPT !.pc = "queue", !.todo = left]]

\* Faulty variants: the tasks carry the template's id;
\* only tasks nobody owns are claimed, and so none.
LayDownTagged(w) ==
    LET p == NewPlan IN
    /\ job[w].pc = "lay" /\ HasRoom /\ ItemsThere(w)
    /\ plan' = [plan EXCEPT ![p] = Snapshot(w)]
    /\ task' = [x \in Task |-> IF x \in Created(w, p) THEN job[w].of ELSE task[x]]
    /\ NextApply(w)
    /\ UNCHANGED <<template, gap>>

LayDownStranding(w) ==
    LET p == NewPlan IN
    /\ job[w].pc = "lay" /\ HasRoom /\ ItemsThere(w)
    /\ plan' = [plan EXCEPT ![p] = Snapshot(w)]
    /\ task' = [x \in Task |-> IF x \in Created(w, p) THEN p ELSE task[x]]
    /\ NextApply(w)
    /\ UNCHANGED <<template, gap>>

\* Faulty variant: the snapshot's items are not linked to the template's.
LayDownUnlinked(w) ==
    LET p == NewPlan IN
    /\ job[w].pc = "lay" /\ HasRoom
    /\ plan' = [plan EXCEPT ![p] = Snapshot(w)]
    /\ task' = [x \in Task |->
                  IF \/ x \in Created(w, p)
                     \/ x \in Claimed(w) /\ plan[task[x]].status = "removed"
                  THEN p ELSE task[x]]
    /\ NextApply(w)
    /\ UNCHANGED <<template, gap>>

\* The snapshot and its tasks: one that was found is claimed if its owner has been
\* removed, one that was not is created.  Commits.
LayDown(w) ==
    LET p == NewPlan IN
    /\ job[w].pc = "lay" /\ HasRoom /\ ItemsThere(w)
    /\ plan' = [plan EXCEPT ![p] = Snapshot(w)]
    /\ task' = [x \in Task |->
                  IF \/ x \in Created(w, p)
                     \/ x \in Claimed(w) /\ plan[task[x]].status = "removed"
                  THEN p ELSE task[x]]
    /\ NextApply(w)
    /\ UNCHANGED <<template, gap>>

\* The browser's update by id, whatever the plan's status.
RemovePlan(p) ==
    /\ Live(p)
    /\ plan' = [plan EXCEPT ![p].status = "removed"]
    /\ UNCHANGED <<template, task, gap, job>>

-----------------------------------------------------------------------------
\* Scoring opens gaps and resolves open ones; reconcileEngagementPlans then reads
\* the active plans, within the scoring's transaction.
ReadActivePlans(w) ==
    /\ job[w].pc = "idle"
    /\ \E opened \in SUBSET Lib, resolved \in SUBSET {l \in Lib : gap[l] = "open"} :
         /\ opened \cap resolved = {}
         /\ job' = [job EXCEPT ![w].pc = "score",
                      ![w].seen = {p \in Plan : plan[p].status = "active"},
                      ![w].opened = opened, ![w].resolved = resolved]
    /\ UNCHANGED <<template, plan, task, gap>>

\* The gaps as the scoring leaves them; what others have committed it leaves alone.
GapsLeft(w) == [l \in Lib |-> IF l \in job[w].opened THEN "open"
                              ELSE IF l \in job[w].resolved THEN "resolved" ELSE gap[l]]

Remedied(w, p) ==
    LET total == {l \in Targets[plan[p].of] : GapsLeft(w)[l] # "none"}
    IN total # {} /\ \A l \in total : GapsLeft(w)[l] = "resolved"

\* The updates, by id and whatever the status is by now.  Commits.
CompletePlans(w) ==
    /\ job[w].pc = "score"
    /\ gap' = GapsLeft(w)
    /\ plan' = [p \in Plan |-> IF p \in job[w].seen /\ Remedied(w, p)
                               THEN [plan[p] EXCEPT !.status = "completed"] ELSE plan[p]]
    /\ End(w)
    /\ UNCHANGED <<template, task>>

\* An error, a deadlock or the end of the process; what was committed stays.
FailRequest(w) ==
    /\ job[w].pc # "idle"
    /\ End(w)
    /\ UNCHANGED <<template, plan, task, gap>>

-----------------------------------------------------------------------------
AuthorStep(w) ==
    \/ \E t \in Template :
         \E items \in Content \cup {template[t].items} : CheckUpdate(w, t, items)
    \/ \E status \in {"draft", "active"} : EditDraft(w, status)
    \/ \E n \in Template : MintVersion(w, n)

ApplyStep(w) ==
    \/ \E t \in Template : CheckApply(w, t)
    \/ AutoApply(w)
    \/ ReadTasks(w)
    \/ LayDown(w)

ScoreStep(w) == ReadActivePlans(w) \/ CompletePlans(w)

Next ==
    \/ \E t \in Template, items \in Content, status \in {"draft", "active"} :
         CreatePlan(t, items, status)
    \/ \E w \in Request : AuthorStep(w) \/ ApplyStep(w) \/ ScoreStep(w) \/ FailRequest(w)
    \/ \E p \in Plan : RemovePlan(p)

Spec == Init /\ [][Next]_vars

-----------------------------------------------------------------------------
\* No two requests are between the check of an application and its commit.
Applying == {"begin", "lay"}
AppliesApart == \A v, w \in Request : v = w \/ job[v].pc \notin Applying \/ job[w].pc \notin Applying

\* Applying is idempotent: a version has one active snapshot, also when it is
\* removed and added again, auto-applied, or completed by a scoring meanwhile, and a
\* library task appears at most once on an engagement, tagged by whichever plan
\* first laid it down (applyPlan).
OncePerEngagement ==
    /\ \A l \in Lib : Cardinality(OnRoadmap(l)) <= 1
    /\ \A p, q \in Plan :
         plan[p].status = "active" /\ plan[q].status = "active" /\ plan[p].of = plan[q].of => p = q

\* A task owned by an active plan keeps its owner: later plans that list the same
\* library task, re-added or auto-applied ones too, do not take it away.  And when a
\* plan has been applied each of its library tasks is on the roadmap under a plan
\* that is there: none is stranded on a plan that was removed.
TasksKeepPlans ==
    [][/\ \A x \in Task : task[x] # None /\ plan[task[x]].status = "active" => task'[x] = task[x]
       /\ \A p \in Plan : plan[p].status = "none" /\ plan'[p].status # "none" =>
            \A l \in plan'[p].items :
              \E x \in Task : x[2] = l /\ task'[x] # None
                               /\ plan'[task'[x]].status # "removed"]_vars

\* What is laid down on an engagement is what the plan lists at that moment, however
\* often the draft was edited or activated since its items were read, and whatever
\* else edits, applies and scores meanwhile (applyPlan reads them before it begins).
AppliedAsListed ==
    [][\A p \in Plan : plan[p].status = "none" /\ plan'[p].status # "none" =>
          plan'[p].items \subseteq template'[plan'[p].of].items]_vars

=============================================================================
