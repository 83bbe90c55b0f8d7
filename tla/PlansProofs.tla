------------------------------ MODULE PlansProofs ------------------------------
(***************************************************************************)
(* Proofs about Plans for every set of templates, library tasks and        *)
(* requests.                                                               *)
(***************************************************************************)
EXTENDS MCPlans, FiniteSetTheorems, TLAPS

Stored == {t \in Template : template[t].status # "none"}

\* No version number exceeds the number of templates there are.
VersionsCount ==
  /\ \A t \in Template : template[t].version <= Cardinality(Stored)
  /\ \A w \in Request : job[w].row.version <= Cardinality(Stored)

\* A plan that was read, or that created a task, is not forgotten; neither is a task
\* that was found.
Remembered ==
  /\ \A w \in Request : \A p \in job[w].seen : plan[p].status # "none"
  /\ \A p \in Plan, l \in Lib : task[<<p, l>>] # None => plan[p].status # "none"
  /\ \A w \in Request : job[w].pc = "lay" =>
       \A l \in Lib : job[w].found[l] # None => task[<<job[w].found[l], l>>] # None

IInv == TypeOK /\ VersionsCount /\ Remembered

\* What an application has read of a draft is still there, or the draft's item rows
\* have been replaced since.
RowListed(n) ==
  /\ n.todo \subseteq Stored
  /\ n.pc \in Applying =>
       /\ n.of \in Stored /\ n.row.edition <= template[n.of].edition
       /\ n.row.edition = template[n.of].edition => n.row.items = template[n.of].items

RowsListed == \A w \in Request : RowListed(job[w])

\* The rest holds until two applications overlap.  The template of an application is
\* not active on the engagement, and tasks it did not find are not there.
RowCurrent(n) ==
  /\ n.pc \in Applying => \A p \in Plan : ~(plan[p].status = "active" /\ plan[p].of = n.of)
  /\ n.pc = "lay" => \A l \in n.row.items : n.found[l] = None => OnRoadmap(l) = {}

RowsCurrent == \A w \in Request : RowCurrent(job[w])

OneTask == \A l \in Lib : \A p, q \in OnRoadmap(l) : p = q

OneActive ==
  \A p, q \in Plan :
    plan[p].status = "active" /\ plan[q].status = "active" /\ plan[p].of = plan[q].of => p = q

Once == RowsCurrent /\ OneTask /\ OneActive

-----------------------------------------------------------------------------
LEMMA Rows ==
  ASSUME TypeOK
  PROVE  /\ template \in [Template -> TemplateRow] /\ plan \in [Plan -> PlanRow]
         /\ job \in [Request -> Job]
         /\ \A t \in Template :
              /\ template[t].status \in {"none", "draft", "active", "retired"}
              /\ template[t].lineage \in Template /\ template[t].items \subseteq Lib
              /\ template[t].version \in Nat /\ template[t].edition \in 0 .. MaxEdits
         /\ \A w \in Request :
              /\ job[w].of \in Template /\ job[w].row \in TemplateRow
              /\ job[w].todo \subseteq Template /\ job[w].seen \subseteq Plan
              /\ job[w].row.version \in Nat
              /\ job[w].found \in [Lib -> Plan \cup {None}]
BY FS_CardinalityType, TemplateAssumption DEF TypeOK, TemplateRow, PlanRow, Job

LEMMA StoredCounted ==
  ASSUME TypeOK
  PROVE  /\ IsFiniteSet(Stored) /\ Cardinality(Stored) \in Nat
         /\ Cardinality(Template) \in Nat /\ Cardinality(Stored) <= Cardinality(Template)
<1>1. Stored \subseteq Template
  BY DEF Stored
<1> QED BY <1>1, TemplateAssumption, FS_Subset, FS_CardinalityType

\* A template is never deleted; a new one makes one more.
LEMMA StoredGrows ==
  ASSUME TypeOK, TypeOK', \A t \in Template : template[t].status # "none" => template'[t].status # "none"
  PROVE  Cardinality(Stored) <= Cardinality(Stored')
<1>1. Stored \subseteq Stored'
  BY DEF Stored
<1>2. IsFiniteSet(Stored')
  <2>1. Stored' \subseteq Template
    BY DEF Stored
  <2> QED BY <2>1, TemplateAssumption, FS_Subset
<1> QED BY <1>1, <1>2, FS_Subset

LEMMA StoredMore ==
  ASSUME TypeOK, \A t \in Template : template[t].status # "none" => template'[t].status # "none",
         NEW n \in Template, template[n].status = "none", template'[n].status # "none"
  PROVE  Cardinality(Stored) + 1 <= Cardinality(Stored')
<1> DEFINE more == Stored \cup {n}
<1>1. more \subseteq Stored' /\ n \notin Stored
  BY DEF Stored
<1>2. IsFiniteSet(Stored')
  <2>1. Stored' \subseteq Template
    BY DEF Stored
  <2> QED BY <2>1, TemplateAssumption, FS_Subset
<1>3. IsFiniteSet(more) /\ Cardinality(more) = Cardinality(Stored) + 1
  BY <1>1, StoredCounted, FS_AddElement
<1> HIDE DEF more
<1> QED BY <1>1, <1>2, <1>3, FS_Subset

LEMMA StoredFitsNext ==
  /\ Cardinality(Stored') \in Nat /\ Cardinality(Stored') <= Cardinality(Template)
  /\ Cardinality(Template) \in Nat
<1>1. Stored' \subseteq Template
  BY DEF Stored
<1> QED BY <1>1, TemplateAssumption, FS_Subset, FS_CardinalityType

LEMMA Idle ==
  /\ IdleJob \in Job /\ IdleJob.pc = "idle" /\ IdleJob.todo = {} /\ IdleJob.seen = {}
  /\ IdleJob.row.version = 0 /\ IdleJob.of \in Template
<1> DEFINE t == CHOOSE t \in Template : TRUE
           row == [status |-> "none", lineage |-> t, version |-> 0, items |-> {}, edition |-> 0]
<1>1. t \in Template
  BY TemplateAssumption
<1> HIDE DEF t
<1>2. 0 \in 0 .. Cardinality(Template) /\ 0 \in 0 .. MaxEdits
  BY TemplateAssumption, FS_CardinalityType, BoundsAssumption
<1>3. row \in TemplateRow /\ row.version = 0
  BY <1>1, <1>2 DEF TemplateRow
<1>4. IdleJob = [pc |-> "idle", of |-> t, row |-> row, todo |-> {},
        found |-> [l \in Lib |-> None], seen |-> {}, opened |-> {}, resolved |-> {}]
  BY DEF IdleJob, NoTemplate, t
<1> HIDE DEF row
<1> QED BY <1>1, <1>3, <1>4 DEF Job

LEMMA NewPlanFree == HasRoom => NewPlan \in Plan /\ plan[NewPlan].status = "none"
BY DEF HasRoom, NewPlan

-----------------------------------------------------------------------------
\* Types, version numbers and what is remembered, with or without overlap.
LEMMA JobMoves ==
  ASSUME IInv, NEW w \in Request, NEW n \in Job, job' = [job EXCEPT ![w] = n],
         UNCHANGED <<template, plan, task, gap>>,
         n.row.version <= Cardinality(Stored),
         \A p \in n.seen : plan[p].status # "none",
         n.pc = "lay" => \A l \in Lib : n.found[l] # None => task[<<n.found[l], l>>] # None
  PROVE  IInv'
<1>1. TypeOK' /\ Stored' = Stored
  BY DEF IInv, TypeOK, Stored
<1>2. \A v \in Request : job'[v] = n \/ job'[v] = job[v]
  BY DEF IInv, TypeOK
<1>3. VersionsCount'
  BY <1>1, <1>2 DEF IInv, VersionsCount
<1>4. Remembered'
  BY <1>2 DEF IInv, Remembered
<1> QED BY <1>1, <1>3, <1>4 DEF IInv

LEMMA IdleNext == ASSUME IInv, NEW w \in Request, End(w), UNCHANGED <<template, plan, task, gap>>
                  PROVE IInv'
<1>1. 0 <= Cardinality(Stored)
  BY StoredCounted DEF IInv
<1> QED BY <1>1, Idle, JobMoves DEF End

\* A step that writes the templates: no row is deleted, no number exceeds the rows.
LEMMA TemplatesMove ==
  ASSUME IInv, NEW v \in [Template -> TemplateRow], template' = v,
         \A t \in Template : template[t].status # "none" => v[t].status # "none",
         \A t \in Template : v[t].version <= Cardinality(Stored'),
         UNCHANGED job \/ \E w \in Request : End(w),
         UNCHANGED <<plan, task, gap>>
  PROVE  IInv'
<1>1. \A w \in Request : job'[w] = job[w] \/ job'[w] = IdleJob
  BY DEF IInv, TypeOK, End
<1>2. job' \in [Request -> Job]
  BY Idle DEF IInv, TypeOK, End
<1>3. TypeOK'
  BY <1>2 DEF IInv, TypeOK
<1>4. Cardinality(Stored) <= Cardinality(Stored')
  BY <1>3, StoredGrows DEF IInv
<1>5. VersionsCount'
  <2>1. \A w \in Request : job'[w].row.version <= Cardinality(Stored')
    BY <1>1, <1>4, Idle, Rows, StoredCounted, StoredFitsNext DEF IInv, VersionsCount
  <2> QED BY <2>1 DEF VersionsCount
<1>6. Remembered'
  BY <1>1, Idle DEF IInv, Remembered
<1> QED BY <1>3, <1>5, <1>6 DEF IInv

LEMMA CreatePlanStep ==
  ASSUME IInv, NEW t \in Template, NEW items \in Content, NEW status \in {"draft", "active"},
         CreatePlan(t, items, status)
  PROVE  IInv'
<1> DEFINE row == [status |-> status, lineage |-> t, version |-> 1, items |-> items, edition |-> 0]
           v == [template EXCEPT ![t] = row]
<1>1. template' = v /\ template[t].status = "none" /\ UNCHANGED <<plan, task, gap, job>>
  BY DEF CreatePlan
<1>2. row.status = status /\ row.version = 1
  OBVIOUS
<1>3. row \in TemplateRow
  <2>1. Cardinality(Template) \in Nat /\ Cardinality(Template) # 0
    BY TemplateAssumption, FS_EmptySet, FS_CardinalityType
  <2>2. items \subseteq Lib
    BY ContentAssumption
  <2> QED BY <2>1, <2>2, BoundsAssumption DEF TemplateRow
<1> HIDE DEF row
<1>4. v \in [Template -> TemplateRow] /\ v[t] = row /\ \A u \in Template : u # t => v[u] = template[u]
  BY <1>3 DEF IInv, TypeOK
<1> HIDE DEF v
<1>5. \A u \in Template : template[u].status # "none" => v[u].status # "none"
  BY <1>1, <1>2, <1>4
<1>6. Cardinality(Stored) + 1 <= Cardinality(Stored')
  BY <1>1, <1>2, <1>4, <1>5, StoredMore DEF IInv
<1>7. ASSUME NEW u \in Template PROVE v[u].version <= Cardinality(Stored')
  <2>1. u # t => v[u].version <= Cardinality(Stored) /\ v[u].version \in Nat
    BY <1>4, Rows DEF IInv, VersionsCount
  <2> QED BY <1>2, <1>4, <1>6, <2>1, StoredCounted, StoredFitsNext DEF IInv
<1> QED BY <1>1, <1>4, <1>5, <1>7, TemplatesMove

LEMMA CheckUpdateStep ==
  ASSUME IInv, NEW w \in Request, NEW t \in Template, NEW items \in Content \cup {template[t].items},
         CheckUpdate(w, t, items)
  PROVE  IInv'
<1> DEFINE row == [template[t] EXCEPT !.items = items]
           n == [job[w] EXCEPT !.pc = "edit", !.of = t, !.row = row]
<1>1. template[t] \in TemplateRow /\ job[w] \in Job /\ job \in [Request -> Job]
  BY DEF IInv, TypeOK
<1>2. row \in TemplateRow /\ row.version = template[t].version
  BY <1>1, ContentAssumption DEF TemplateRow
<1>3. job' = [job EXCEPT ![w].pc = "edit", ![w].of = t, ![w].row = row]
  BY DEF CheckUpdate
<1> HIDE DEF row
<1>4. n \in Job /\ n.pc = "edit" /\ n.row = row /\ n.seen = job[w].seen
  BY <1>1, <1>2 DEF Job
<1>5. job' = [job EXCEPT ![w] = n]
  BY <1>1, <1>3
<1> HIDE DEF n
<1>6. n.row.version <= Cardinality(Stored)
  BY <1>2, <1>4 DEF IInv, VersionsCount
<1>7. \A p \in n.seen : plan[p].status # "none"
  BY <1>4 DEF IInv, Remembered
<1> QED BY <1>4, <1>5, <1>6, <1>7, JobMoves DEF CheckUpdate

LEMMA EditDraftStep ==
  ASSUME IInv, NEW w \in Request, NEW status \in {"draft", "active"}, EditDraft(w, status)
  PROVE  IInv'
<1> DEFINE t == job[w].of
           row == [template[t] EXCEPT !.status = status, !.items = job[w].row.items,
                                      !.edition = @ + 1]
           v == [template EXCEPT ![t] = row]
<1>1. t \in Template /\ template[t] \in TemplateRow /\ job[w].row.items \subseteq Lib
  BY DEF IInv, TypeOK, Job, TemplateRow
<1>2. template[t].edition < MaxEdits /\ template[t].edition \in Nat
  BY <1>1 DEF EditDraft, TemplateRow
<1>3. /\ template' = [template EXCEPT ![t].status = status, ![t].items = job[w].row.items,
                                      ![t].edition = @ + 1]
      /\ End(w) /\ UNCHANGED <<plan, task, gap>>
  BY DEF EditDraft
<1>4. row \in TemplateRow /\ row.status = status /\ row.version = template[t].version
  <2>1. template[t].edition + 1 \in 0 .. MaxEdits
    BY <1>2, BoundsAssumption
  <2>2. status \in {"none", "draft", "active", "retired"}
    OBVIOUS
  <2> QED BY <1>1, <2>1, <2>2 DEF TemplateRow
<1>5. template' = v
  BY <1>1, <1>3 DEF IInv, TypeOK
<1> HIDE DEF row
<1>6. v \in [Template -> TemplateRow] /\ v[t] = row /\ \A u \in Template : u # t => v[u] = template[u]
  BY <1>1, <1>4 DEF IInv, TypeOK
<1> HIDE DEF v, t
<1>7. \A u \in Template : template[u].status # "none" => v[u].status # "none"
  BY <1>4, <1>6
<1>8. Cardinality(Stored) <= Cardinality(Stored')
  <2>1. Stored \subseteq Stored' /\ Stored' \subseteq Template
    BY <1>5, <1>7 DEF Stored
  <2> QED BY <2>1, TemplateAssumption, FS_Subset
<1>9. ASSUME NEW u \in Template PROVE v[u].version <= Cardinality(Stored')
  <2>1. v[u].version = template[u].version /\ v[u].version <= Cardinality(Stored)
    BY <1>4, <1>6 DEF IInv, VersionsCount
  <2> QED BY <1>8, <2>1, Rows, StoredCounted, StoredFitsNext DEF IInv
<1> QED BY <1>3, <1>5, <1>6, <1>7, <1>9, TemplatesMove

LEMMA MintVersionStep ==
  ASSUME IInv, NEW w \in Request, NEW n \in Template, MintVersion(w, n)
  PROVE  IInv'
<1> DEFINE t == job[w].of
           row == [status |-> "active", lineage |-> template[t].lineage,
                   version |-> job[w].row.version + 1, items |-> job[w].row.items, edition |-> 0]
           v == template'
<1>1. /\ t \in Template /\ template[t] \in TemplateRow /\ job[w].row \in TemplateRow
      /\ template \in [Template -> TemplateRow]
  BY DEF IInv, TypeOK, Job
<1>2. /\ template' = [[template EXCEPT ![n] = row] EXCEPT ![t].status = "retired"]
      /\ template[n].status = "none" /\ End(w) /\ UNCHANGED <<plan, task, gap>>
  BY DEF MintVersion, Minted
<1>3. row.status = "active" /\ row.version = job[w].row.version + 1
  OBVIOUS
<1>4. /\ [row EXCEPT !.status = "retired"].status = "retired"
      /\ [row EXCEPT !.status = "retired"].version = row.version
      /\ [template[t] EXCEPT !.status = "retired"].status = "retired"
      /\ [template[t] EXCEPT !.status = "retired"].version = template[t].version
  BY <1>1 DEF TemplateRow
<1>5. \A u \in Template : u # n => /\ v[u].version = template[u].version
                                   /\ u # t => v[u] = template[u]
                                   /\ u = t => v[u].status = "retired"
  BY <1>1, <1>2, <1>4
<1>6. v[n].version = job[w].row.version + 1 /\ v[n].status \in {"active", "retired"}
  BY <1>1, <1>2, <1>3, <1>4
<1>7. \A u \in Template : template[u].status # "none" => v[u].status # "none"
  BY <1>5, <1>6
<1>8. Cardinality(Stored) + 1 <= Cardinality(Stored')
  BY <1>2, <1>6, <1>7, StoredMore DEF IInv
<1>9. job[w].row.version <= Cardinality(Stored) /\ job[w].row.version \in Nat
  BY Rows DEF IInv, VersionsCount
<1>10. row \in TemplateRow
  <2>1. job[w].row.version + 1 \in 0 .. Cardinality(Template)
    BY <1>8, <1>9, StoredCounted, StoredFitsNext DEF IInv
  <2> QED BY <1>1, <2>1, BoundsAssumption DEF TemplateRow
<1> HIDE DEF row
<1>11. v \in [Template -> TemplateRow]
  <2>1. [row EXCEPT !.status = "retired"] \in TemplateRow
    BY <1>10 DEF TemplateRow
  <2>2. [template[t] EXCEPT !.status = "retired"] \in TemplateRow
    BY <1>1 DEF TemplateRow
  <2> QED BY <1>1, <1>2, <1>10, <2>1, <2>2
<1>12. ASSUME NEW u \in Template PROVE v[u].version <= Cardinality(Stored')
  <2>1. CASE u = n
    BY <1>6, <1>8, <1>9, <2>1, StoredCounted, StoredFitsNext DEF IInv
  <2>2. CASE u # n
    BY <1>5, <1>8, <2>2, Rows, StoredCounted, StoredFitsNext DEF IInv, VersionsCount
  <2> QED BY <2>1, <2>2
<1> QED BY <1>2, <1>7, <1>11, <1>12, TemplatesMove

LEMMA CheckApplyStep ==
  ASSUME IInv, NEW w \in Request, NEW t \in Template, CheckApply(w, t)
  PROVE  IInv'
<1> DEFINE left == job[w].todo \ {t}
           a == [job[w] EXCEPT !.pc = "begin", !.of = t, !.row = template[t]]
           b == [job[w] EXCEPT !.todo = left]
<1>1. job[w] \in Job /\ template[t] \in TemplateRow /\ job \in [Request -> Job]
  BY DEF IInv, TypeOK
<1>2. UNCHANGED <<template, plan, task, gap>>
  BY DEF CheckApply
<1>3. job[w].pc \in {"idle", "queue"}
  BY DEF CheckApply, ToApply
<1>4. \/ job' = [job EXCEPT ![w] = a]
      \/ job' = [job EXCEPT ![w] = IdleJob]
      \/ job' = [job EXCEPT ![w] = b]
  BY DEF CheckApply
<1>5. a \in Job /\ a.pc = "begin" /\ a.row = template[t] /\ a.seen = job[w].seen
  BY <1>1 DEF Job
<1>6. b \in Job /\ b.pc = job[w].pc /\ b.row = job[w].row /\ b.seen = job[w].seen
  BY <1>1 DEF Job
<1>7. /\ template[t].version <= Cardinality(Stored) /\ job[w].row.version <= Cardinality(Stored)
      /\ \A p \in job[w].seen : plan[p].status # "none"
  BY DEF IInv, VersionsCount, Remembered
<1> HIDE DEF a, b
<1>8. CASE job' = [job EXCEPT ![w] = a]
  BY <1>2, <1>5, <1>7, <1>8, JobMoves
<1>9. CASE job' = [job EXCEPT ![w] = IdleJob]
  BY <1>2, <1>9, IdleNext DEF End
<1>10. CASE job' = [job EXCEPT ![w] = b]
  BY <1>2, <1>3, <1>6, <1>7, <1>10, JobMoves
<1> QED BY <1>4, <1>8, <1>9, <1>10

LEMMA AutoApplyStep == ASSUME IInv, NEW w \in Request, AutoApply(w) PROVE IInv'
<1> DEFINE n == [job[w] EXCEPT !.pc = "queue", !.todo = Candidates]
<1>1. job[w] \in Job /\ job \in [Request -> Job] /\ Candidates \subseteq Template
  BY DEF IInv, TypeOK, Candidates
<1>2. job' = [job EXCEPT ![w] = n] /\ UNCHANGED <<template, plan, task, gap>>
  BY <1>1 DEF AutoApply
<1>3. n \in Job /\ n.pc = "queue" /\ n.row = job[w].row /\ n.seen = job[w].seen
  BY <1>1 DEF Job
<1> HIDE DEF n
<1>4. /\ n.row.version <= Cardinality(Stored)
      /\ \A p \in n.seen : plan[p].status # "none"
  BY <1>3 DEF IInv, VersionsCount, Remembered
<1> QED BY <1>2, <1>3, <1>4, JobMoves

LEMMA ReadTasksStep == ASSUME IInv, NEW w \in Request, ReadTasks(w) PROVE IInv'
<1>1. PICK found \in [Lib -> Plan \cup {None}] :
        /\ \A l \in Lib : IF l \notin job[w].row.items \/ OnRoadmap(l) = {}
                          THEN found[l] = None ELSE found[l] \in OnRoadmap(l)
        /\ job' = [job EXCEPT ![w].pc = "lay", ![w].found = found]
  BY DEF ReadTasks
<1> DEFINE n == [job[w] EXCEPT !.pc = "lay", !.found = found]
<1>2. job[w] \in Job /\ job \in [Request -> Job]
  BY DEF IInv, TypeOK
<1>3. job' = [job EXCEPT ![w] = n] /\ UNCHANGED <<template, plan, task, gap>>
  BY <1>1, <1>2 DEF ReadTasks
<1>4. /\ n \in Job /\ n.pc = "lay" /\ n.found = found /\ n.row = job[w].row
      /\ n.seen = job[w].seen
  BY <1>2 DEF Job
<1> HIDE DEF n
<1>5. /\ n.row.version <= Cardinality(Stored)
      /\ \A p \in n.seen : plan[p].status # "none"
  BY <1>4 DEF IInv, VersionsCount, Remembered
<1>6. \A l \in Lib : found[l] # None => task[<<found[l], l>>] # None
  BY <1>1 DEF OnRoadmap
<1> QED BY <1>3, <1>4, <1>5, <1>6, JobMoves

LEMMA ReadActivePlansJob ==
  ASSUME IInv, NEW w \in Request, ReadActivePlans(w)
  PROVE  \E n \in Job : /\ job' = [job EXCEPT ![w] = n]
                        /\ n.pc = "score" /\ n.row = job[w].row /\ n.todo = job[w].todo
                        /\ n.seen = {p \in Plan : plan[p].status = "active"}
<1>1. PICK opened \in SUBSET Lib, resolved \in SUBSET {l \in Lib : gap[l] = "open"} :
        job' = [job EXCEPT ![w].pc = "score",
                  ![w].seen = {p \in Plan : plan[p].status = "active"},
                  ![w].opened = opened, ![w].resolved = resolved]
  BY DEF ReadActivePlans
<1> DEFINE seen == {p \in Plan : plan[p].status = "active"}
           n == [job[w] EXCEPT !.pc = "score", !.seen = seen,
                               !.opened = opened, !.resolved = resolved]
<1>2. job[w] \in Job /\ job \in [Request -> Job]
  BY DEF IInv, TypeOK
<1>3. job' = [job EXCEPT ![w] = n]
  BY <1>1, <1>2
<1>4. seen \subseteq Plan
  OBVIOUS
<1> HIDE DEF seen
<1>5. n \in Job /\ n.pc = "score" /\ n.row = job[w].row /\ n.todo = job[w].todo /\ n.seen = seen
  BY <1>2, <1>4 DEF Job
<1> HIDE DEF n
<1> QED BY <1>3, <1>5 DEF seen

LEMMA ReadActivePlansStep == ASSUME IInv, NEW w \in Request, ReadActivePlans(w) PROVE IInv'
<1>1. PICK n \in Job : /\ job' = [job EXCEPT ![w] = n]
                       /\ n.pc = "score" /\ n.row = job[w].row
                       /\ n.seen = {p \in Plan : plan[p].status = "active"}
  BY ReadActivePlansJob
<1>2. n.row.version <= Cardinality(Stored)
  BY <1>1 DEF IInv, VersionsCount
<1>3. \A p \in n.seen : plan[p].status # "none"
  BY <1>1
<1> QED BY <1>1, <1>2, <1>3, JobMoves DEF ReadActivePlans

\* A step that writes the plans: none is forgotten and no task is taken off the roadmap.
LEMMA PlansMove ==
  ASSUME IInv, TypeOK', UNCHANGED template,
         \A p \in Plan : plan[p].status # "none" => plan'[p].status # "none",
         \A p \in Plan, l \in Lib : task[<<p, l>>] # None => task'[<<p, l>>] # None,
         \A p \in Plan, l \in Lib : task'[<<p, l>>] # None =>
           task[<<p, l>>] # None \/ plan'[p].status # "none",
         \A v \in Request : job'[v] = job[v] \/ (job'[v].pc \in {"idle", "queue"}
           /\ job'[v].seen = {} /\ job'[v].row.version = 0)
  PROVE  IInv'
<1>1. Stored' = Stored
  BY DEF Stored
<1>2. VersionsCount'
  BY <1>1, StoredCounted DEF IInv, VersionsCount
<1>3. \A v \in Request : job'[v].seen \subseteq Plan /\ \A p \in job'[v].seen : plan'[p].status # "none"
  <2> TAKE v \in Request
  <2>1. job[v].seen \subseteq Plan /\ \A p \in job[v].seen : plan[p].status # "none"
    BY Rows DEF IInv, Remembered
  <2> QED BY <2>1
<1>4. \A v \in Request : job'[v].pc = "lay" =>
        \A l \in Lib : job'[v].found[l] # None => task'[<<job'[v].found[l], l>>] # None
  <2> TAKE v \in Request
  <2> HAVE job'[v].pc = "lay"
  <2> TAKE l \in Lib
  <2>1. job'[v] = job[v] /\ job[v].found[l] \in Plan \cup {None}
    BY Rows DEF IInv
  <2> QED BY <2>1 DEF IInv, Remembered
<1>5. Remembered'
  BY <1>3, <1>4 DEF IInv, Remembered
<1> QED BY <1>2, <1>5 DEF IInv

LEMMA NextApplyJob ==
  ASSUME IInv, NEW w \in Request, NextApply(w)
  PROVE  /\ job' \in [Request -> Job]
         /\ \A v \in Request : v # w => job'[v] = job[v]
         /\ job'[w].pc \in {"idle", "queue"} /\ job'[w].seen = {} /\ job'[w].row.version = 0
         /\ job'[w].todo \subseteq job[w].todo
<1> DEFINE left == job[w].todo \ {job[w].of}
           n == IF left = {} THEN IdleJob ELSE [IdleJob EXCEPT !.pc = "queue", !.todo = left]
<1>1. job \in [Request -> Job] /\ left \subseteq Template
  BY Rows DEF IInv
<1>2. job' = [job EXCEPT ![w] = n]
  BY DEF NextApply
<1>3. /\ [IdleJob EXCEPT !.pc = "queue", !.todo = left] \in Job
      /\ [IdleJob EXCEPT !.pc = "queue", !.todo = left].pc = "queue"
      /\ [IdleJob EXCEPT !.pc = "queue", !.todo = left].seen = IdleJob.seen
      /\ [IdleJob EXCEPT !.pc = "queue", !.todo = left].row = IdleJob.row
      /\ [IdleJob EXCEPT !.pc = "queue", !.todo = left].todo = left
  BY <1>1, Idle DEF Job
<1>4. /\ n \in Job /\ n.pc \in {"idle", "queue"} /\ n.seen = {} /\ n.row.version = 0
      /\ n.todo \subseteq job[w].todo
  BY <1>3, Idle
<1> HIDE DEF n
<1> QED BY <1>1, <1>2, <1>4

LEMMA LayDownFacts ==
  ASSUME IInv, NEW w \in Request, LayDown(w)
  PROVE  /\ NewPlan \in Plan /\ plan[NewPlan].status = "none" /\ None \notin Plan
         /\ Snapshot(w) \in PlanRow /\ Snapshot(w).status = "active"
         /\ plan' = [plan EXCEPT ![NewPlan] = Snapshot(w)]
         /\ plan'[NewPlan] = Snapshot(w) /\ \A q \in Plan : q # NewPlan => plan'[q] = plan[q]
         /\ \A x \in Task : task'[x] = IF \/ x \in Created(w, NewPlan)
                                          \/ x \in Claimed(w) /\ plan[task[x]].status = "removed"
                                       THEN NewPlan ELSE task[x]
         /\ \A l \in Lib : task[<<NewPlan, l>>] = None
<1>1. NewPlan \in Plan /\ plan[NewPlan].status = "none"
  BY NewPlanFree DEF LayDown
<1>2. job[w].row \in TemplateRow /\ job[w].of \in Template /\ plan \in [Plan -> PlanRow]
  BY Rows DEF IInv
<1>3. Snapshot(w) \in PlanRow /\ Snapshot(w).status = "active"
  BY <1>2 DEF Snapshot, PlanRow, TemplateRow
<1>4. None \notin Plan
  BY BoundsAssumption DEF None, Plan
<1>5. \A l \in Lib : task[<<NewPlan, l>>] = None
  BY <1>1 DEF IInv, Remembered
<1>6. plan' = [plan EXCEPT ![NewPlan] = Snapshot(w)]
  BY DEF LayDown
<1>7. plan'[NewPlan] = Snapshot(w) /\ \A q \in Plan : q # NewPlan => plan'[q] = plan[q]
  BY <1>1, <1>2, <1>6
<1> QED BY <1>1, <1>3, <1>4, <1>5, <1>6, <1>7 DEF LayDown

LEMMA LayDownStep == ASSUME IInv, NEW w \in Request, LayDown(w) PROVE IInv'
<1> DEFINE p == NewPlan
<1>1. /\ p \in Plan /\ None \notin Plan /\ Snapshot(w).status = "active"
      /\ plan'[p] = Snapshot(w) /\ \A q \in Plan : q # p => plan'[q] = plan[q]
      /\ \A x \in Task : task'[x] = IF \/ x \in Created(w, p)
                                       \/ x \in Claimed(w) /\ plan[task[x]].status = "removed"
                                    THEN p ELSE task[x]
  BY LayDownFacts
<1>2. TypeOK'
  <2>1. plan' \in [Plan -> PlanRow]
    BY LayDownFacts DEF IInv, TypeOK
  <2>2. task' \in [Task -> Plan \cup {None}]
    BY <1>1 DEF IInv, TypeOK, LayDown
  <2> QED BY <2>1, <2>2, NextApplyJob DEF LayDown, IInv, TypeOK
<1> HIDE DEF p
<1>3. \A q \in Plan : plan[q].status # "none" => plan'[q].status # "none"
  BY <1>1
<1>4. \A q \in Plan, l \in Lib : task[<<q, l>>] # None => task'[<<q, l>>] # None
  BY <1>1 DEF Task
<1>5. ASSUME NEW q \in Plan, NEW l \in Lib, task'[<<q, l>>] # None, task[<<q, l>>] = None
      PROVE  plan'[q].status # "none"
  <2>1. <<q, l>> \in Created(w, p) \/ <<q, l>> \in Claimed(w)
    BY <1>1, <1>5 DEF Task
  <2>2. CASE <<q, l>> \in Created(w, p)
    BY <1>1, <2>2 DEF Created
  <2>3. CASE <<q, l>> \in Claimed(w)
    BY <1>5, <2>3 DEF Claimed, IInv, Remembered, LayDown
  <2> QED BY <2>1, <2>2, <2>3
<1>6. /\ UNCHANGED template
      /\ \A v \in Request : job'[v] = job[v] \/ (job'[v].pc \in {"idle", "queue"}
           /\ job'[v].seen = {} /\ job'[v].row.version = 0)
  BY NextApplyJob DEF LayDown
<1> QED BY <1>2, <1>3, <1>4, <1>5, <1>6, PlansMove

LEMMA RemovePlanStep == ASSUME IInv, NEW p \in Plan, RemovePlan(p) PROVE IInv'
<1>1. UNCHANGED <<template, task, gap, job>>
  BY DEF RemovePlan
<1>2. /\ [plan[p] EXCEPT !.status = "removed"] \in PlanRow
      /\ [plan[p] EXCEPT !.status = "removed"].status = "removed"
  BY Rows DEF IInv, PlanRow
<1>3. plan' = [plan EXCEPT ![p] = [plan[p] EXCEPT !.status = "removed"]]
  BY Rows DEF IInv, RemovePlan
<1>4. plan' \in [Plan -> PlanRow] /\ \A q \in Plan : plan[q].status # "none" => plan'[q].status # "none"
  BY <1>2, <1>3, Rows DEF IInv
<1>5. TypeOK'
  BY <1>1, <1>4 DEF IInv, TypeOK
<1> QED BY <1>1, <1>4, <1>5, PlansMove

LEMMA CompletedRows ==
  ASSUME IInv, NEW w \in Request, CompletePlans(w), NEW p \in Plan
  PROVE  /\ plan'[p] \in PlanRow /\ plan' \in [Plan -> PlanRow]
         /\ plan'[p] = plan[p] \/ (plan'[p].status = "completed" /\ plan[p].status # "none")
         /\ plan'[p].of = plan[p].of /\ plan'[p].items = plan[p].items
         /\ plan'[p].version = plan[p].version
<1> DEFINE done(q) == [plan[q] EXCEPT !.status = "completed"]
<1>1. \A q \in Plan : /\ done(q) \in PlanRow /\ done(q).status = "completed"
                      /\ done(q).of = plan[q].of /\ done(q).items = plan[q].items
                      /\ done(q).version = plan[q].version
  BY Rows DEF IInv, PlanRow
<1>2. plan' = [q \in Plan |-> IF q \in job[w].seen /\ Remedied(w, q) THEN done(q) ELSE plan[q]]
  BY DEF CompletePlans
<1>3. \A q \in job[w].seen : plan[q].status # "none"
  BY DEF IInv, Remembered
<1> HIDE DEF done
<1>4. (p \in job[w].seen /\ plan'[p] = done(p)) \/ plan'[p] = plan[p]
  BY <1>2
<1>5. plan' \in [Plan -> PlanRow]
  BY <1>1, <1>2, Rows DEF IInv
<1> QED BY <1>1, <1>3, <1>4, <1>5

LEMMA CompletePlansStep == ASSUME IInv, NEW w \in Request, CompletePlans(w) PROVE IInv'
<1>1. End(w) /\ UNCHANGED <<template, task>> /\ gap' = GapsLeft(w)
  BY DEF CompletePlans
<1>2. GapsLeft(w) \in [Lib -> {"none", "open", "resolved"}]
  BY DEF IInv, TypeOK, GapsLeft
<1>3. plan' \in [Plan -> PlanRow]
  <2>1. CASE Plan = {}
    BY <2>1 DEF CompletePlans
  <2>2. CASE Plan # {}
    BY <2>2, CompletedRows
  <2> QED BY <2>1, <2>2
<1>4. /\ job' \in [Request -> Job]
      /\ \A v \in Request : job'[v] = job[v] \/ job'[v] = IdleJob
  BY <1>1, Idle, Rows DEF IInv, End
<1>5. TypeOK'
  BY <1>1, <1>2, <1>3, <1>4 DEF IInv, TypeOK
<1>6. \A p \in Plan : plan[p].status # "none" => plan'[p].status # "none"
  BY CompletedRows
<1> QED BY <1>1, <1>4, <1>5, <1>6, Idle, PlansMove

LEMMA InitInv == Init => IInv
<1> SUFFICES ASSUME Init PROVE IInv
  OBVIOUS
<1> DEFINE blank == [status |-> "none", of |-> IdleJob.of, version |-> 0, items |-> {}]
           first(t) == [NoTemplate(t) EXCEPT !.status = "active", !.version = 1, !.items = Seeded[t]]
<1>1. /\ Cardinality(Template) \in Nat /\ Cardinality(Template) # 0
      /\ 0 \in 0 .. MaxEdits /\ 0 \in 0 .. Cardinality(Template) /\ 1 \in 0 .. Cardinality(Template)
  BY TemplateAssumption, FS_EmptySet, FS_CardinalityType, BoundsAssumption
<1>2. \A t \in Template : NoTemplate(t) \in TemplateRow /\ NoTemplate(t).status = "none"
                          /\ NoTemplate(t).version = 0
  BY <1>1 DEF NoTemplate, TemplateRow
<1>3. \A t \in System : first(t) \in TemplateRow /\ first(t).status = "active"
                        /\ first(t).version = 1
  <2> TAKE t \in System
  <2>1. t \in Template /\ Seeded[t] \subseteq Lib
    BY SeededAssumption DEF System
  <2> DEFINE base == NoTemplate(t)
             items == Seeded[t]
  <2>2. base \in TemplateRow /\ items \in SUBSET Lib
    BY <1>2, <2>1
  <2>3. first(t) = [base EXCEPT !.status = "active", !.version = 1, !.items = items]
    OBVIOUS
  <2> HIDE DEF base, items, first
  <2> QED BY <1>1, <2>2, <2>3 DEF TemplateRow
<1> HIDE DEF first
<1>4. template = [t \in Template |-> IF t \in System THEN first(t) ELSE NoTemplate(t)]
  BY DEF Init, first
<1>5. template \in [Template -> TemplateRow]
  BY <1>2, <1>3, <1>4
<1>6. blank \in PlanRow /\ blank.status = "none"
  BY <1>1, Idle DEF PlanRow
<1>7. plan = [p \in Plan |-> blank]
  BY DEF Init
<1> HIDE DEF blank
<1>8. TypeOK
  BY <1>5, <1>6, <1>7, Idle DEF Init, TypeOK
<1>9. VersionsCount
  <2>1. ASSUME NEW t \in Template PROVE template[t].version <= Cardinality(Stored)
    <3>1. CASE t \in System
      <4>1. t \in Stored
        BY <1>3, <1>4, <3>1 DEF Stored
      <4>2. Cardinality(Stored) # 0 /\ Cardinality(Stored) \in Nat
        BY <1>8, <4>1, StoredCounted, FS_EmptySet
      <4> QED BY <1>3, <1>4, <3>1, <4>2
    <3>2. CASE t \notin System
      BY <1>2, <1>4, <1>8, <3>2, StoredCounted
    <3> QED BY <3>1, <3>2
  <2>2. \A w \in Request : job[w].row.version <= Cardinality(Stored)
    <3>1. \A w \in Request : job[w] = IdleJob
      BY DEF Init
    <3> QED BY <1>8, <3>1, Idle, StoredCounted
  <2> QED BY <2>1, <2>2 DEF VersionsCount
<1>10. Remembered
  BY Idle DEF Init, Remembered, Task
<1> QED BY <1>8, <1>9, <1>10 DEF IInv

LEMMA NextInv == IInv /\ [Next]_vars => IInv'
<1> SUFFICES ASSUME IInv, [Next]_vars PROVE IInv'
  OBVIOUS
<1>1. CASE \E t \in Template, items \in Content, status \in {"draft", "active"} :
             CreatePlan(t, items, status)
  BY <1>1, CreatePlanStep
<1>2. ASSUME NEW w \in Request, AuthorStep(w) PROVE IInv'
  BY <1>2, CheckUpdateStep, EditDraftStep, MintVersionStep DEF AuthorStep
<1>3. ASSUME NEW w \in Request, ApplyStep(w) PROVE IInv'
  BY <1>3, CheckApplyStep, AutoApplyStep, ReadTasksStep, LayDownStep DEF ApplyStep
<1>4. ASSUME NEW w \in Request, ScoreStep(w) \/ FailRequest(w) PROVE IInv'
  BY <1>4, ReadActivePlansStep, CompletePlansStep, IdleNext DEF ScoreStep, FailRequest
<1>5. CASE \E p \in Plan : RemovePlan(p)
  BY <1>5, RemovePlanStep
<1>6. CASE UNCHANGED vars
  BY <1>6 DEF vars, IInv, TypeOK, VersionsCount, Stored, Remembered
<1> QED BY <1>1, <1>2, <1>3, <1>4, <1>5, <1>6 DEF Next

THEOREM Invariance == Spec => []IInv
BY InitInv, NextInv, PTL DEF Spec

\* Every row is one the code writes; no version number exceeds the number of templates
\* (server/plans.ts).
THEOREM TypeCorrect == Spec => []TypeOK
<1>1. IInv => TypeOK
  BY DEF IInv
<1> QED BY <1>1, Invariance, PTL

LEMMA KeepsOwners ==
  ASSUME IInv, [Next]_vars
  PROVE  /\ \A x \in Task : task[x] # None /\ plan[task[x]].status = "active" => task'[x] = task[x]
         /\ \A p \in Plan : plan[p].status = "none" /\ plan'[p].status # "none" =>
              \A l \in plan'[p].items :
                \E x \in Task : x[2] = l /\ task'[x] # None
                                 /\ plan'[task'[x]].status # "removed"
<1>1. ASSUME NEW w \in Request, LayDown(w), NEW x \in Task, task[x] # None,
             plan[task[x]].status = "active"
      PROVE  task'[x] = task[x]
  <2>1. x \notin Created(w, NewPlan)
    <3>1. \A l \in Lib : task[<<NewPlan, l>>] = None
      BY <1>1, LayDownFacts
    <3>2. job[w].row.items \subseteq Lib
      BY Rows DEF IInv, TemplateRow
    <3> QED BY <1>1, <3>1, <3>2 DEF Created
  <2> QED BY <1>1, <2>1, LayDownFacts
<1>2. ASSUME NEW w \in Request, LayDown(w), NEW p \in Plan, plan[p].status = "none",
             plan'[p].status # "none", NEW l \in plan'[p].items
      PROVE  \E x \in Task : x[2] = l /\ task'[x] # None /\ plan'[task'[x]].status # "removed"
  <2>1. p = NewPlan /\ plan'[p] = Snapshot(w)
    BY <1>2, LayDownFacts
  <2>2. l \in job[w].row.items /\ l \in Lib
    BY <1>2, <2>1, Rows DEF IInv, TemplateRow, Snapshot
  <2>3. job[w].pc = "lay"
    BY <1>2 DEF LayDown
  <2>4. CASE job[w].found[l] = None
    <3>1. <<p, l>> \in Created(w, p) /\ <<p, l>> \in Task /\ <<p, l>>[2] = l
      BY <2>2, <2>4 DEF Created, Task
    <3>2. task'[<<p, l>>] = p
      BY <1>2, <2>1, <3>1, LayDownFacts
    <3>3. p # None /\ plan'[p].status = "active"
      BY <1>2, <2>1, LayDownFacts
    <3> QED BY <3>1, <3>2, <3>3
  <2>5. CASE job[w].found[l] # None
    <3> DEFINE x == <<job[w].found[l], l>>
    <3>1. x \in Claimed(w) /\ x \in Task /\ x[2] = l
      BY <2>2, <2>5, Rows DEF Claimed, Task, IInv
    <3>2. task[x] # None /\ task[x] \in Plan
      <4>1. task[x] # None
        BY <2>2, <2>3, <2>5 DEF IInv, Remembered
      <4> QED BY <3>1, <4>1 DEF IInv, TypeOK
    <3> HIDE DEF x
    <3>3. /\ task'[x] = NewPlan \/ (task'[x] = task[x] /\ plan[task[x]].status # "removed")
          /\ plan'[NewPlan].status = "active" /\ NewPlan # None
      BY <1>2, <3>1, LayDownFacts
    <3>4. \A q \in Plan : q # NewPlan => plan'[q] = plan[q]
      BY <1>2, LayDownFacts
    <3>5. task'[x] # None /\ plan'[task'[x]].status # "removed"
      BY <3>2, <3>3, <3>4
    <3> QED BY <3>1, <3>5
  <2> QED BY <2>4, <2>5
<1>3. CASE \E w \in Request : LayDown(w)
  BY <1>1, <1>2, <1>3
<1>4. CASE \E w \in Request : CompletePlans(w)
  <2>1. UNCHANGED task /\ \A p \in Plan : plan[p].status = "none" => plan'[p].status = "none"
    BY <1>4, CompletedRows DEF CompletePlans
  <2> QED BY <2>1
<1>5. CASE \E p \in Plan : RemovePlan(p)
  <2>1. PICK q \in Plan : RemovePlan(q)
    BY <1>5
  <2>2. plan' = [plan EXCEPT ![q] = [plan[q] EXCEPT !.status = "removed"]] /\ UNCHANGED task
    BY <2>1, Rows DEF IInv, RemovePlan
  <2>3. plan[q].status # "none"
    BY <2>1 DEF RemovePlan, Live
  <2>4. \A p \in Plan : plan[p].status = "none" => plan'[p].status = "none"
    BY <2>2, <2>3, Rows DEF IInv
  <2> QED BY <2>2, <2>4
<1>6. CASE UNCHANGED <<plan, task>>
  BY <1>6
<1> QED
  BY <1>3, <1>4, <1>5, <1>6
  DEF Next, AuthorStep, ApplyStep, ScoreStep, vars, CreatePlan, CheckUpdate, EditDraft,
      MintVersion, CheckApply, AutoApply, ReadTasks, ReadActivePlans, FailRequest

\* Applying keeps the owners of tasks and strands none, however many requests apply,
\* edit and score at a time (applyPlan of server/plans.ts).
THEOREM OwnersKept == Spec => TasksKeepPlans
<1>1. IInv /\ [Next]_vars => [/\ \A x \in Task : task[x] # None /\ plan[task[x]].status = "active" => task'[x] = task[x]
       /\ \A p \in Plan : plan[p].status = "none" /\ plan'[p].status # "none" =>
            \A l \in plan'[p].items :
              \E x \in Task : x[2] = l /\ task'[x] # None
                               /\ plan'[task'[x]].status # "removed"]_vars
  BY KeepsOwners
<1> QED BY <1>1, Invariance, PTL DEF Spec, TasksKeepPlans

-----------------------------------------------------------------------------
\* Jobs after a step that ends one of them or none.
Ended == UNCHANGED job \/ \E w \in Request : End(w)

LEMMA EndedJobs ==
  ASSUME IInv, Ended
  PROVE  \A v \in Request : job'[v] = job[v] \/ (job'[v].pc = "idle" /\ job'[v].todo = {})
BY Idle DEF IInv, TypeOK, Ended, End

\* The row and the items an application has read.
LEMMA JobListed ==
  ASSUME IInv, RowsListed, NEW w \in Request, NEW n \in Job, job' = [job EXCEPT ![w] = n],
         UNCHANGED template, RowListed(n)
  PROVE  RowsListed'
<1>1. \A v \in Request : job'[v] = n \/ job'[v] = job[v]
  BY DEF IInv, TypeOK
<1>2. \A v \in Request : RowListed(job'[v])
  BY <1>1 DEF RowsListed
<1> QED BY <1>2 DEF RowsListed, RowListed, Stored

LEMMA EndListed ==
  ASSUME IInv, RowsListed, Ended, UNCHANGED template
  PROVE  RowsListed'
<1>1. \A v \in Request : RowListed(job'[v])
  BY EndedJobs DEF RowsListed, RowListed, Applying
<1> QED BY <1>1 DEF RowsListed, RowListed, Stored

\* A step that writes the templates replaces item rows under a new edition only.
LEMMA TemplatesListed ==
  ASSUME IInv, IInv', RowsListed, Ended,
         \A t \in Stored : /\ t \in Stored' /\ template[t].edition <= template'[t].edition
                           /\ \/ template[t].edition < template'[t].edition
                              \/ template'[t].items = template[t].items
  PROVE  RowsListed'
<1> SUFFICES ASSUME NEW v \in Request PROVE RowListed(job[v])'
  BY DEF RowsListed
<1>1. job'[v] = job[v] \/ (job'[v].pc = "idle" /\ job'[v].todo = {})
  BY EndedJobs
<1>2. CASE job'[v].pc = "idle" /\ job'[v].todo = {}
  BY <1>2 DEF RowListed, Applying
<1>3. CASE job'[v] = job[v]
  <2> DEFINE n == job[v]
             of == n.of
             old == template[of].edition
             new == template'[of].edition
             read == n.row.edition
  <2>1. n.todo \subseteq Stored'
    BY DEF RowsListed, RowListed
  <2>2. ASSUME n.pc \in Applying
        PROVE  /\ of \in Stored' /\ read <= new
               /\ read = new => n.row.items = template'[of].items
    <3>1. /\ of \in Stored /\ read <= old
          /\ read = old => n.row.items = template[of].items
      BY <2>2 DEF RowsListed, RowListed
    <3>2. old \in Nat /\ read \in Nat
      BY Rows, BoundsAssumption DEF IInv, TemplateRow
    <3>3. of \in Stored' /\ old <= new /\ (old < new \/ template'[of].items = template[of].items)
      BY <3>1
    <3>4. new \in Nat
      BY <3>1, BoundsAssumption DEF IInv, TypeOK, TemplateRow, Stored
    <3> HIDE DEF old, new, read
    <3>5. read <= new /\ (read = new => read = old /\ ~(old < new))
      BY <3>1, <3>2, <3>3, <3>4
    <3> QED BY <3>1, <3>3, <3>5
  <2> QED BY <1>3, <2>1, <2>2 DEF RowListed
<1> QED BY <1>1, <1>2, <1>3

LEMMA AuthorListed ==
  ASSUME IInv, IInv', RowsListed,
         \/ \E t \in Template, items \in Content, status \in {"draft", "active"} :
              CreatePlan(t, items, status)
         \/ \E w \in Request : AuthorStep(w)
  PROVE  RowsListed'
<1>e. \A t \in Template : template[t].edition \in Nat
  BY Rows, BoundsAssumption DEF IInv
<1>1. ASSUME NEW t \in Template, NEW items \in Content, NEW status \in {"draft", "active"},
             CreatePlan(t, items, status)
      PROVE  RowsListed'
  <2>1. \A u \in Stored : template'[u] = template[u]
    BY <1>1, Rows DEF IInv, CreatePlan, Stored
  <2>2. UNCHANGED job
    BY <1>1 DEF CreatePlan
  <2> QED BY <1>e, <2>1, <2>2, TemplatesListed DEF Ended, Stored
<1>2. ASSUME NEW w \in Request, NEW t \in Template,
             NEW items \in Content \cup {template[t].items}, CheckUpdate(w, t, items)
      PROVE  RowsListed'
  <2> DEFINE row == [template[t] EXCEPT !.items = items]
             n == [job[w] EXCEPT !.pc = "edit", !.of = t, !.row = row]
  <2>1. template[t] \in TemplateRow /\ job[w] \in Job /\ job \in [Request -> Job]
    BY DEF IInv, TypeOK
  <2>2. row \in TemplateRow
    BY <2>1, ContentAssumption DEF TemplateRow
  <2>3. job' = [job EXCEPT ![w] = n] /\ UNCHANGED template
    BY <1>2, <2>1 DEF CheckUpdate
  <2> HIDE DEF row
  <2>4. n \in Job /\ n.pc = "edit" /\ n.todo = job[w].todo
    BY <2>1, <2>2 DEF Job
  <2> HIDE DEF n
  <2>5. RowListed(n)
    BY <2>4 DEF RowsListed, RowListed, Applying
  <2> QED BY <2>3, <2>4, <2>5, JobListed
<1>3. ASSUME NEW w \in Request, NEW status \in {"draft", "active"}, EditDraft(w, status)
      PROVE  RowsListed'
  <2> DEFINE t == job[w].of
             row == [template[t] EXCEPT !.status = status, !.items = job[w].row.items,
                                        !.edition = @ + 1]
  <2>1. t \in Template /\ template[t] \in TemplateRow
    BY Rows DEF IInv, TypeOK
  <2>2. template' = [template EXCEPT ![t] = row] /\ Ended
    BY <1>3, <2>1, Rows DEF IInv, EditDraft, Ended
  <2>3. row.status = status /\ row.edition = template[t].edition + 1
    BY <2>1 DEF TemplateRow
  <2> HIDE DEF row
  <2>4. /\ template'[t] = row
        /\ \A u \in Template : u # t => template'[u] = template[u]
    BY <2>1, <2>2, Rows DEF IInv
  <2> HIDE DEF t
  <2>5. \A u \in Stored : u = t \/ template'[u] = template[u]
    BY <2>4 DEF Stored
  <2> QED BY <1>e, <2>1, <2>2, <2>3, <2>4, <2>5, TemplatesListed DEF Stored
<1>4. ASSUME NEW w \in Request, NEW n \in Template, MintVersion(w, n)
      PROVE  RowsListed'
  <2> DEFINE t == job[w].of
             row == [status |-> "active", lineage |-> template[t].lineage,
                     version |-> job[w].row.version + 1, items |-> job[w].row.items,
                     edition |-> 0]
             old == [template[t] EXCEPT !.status = "retired"]
  <2>1. t \in Template /\ template[t] \in TemplateRow /\ template \in [Template -> TemplateRow]
    BY Rows DEF IInv, TypeOK
  <2>2. /\ template' = [[template EXCEPT ![n] = row] EXCEPT ![t].status = "retired"]
        /\ template[n].status = "none" /\ Ended
    BY <1>4 DEF MintVersion, Minted, Ended
  <2>3. old.status = "retired" /\ old.items = template[t].items /\ old.edition = template[t].edition
    BY <2>1 DEF TemplateRow
  <2> HIDE DEF row
  <2>4. ASSUME NEW u \in Stored
        PROVE  template'[u] = template[u] \/ (u = t /\ template'[u] = old)
    <3>1. u \in Template /\ u # n
      BY <2>2 DEF Stored
    <3> QED BY <2>1, <2>2, <3>1
  <2> HIDE DEF old, t
  <2>5. ASSUME NEW u \in Stored
        PROVE  u \in Stored' /\ template'[u].items = template[u].items
               /\ template'[u].edition = template[u].edition
    BY <2>3, <2>4 DEF Stored
  <2>6. \A u \in Stored : template[u].edition <= template[u].edition
    BY <1>e DEF Stored
  <2>7. \A u \in Stored : /\ u \in Stored' /\ template[u].edition <= template'[u].edition
                          /\ template'[u].items = template[u].items
    BY <2>5, <2>6
  <2> QED BY <2>2, <2>7, TemplatesListed
<1> QED BY <1>1, <1>2, <1>3, <1>4 DEF AuthorStep

LEMMA ApplyListed ==
  ASSUME IInv, RowsListed, NEW w \in Request, ApplyStep(w)
  PROVE  RowsListed'
<1>j. job[w] \in Job /\ job \in [Request -> Job] /\ RowListed(job[w])
  BY DEF IInv, TypeOK, RowsListed
<1>i. IdleJob \in Job /\ RowListed(IdleJob)
  BY Idle DEF RowListed, Applying
<1>1. ASSUME NEW t \in Template, CheckApply(w, t)
      PROVE  RowsListed'
  <2> DEFINE left == job[w].todo \ {t}
             a == [job[w] EXCEPT !.pc = "begin", !.of = t, !.row = template[t]]
             b == [job[w] EXCEPT !.todo = left]
  <2>1. template[t] \in TemplateRow /\ template[t].edition \in Nat
    BY Rows, BoundsAssumption DEF IInv
  <2>2. UNCHANGED template /\ job[w].pc \in {"idle", "queue"} /\ t \in Stored
    BY <1>1, <1>j DEF CheckApply, ToApply, RowListed, Stored
  <2>3. \/ job' = [job EXCEPT ![w] = a]
        \/ job' = [job EXCEPT ![w] = IdleJob]
        \/ job' = [job EXCEPT ![w] = b]
    BY <1>1 DEF CheckApply
  <2>4. a \in Job /\ a.of = t /\ a.row = template[t] /\ a.todo = job[w].todo
    BY <1>j, <2>1 DEF Job
  <2>5. b \in Job /\ b.pc = job[w].pc /\ b.todo = left
    BY <1>j DEF Job
  <2> HIDE DEF a, b
  <2>6. RowListed(a) /\ RowListed(b)
    BY <1>j, <2>1, <2>2, <2>4, <2>5 DEF RowListed, Applying
  <2> QED BY <1>i, <2>2, <2>3, <2>4, <2>5, <2>6, JobListed
<1>2. CASE AutoApply(w)
  <2> DEFINE n == [job[w] EXCEPT !.pc = "queue", !.todo = Candidates]
  <2>1. Candidates \subseteq Stored
    BY DEF Candidates, Stored
  <2>2. job' = [job EXCEPT ![w] = n] /\ UNCHANGED template
    BY <1>2, <1>j DEF AutoApply
  <2>3. n \in Job /\ n.pc = "queue" /\ n.todo = Candidates
    BY <1>j, <2>1 DEF Job, Stored
  <2> HIDE DEF n
  <2>4. RowListed(n)
    BY <2>1, <2>3 DEF RowListed, Applying
  <2> QED BY <2>2, <2>3, <2>4, JobListed
<1>3. CASE ReadTasks(w)
  <2> PICK found \in [Lib -> Plan \cup {None}] :
        job' = [job EXCEPT ![w].pc = "lay", ![w].found = found]
    BY <1>3 DEF ReadTasks
  <2> DEFINE n == [job[w] EXCEPT !.pc = "lay", !.found = found]
  <2>1. job' = [job EXCEPT ![w] = n] /\ UNCHANGED template /\ job[w].pc = "begin"
    BY <1>3, <1>j DEF ReadTasks
  <2>2. /\ n \in Job /\ n.pc = "lay" /\ n.row = job[w].row
        /\ n.todo = job[w].todo /\ n.of = job[w].of
    BY <1>j DEF Job
  <2> HIDE DEF n
  <2>3. RowListed(n)
    BY <1>j, <2>1, <2>2 DEF RowListed, Applying
  <2> QED BY <2>1, <2>2, <2>3, JobListed
<1>4. CASE LayDown(w)
  <2>1. UNCHANGED template /\ NextApply(w)
    BY <1>4 DEF LayDown
  <2>2. job'[w] \in Job /\ job' = [job EXCEPT ![w] = job'[w]]
    BY <1>j, <2>1, NextApplyJob
  <2>3. RowListed(job'[w])
    BY <1>j, <2>1, NextApplyJob DEF RowListed, Applying
  <2> DEFINE n == job'[w]
  <2>4. n \in Job /\ job' = [job EXCEPT ![w] = n] /\ RowListed(n)
    BY <2>2, <2>3
  <2> HIDE DEF n
  <2> QED BY <2>1, <2>4, JobListed
<1> QED BY <1>1, <1>2, <1>3, <1>4 DEF ApplyStep

LEMMA ScoreListed ==
  ASSUME IInv, RowsListed, NEW w \in Request, ScoreStep(w) \/ FailRequest(w)
  PROVE  RowsListed'
<1>1. CASE ReadActivePlans(w)
  <2>1. PICK n \in Job : /\ job' = [job EXCEPT ![w] = n]
                         /\ n.pc = "score" /\ n.todo = job[w].todo
    BY <1>1, ReadActivePlansJob
  <2>2. UNCHANGED template /\ RowListed(n)
    BY <1>1, <2>1 DEF ReadActivePlans, RowsListed, RowListed, Applying
  <2> QED BY <2>1, <2>2, JobListed
<1>2. CASE CompletePlans(w) \/ FailRequest(w)
  BY <1>2, EndListed DEF CompletePlans, FailRequest, Ended
<1> QED BY <1>1, <1>2 DEF ScoreStep

LEMMA ListedNext == ASSUME IInv, RowsListed, [Next]_vars PROVE RowsListed'
<1>1. IInv'
  BY NextInv
<1>2. CASE \E t \in Template, items \in Content, status \in {"draft", "active"} :
             CreatePlan(t, items, status)
  BY <1>1, <1>2, AuthorListed
<1>3. CASE \E w \in Request : AuthorStep(w)
  BY <1>1, <1>3, AuthorListed
<1>4. CASE \E w \in Request : ApplyStep(w) \/ ScoreStep(w) \/ FailRequest(w)
  BY <1>4, ApplyListed, ScoreListed
<1>5. CASE \E p \in Plan : RemovePlan(p)
  BY <1>5, EndListed DEF RemovePlan, Ended
<1>6. CASE UNCHANGED vars
  BY <1>6, EndListed DEF vars, Ended
<1> QED BY <1>2, <1>3, <1>4, <1>5, <1>6 DEF Next

\* Only LayDown makes a plan of the engagement; the foreign key of its items has
\* told it that they are still the template's.
LEMMA ListedLaid ==
  ASSUME IInv, RowsListed, [Next]_vars
  PROVE  \A p \in Plan : plan[p].status = "none" /\ plan'[p].status # "none" =>
           plan'[p].items \subseteq template'[plan'[p].of].items
<1> SUFFICES ASSUME NEW p \in Plan, plan[p].status = "none", plan'[p].status # "none"
             PROVE  plan'[p].items \subseteq template'[plan'[p].of].items
  OBVIOUS
<1>1. CASE \E w \in Request : LayDown(w)
  <2>1. PICK w \in Request : LayDown(w)
    BY <1>1
  <2>2. /\ plan'[p] = Snapshot(w) /\ UNCHANGED template
        /\ job[w].row.items = {} \/ job[w].row.edition = template[job[w].of].edition
        /\ job[w].pc = "lay"
    BY <2>1, LayDownFacts DEF LayDown, ItemsThere
  <2>3. Snapshot(w).items = job[w].row.items /\ Snapshot(w).of = job[w].of
    BY DEF Snapshot
  <2>4. RowListed(job[w])
    BY DEF RowsListed
  <2> QED BY <2>2, <2>3, <2>4 DEF RowListed, Applying
<1>2. CASE \E w \in Request : CompletePlans(w)
  BY <1>2, CompletedRows
<1>3. CASE \E q \in Plan : RemovePlan(q)
  <2>1. PICK q \in Plan : RemovePlan(q)
    BY <1>3
  <2>2. plan' = [plan EXCEPT ![q] = [plan[q] EXCEPT !.status = "removed"]]
        /\ plan[q].status # "none"
    BY <2>1, Rows DEF IInv, RemovePlan, Live
  <2> QED BY <2>2, Rows DEF IInv
<1>4. CASE UNCHANGED plan
  BY <1>4
<1> QED
  BY <1>1, <1>2, <1>3, <1>4
  DEF Next, AuthorStep, ApplyStep, ScoreStep, vars, CreatePlan, CheckUpdate, EditDraft,
      MintVersion, CheckApply, AutoApply, ReadTasks, ReadActivePlans, FailRequest

LEMMA InitListed == Init => RowsListed
<1> SUFFICES ASSUME Init PROVE RowsListed
  OBVIOUS
<1>1. \A w \in Request : job[w] = IdleJob
  BY DEF Init
<1> QED BY <1>1, Idle DEF RowsListed, RowListed, Applying

\* What is laid down is what the plan lists when it is laid down, although its items
\* were read before the transaction, however many requests edit, activate, apply and
\* score meanwhile (applyPlan and updatePlan of server/plans.ts).
THEOREM LaidAsListed == Spec => AppliedAsListed
<1>1. IInv /\ RowsListed /\ [Next]_vars => RowsListed'
  BY ListedNext
<1>2. IInv /\ RowsListed /\ [Next]_vars =>
        [\A p \in Plan : plan[p].status = "none" /\ plan'[p].status # "none" =>
           plan'[p].items \subseteq template'[plan'[p].of].items]_vars
  BY ListedLaid
<1> QED BY <1>1, <1>2, InitListed, Invariance, PTL DEF Spec, AppliedAsListed

-----------------------------------------------------------------------------
\* What holds until two applications overlap.
LEMMA JobOnce ==
  ASSUME IInv, Once, NEW w \in Request, NEW n \in Job, job' = [job EXCEPT ![w] = n],
         UNCHANGED <<plan, task>>, RowCurrent(n)
  PROVE  Once'
<1>1. \A v \in Request : job'[v] = n \/ job'[v] = job[v]
  BY DEF IInv, TypeOK
<1>2. \A v \in Request : RowCurrent(job'[v])
  BY <1>1 DEF Once, RowsCurrent
<1>3. RowsCurrent'
  BY <1>2 DEF RowsCurrent, RowCurrent, OnRoadmap
<1> QED BY <1>3 DEF Once, OneTask, OneActive, OnRoadmap

\* A step that ends a request or none, and only takes plans out of use.
LEMMA PlansShrink ==
  ASSUME IInv, Once, Ended, UNCHANGED task,
         \A p \in Plan : /\ plan'[p].of = plan[p].of
                         /\ plan'[p].status = "active" => plan[p].status = "active"
  PROVE  Once'
<1>1. \A v \in Request : job'[v] = job[v] \/ (job'[v].pc = "idle" /\ job'[v].todo = {})
  BY EndedJobs
<1>2. RowsCurrent'
  <2>1. ASSUME NEW v \in Request PROVE RowCurrent(job[v])
    BY DEF Once, RowsCurrent
  <2> QED BY <1>1, <2>1 DEF RowsCurrent, RowCurrent, OnRoadmap, Applying
<1> QED BY <1>2 DEF Once, OneTask, OneActive, OnRoadmap

LEMMA CheckUpdateOnce ==
  ASSUME IInv, Once, NEW w \in Request, NEW t \in Template,
         NEW items \in Content \cup {template[t].items}, CheckUpdate(w, t, items)
  PROVE  Once'
<1> DEFINE row == [template[t] EXCEPT !.items = items]
           n == [job[w] EXCEPT !.pc = "edit", !.of = t, !.row = row]
<1>1. template[t] \in TemplateRow /\ job[w] \in Job /\ job \in [Request -> Job]
  BY DEF IInv, TypeOK
<1>2. row \in TemplateRow
  BY <1>1, ContentAssumption DEF TemplateRow
<1>3. job' = [job EXCEPT ![w] = n] /\ UNCHANGED <<plan, task>>
  BY <1>1 DEF CheckUpdate
<1> HIDE DEF row
<1>4. n \in Job /\ n.pc = "edit"
  BY <1>1, <1>2 DEF Job
<1> HIDE DEF n
<1>5. RowCurrent(n)
  BY <1>4 DEF RowCurrent, Applying
<1> QED BY <1>3, <1>4, <1>5, JobOnce

LEMMA CheckApplyOnce ==
  ASSUME IInv, Once, NEW w \in Request, NEW t \in Template, CheckApply(w, t)
  PROVE  Once'
<1> DEFINE already == \E p \in Plan : Live(p) /\ plan[p].of = t
           left == job[w].todo \ {t}
           a == [job[w] EXCEPT !.pc = "begin", !.of = t, !.row = template[t]]
           b == [job[w] EXCEPT !.todo = left]
<1>1. job[w] \in Job /\ template[t] \in TemplateRow /\ job \in [Request -> Job]
  BY DEF IInv, TypeOK
<1>2. UNCHANGED <<plan, task>> /\ job[w].pc \in {"idle", "queue"}
  BY DEF CheckApply, ToApply
<1>3. \/ ~already /\ job' = [job EXCEPT ![w] = a]
      \/ job' = [job EXCEPT ![w] = IdleJob]
      \/ job' = [job EXCEPT ![w] = b]
  BY DEF CheckApply
<1>4. a \in Job /\ a.pc = "begin" /\ a.of = t
  BY <1>1 DEF Job
<1>5. b \in Job /\ b.pc = job[w].pc
  BY <1>1 DEF Job
<1> HIDE DEF a, b
<1>6. IdleJob \in Job /\ RowCurrent(IdleJob) /\ RowCurrent(b)
  BY <1>2, <1>5, Idle DEF RowCurrent, Applying
<1>7. ~already => RowCurrent(a)
  BY <1>4 DEF RowCurrent, Live
<1> HIDE DEF already
<1> QED BY <1>2, <1>3, <1>4, <1>5, <1>6, <1>7, JobOnce

LEMMA AutoApplyOnce == ASSUME IInv, Once, NEW w \in Request, AutoApply(w) PROVE Once'
<1> DEFINE n == [job[w] EXCEPT !.pc = "queue", !.todo = Candidates]
<1>1. job[w] \in Job /\ job \in [Request -> Job] /\ Candidates \subseteq Template
  BY DEF IInv, TypeOK, Candidates
<1>2. job' = [job EXCEPT ![w] = n] /\ UNCHANGED <<plan, task>>
  BY <1>1 DEF AutoApply
<1>3. n \in Job /\ n.pc = "queue"
  BY <1>1 DEF Job
<1> HIDE DEF n
<1>4. RowCurrent(n)
  BY <1>3 DEF RowCurrent, Applying
<1> QED BY <1>2, <1>3, <1>4, JobOnce

LEMMA ReadTasksOnce == ASSUME IInv, Once, NEW w \in Request, ReadTasks(w) PROVE Once'
<1>1. PICK found \in [Lib -> Plan \cup {None}] :
        /\ \A l \in Lib : IF l \notin job[w].row.items \/ OnRoadmap(l) = {}
                          THEN found[l] = None ELSE found[l] \in OnRoadmap(l)
        /\ job' = [job EXCEPT ![w].pc = "lay", ![w].found = found]
  BY DEF ReadTasks
<1> DEFINE n == [job[w] EXCEPT !.pc = "lay", !.found = found]
<1>2. job[w] \in Job /\ job \in [Request -> Job] /\ job[w].pc = "begin"
  BY DEF IInv, TypeOK, ReadTasks
<1>3. job' = [job EXCEPT ![w] = n] /\ UNCHANGED <<plan, task>>
  BY <1>1, <1>2 DEF ReadTasks
<1>4. n \in Job /\ n.pc = "lay" /\ n.found = found /\ n.row = job[w].row /\ n.of = job[w].of
  BY <1>2 DEF Job
<1> HIDE DEF n
<1>5. \A l \in job[w].row.items : found[l] = None => OnRoadmap(l) = {}
  <2>1. job[w].row.items \subseteq Lib
    BY Rows DEF IInv, TemplateRow
  <2>2. None \notin Plan /\ \A l : OnRoadmap(l) \subseteq Plan
    BY BoundsAssumption DEF None, Plan, OnRoadmap
  <2> QED BY <1>1, <2>1, <2>2
<1>6. \A p \in Plan : ~(plan[p].status = "active" /\ plan[p].of = job[w].of)
  BY <1>2 DEF Once, RowsCurrent, RowCurrent, Applying
<1>7. RowCurrent(n)
  BY <1>4, <1>5, <1>6 DEF RowCurrent
<1> QED BY <1>3, <1>4, <1>7, JobOnce

\* No other application has read what this one is about to change.
LEMMA LayDownOnce == ASSUME IInv, Once, AppliesApart, NEW w \in Request, LayDown(w) PROVE Once'
<1> DEFINE p == NewPlan
<1>1. /\ p \in Plan /\ plan[p].status = "none" /\ None \notin Plan
      /\ plan'[p] = Snapshot(w) /\ \A q \in Plan : q # p => plan'[q] = plan[q]
      /\ \A x \in Task : task'[x] = IF \/ x \in Created(w, p)
                                       \/ x \in Claimed(w) /\ plan[task[x]].status = "removed"
                                    THEN p ELSE task[x]
      /\ \A l \in Lib : task[<<p, l>>] = None
  BY LayDownFacts
<1>2. Snapshot(w).status = "active" /\ Snapshot(w).of = job[w].of
  BY DEF Snapshot
<1>3. job[w].pc = "lay" /\ NextApply(w)
  BY DEF LayDown
<1> HIDE DEF p
<1>4. \A v \in Request : job'[v].pc \notin Applying
  <2>1. \A v \in Request : v # w => job'[v] = job[v] /\ job[v].pc \notin Applying
    BY <1>3, NextApplyJob DEF AppliesApart, Applying
  <2> QED BY <1>3, <2>1, NextApplyJob DEF Applying
<1>5. /\ \A q \in Plan : ~(plan[q].status = "active" /\ plan[q].of = job[w].of)
      /\ \A l \in job[w].row.items : job[w].found[l] = None => OnRoadmap(l) = {}
  BY <1>3 DEF Once, RowsCurrent, RowCurrent, Applying
<1>6. RowsCurrent'
  BY <1>4 DEF RowsCurrent, RowCurrent, Applying
<1>7. OneTask'
  <2>1. ASSUME NEW l \in Lib, NEW q \in Plan, task'[<<q, l>>] # None
        PROVE  task[<<q, l>>] # None \/ (q = p /\ OnRoadmap(l) = {})
    <3>1. <<q, l>> \in Task
      BY DEF Task
    <3>2. CASE <<q, l>> \in Created(w, p)
      <4>1. q = p /\ l \in job[w].row.items /\ job[w].found[l] = None
        BY <3>2 DEF Created
      <4> QED BY <1>5, <4>1
    <3>3. CASE <<q, l>> \in Claimed(w)
      BY <1>3, <3>3 DEF Claimed, IInv, Remembered
    <3>4. CASE <<q, l>> \notin Created(w, p) /\ <<q, l>> \notin Claimed(w)
      BY <1>1, <2>1, <3>1, <3>4
    <3> QED BY <3>2, <3>3, <3>4
  <2>2. ASSUME NEW l \in Lib, NEW q \in Plan, NEW r \in Plan, task'[<<q, l>>] # None,
               task'[<<r, l>>] # None
        PROVE  q = r
    BY <2>1, <2>2 DEF Once, OneTask, OnRoadmap
  <2> QED BY <2>2 DEF OneTask, OnRoadmap
<1>8. OneActive'
  BY <1>1, <1>2, <1>5 DEF Once, OneActive
<1> QED BY <1>6, <1>7, <1>8 DEF Once

LEMMA ScoreOnce ==
  ASSUME IInv, Once, NEW w \in Request, ScoreStep(w) \/ FailRequest(w)
  PROVE  Once'
<1>1. CASE ReadActivePlans(w)
  <2>1. PICK n \in Job : job' = [job EXCEPT ![w] = n] /\ n.pc = "score"
    BY <1>1, ReadActivePlansJob
  <2>2. UNCHANGED <<plan, task>> /\ RowCurrent(n)
    BY <1>1, <2>1 DEF ReadActivePlans, RowCurrent, Applying
  <2> QED BY <2>1, <2>2, JobOnce
<1>2. CASE CompletePlans(w)
  <2>1. Ended /\ UNCHANGED task
    BY <1>2 DEF CompletePlans, Ended
  <2>2. \A p \in Plan : /\ plan'[p].of = plan[p].of
                        /\ plan'[p].status = "active" => plan[p].status = "active"
    BY <1>2, CompletedRows
  <2> QED BY <2>1, <2>2, PlansShrink
<1>3. CASE FailRequest(w)
  BY <1>3, PlansShrink DEF FailRequest, Ended
<1> QED BY <1>1, <1>2, <1>3 DEF ScoreStep

LEMMA RemovePlanOnce == ASSUME IInv, Once, NEW p \in Plan, RemovePlan(p) PROVE Once'
<1> DEFINE gone == [plan[p] EXCEPT !.status = "removed"]
<1>1. gone.status = "removed" /\ gone.of = plan[p].of
  BY Rows DEF IInv, PlanRow
<1>2. plan' = [plan EXCEPT ![p] = gone] /\ Ended /\ UNCHANGED task
  BY Rows DEF IInv, RemovePlan, Ended
<1> HIDE DEF gone
<1>3. plan'[p] = gone /\ \A q \in Plan : q # p => plan'[q] = plan[q]
  BY <1>2, Rows DEF IInv
<1> QED BY <1>1, <1>2, <1>3, PlansShrink

LEMMA OnceNext == ASSUME IInv, Once, AppliesApart, [Next]_vars PROVE Once'
<1>1. ASSUME NEW t \in Template, NEW items \in Content, NEW status \in {"draft", "active"},
             CreatePlan(t, items, status)
      PROVE  Once'
  BY <1>1, PlansShrink DEF CreatePlan, Ended
<1>2. ASSUME NEW w \in Request, AuthorStep(w) PROVE Once'
  <2>1. ASSUME NEW status \in {"draft", "active"}, EditDraft(w, status) PROVE Once'
    BY <2>1, PlansShrink DEF EditDraft, Ended
  <2>2. ASSUME NEW n \in Template, MintVersion(w, n) PROVE Once'
    BY <2>2, PlansShrink DEF MintVersion, Ended
  <2> QED BY <1>2, <2>1, <2>2, CheckUpdateOnce DEF AuthorStep
<1>3. ASSUME NEW w \in Request, ApplyStep(w) PROVE Once'
  BY <1>3, CheckApplyOnce, AutoApplyOnce, ReadTasksOnce, LayDownOnce DEF ApplyStep
<1>4. ASSUME NEW w \in Request, ScoreStep(w) \/ FailRequest(w) PROVE Once'
  BY <1>4, ScoreOnce
<1>5. CASE \E p \in Plan : RemovePlan(p)
  BY <1>5, RemovePlanOnce
<1>6. CASE UNCHANGED vars
  BY <1>6, PlansShrink DEF vars, Ended
<1> QED BY <1>1, <1>2, <1>3, <1>4, <1>5, <1>6 DEF Next

LEMMA InitOnce == Init => Once /\ AppliesApart
<1> SUFFICES ASSUME Init PROVE Once /\ AppliesApart
  OBVIOUS
<1>1. \A w \in Request : job[w] = IdleJob
  BY DEF Init
<1>2. RowsCurrent /\ AppliesApart
  BY <1>1, Idle DEF RowsCurrent, RowCurrent, Applying, AppliesApart
<1>3. \A p \in Plan : plan[p].status = "none"
  BY DEF Init
<1>4. OneActive
  BY <1>3 DEF OneActive
<1>5. OneTask
  BY DEF Init, OneTask, OnRoadmap, Task
<1> QED BY <1>2, <1>4, <1>5 DEF Once

LEMMA OnceIsOnce == Once => OncePerEngagement
<1> SUFFICES ASSUME Once PROVE OncePerEngagement
  OBVIOUS
<1>1. ASSUME NEW l \in Lib PROVE Cardinality(OnRoadmap(l)) <= 1
  <2>1. CASE OnRoadmap(l) = {}
    BY <2>1, FS_EmptySet
  <2>2. CASE OnRoadmap(l) # {}
    <3>1. PICK p \in OnRoadmap(l) : TRUE
      BY <2>2
    <3>2. OnRoadmap(l) = {p}
      BY <3>1 DEF Once, OneTask
    <3>3. Cardinality({p}) = 1
      BY FS_Singleton, Zenon
    <3> QED BY <3>2, <3>3
  <2> QED BY <2>1, <2>2
<1> QED BY <1>1 DEF Once, OneActive, OncePerEngagement

\* Until two applications meet between check and commit, a version has one active
\* snapshot and a library task one task on the engagement, whatever edits, scorings,
\* removals and failures overlap with the applications (applyPlan of server/plans.ts).
THEOREM AppliedOnce == HistorySpec => []OnceWhileApart
<1> DEFINE K == apart => AppliesApart /\ Once
<1>1. HistoryInit => Init /\ K
  BY InitOnce DEF HistoryInit
<1>2. [HistoryNext]_<<vars, apart>> => [Next]_vars
  BY DEF HistoryNext
<1>3. HistorySpec => Spec
  BY <1>1, <1>2, PTL DEF HistorySpec, Spec
<1>4. IInv /\ K /\ [Next]_vars /\ [HistoryNext]_<<vars, apart>> => K'
  <2> SUFFICES ASSUME IInv, K, [Next]_vars, [HistoryNext]_<<vars, apart>>, apart'
               PROVE  AppliesApart' /\ Once'
    OBVIOUS
  <2>1. apart
    BY DEF HistoryNext
  <2>2. AppliesApart'
    BY <2>1 DEF HistoryNext, AppliesApart, vars
  <2> QED BY <2>1, <2>2, OnceNext
<1>5. K => OnceWhileApart
  BY OnceIsOnce DEF OnceWhileApart
<1> HIDE DEF K
<1> QED BY <1>1, <1>2, <1>3, <1>4, <1>5, Invariance, PTL DEF HistorySpec
=============================================================================
