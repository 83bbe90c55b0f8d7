---------------------- MODULE VerificationPipelineProofs ----------------------
(***************************************************************************)
(* Proofs about VerificationPipeline for every set of runs, fields and     *)
(* reviewers, however many runs overlap; LatestShows for one at a time.    *)
(***************************************************************************)
EXTENDS VerificationPipeline, FiniteSetTheorems, TLAPS

\* A run that has reconciled: only it wrote values and queued items for fields.
Reconciling(r) == job[r].pc \in {"findings", "done", "failed"}

\* A flagged value that nobody decided on is queued, by the run that wrote it.
FlaggedQueued ==
  \A k \in Field : \A r \in Run :
    value[k].by = r /\ value[k].flagged /\ value[k].human = NoRun => item[<<r, k>>] \in Open

\* Values and items of fields come from runs that have reconciled.
RowsReconciled ==
  \A k \in Field : \A r \in Run :
    value[k].by = r \/ item[<<r, k>>] # "none" => Reconciling(r)

\* A request of a reviewer is about an item that was there; a late decision about the
\* value that is there now saw that value.
ReviewOK(v) ==
  LET i == review[v].item IN
  review[v].pc # "idle" =>
    /\ i \in Item
    /\ i[2] \in Field => Reconciling(i[1])
    /\ review[v].pc = "write" /\ i[2] \in Field /\ value[i[2]].by = i[1]
         => review[v].seen = i[1]

IInv ==
  /\ TypeOK /\ FlaggedQueued /\ RowsReconciled /\ FindingsQueued
  /\ \A v \in Reviewer : ReviewOK(v)

\* With one run at a time: what the run in flight has put in place so far.
RunShows(r) ==
  /\ job[r].pc \in {"graph", "reconcile", "findings"} => facts = {r}
  /\ job[r].pc \in {"reconcile", "findings"} => graph = r
  /\ job[r].pc = "findings" =>
       \A k \in Field : /\ value[k].by = IF job[r].parsed[k] = "none" THEN NoRun ELSE r
                        /\ value[k].flagged = (job[r].parsed[k] = "flagged")

OneInFlight == InFlight = {} \/ \E r \in Run : InFlight = {r}

ShowInv ==
  /\ IInv /\ OneInFlight /\ LatestShows
  /\ \A r \in Run : RunShows(r)

-----------------------------------------------------------------------------
LEMMA InitInv == Init => IInv
<1> SUFFICES ASSUME Init PROVE IInv
  OBVIOUS
<1>1. /\ [k \in Field |-> NoRow] \in [Field -> Row]
      /\ IdleReview \in Review
  BY DEF NoRow, Row, IdleReview, Review
<1>2. [r \in Run |-> [pc |-> "new", parsed |-> [k \in Field |-> "none"], matches |-> FALSE]]
        \in [Run -> Job]
  BY DEF Job, Steps
<1>3. TypeOK
  BY <1>1, <1>2 DEF Init, TypeOK
<1>4. FlaggedQueued /\ RowsReconciled
  BY NamesAssumption DEF Init, FlaggedQueued, RowsReconciled, NoRow, Item, Subject
<1>5. FindingsQueued /\ \A v \in Reviewer : ReviewOK(v)
  BY DEF Init, FindingsQueued, ReviewOK, IdleReview
<1> QED BY <1>3, <1>4, <1>5 DEF IInv

\* The types, one action at a time.
LEMMA RunTypes ==
  ASSUME TypeOK, NEW r \in Run, RunStep(r)
  PROVE  TypeOK'
<1> USE DEF TypeOK, rows
<1>g. ASSUME NEW step \in Steps \cup {"done", "failed"}, GoTo(r, step)
      PROVE  job' \in [Run -> Job]
  BY <1>g DEF GoTo, Job
<1>1. CASE StartRun(r)
  BY <1>1, <1>g DEF StartRun, Steps
<1>2. CASE Parse(r)
  BY <1>2 DEF Parse, Job, Steps
<1>3. CASE Extract(r)
  BY <1>3, <1>g DEF Extract, Steps
<1>4. CASE PopulateGraph(r)
  BY <1>4, <1>g DEF PopulateGraph, Steps
<1>5. CASE Reconcile(r)
  <2>1. Reconciled(r) \in [Field -> Row]
    BY DEF Reconciled, Row, NoRow, Flags, Reported
  <2> DEFINE queued == [i \in Item |-> IF i[1] = r /\ i[2] \in Field /\ Flags(r, i[2]) THEN "pending"
                               ELSE IF item[i] = "pending" /\ i[2] \in Field THEN "none" ELSE item[i]]
  <2>2. queued \in [Item -> {"none", "resolved"} \cup Open]
    BY DEF Open
  <2>3. item' = queued
    BY <1>5 DEF Reconcile
  <2> HIDE DEF queued
  <2> QED BY <1>5, <1>g, <2>1, <2>2, <2>3 DEF Reconcile, Steps
<1>6. CASE RunFindings(r)
  <2> DEFINE match == graph # NoRun /\ job[graph].matches
             queued == [i \in Item |-> IF i[2] # "finding" THEN item[i]
                               ELSE IF i[1] = r /\ match THEN "pending"
                               ELSE IF item[i] = "pending" THEN "none" ELSE item[i]]
  <2>1. queued \in [Item -> {"none", "resolved"} \cup Open]
    BY DEF Open
  <2>2. item' = queued
    BY <1>6 DEF RunFindings
  <2>3. finding' \in [Run -> {"none", "pending", "approved", "rejected"}]
    BY <1>6 DEF RunFindings
  <2> HIDE DEF queued
  <2> QED BY <1>6, <1>g, <2>1, <2>2, <2>3 DEF RunFindings
<1>7. CASE FailRun(r)
  BY <1>7, <1>g DEF FailRun
<1> QED BY <1>1, <1>2, <1>3, <1>4, <1>5, <1>6, <1>7 DEF RunStep

LEMMA SetItemTypes ==
  ASSUME TypeOK, NEW i \in Item, NEW s \in {"resolved"} \cup Open, SetItem(i, s)
  PROVE  item' \in [Item -> {"none", "resolved"} \cup Open]
BY DEF TypeOK, SetItem

LEMMA ReviewTypes ==
  ASSUME IInv, NEW v \in Reviewer, ReviewStep(v)
  PROVE  TypeOK'
<1>t. TypeOK /\ ReviewOK(v)
  BY DEF IInv
<1>i. review[v].pc # "idle" => review[v].item \in Item
  BY <1>t DEF ReviewOK
<1>d. IdleReview \in Review
  BY DEF IdleReview, Review
<1>1. ASSUME NEW i \in Item, NEW what \in {"claim", "resolve", "escalate"}, LoadItem(v, i, what)
      PROVE  TypeOK'
  BY <1>1, <1>t DEF LoadItem, ReviewOnly, TypeOK, Review
<1>2. CASE ClaimItem(v)
  BY <1>2, <1>t, <1>i, <1>d, SetItemTypes DEF ClaimItem, ReviewOnly, TypeOK, Open
<1>3. CASE EscalateItem(v)
  BY <1>3, <1>t, <1>i, <1>d, SetItemTypes DEF EscalateItem, ReviewOnly, TypeOK, Open
<1>4. CASE SeeValue(v)
  <2>1. review[v] \in Review /\ review[v].item \in Item
    BY <1>4, <1>t, <1>i DEF TypeOK, SeeValue
  <2>2. review[v].item[2] # "finding" => value[review[v].item[2]] \in Row
    BY <2>1, <1>t DEF TypeOK, Item, Subject
  <2>3. review' \in [Reviewer -> Review]
    BY <2>1, <2>2, <1>4, <1>t DEF SeeValue, TypeOK, Review, Row
  <2> QED BY <2>3, <1>4, <1>t DEF SeeValue, ReviewOnly, TypeOK
<1>5. CASE ResolveItem(v)
  <2>1. review[v].item \in Item
    BY <1>5, <1>i DEF ResolveItem
  <2>2. item' \in [Item -> {"none", "resolved"} \cup Open]
    BY <2>1, <1>5, <1>t, SetItemTypes DEF ResolveItem
  <2>3. value' \in [Field -> Row]
    BY <2>1, <1>5, <1>t DEF ResolveItem, TypeOK, Item, Row
  <2>4. finding' \in [Run -> {"none", "pending", "approved", "rejected"}]
    BY <2>1, <1>5, <1>t DEF ResolveItem, TypeOK
  <2> QED BY <2>2, <2>3, <2>4, <1>5, <1>t, <1>d DEF ResolveItem, ReviewOnly, TypeOK
<1>6. CASE FailReview(v)
  BY <1>6, <1>t, <1>d DEF FailReview, ReviewOnly, TypeOK
<1> QED BY <1>1, <1>2, <1>3, <1>4, <1>5, <1>6 DEF ReviewStep

-----------------------------------------------------------------------------
\* A run that changes neither values nor items of fields, whoever its facts and graph
\* are of, and that is past reconciling only if it was before.
LEMMA KeepsRows ==
  ASSUME IInv, NEW r \in Run, RunStep(r), UNCHANGED <<value, finding, item, review>>,
         \A q \in Run : Reconciling(q) => Reconciling(q)'
  PROVE  IInv'
<1>1. TypeOK'
  BY RunTypes DEF IInv
<1>2. FlaggedQueued' /\ RowsReconciled' /\ FindingsQueued'
  BY DEF IInv, FlaggedQueued, RowsReconciled, FindingsQueued
<1>3. \A v \in Reviewer : ReviewOK(v)'
  BY NamesAssumption DEF IInv, ReviewOK, Item
<1> QED BY <1>1, <1>2, <1>3 DEF IInv

LEMMA RunInv ==
  ASSUME IInv, NEW r \in Run, RunStep(r)
  PROVE  IInv'
<1>t. TypeOK /\ TypeOK'
  BY RunTypes DEF IInv
<1>p. ASSUME NEW step, GoTo(r, step), ~Reconciling(r) \/ step \in {"done", "failed"}
      PROVE  \A q \in Run : Reconciling(q) => Reconciling(q)'
  BY <1>p, <1>t DEF GoTo, TypeOK, Reconciling
<1>1. CASE StartRun(r)
  BY <1>1, <1>p, KeepsRows DEF StartRun, Reconciling, rows
<1>2. CASE Parse(r)
  <2>1. \A q \in Run : Reconciling(q) => Reconciling(q)'
    BY <1>2, <1>t DEF Parse, Reconciling, TypeOK
  <2> QED BY <1>2, <2>1, KeepsRows DEF Parse, rows
<1>3. CASE Extract(r)
  BY <1>3, <1>p, KeepsRows DEF Extract, Reconciling
<1>4. CASE PopulateGraph(r)
  BY <1>4, <1>p, KeepsRows DEF PopulateGraph, Reconciling
<1>5. CASE Reconcile(r)
  <2>1. \A q \in Run : Reconciling(q)' <=> Reconciling(q) \/ q = r
    BY <1>5, <1>t DEF Reconcile, GoTo, Reconciling, TypeOK
  <2>2. ~Reconciling(r)
    BY <1>5 DEF Reconcile, Reconciling
  <2>3. \A k \in Field : value'[k] = IF Reported(r, k)
                                     THEN [by |-> r, flagged |-> Flags(r, k), human |-> NoRun]
                                     ELSE NoRow
    BY <1>5 DEF Reconcile, Reconciled
  <2>b. \A k \in Field : /\ value'[k].by = IF Reported(r, k) THEN r ELSE NoRun
                         /\ value'[k].flagged => Flags(r, k)
    <3> TAKE k \in Field
    <3> DEFINE row == [by |-> r, flagged |-> Flags(r, k), human |-> NoRun]
    <3>1. row.by = r /\ row.flagged = Flags(r, k)
      OBVIOUS
    <3>2. NoRow.by = NoRun /\ NoRow.flagged = FALSE
      BY DEF NoRow
    <3>3. value'[k] = IF Reported(r, k) THEN row ELSE NoRow
      BY <2>3
    <3> HIDE DEF row
    <3> QED BY <3>1, <3>2, <3>3
  <2>4. \A k \in Field, q \in Run : <<q, k>> \in Item
    BY DEF Item, Subject
  <2>5. \A k \in Field, q \in Run :
          item'[<<q, k>>] = IF q = r /\ Flags(r, k) THEN "pending"
                            ELSE IF item[<<q, k>>] = "pending" THEN "none" ELSE item[<<q, k>>]
    BY <1>5, <2>4 DEF Reconcile
  <2>6. \A q \in Run : item'[<<q, "finding">>] = item[<<q, "finding">>]
    BY <1>5, NamesAssumption DEF Reconcile, Item, Subject
  <2>7. FlaggedQueued'
    BY <2>b, <2>5, NamesAssumption DEF FlaggedQueued, Open
  <2>8. RowsReconciled'
    BY <2>1, <2>b, <2>5, NamesAssumption DEF IInv, RowsReconciled
  <2>9. FindingsQueued'
    BY <1>5, <2>6 DEF IInv, FindingsQueued, Reconcile
  <2>10. ASSUME NEW v \in Reviewer PROVE ReviewOK(v)'
    <3>1. review' = review
      BY <1>5 DEF Reconcile
    <3>2. CASE review[v].pc = "idle"
      BY <3>1, <3>2 DEF ReviewOK
    <3>3. CASE review[v].pc # "idle"
      <4> DEFINE i == review[v].item
      <4>1. i \in Item /\ (i[2] \in Field => Reconciling(i[1])) /\ i[1] \in Run
        BY <3>3 DEF IInv, ReviewOK, Item
      <4>2. i[2] \in Field => value'[i[2]].by # i[1]
        BY <4>1, <2>2, <2>b, NamesAssumption
      <4> QED BY <3>1, <4>1, <4>2, <2>1 DEF ReviewOK
    <3> QED BY <3>2, <3>3
  <2> QED BY <1>t, <2>7, <2>8, <2>9, <2>10 DEF IInv
<1>6. CASE RunFindings(r)
  <2>1. GoTo(r, "done") /\ UNCHANGED <<value, review>>
    BY <1>6 DEF RunFindings
  <2>2. \A q \in Run : Reconciling(q) => Reconciling(q)'
    BY <2>1, <1>p
  <2>3. \A k \in Field, q \in Run : item'[<<q, k>>] = item[<<q, k>>]
    BY <1>6, NamesAssumption DEF RunFindings, Item, Subject
  <2>4. FlaggedQueued' /\ RowsReconciled'
    BY <2>1, <2>2, <2>3 DEF IInv, FlaggedQueued, RowsReconciled
  <2>5. FindingsQueued'
    BY <1>6 DEF RunFindings, FindingsQueued, Item, Subject, Open
  <2>6. \A v \in Reviewer : ReviewOK(v)'
    BY <2>1, <2>2 DEF IInv, ReviewOK, Item
  <2> QED BY <1>t, <2>4, <2>5, <2>6 DEF IInv
<1>7. CASE FailRun(r)
  BY <1>7, <1>p, KeepsRows DEF FailRun, rows
<1> QED BY <1>1, <1>2, <1>3, <1>4, <1>5, <1>6, <1>7 DEF RunStep

-----------------------------------------------------------------------------
\* A request of a reviewer that ends or goes on, with values and findings as they
\* were and no item leaving the queue.
LEMMA KeepsQueue ==
  ASSUME IInv, NEW v \in Reviewer, ReviewStep(v), UNCHANGED <<job, value, finding>>,
         \A i \in Item : /\ item[i] \in Open => item'[i] \in Open
                         /\ item'[i] # "none" => item[i] # "none",
         ReviewOK(v)', \A u \in Reviewer : u # v => review'[u] = review[u]
  PROVE  IInv'
<1>1. TypeOK'
  BY ReviewTypes
<1>2. \A k \in Subject, q \in Run : <<q, k>> \in Item
  BY DEF Item
<1>3. \A q \in Run : Reconciling(q)' = Reconciling(q)
  BY DEF Reconciling
<1>4. FlaggedQueued' /\ RowsReconciled'
  BY <1>2, <1>3 DEF IInv, FlaggedQueued, RowsReconciled, Subject
<1>5. FindingsQueued'
  BY <1>2 DEF IInv, FindingsQueued, Subject
<1>6. \A u \in Reviewer : ReviewOK(u)'
  BY DEF IInv, ReviewOK, Item, Reconciling
<1> QED BY <1>1, <1>4, <1>5, <1>6 DEF IInv

LEMMA ReviewInv ==
  ASSUME IInv, NEW v \in Reviewer, ReviewStep(v)
  PROVE  IInv'
<1>t. TypeOK /\ TypeOK' /\ ReviewOK(v)
  BY ReviewTypes DEF IInv
<1>i. /\ review[v].pc # "idle" => review[v].item \in Item
      /\ review \in [Reviewer -> Review]
  BY <1>t DEF ReviewOK, TypeOK
<1>e. ASSUME review' = [review EXCEPT ![v] = IdleReview]
      PROVE  ReviewOK(v)' /\ \A u \in Reviewer : u # v => review'[u] = review[u]
  BY <1>e, <1>i DEF ReviewOK, IdleReview
<1>1. ASSUME NEW i \in Item, NEW what \in {"claim", "resolve", "escalate"}, LoadItem(v, i, what)
      PROVE  IInv'
  <2>1. review'[v] = [pc |-> what, item |-> i, seen |-> NoRun] /\ item[i] \in Open
    BY <1>1, <1>i DEF LoadItem
  <2>2. i[2] \in Field => Reconciling(i[1])
    BY <2>1 DEF IInv, RowsReconciled, Item, Open
  <2>3. ReviewOK(v)'
    BY <1>1, <2>1, <2>2 DEF ReviewOK, Reconciling, LoadItem, ReviewOnly
  <2> QED BY <1>1, <1>i, <2>3, KeepsQueue DEF LoadItem, ReviewOnly
<1>2. CASE ClaimItem(v)
  BY <1>2, <1>t, <1>i, <1>e, KeepsQueue DEF ClaimItem, ReviewOnly, SetItem, TypeOK, Open
<1>3. CASE EscalateItem(v)
  BY <1>3, <1>t, <1>i, <1>e, KeepsQueue DEF EscalateItem, ReviewOnly, SetItem, TypeOK, Open
<1>4. CASE SeeValue(v)
  <2> DEFINE i == review[v].item
  <2>1. /\ review'[v].item = i /\ review'[v].pc = "write"
        /\ i[2] # "finding" => review'[v].seen = value[i[2]].by
        /\ \A u \in Reviewer : u # v => review'[u] = review[u]
    BY <1>4, <1>i DEF SeeValue, Review
  <2>2. i \in Item /\ (i[2] \in Field => Reconciling(i[1]))
    BY <1>4, <1>t DEF SeeValue, ReviewOK
  <2>3. ReviewOK(v)'
    BY <1>4, <2>1, <2>2, NamesAssumption DEF ReviewOK, Reconciling, SeeValue, ReviewOnly
  <2> QED BY <1>4, <2>1, <2>3, KeepsQueue DEF SeeValue, ReviewOnly
<1>5. CASE ResolveItem(v)
  <2> DEFINE i == review[v].item
             r == i[1]
  <2>1. /\ i \in Item /\ r \in Run /\ review[v].pc = "write"
        /\ i[2] \in Field => Reconciling(r)
        /\ i[2] \in Field /\ value[i[2]].by = r => review[v].seen = r
    BY <1>5, <1>t DEF ResolveItem, ReviewOK, Item
  <2>2. /\ ReviewOK(v)' /\ UNCHANGED job
        /\ \A u \in Reviewer : u # v => review'[u] = review[u]
    BY <1>5, <1>e DEF ResolveItem, ReviewOnly
  <2>3. \A j \in Item : item'[j] = IF j = i /\ item[j] # "none" THEN "resolved" ELSE item[j]
    BY <1>5, <1>t DEF ResolveItem, SetItem, TypeOK
  <2>4. \A k \in Field :
          /\ value'[k].by = value[k].by /\ value'[k].flagged = value[k].flagged
          /\ value'[k].human = NoRun => value[k].human = NoRun
          /\ k = i[2] /\ value[k].by = r => value'[k].human = r
    <3>1. value \in [Field -> Row]
      BY <1>t DEF TypeOK
    <3>2. CASE value' = value /\ i[2] \notin Field
      BY <3>2
    <3>3. CASE i[2] \in Field
      <4>1. CASE value[i[2]].by # review[v].seen \/ value[i[2]].by = NoRun
        <5>1. value' = value
          BY <1>5, <3>3, <4>1, NamesAssumption DEF ResolveItem
        <5> QED BY <5>1, <4>1, <2>1, NamesAssumption
      <4>2. CASE value[i[2]].by = review[v].seen /\ value[i[2]].by # NoRun
        <5>1. value' = [value EXCEPT ![i[2]].human = r]
          BY <1>5, <3>3, <4>2, NamesAssumption DEF ResolveItem
        <5>2. value'[i[2]] = [value[i[2]] EXCEPT !.human = r] /\ value[i[2]] \in Row
          BY <5>1, <3>1, <3>3
        <5>3. \A k \in Field : k # i[2] => value'[k] = value[k]
          BY <5>1, <3>1
        <5> QED BY <5>2, <5>3, <2>1, NamesAssumption DEF Row
      <4> QED BY <4>1, <4>2
    <3> QED BY <1>5, <3>2, <3>3 DEF ResolveItem
  <2>5. \A k \in Subject, q \in Run : <<q, k>> \in Item
    BY DEF Item
  <2>6. FlaggedQueued'
    <3> SUFFICES ASSUME NEW k \in Field, NEW q \in Run,
                        value'[k].by = q, value'[k].flagged, value'[k].human = NoRun
                 PROVE  item'[<<q, k>>] \in Open
      BY DEF FlaggedQueued
    <3>1. item[<<q, k>>] \in Open
      BY <2>4 DEF IInv, FlaggedQueued
    <3>2. <<q, k>> # i
      BY <2>1, <2>4, NamesAssumption
    <3> QED BY <2>3, <2>5, <3>1, <3>2 DEF Subject
  <2>7. RowsReconciled'
    BY <2>2, <2>3, <2>4, <2>5 DEF IInv, RowsReconciled, Subject, Reconciling
  <2>8. FindingsQueued'
    <3> SUFFICES ASSUME NEW q \in Run, finding'[q] = "pending"
                 PROVE  item'[<<q, "finding">>] \in Open
      BY DEF FindingsQueued
    <3>1. finding[q] = "pending" /\ <<q, "finding">> # i
      BY <1>5, <1>t, <2>1, NamesAssumption DEF ResolveItem, TypeOK
    <3>2. item[<<q, "finding">>] \in Open
      BY <3>1 DEF IInv, FindingsQueued
    <3> QED BY <2>3, <2>5, <3>1, <3>2 DEF Subject
  <2>9. \A u \in Reviewer : ReviewOK(u)'
    <3> SUFFICES ASSUME NEW u \in Reviewer, u # v PROVE ReviewOK(u)'
      BY <2>2
    <3>1. review'[u] = review[u] /\ ReviewOK(u)
      BY <2>2 DEF IInv
    <3> QED BY <3>1, <2>2, <2>4 DEF ReviewOK, Reconciling
  <2> QED BY <1>t, <2>6, <2>7, <2>8, <2>9 DEF IInv
<1>6. CASE FailReview(v)
  BY <1>6, <1>e, KeepsQueue DEF FailReview, ReviewOnly
<1> QED BY <1>1, <1>2, <1>3, <1>4, <1>5, <1>6 DEF ReviewStep

LEMMA NextInv == IInv /\ [Next]_vars => IInv'
<1>1. CASE UNCHANGED vars
  BY <1>1 DEF vars, rows, IInv, TypeOK, FlaggedQueued, RowsReconciled, FindingsQueued, ReviewOK,
              Reconciling
<1> QED BY <1>1, RunInv, ReviewInv DEF Next

THEOREM Invariance == Spec => []IInv
<1> QED BY InitInv, NextInv, PTL DEF Spec

\* What the automation ratio counts as resolved by the pipeline was resolved with
\* confidence, however runs and late decisions overlap (engagementMetrics).
THEOREM Confident == Spec => []AutoIsConfident
<1>1. IInv => AutoIsConfident
  BY DEF IInv, FlaggedQueued, AutoIsConfident, AutoResolved, TypeOK, Row
<1> QED BY <1>1, Invariance, PTL

\* Every undecided finding is in the advisor's queue (findings/run.ts).
THEOREM Queued == Spec => []FindingsQueued
<1>1. IInv => FindingsQueued
  BY DEF IInv
<1> QED BY <1>1, Invariance, PTL

\* The tables keep their types, whatever runs and reviewers do.
THEOREM TypeCorrect == Spec => []TypeOK
<1>1. IInv => TypeOK
  BY DEF IInv
<1> QED BY <1>1, Invariance, PTL

-----------------------------------------------------------------------------
LEMMA ShowInit == Init => ShowInv
<1> SUFFICES ASSUME Init PROVE ShowInv
  OBVIOUS
<1>1. \A r \in Run : job[r].pc = "new"
  BY DEF Init
<1>2. InFlight = {}
  BY <1>1 DEF InFlight, Steps
<1> QED BY <1>1, <1>2, InitInv DEF ShowInv, OneInFlight, LatestShows, RunShows, Init

\* How the runs in flight change with the step that a run takes.
LEMMA FlightMoves ==
  ASSUME TypeOK, OneInFlight, NEW r \in Run, r \in InFlight,
         \A q \in Run : q # r => job'[q] = job[q]
  PROVE  /\ InFlight = {r}
         /\ OneInFlight'
         /\ job'[r].pc \in Steps => InFlight' = {r}
         /\ job'[r].pc \notin Steps => InFlight' = {}
<1>1. InFlight = {r}
  BY DEF OneInFlight
<1>2. \A q \in Run : q # r => q \notin InFlight'
  BY <1>1 DEF InFlight
<1>3. r \in InFlight' <=> job'[r].pc \in Steps
  BY DEF InFlight
<1>4. InFlight' \subseteq Run
  BY DEF InFlight
<1> QED BY <1>1, <1>2, <1>3, <1>4 DEF OneInFlight

\* A step of the run in flight, which others do not see.
LEMMA ShowRun ==
  ASSUME ShowInv, MaxRunning = 1, NEW r \in Run, RunStep(r)
  PROVE  ShowInv'
<1>t. TypeOK /\ OneInFlight /\ IInv' /\ RunShows(r) /\ job \in [Run -> Job]
  BY RunInv DEF ShowInv, IInv, TypeOK
<1>1. CASE StartRun(r)
  <2>1. InFlight = {}
    <3> SUFFICES ASSUME NEW q \in Run, InFlight = {q} PROVE FALSE
      BY <1>t DEF OneInFlight
    <3>1. Cardinality(InFlight) = 1
      BY FS_Singleton
    <3> QED BY <1>1, <3>1 DEF StartRun
  <2>2. /\ \A q \in Run : q # r => job'[q] = job[q]
        /\ job'[r].pc = "parse"
    BY <1>1, <1>t DEF StartRun, GoTo
  <2>3. InFlight' = {r}
    BY <2>1, <2>2 DEF InFlight, Steps
  <2>4. \A q \in Run : job'[q].pc \notin {"graph", "reconcile", "findings"}
    BY <2>1, <2>2 DEF InFlight, Steps
  <2> QED BY <1>t, <2>3, <2>4 DEF ShowInv, OneInFlight, LatestShows, RunShows
<1>2. CASE ~StartRun(r)
  <2>1. r \in InFlight /\ \A q \in Run : q # r => job'[q] = job[q]
    BY <1>2, <1>t DEF RunStep, Parse, Extract, PopulateGraph, Reconcile, RunFindings, FailRun,
                      GoTo, InFlight, Steps
  <2>2. /\ InFlight = {r} /\ OneInFlight'
        /\ job'[r].pc \in Steps => InFlight' = {r}
        /\ job'[r].pc \notin Steps => InFlight' = {}
    BY <2>1, <1>t, FlightMoves
  <2>3. \A q \in Run : q # r => job'[q].pc \notin Steps
    BY <2>1, <2>2 DEF InFlight
  <2>4. \A q \in Run : q # r => RunShows(q)'
    BY <2>3 DEF RunShows, Steps
  <2>5. CASE Parse(r)
    <3>1. job'[r].pc = "extract"
      BY <2>5, <1>t DEF Parse
    <3> QED BY <3>1, <1>t, <2>2, <2>4 DEF ShowInv, LatestShows, RunShows, Steps
  <2>6. CASE Extract(r)
    <3>1. job'[r].pc = "graph" /\ facts' = {r}
      BY <2>6, <1>t DEF Extract, GoTo, Job
    <3> QED BY <3>1, <1>t, <2>2, <2>4 DEF ShowInv, LatestShows, RunShows, Steps
  <2>7. CASE PopulateGraph(r)
    <3>1. job'[r].pc = "reconcile" /\ facts = {r} /\ facts' = facts /\ graph' = r
      BY <2>7, <1>t DEF PopulateGraph, GoTo, Job, RunShows
    <3> QED BY <3>1, <1>t, <2>2, <2>4 DEF ShowInv, LatestShows, RunShows, Steps
  <2>8. CASE Reconcile(r)
    <3>1. /\ job'[r].pc = "findings" /\ job'[r].parsed = job[r].parsed
          /\ facts = {r} /\ facts' = facts /\ graph = r /\ graph' = graph
      BY <2>8, <1>t DEF Reconcile, GoTo, Job, RunShows
    <3>2. ASSUME NEW k \in Field
          PROVE  /\ value'[k].by = IF job'[r].parsed[k] = "none" THEN NoRun ELSE r
                 /\ value'[k].flagged = (job'[r].parsed[k] = "flagged")
      <4> DEFINE row == [by |-> r, flagged |-> Flags(r, k), human |-> NoRun]
      <4>1. value'[k] = IF job[r].parsed[k] # "none" THEN row ELSE NoRow
        BY <2>8, <3>1 DEF Reconcile, Reconciled, Reported
      <4>2. row.by = r /\ row.flagged = (job[r].parsed[k] = "flagged")
        BY <3>1 DEF Flags
      <4>3. NoRow.by = NoRun /\ NoRow.flagged = FALSE
        BY DEF NoRow
      <4> HIDE DEF row
      <4>4. CASE job[r].parsed[k] = "none"
        BY <4>1, <4>3, <4>4, <3>1
      <4>5. CASE job[r].parsed[k] # "none"
        BY <4>1, <4>2, <4>5, <3>1
      <4> QED BY <4>4, <4>5
    <3>3. RunShows(r)'
      BY <3>1, <3>2 DEF RunShows
    <3> QED BY <3>1, <3>3, <1>t, <2>2, <2>4 DEF ShowInv, LatestShows, Steps
  <2>9. CASE RunFindings(r)
    <3>1. /\ job'[r].pc = "done" /\ job'[r].parsed = job[r].parsed /\ job'[r].matches = job[r].matches
          /\ facts = {r} /\ facts' = facts /\ graph = r /\ graph' = graph /\ value' = value
          /\ latest' = r
      BY <2>9, <1>t DEF RunFindings, GoTo, Job, RunShows
    <3>2. graph # NoRun
      BY <3>1, NamesAssumption
    <3>3. \A q \in Run : finding'[q] # "none" <=> q = r /\ job[r].matches
      BY <2>9, <3>1, <3>2 DEF RunFindings
    <3>4. Shows(r)'
      BY <2>9, <3>1, <3>3, <1>t DEF RunFindings, RunShows, Shows
    <3> QED BY <3>1, <3>4, <1>t, <2>2, <2>4 DEF ShowInv, LatestShows, RunShows
  <2>10. CASE FailRun(r)
    <3>1. job'[r].pc = "failed" /\ latest' = NoRun
      BY <2>10, <1>t DEF FailRun, GoTo, Job
    <3> QED BY <3>1, <1>t, <2>2, <2>4 DEF ShowInv, LatestShows, RunShows
  <2> QED BY <1>2, <2>5, <2>6, <2>7, <2>8, <2>9, <2>10 DEF RunStep
<1> QED BY <1>1, <1>2

\* What a reviewer decides changes neither which run a value is from nor whether a
\* finding is there.
LEMMA ShowReview ==
  ASSUME ShowInv, NEW v \in Reviewer, ReviewStep(v)
  PROVE  ShowInv'
<1>t. TypeOK /\ IInv'
  BY ReviewInv DEF ShowInv, IInv
<1>1. UNCHANGED <<job, facts, graph, latest>>
  BY DEF ReviewStep, LoadItem, ClaimItem, EscalateItem, SeeValue, ResolveItem, FailReview, ReviewOnly
<1>2. UNCHANGED <<value, finding>> \/ ResolveItem(v)
  BY DEF ReviewStep, LoadItem, ClaimItem, EscalateItem, SeeValue, FailReview
<1>w. ResolveItem(v) => review[v].item[1] \in Run
  BY DEF ShowInv, IInv, ReviewOK, ResolveItem, Item
<1>3. \A k \in Field : value'[k].by = value[k].by /\ value'[k].flagged = value[k].flagged
  <2>1. value' = value \/ \E k \in Field, h \in Run : value' = [value EXCEPT ![k].human = h]
    BY <1>2, <1>w DEF ResolveItem
  <2> QED BY <2>1, <1>t DEF TypeOK, Row
<1>4. \A q \in Run : finding'[q] = "none" <=> finding[q] = "none"
  <2>1. CASE finding' = finding
    BY <2>1
  <2>2. CASE \E r \in Run, decision \in {"approved", "rejected"} :
               finding' = [finding EXCEPT ![r] = IF @ = "none" THEN "none" ELSE decision]
    BY <2>2, <1>t DEF TypeOK
  <2> QED BY <1>2, <1>w, <2>1, <2>2 DEF ResolveItem
<1>5. InFlight' = InFlight
  BY <1>1 DEF InFlight
<1>6. LatestShows'
  <2> SUFFICES ASSUME InFlight = {}, latest # NoRun PROVE Shows(latest)'
    BY <1>1, <1>5 DEF LatestShows
  <2>1. Shows(latest)
    BY DEF ShowInv, LatestShows
  <2> QED BY <1>1, <1>3, <1>4, <2>1 DEF Shows
<1>7. \A r \in Run : RunShows(r)'
  BY <1>1, <1>3 DEF ShowInv, RunShows
<1> QED BY <1>t, <1>5, <1>6, <1>7 DEF ShowInv, OneInFlight

\* While runs do not overlap, a run that ends well leaves the engagement showing its
\* own facts, graph, values and findings, whatever failed before it (pipeline/steps.ts).
THEOREM LatestIsShown ==
  ASSUME MaxRunning = 1
  PROVE  Spec => []LatestShows
<1>1. ShowInv /\ [Next]_vars => ShowInv'
  <2>1. CASE UNCHANGED vars
    BY <2>1, NextInv DEF vars, rows, ShowInv, OneInFlight, InFlight, LatestShows, Shows, RunShows
  <2> QED BY <2>1, ShowRun, ShowReview DEF Next
<1>2. ShowInv => LatestShows
  BY DEF ShowInv
<1> QED BY <1>1, <1>2, ShowInit, PTL DEF Spec
=============================================================================
