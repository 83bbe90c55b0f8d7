------------------------------ MODULE Teardown ------------------------------
(***************************************************************************)
(* The deletion of an engagement (server/engagements.ts): an ordered list  *)
(* of deletes, a check that no row of the engagement is left, the delete of *)
(* the engagement, all in one transaction, and the removal of the stored    *)
(* bytes after the commit.  A table is modelled by whether it holds rows of *)
(* the engagement and a foreign key by whether a row uses it; the foreign   *)
(* keys are those of supabase/migrations.  Other requests may insert rows   *)
(* between the statements.                                                  *)
(***************************************************************************)
EXTENDS Naturals, Sequences
LOCAL INSTANCE SequencesExt

CONSTANT Inserted   \* tables that another request may insert rows into

(* ENGAGEMENT_CHILD_DELETES, in its order.                                  *)
ChildDeletes ==
  << "graph_edges", "graph_nodes", "assessment_values", "findings", "scores",
     "jobs", "review_items", "llm_calls", "documents", "ebitda_recasts",
     "valuation_inputs", "engagement_data_room_items", "deal_outcomes",
     "outcome_events", "engagement_outcomes", "roadmap_milestones",
     "engagement_log", "usage_events", "data_access_log", "tasks", "gaps",
     "answer_provenance", "answers", "sub_score_results", "dimension_scores",
     "generated_documents", "assessments", "engagement_agreements" >>

(* Tables that rows of the engagement live in and no statement deletes from. *)
Cascading ==
  { "engagement_collaborators", "engagement_professionals",
    "engagement_comments", "diligence_simulation_runs", "buyer_matches",
    "diligence_qa", "answer_candidates" }
Unlisted ==
  Cascading \cup {"profiles", "engagement_plans", "answer_provenance_events"}

Table == ToSet(ChildDeletes) \cup Unlisted

ASSUME InsertedAssumption == Inserted \subseteq Table

(* Reached through the assessments: these have no engagement_id.            *)
Unscoped ==
  { "answer_provenance", "answers", "sub_score_results", "dimension_scores",
    "answer_provenance_events" }

(* Foreign keys without ON DELETE: child and parent.  Every row of a table  *)
(* of Dependent names an assessment.                                        *)
Dependent == (Unscoped \ {"answer_provenance_events"}) \cup {"gaps", "answer_candidates"}
ForeignKey ==
  (Dependent \X {"assessments"}) \cup
  { <<"answer_provenance_events", "assessments">>, <<"scores", "assessments">>,
    <<"deal_outcomes", "assessments">>, <<"generated_documents", "assessments">>,
    <<"diligence_simulation_runs", "assessments">>, <<"buyer_matches", "assessments">>,
    <<"diligence_qa", "assessments">>, <<"answer_candidates", "documents">>,
    <<"answer_provenance", "documents">>, <<"answer_provenance_events", "documents">>,
    <<"tasks", "gaps">>, <<"tasks", "engagement_plans">>,
    <<"roadmap_milestones", "gaps">>, <<"roadmap_milestones", "tasks">>,
    <<"roadmap_milestones", "engagement_plans">> }

VARIABLES engagement,  \* the row of table engagements exists
          filled,      \* committed: tables with rows of the engagement
          cites,       \* foreign keys that a row uses
          objects,     \* the bucket holds the documents' objects
          teardown     \* the request: its step, the statement it is at, the
                       \* tables its transaction sees rows in, and whether it
                       \* saw documents before it began

teardownVars == <<engagement, filled, cites, objects, teardown>>

(* Rows name parents that exist, and a dependent row does name one.         *)
Consistent(tables, keys) ==
  /\ \A k \in keys : k[1] \in tables /\ k[2] \in tables
  /\ \A t \in tables \cap Dependent : <<t, "assessments">> \in keys

(* A table, a key and a step of the teardown are what they are called: the  *)
(* state of server/engagements.ts.                                          *)
TeardownTypeOK ==
  /\ engagement \in BOOLEAN /\ objects \in BOOLEAN
  /\ filled \subseteq Table
  /\ cites \subseteq ForeignKey /\ Consistent(filled, cites)
  /\ teardown \in [step : {"asked", "delete", "check", "engagement", "commit",
                           "objects", "done", "failed"},
                   at : 1..Len(ChildDeletes), left : SUBSET Table,
                   saw : BOOLEAN]

TeardownInit ==
  /\ engagement = TRUE
  /\ filled \in SUBSET Table
  /\ cites \in SUBSET {k \in ForeignKey : k[1] \in filled /\ k[2] \in filled}
  /\ Consistent(filled, cites)
  /\ objects = ("documents" \in filled)
  /\ teardown = [step |-> "asked", at |-> 1, left |-> {}, saw |-> FALSE]

At(step) == teardown.step = step
GoOn(step) == teardown' = [teardown EXCEPT !.step = step]
InTransaction == teardown.step \in {"delete", "check", "engagement", "commit"}

(* Faulty variant: the objects go first.                                    *)
BeginWithObjects ==
  /\ At("asked")
  /\ teardown' = [step |-> "delete", at |-> 1, left |-> filled,
                  saw |-> "documents" \in filled]
  /\ objects' = FALSE
  /\ UNCHANGED <<engagement, filled, cites>>

(* The document ids are read before the transaction begins.                 *)
BeginTeardown ==
  /\ At("asked")
  /\ teardown' = [step |-> "delete", at |-> 1, left |-> filled,
                  saw |-> "documents" \in filled]
  /\ UNCHANGED <<engagement, filled, cites, objects>>

(* Rows that a row outside the table still names cannot be deleted.         *)
Held(t) == \E k \in cites : k[2] = t /\ k[1] \in teardown.left

(* Faulty variants: every delete commits by itself; one statement too many.  *)
DeleteRowsAtOnce ==
  /\ At("delete")
  /\ ~Held(ChildDeletes[teardown.at])
  /\ LET n == teardown.at
         left == teardown.left \ {ChildDeletes[n]} IN
       /\ filled' = left
       /\ cites' = {k \in cites : k[1] \in left}
       /\ teardown' = [teardown EXCEPT
                      !.left = left,
                      !.at = IF n < Len(ChildDeletes) THEN n + 1 ELSE n,
                      !.step = IF n < Len(ChildDeletes) THEN @ ELSE "check"]
  /\ UNCHANGED <<engagement, objects>>

DeleteRowsBeyond ==
  /\ At("delete")
  /\ ~Held(ChildDeletes[teardown.at])
  /\ LET n == teardown.at IN
       teardown' = [teardown EXCEPT
                      !.left = @ \ {ChildDeletes[n]}, !.at = n + 1,
                      !.step = IF n <= Len(ChildDeletes) THEN @ ELSE "check"]
  /\ UNCHANGED <<engagement, filled, cites, objects>>

DeleteRows ==
  /\ At("delete")
  /\ ~Held(ChildDeletes[teardown.at])
  /\ LET n == teardown.at IN
       teardown' = [teardown EXCEPT
                      !.left = @ \ {ChildDeletes[n]},
                      !.at = IF n < Len(ChildDeletes) THEN n + 1 ELSE n,
                      !.step = IF n < Len(ChildDeletes) THEN @ ELSE "check"]
  /\ UNCHANGED <<engagement, filled, cites, objects>>

(* assertNoOrphans looks at every table with an engagement_id.              *)
FindNoOrphans ==
  /\ At("check")
  /\ teardown.left \subseteq Unscoped
  /\ GoOn("engagement")
  /\ UNCHANGED <<engagement, filled, cites, objects>>

(* Rows inserted since the check are in the way, or go with the engagement. *)
DeleteRoot ==
  /\ At("engagement")
  /\ teardown.left \subseteq Cascading
  /\ teardown' = [teardown EXCEPT !.step = "commit", !.left = {}]
  /\ UNCHANGED <<engagement, filled, cites, objects>>

CommitTeardown ==
  /\ At("commit")
  /\ engagement' = FALSE
  /\ filled' = teardown.left
  /\ cites' = {k \in cites : k[1] \in teardown.left}
  /\ GoOn("objects")
  /\ UNCHANGED objects

(* A failed statement, or a process that dies, rolls everything back.       *)
RollBack ==
  /\ InTransaction
  /\ GoOn("failed")
  /\ UNCHANGED <<engagement, filled, cites, objects>>

(* The objects of the documents read at the start; each removal may fail.   *)
RemoveObjects ==
  /\ At("objects")
  /\ objects' \in {objects, objects /\ ~teardown.saw}
  /\ GoOn("done")
  /\ UNCHANGED <<engagement, filled, cites>>

(* Another request adds rows.  The delete of the engagement locks its row:  *)
(* from then on an insert waits, and fails once the teardown commits.       *)
Insert(t) ==
  /\ engagement /\ ~At("commit")
  /\ t \notin Dependent
  /\ t \notin filled \/ (InTransaction /\ t \notin teardown.left)
  /\ filled' = filled \cup {t}
  /\ objects' = (objects \/ t = "documents")
  /\ teardown' = IF InTransaction
                   THEN [teardown EXCEPT !.left = @ \cup {t}] ELSE teardown
  /\ UNCHANGED <<engagement, cites>>

TeardownNext ==
  \/ BeginTeardown \/ DeleteRows \/ FindNoOrphans \/ DeleteRoot
  \/ CommitTeardown \/ RollBack \/ RemoveObjects
  \/ \E t \in Inserted : Insert(t)

TeardownSpec == TeardownInit /\ [][TeardownNext]_teardownVars

-----------------------------------------------------------------------------
(* The whole engagement goes or nothing does: no step of the teardown takes *)
(* rows away while the engagement stays, and none leaves rows behind it     *)
(* (engagements.ts: "it either removes the whole engagement or nothing").   *)
WholeOrNothing ==
  [][/\ engagement' => filled \subseteq filled'
     /\ ~engagement' => filled' = {}]_teardownVars

(* A document that was not deleted keeps its bytes, whatever becomes of the *)
(* teardown (the objects are removed after the commit).                     *)
DocumentsKeepBytes == "documents" \in filled => objects

(* The list is in an order the foreign keys allow, leaves first: no         *)
(* statement of the teardown, and not the check, is refused, whatever the   *)
(* engagement holds (engagements.ts: "in FK-safe teardown order").          *)
TeardownRuns ==
  /\ At("delete") => ~Held(ChildDeletes[teardown.at])
  /\ At("check") => teardown.left \subseteq Unscoped
=============================================================================
