----------------------------- MODULE MCEvidence -----------------------------
\* What the scores of an assessment rest on and what is made of them: verification,
\* documents, the engine, the intake pages, a deliverable, the valuation.  The six
\* share no state that they write; the initial state says which one a behaviour is
\* about, and the others stay as they are.
EXTENDS VerificationPipeline, Documents, ScoringEngine, IntakeDrafts, Deliverables,
        Valuation, TLC

\* They share no identifiers either, so that one model value may stand for a run, a
\* document or a question, and two permutations serve three components.
CONSTANTS a1, a2, b1, b2, e1, f1, f2, p1, p2, t1, t2, t3

MCSymmetry == Permutations({a1, a2}) \cup Permutations({b1, b2})

-----------------------------------------------------------------------------
\* Sub-scores and gaps with the logic of seed/drs-rubric-subscores.csv and
\* seed/gap-definitions.csv, regrouped into three dimensions whose weights add up.
NoLogic == [formula |-> "code"]
SubScore(code, dim, weight, formula, input, logic, na) ==
    [code |-> code, dim |-> dim, weight |-> weight, formula |-> formula,
     input |-> input, logic |-> logic, na |-> na]

MCRubric ==
  { SubScore("REV-HHI", "REV", 30, "hhi_from_top5", <<"REV-TOP5-SHARES">>,
      [bands_lt |-> << <<1000, 100>>, <<1500, 80>>, <<2000, 55>>, <<2500, 30>>,
                       <<4000, 15>>, <<6000, 7>> >>, else |-> 0, cap |-> <<30, 60>>], {}),
    SubScore("REV-DURABILITY", "REV", 25, "durability",
      <<"REV-CONTRACT-CUST-PCT", "REV-CONTRACT-AVG-MO">>, NoLogic, {}),
    SubScore("REV-GROWTH", "REV", 25, "growth_consistency", <<"REV-ANNUAL">>, NoLogic,
      {[type |-> "history_years_lt", value |-> 3]}),
    SubScore("REV-NRR", "REV", 20, "band_gte", <<"REV-NRR">>,
      [bands |-> << <<110, 100>>, <<100, 80>>, <<90, 50>>, <<80, 25>>, <<0, 0>> >>,
       unknown |-> 25], {[type |-> "answer_unknown", question |-> "REV-NRR"]}),
    SubScore("CUS-TOP1", "CUS", 55, "top1_band", <<"REV-TOP5-SHARES">>,
      [bands_lt |-> << <<10, 100>>, <<20, 75>>, <<30, 45>>, <<40, 25>>, <<50, 15>>,
                       <<65, 7>> >>, else |-> 0,
       anchor |-> [gte |-> 40, months |-> 24, floor |-> 45]], {}),
    SubScore("CUS-TOP5", "CUS", 45, "top5_band", <<"REV-TOP5-SHARES">>,
      [bands_lt |-> << <<30, 100>>, <<45, 75>>, <<60, 45>>, <<75, 25>>, <<90, 12>> >>,
       else |-> 0], {}),
    SubScore("OPS-DEPTH", "OPS", 40, "depth_ratio", <<"OPS-MGR-COUNT", "OPS-FUNC-COUNT">>,
      [bands |-> << <<100, 100>>, <<75, 75>>, <<50, 40>> >>, else |-> 10],
      {[type |-> "employee_count_lte", value |-> 3]}),
    SubScore("FIN-RECON", "OPS", 35, "select_map", <<"FIN-RECON">>,
      [map |-> [monthly |-> 100, quarterly |-> 65, annual |-> 30, none |-> 0]], {}),
    SubScore("GRW-PIPE", "OPS", 25, "pipeline_ratio", <<"GRW-PIPELINE", "REV-ANNUAL">>,
      [bands |-> << <<30, 100>>, <<20, 70>>, <<10, 35>>, <<5, 15>> >>, else |-> 0], {}),
    SubScore("ORI-DEPEND", "PFN", 60, "scale_map", <<"PFN-DEPEND">>, NoLogic, {}),
    SubScore("OPS-HOURS", "PFN", 40, "band_ascending", <<"OPS-OWNER-HOURS">>,
      [bands_lt |-> << <<10, 100>>, <<20, 75>>, <<30, 45>>, <<40, 20>> >>, else |-> 0], {}) }

MCDrsWeight == "REV" :> 45 @@ "CUS" :> 30 @@ "OPS" :> 25

BelowGap(code, sub, threshold) ==
    [code |-> code,
     trigger |-> [type |-> "sub_score_below", code |-> sub, threshold |-> threshold]]
MCGaps ==
  { BelowGap("CUST_CONC", "CUS-TOP1", 70), BelowGap("CHURN_HIGH", "REV-NRR", 70),
    BelowGap("REV_VOLATILITY", "REV-GROWTH", 50), BelowGap("RECON_GAP", "FIN-RECON", 70),
    BelowGap("MGMT_DEPTH", "OPS-DEPTH", 70),
    [code |-> "NOT_READY", trigger |-> [type |-> "composite_below", threshold |-> 55]],
    [code |-> "COC", trigger |-> [type |-> "all", conditions |->
       {[type |-> "business_age_gte", years |-> 3],
        [type |-> "answer_not_in", question |-> "CUS-COC-CTX", values |-> {"none"}]}]] }

MCValues ==
    "REV-TOP5-SHARES" :> {<<5, 5>>, <<35, 10>>, <<50>>, <<60, 50>>}
 @@ "CUS-COC-CTX" :> {"none", "consent"} @@ "REV-CONTRACT-AVG-MO" :> {7, 24}
 @@ "REV-CONTRACT-CUST-PCT" :> {75}      @@ "REV-NRR" :> {Unknown, 85, 110}
 @@ "REV-ANNUAL" :> {<<100, 120, 150>>, <<100, 90>>, <<100, 95, 92>>}
 @@ "OPS-MGR-COUNT" :> {0, 3} @@ "OPS-FUNC-COUNT" :> {0, 3} @@ "EMPLOYEE-COUNT" :> {2, 5}
 @@ "FIN-RECON" :> {"none", "annual"} @@ "GRW-PIPELINE" :> {250}
 @@ "PFN-DEPEND" :> {4, 6} @@ "OPS-OWNER-HOURS" :> {25} @@ "BIZ-AGE-YEARS" :> {5}

MCAnswerType == [q \in DOMAIN MCValues |->
    CASE q \in {"REV-TOP5-SHARES", "REV-ANNUAL"} -> "numeric_list"
      [] q \in {"CUS-COC-CTX", "FIN-RECON"} -> "select"
      [] q = "REV-NRR" -> "numeric_or_unknown"
      [] q = "PFN-DEPEND" -> "scale_1_5"
      [] OTHER -> "numeric"]

-----------------------------------------------------------------------------
\* The shape of VALUATION_CONFIG (server/seed-methodology.ts), in units of ten thousand,
\* with each lane elected or not.
MCBasicRules ==
    [bands |-> <<100, 300, 500, 0>>, table |-> <<35, 45, 50, 50>>,
     readiness |-> "Institutional Grade" :> 115 @@ "Sale Ready" :> 100
                   @@ "Needs Work" :> 85 @@ "High Risk" :> 70 @@ "Not Saleable (Yet)" :> 55,
     widths |-> [document_verified |-> 10, partly_verified |-> 20, self_reported |-> 30],
     costs |-> 8, tax |-> 28, own |-> FALSE, market |-> FALSE, floor |-> 5]
MCRules == {MCBasicRules, [MCBasicRules EXCEPT !.own = TRUE],
            [MCBasicRules EXCEPT !.market = TRUE]}
MCOwnBook == [sample |-> 5, median |-> 47]
MCMarket == << [sample |-> 6, median |-> 52], [sample |-> 4, median |-> 52],
               [sample |-> 0, median |-> 0], [sample |-> 0, median |-> 0] >>
MCReported == {-40, 98, 99, 299}
MCAmount == "compensation" :> 3

-----------------------------------------------------------------------------
VARIABLE part

evidenceVars == <<vars, documentVars, engineVars, intakeVars, deliverableVars,
                  valuationVars, part>>

EvidenceInit ==
    /\ part \in {"verification", "documents", "engine", "intake", "deliverables",
                "valuation"}
    /\ storage \in IF part = "documents" THEN {"db", "bucket"} ELSE {"db"}
    /\ viewer \in IF part = "intake" THEN {"advisor", "owner"} ELSE {"owner"}
    /\ docType \in IF part = "deliverables" THEN {"owner_report", "cim"} ELSE {"cim"}
    /\ rules \in IF part = "valuation" THEN RulesVersion ELSE {MCBasicRules}
    /\ Init /\ DocumentsInit /\ EngineInit /\ IntakeInit /\ DeliverablesInit
    /\ ValuationInit

\* Bounds: no item is judged not applicable, which counts as a gap does; a run that
\* would find no bytes in the database, and so touch no document, is not looked at.
DocumentsStep ==
    /\ DocumentsNext
    /\ \A e \in Evidence : evidence'[e].state # "not_applicable"
    /\ storage = "bucket" => UNCHANGED sweep

EvidenceNext ==
    /\ UNCHANGED part
    /\ \/ part = "verification" /\ Next
       \/ part # "verification" /\ UNCHANGED vars
    /\ \/ part = "documents" /\ DocumentsStep
       \/ part # "documents" /\ UNCHANGED documentVars
    /\ \/ part = "engine" /\ EngineNext
       \/ part # "engine" /\ UNCHANGED engineVars
    /\ \/ part = "intake" /\ IntakeNext
       \/ part # "intake" /\ UNCHANGED intakeVars
    /\ \/ part = "deliverables" /\ DeliverablesNext
       \/ part # "deliverables" /\ UNCHANGED deliverableVars
    /\ \/ part = "valuation" /\ ValuationNext
       \/ part # "valuation" /\ UNCHANGED valuationVars

EvidenceSpec == EvidenceInit /\ [][EvidenceNext]_evidenceVars

\* Each component's type invariant, over the behaviours that are about it.
EvidenceTypeOK ==
    /\ part = "verification" => TypeOK
    /\ part = "documents" => DocumentsTypeOK
    /\ part = "intake" => IntakeTypeOK
    /\ part = "deliverables" => DeliverablesTypeOK
    /\ part = "valuation" => ValuationTypeOK
=============================================================================
