---------------------------- MODULE ScoringEngine ----------------------------
(***************************************************************************)
(* The deterministic scoring engine (shared/scoring/engine.ts): validation, *)
(* sub-scores, dimension scores, DRS and ORI, the concentration governor,   *)
(* gap triggers and the projected DRS.  A rubric is data, as in the code.   *)
(*                                                                         *)
(* Arithmetic is exact: a real is a fraction of integers, points and        *)
(* dimension scores are in hundredths, DRS and ORI in tenths, weights in    *)
(* percent.  (A decimal tie that no double represents falls in the code to  *)
(* the side of the double, here to the even digit.)                         *)
(*                                                                         *)
(* The state is an assessment that is answered and scored again and again,  *)
(* one answer at a time.                                                    *)
(***************************************************************************)
EXTENDS Integers, Sequences, FiniteSets, Functions, FiniteSetsExt

CONSTANTS Rubric,   \* a set of sub-scores: [code, dim, weight, formula, input,
                    \* logic, na], with the fields of logic its formula reads
          DrsWeight,  \* the business-readiness dimensions and their weights
          Gaps,       \* gap definitions: [code, trigger]
          AnswerType, \* for each question, the type of its answer
          Values      \* for each question, the answers considered

VARIABLES replies,  \* the answers, a function on the questions
          outcome   \* their scores, or Rejected

engineVars == <<replies, outcome>>

(* What the rubric's files give: points on a scale of a hundred, weights that *)
(* add up, a gap's name once, and a formula on questions of the type it reads. *)
Points == 0 .. 100
Bands == Seq(Int \X Points)

Asks(s, type) == \A i \in DOMAIN s.input : AnswerType[s.input[i]] = type

LogicOK(s) ==
  CASE s.formula = "band_gte" ->
         s.logic.bands \in Bands \ {<<>>} /\ s.logic.unknown \in Points
    [] s.formula = "select_map" -> \A v \in Values[s.input[1]] : s.logic.map[v] \in Points
    [] s.formula = "scale_map" -> Asks(s, "scale_1_5")
    [] s.formula = "durability" -> Len(s.input) = 2 /\ Asks(s, "numeric")
    [] s.formula = "growth_consistency" -> TRUE
    [] s.formula \in {"cagr_band", "depth_ratio", "pipeline_ratio"} ->
         s.logic.bands \in Bands /\ s.logic.else \in Points
    [] s.formula \in {"band_ascending", "top5_band", "hhi_from_top5", "top1_band"} ->
         /\ s.logic.bands_lt \in Bands /\ s.logic.else \in Points
         /\ s.formula = "hhi_from_top5" => s.logic.cap[2] \in Points
         /\ s.formula = "top1_band" => s.logic.anchor.floor \in Points
    [] OTHER -> FALSE

ASSUME RubricAssumption ==
  /\ IsFiniteSet(Rubric) /\ IsFiniteSet(Gaps) /\ IsFiniteSet(DOMAIN DrsWeight)
  /\ \A s \in Rubric :
       /\ s.weight \in Nat /\ s.input # <<>> /\ LogicOK(s)
       /\ s.input \in Seq(DOMAIN Values)
  /\ \A d \in DOMAIN DrsWeight : DrsWeight[d] \in Nat
  /\ SumFunction(DrsWeight) = 100
  /\ \A g \in Gaps :
       /\ g.trigger.type = "sub_score_below" => g.trigger.threshold \in Points
       /\ \A h \in Gaps : h.code = g.code => h = g

ASSUME ValuesAssumption ==
  \A q \in DOMAIN Values :
    /\ Values[q] # {}
    /\ AnswerType[q] \in {"numeric", "scale_1_5", "numeric_or_unknown"} => Values[q] \subseteq Int
    /\ AnswerType[q] = "numeric_list" => Values[q] \subseteq Seq(Int)

Rejected == [rejected |-> TRUE]
Unknown == -1              \* the answer "unknown" to a numeric question
Question == DOMAIN Values
Code == {s.code : s \in Rubric}
Business == {s \in Rubric : s.dim \in DOMAIN DrsWeight}

(* Python's round: the nearest integer to n / d, a tie to the even one.     *)
PyRound(n, d) ==
  LET q == n \div d
      twice == 2 * (n % d)
  IN IF twice > d \/ (twice = d /\ q % 2 = 1) THEN q + 1 ELSE q

Least(a, b) == IF a < b THEN a ELSE b
Most(a, b) == IF a > b THEN a ELSE b
Total(list) == SumFunction(list)

(* The points of the first band that the value reaches, or the otherwise.   *)
FirstBand(Reaches(_), bands, otherwise) ==
  LET reached == {i \in DOMAIN bands : Reaches(bands[i][1])}
  IN IF reached = {} THEN otherwise ELSE bands[Min(reached)][2]

BandGte(n, d, bands, otherwise) ==
  LET Reaches(t) == n >= t * d IN FirstBand(Reaches, bands, otherwise)

BandLt(v, bands, otherwise) ==
  LET Below(t) == v < t IN FirstBand(Below, bands, otherwise)

(* The compound growth rate of a revenue series is at least t percent.      *)
Grows(annual, t) ==
  LET n == Len(annual) - 1 IN annual[n + 1] * 100 ^ n >= annual[1] * (100 + t) ^ n

DownYears(annual) ==
  Cardinality({i \in 1 .. Len(annual) - 1 : annual[i + 1] < annual[i]})

(* Points, least growth and most down years of each rule; the best applies. *)
GrowthRules == {<<100, 15, 0>>, <<75, 10, 1>>, <<50, 5, 1>>, <<25, 0, 9>>, <<15, -5, 1>>}

GrowthConsistency(annual) ==
  Max({0} \cup {r[1] : r \in {q \in GrowthRules :
                                Grows(annual, q[2]) /\ DownYears(annual) <= q[3]}})

(* A dominant customer under a long contract that a sale does not break.    *)
Anchored(a, share, months) ==
  /\ a["REV-TOP5-SHARES"][1] >= share
  /\ a["CUS-COC-CTX"] = "none"
  /\ a["REV-CONTRACT-AVG-MO"] >= months

(* computeSubScore, one disjunct per formula; points in whole numbers        *)
(* except for durability.                                                   *)
HundredPoints(s, a) ==
  LET v == a[s.input[1]]
      logic == s.logic
  IN CASE s.formula = "band_gte" ->
            100 * (IF v = Unknown THEN logic.unknown
                   ELSE BandGte(v, 1, logic.bands, logic.bands[Len(logic.bands)][2]))
       [] s.formula = "band_ascending" -> 100 * BandLt(v, logic.bands_lt, logic.else)
       [] s.formula = "select_map" -> 100 * logic.map[v]
       [] s.formula = "scale_map" -> 100 * ((v - 1) * 25)
       [] s.formula = "hhi_from_top5" ->
            LET points == BandLt(Total([i \in DOMAIN v |-> v[i] * v[i]]),
                                 logic.bands_lt, logic.else)
            IN 100 * IF v[1] > logic.cap[1] THEN Least(points, logic.cap[2]) ELSE points
       [] s.formula = "durability" ->
            PyRound(10000 * Least(v, 75) * Least(a[s.input[2]], 18), 75 * 18)
       [] s.formula = "growth_consistency" -> 100 * GrowthConsistency(v)
       [] s.formula = "cagr_band" ->
            LET Reaches(t) == Grows(v, t)
            IN 100 * FirstBand(Reaches, logic.bands, logic.else)
       [] s.formula = "depth_ratio" ->
            100 * BandGte(100 * v, a[s.input[2]], logic.bands, logic.else)
       [] s.formula = "pipeline_ratio" ->
            LET annual == a[s.input[2]]
            IN 100 * IF v <= 0 THEN 0
                     ELSE BandGte(10 * v * Len(annual), Total(annual), logic.bands, logic.else)
       [] s.formula = "top1_band" ->
            LET points == BandLt(v[1], logic.bands_lt, logic.else)
            IN 100 * IF Anchored(a, logic.anchor.gte, logic.anchor.months)
                       THEN Most(points, logic.anchor.floor) ELSE points
       [] s.formula = "top5_band" -> 100 * BandLt(Total(v), logic.bands_lt, logic.else)

(* subScoreApplicable: na is a set of conditions, each of which excludes.    *)
Excludes(na, a) ==
  CASE na.type = "business_age_lt" -> a["BIZ-AGE-YEARS"] < na.value
    [] na.type = "history_years_lt" -> Len(a["REV-ANNUAL"]) < na.value
    [] na.type = "employee_count_lte" -> a["EMPLOYEE-COUNT"] <= na.value
    [] na.type = "answer_unknown" -> a[na.question] = Unknown
    [] na.type = "answer_in" -> a[na.question] \in na.values

Applicable(s, a) == \A na \in s.na : ~Excludes(na, a)

(* validateAnswers: the domains the arithmetic depends on.  An answer that is *)
(* no number where one is asked, or no option, is not among the values.       *)
(* (The faulty variant does not look at the scale.)                          *)
ListOK(q, v) ==
  CASE q = "REV-ANNUAL" -> Len(v) >= 2 /\ \A i \in DOMAIN v : v[i] > 0
    [] q = "REV-TOP5-SHARES" ->
         /\ Len(v) \in 1 .. 5
         /\ \A i \in DOMAIN v : v[i] \in 0 .. 100
         /\ Total(v) <= 100
    [] OTHER -> \A i \in DOMAIN v : v[i] >= 0

DomainUnscaled(q, v) ==
  CASE AnswerType[q] = "numeric" -> v >= (IF q = "OPS-FUNC-COUNT" THEN 1 ELSE 0)
    [] AnswerType[q] = "numeric_or_unknown" -> v = Unknown \/ v >= 0
    [] AnswerType[q] = "numeric_list" -> ListOK(q, v)
    [] OTHER -> TRUE

DomainOK(q, v) ==
  CASE AnswerType[q] = "numeric" -> v >= (IF q = "OPS-FUNC-COUNT" THEN 1 ELSE 0)
    [] AnswerType[q] = "scale_1_5" -> v \in 1 .. 5
    [] AnswerType[q] = "numeric_or_unknown" -> v = Unknown \/ v >= 0
    [] AnswerType[q] = "numeric_list" -> ListOK(q, v)
    [] OTHER -> TRUE

Valid(a) ==
  /\ \A q \in Question : DomainOK(q, a[q])
  /\ a["OPS-MGR-COUNT"] <= a["EMPLOYEE-COUNT"]

(* The mean over the sub-scores that apply, their weights renormalised; zero *)
(* when none does.  Points and applicability are given, so that a projection *)
(* takes the same mean.  The result has one digit less for unit 10.  (The     *)
(* faulty variant drops the sub-scores without points.)                      *)
WeightedMeanOfSome(parts, points, applies, unit) ==
  LET counted == {s \in parts : s.code \in applies /\ points[s.code] > 0}
      weight == SumFunction([s \in counted |-> s.weight])
  IN IF weight = 0 THEN 0
     ELSE PyRound(SumFunction([s \in counted |-> s.weight * points[s.code]]), weight * unit)

WeightedMean(parts, points, applies, unit) ==
  LET counted == {s \in parts : s.code \in applies}
      weight == SumFunction([s \in counted |-> s.weight])
  IN IF weight = 0 THEN 0
     ELSE PyRound(SumFunction([s \in counted |-> s.weight * points[s.code]]), weight * unit)

(* Faulty variant: half of the revenue is still below the governor.         *)
GovernedBeyond(a, drs) ==
  IF a["REV-TOP5-SHARES"][1] > 50 /\ ~Anchored(a, 40, 24) THEN Least(drs, 690) ELSE drs

(* concentrationGovernor.                                                   *)
Governed(a, drs) ==
  IF a["REV-TOP5-SHARES"][1] >= 50 /\ ~Anchored(a, 40, 24) THEN Least(drs, 690) ELSE drs

Drs(a, points, applies) ==
  Governed(a,
    PyRound(SumFunction([d \in DOMAIN DrsWeight |->
                           DrsWeight[d] * WeightedMean({s \in Rubric : s.dim = d},
                                                       points, applies, 1)]),
            1000))

(* evaluateTrigger; the conditions of "all" are simple in every rubric.      *)
SimpleFires(t, a, points, applies, drs) ==
  CASE t.type = "sub_score_below" ->
         t.code \in applies /\ points[t.code] < 100 * t.threshold
    [] t.type = "answer_in" -> a[t.question] \in t.values
    [] t.type = "answer_not_in" -> a[t.question] \notin t.values
    [] t.type = "answer_lte" -> a[t.question] # Unknown /\ a[t.question] <= t.value
    [] t.type = "composite_below" -> drs < 10 * t.threshold
    [] t.type = "business_age_gte" -> a["BIZ-AGE-YEARS"] >= t.years

Fires(t, a, points, applies, drs) ==
  IF t.type = "all" THEN \A c \in t.conditions : SimpleFires(c, a, points, applies, drs)
  ELSE SimpleFires(t, a, points, applies, drs)

Below(trigger, code) == trigger.type = "sub_score_below" /\ trigger.code = code

(* explainFromAnswers: each fired gap on a sub-score lifts it to the highest *)
(* threshold missed, and the DRS is taken again.                              *)
Lifted(points, fired) ==
  [c \in Code |->
     Max({points[c]} \cup {100 * g.trigger.threshold : g \in {h \in fired : Below(h.trigger, c)}})]

ProjectDrs(a, points, applies, fired) == Drs(a, Lifted(points, fired), applies)

Tier(drs) ==
  CASE drs >= 850 -> "Institutional Grade"
    [] drs \in 700 .. 849 -> "Sale Ready"
    [] drs \in 550 .. 699 -> "Needs Work"
    [] drs \in 400 .. 549 -> "High Risk"
    [] OTHER -> "Not Saleable (Yet)"

(* scoreFromAnswers and the projection, for complete answers.                *)
Score(a) ==
  IF ~Valid(a) THEN Rejected
  ELSE
    LET points == [c \in Code |-> HundredPoints(CHOOSE s \in Rubric : s.code = c, a)]
        applies == {s.code : s \in {t \in Rubric : Applicable(t, a)}}
        drs == Drs(a, points, applies)
        fired == {g \in Gaps : Fires(g.trigger, a, points, applies, drs)}
    IN [rejected |-> FALSE, points |-> points, applies |-> applies, drs |-> drs,
        tier |-> Tier(drs),
        ori |-> WeightedMean(Rubric \ Business, points, applies, 10),
        gaps |-> {g.code : g \in fired},
        projected |-> ProjectDrs(a, points, applies, fired)]

EngineInit ==
  /\ replies = [q \in Question |-> CHOOSE v \in Values[q] : TRUE]
  /\ outcome = Score(replies)

Answer(q, v) ==
  /\ replies' = [replies EXCEPT ![q] = v]
  /\ outcome' = Score(replies')

EngineNext == \E q \in Question : \E v \in Values[q] \ {replies[q]} : Answer(q, v)

EngineSpec == EngineInit /\ [][EngineNext]_engineVars

-----------------------------------------------------------------------------
(* The tops of the scales: points in hundredths, DRS and ORI in tenths.      *)
TopPoints == 10000
TopScore == 1000

(* What passes the validation scores within the scales: DRS and ORI within 0  *)
(* and 100, every sub-score too (engine.ts: an unguarded scale "pushed the    *)
(* ORI past 100"), and closing gaps never lowers the score that is promised    *)
(* for it (projectDrs).                                                       *)
ScoresInRange ==
  ~outcome.rejected =>
    /\ {outcome.drs, outcome.ori} \subseteq 0 .. TopScore
    /\ outcome.projected \in outcome.drs .. TopScore
    /\ \A c \in Code : outcome.points[c] \in 0 .. TopPoints

(* A customer with half of the revenue and no long contract keeps the        *)
(* business below Sale Ready, now and in every projection                    *)
(* (concentrationGovernor).                                                  *)
DominantNotSaleable ==
  ~outcome.rejected /\ replies["REV-TOP5-SHARES"][1] >= 50 /\ ~Anchored(replies, 40, 24)
    => {Tier(outcome.drs), Tier(outcome.projected)}
         \cap {"Sale Ready", "Institutional Grade"} = {}

(* A business that does no worse on any sub-score, with the same sub-scores   *)
(* counted and the same standing of its largest customer, scores no lower     *)
(* and opens no gap on a sub-score: rounding twice and                        *)
(* renormalising do not turn an improvement around (scoreFromAnswers).        *)
ImprovementNeverHurts ==
  [][ /\ replies' # replies /\ ~outcome.rejected /\ ~outcome'.rejected
      /\ outcome'.applies = outcome.applies
      /\ \A c \in Code : outcome'.points[c] >= outcome.points[c]
      /\ Governed(replies', TopScore) >= Governed(replies, TopScore)
      => /\ outcome'.drs >= outcome.drs
         /\ outcome'.ori >= outcome.ori
         /\ \A g \in Gaps : g.trigger.type = "sub_score_below" /\ g.code \in outcome'.gaps
                              => g.code \in outcome.gaps ]_engineVars
=============================================================================
