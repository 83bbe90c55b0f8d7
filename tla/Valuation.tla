------------------------------ MODULE Valuation ------------------------------
(***************************************************************************)
(* What a business is worth (server/valuation.ts, shared/own-book.ts): the  *)
(* recast earnings, the multiple, the readiness and verification of the      *)
(* latest completed assessment, the range and what the owner keeps.  The    *)
(* state is what the valuation is computed from, changed by the valuation    *)
(* page, by a scoring and by what is verified.                              *)
(*                                                                         *)
(* Arithmetic is exact: money in whole units, multiples in tenths, shares    *)
(* and factors in percent.  One browser; a request of the page commits when  *)
(* it is sent.                                                             *)
(***************************************************************************)
EXTENDS Integers, Sequences, Functions, FiniteSetsExt

CONSTANTS RulesVersion,  \* valuation_rules_versions: the configs that may be active
          OwnBook,       \* the firm's closed deals of the industry: [sample, median]
          Market,        \* the licensed multiple of each size band: [sample, median]
          ReportedEbitda, \* reported earnings considered
          Amount,        \* the amount of each add-back
          Override,      \* multiples an advisor may enter
          Debt,          \* debts an advisor may enter
          Backed         \* how many of the TotalInputs financial inputs are verified

TotalInputs == 10        \* scored questions of the financial dimensions

NoTier == "no assessment"
NoOverride == -1
Likelihood == {"low", "medium", "high", "not_defensible"}
DefensibleBy == {"low", "medium"}
TierOrder == << "Not Saleable (Yet)", "High Risk", "Needs Work", "Sale Ready",
                "Institutional Grade" >>
DrsTier == {TierOrder[i] : i \in DOMAIN TierOrder} \cup {NoTier}
Target == "Institutional Grade"

(* A config that may be active: a multiple for each size band, larger for a    *)
(* larger business; a readiness factor, larger for a higher tier; a range, wider *)
(* for less verification; rates in percent.                                  *)
RulesOK(r) ==
  /\ r.bands \in Seq(Int) \ {<<>>} /\ r.table \in Seq(Nat)
  /\ Len(r.table) = Len(r.bands) /\ Len(r.bands) = Len(Market)
  /\ \A i, j \in DOMAIN r.table : i <= j => r.table[i] <= r.table[j]
  /\ \A i \in DOMAIN TierOrder : r.readiness[TierOrder[i]] \in Nat
  /\ \A i, j \in DOMAIN TierOrder :
       i <= j => r.readiness[TierOrder[i]] <= r.readiness[TierOrder[j]]
  /\ r.widths.self_reported \in 0 .. 100
  /\ r.widths.partly_verified \in 0 .. r.widths.self_reported
  /\ r.widths.document_verified \in 0 .. r.widths.partly_verified
  /\ r.costs \in 0 .. 100 /\ r.tax \in 0 .. 100

ASSUME ValuationAssumption ==
  /\ \A r \in RulesVersion : RulesOK(r)
  /\ OwnBook.median \in Nat
  /\ Market \in Seq([sample : Nat, median : Nat])
  /\ IsFiniteSet(ReportedEbitda) /\ ReportedEbitda # {} /\ ReportedEbitda \subseteq Int
  /\ IsFiniteSet(DOMAIN Amount) /\ \A b \in DOMAIN Amount : Amount[b] \in Int
  /\ Override \subseteq Nat /\ Debt \subseteq Nat
  /\ Backed \subseteq 0 .. TotalInputs /\ 0 \in Backed

VARIABLES rules,     \* the active version
          recast,    \* whether there is one, reported earnings and the add-backs
          terms,     \* the row of valuation_inputs: the override and the debt
          termsCopy, \* the page's copy of that row
          standing,  \* the tier of the latest completed assessment
          backed     \* its verified inputs

valuationVars == <<rules, recast, terms, termsCopy, standing, backed>>

Terms == [override : Override \cup {NoOverride}, debt : Debt \cup {0}]
Addbacks == [DOMAIN Amount -> Likelihood \cup {"none"}]

(* The kinds of value of the page's tables (ValuationPage.tsx).              *)
ValuationTypeOK ==
  /\ rules \in RulesVersion
  /\ recast \in [started : BOOLEAN, reported : ReportedEbitda, addbacks : Addbacks]
  /\ terms \in Terms /\ termsCopy \in Terms
  /\ standing \in DrsTier
  /\ backed \in Backed

ValuationInit ==
  /\ rules \in RulesVersion
  /\ recast = [started |-> FALSE, reported |-> Min(ReportedEbitda),
               addbacks |-> [b \in DOMAIN Amount |-> "none"]]
  /\ terms = [override |-> NoOverride, debt |-> 0] /\ termsCopy = terms
  /\ standing = NoTier
  /\ backed = 0

(* JavaScript's Math.round of n / d.                                         *)
RoundHalfUp(n, d) == (2 * n + d) \div (2 * d)

-----------------------------------------------------------------------------
Earnings ==
  recast.reported
    + SumFunctionOnSet(Amount, {b \in DOMAIN Amount : recast.addbacks[b] \in DefensibleBy})

(* Faulty variant: the comparison is turned around.                          *)
SizeBandAbove(earnings) ==
  LET fits == {i \in 1 .. Len(rules.bands) - 1 : earnings >= rules.bands[i]}
  IN IF fits = {} THEN Len(rules.bands) ELSE Min(fits)

(* The first band whose limit is not exceeded, or the last one.              *)
SizeBand(earnings) ==
  LET fits == {i \in 1 .. Len(rules.bands) - 1 : earnings <= rules.bands[i]}
  IN IF fits = {} THEN Len(rules.bands) ELSE Min(fits)

Usable(lane, enabled) == enabled /\ lane.sample >= Max({1, rules.floor})

(* selectValuationMultiple: override, own book, market, table.               *)
Source(earnings) ==
  IF terms.override # NoOverride THEN "override"
  ELSE IF Usable(OwnBook, rules.own) THEN "own_book"
  ELSE IF Usable(Market[SizeBand(earnings)], rules.market) THEN "market"
  ELSE "table"

Multiple(earnings) ==
  LET source == Source(earnings)
  IN CASE source = "override" -> terms.override
       [] source = "own_book" -> OwnBook.median
       [] source = "market" -> Market[SizeBand(earnings)].median
       [] source = "table" -> rules.table[SizeBand(earnings)]

ReadinessFactor(tier) == IF tier = NoTier THEN 100 ELSE rules.readiness[tier]

(* verificationSummary, tierFor and the width of the range.                  *)
VerificationTier ==
  LET pct == RoundHalfUp(100 * backed, TotalInputs)
  IN CASE pct >= 67 -> "document_verified"
       [] pct \in 34 .. 66 -> "partly_verified"
       [] OTHER -> "self_reported"

Width == rules.widths[IF standing = NoTier THEN "self_reported" ELSE VerificationTier]

EnterpriseValue(earnings, tier) ==
  RoundHalfUp(earnings * Multiple(earnings) * ReadinessFactor(tier), 1000)

(* What the owner keeps: debt, transaction costs and taxes go.               *)
NetProceeds(ev) ==
  LET costs == RoundHalfUp(ev * rules.costs, 100)
      taxable == ev - terms.debt - costs
  IN taxable - RoundHalfUp(Max({0, taxable}) * rules.tax, 100)

(* computeValuation.                                                        *)
Worth ==
  IF ~recast.started THEN [valued |-> FALSE]
  ELSE
    LET earnings == Earnings
        base == EnterpriseValue(earnings, standing)
        potential == EnterpriseValue(earnings, Target)
    IN [valued |-> TRUE, earnings |-> earnings, source |-> Source(earnings),
        base |-> base, potential |-> potential,
        low |-> RoundHalfUp(base * (100 - Width), 100),
        high |-> RoundHalfUp(base * (100 + Width), 100),
        gap |-> Max({0, potential - base}), net |-> NetProceeds(base)]

-----------------------------------------------------------------------------
StartRecast(n) ==
  /\ ~recast.started
  /\ recast' = [recast EXCEPT !.started = TRUE, !.reported = n]
  /\ UNCHANGED <<rules, terms, termsCopy, standing, backed>>

UpdateReported(n) ==
  /\ recast.started
  /\ recast' = [recast EXCEPT !.reported = n]
  /\ UNCHANGED <<rules, terms, termsCopy, standing, backed>>

(* An add-back is added, judged anew, or removed.                            *)
SetAddback(b, judgement) ==
  /\ recast.started
  /\ recast' = [recast EXCEPT !.addbacks[b] = judgement]
  /\ UNCHANGED <<rules, terms, termsCopy, standing, backed>>

(* saveInput upserts the whole row, as the page's copy has it, with one field *)
(* changed: a field saved since that copy was read goes back.                *)
SaveInput(row) ==
  /\ row.override = termsCopy.override \/ row.debt = termsCopy.debt
  /\ terms' = row
  /\ UNCHANGED <<rules, recast, termsCopy, standing, backed>>

ReloadTerms ==
  /\ termsCopy' = terms
  /\ UNCHANGED <<rules, recast, terms, standing, backed>>

(* An assessment is completed, none of its own inputs verified yet or some.   *)
Assessed(tier, n) ==
  /\ standing' = tier
  /\ backed' = n
  /\ UNCHANGED <<rules, recast, terms, termsCopy>>

ValuationNext ==
  \/ \E n \in ReportedEbitda : StartRecast(n) \/ UpdateReported(n)
  \/ \E b \in DOMAIN Amount, j \in Likelihood \cup {"none"} : SetAddback(b, j)
  \/ \E row \in Terms : SaveInput(row)
  \/ ReloadTerms
  \/ \E i \in DOMAIN TierOrder, n \in Backed : Assessed(TierOrder[i], n)

ValuationSpec == ValuationInit /\ [][ValuationNext]_valuationVars

-----------------------------------------------------------------------------
Rank(tier) == CHOOSE i \in DOMAIN TierOrder : TierOrder[i] = tier

(* A business that earns no less, is no less ready, is no less verified and   *)
(* owes no more is worth no less, at the low end too, and leaves its owner no  *)
(* less, across the limits of the size bands, the verification tiers and       *)
(* four roundings, while its multiple comes from the same source; and one that *)
(* reaches Institutional Grade with the same earnings is worth what was        *)
(* promised for it (computeValuation).                                       *)
ImprovementPays ==
  [][/\ terms'.override = terms.override /\ terms'.debt <= terms.debt
     /\ standing # NoTier /\ Rank(standing) <= Rank(standing')
     /\ backed <= backed'
     => \A now \in {Worth}, then \in {Worth'} :
          /\ now.valued /\ 0 <= now.earnings /\ now.earnings <= then.earnings
          /\ now.source = then.source /\ now.source # "market"
          => /\ now.base <= then.base /\ now.low <= then.low /\ now.net <= then.net
             /\ standing' = Target /\ then.earnings = now.earnings
                  => then.base = now.potential /\ then.base - now.base = now.gap
    ]_valuationVars
=============================================================================
