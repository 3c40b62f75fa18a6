----------------------------- MODULE Appraisal -----------------------------
(***************************************************************************)
(* The two engines that price a development: the feasibility study (what   *)
(* is left after building on land of a given price) and the residual       *)
(* valuation (what the land may cost if a profit is to be left).  Each has *)
(* a stack of costs of its own; a state is a set of terms both are given,  *)
(* and a step revises one of them in the studio.                           *)
(*                                                                         *)
(* Areas and money are counted so finely that what matters comes out even  *)
(* (EvenTerms): the engines' rounding of what they show is left out.       *)
(***************************************************************************)
EXTENDS Integers

CONSTANTS
  Terms,  \* what may be entered, by term
  Whole   \* 100 %, in the unit that percentages are entered in

VARIABLE terms

Drafts ==
  [gfaSqm : Terms.gfaSqm, efficiencyPct : Terms.efficiencyPct, salePricePerSqm : Terms.salePricePerSqm,
   constructionCostPerSqm : Terms.constructionCostPerSqm, landCost : Terms.landCost,
   professionalFeesPct : Terms.professionalFeesPct, contingencyPct : Terms.contingencyPct,
   marketingPct : Terms.marketingPct, sellingCostsPct : Terms.sellingCostsPct,
   developmentMonths : Terms.developmentMonths, debtRatioPct : Terms.debtRatioPct,
   financeRatePct : Terms.financeRatePct, requiredProfitOnCostPct : Terms.requiredProfitOnCostPct]

AppraisalTypeOK == terms \in Drafts
-----------------------------------------------------------------------------
Part(amount, pct) == (amount * pct) \div Whole

(* Both engines *)

Nsa(t) == Part(t.gfaSqm, t.efficiencyPct)

Gdv(t) == Nsa(t) * t.salePricePerSqm

HardSoft(t) ==
  LET construction == t.gfaSqm * t.constructionCostPerSqm
      built == construction + Part(construction, t.professionalFeesPct)
  IN  built + Part(built, t.contingencyPct)

Marketing(t) == Part(Gdv(t), t.marketingPct)

SellingCosts(t) == Part(Gdv(t), t.sellingCostsPct)

\* Interest on a debt over the development, 0.6 of it drawn on average.
Interest(t, debt) == (Part(debt, t.financeRatePct) * t.developmentMonths) \div 20
-----------------------------------------------------------------------------
(* computeFeasibility *)

\* Variant: the land is bought without debt.
FinanceOnBuildOnly(t) == Interest(t, Part(HardSoft(t), t.debtRatioPct))

FinanceCost(t) == Interest(t, Part(t.landCost + HardSoft(t), t.debtRatioPct))

NetProfit(t) ==
  Gdv(t) - (t.landCost + HardSoft(t) + Marketing(t) + SellingCosts(t) + FinanceCost(t))

\* Is the price above breakEvenSalePricePerSqm?  The engine divides by what
\* is multiplied here.
AboveBreakEven(t) ==
  t.salePricePerSqm * (Nsa(t) * (Whole - t.marketingPct - t.sellingCostsPct))
    > Whole * (t.landCost + HardSoft(t) + FinanceCost(t))

Times(amount, pct) == (amount * pct) \div 100

Upside(t) ==
  [t EXCEPT !.salePricePerSqm = Times(@, 110), !.constructionCostPerSqm = Times(@, 95)]

Downside(t) ==
  [t EXCEPT !.salePricePerSqm = Times(@, 90), !.constructionCostPerSqm = Times(@, 110),
            !.developmentMonths = @ + 6]
-----------------------------------------------------------------------------
(* computeResidual *)

\* Finance on the build only: the price of the land is the unknown.
NonLandCost(t) ==
  HardSoft(t) + Marketing(t) + SellingCosts(t) + Interest(t, Part(HardSoft(t), t.debtRatioPct))

RequiredProfit(t) == Part(NonLandCost(t), t.requiredProfitOnCostPct)

Residual(t) == Gdv(t) - NonLandCost(t) - RequiredProfit(t)
-----------------------------------------------------------------------------
\* What is sold, what each sale costs, in every scenario, and what the debt on
\* the build costs are whole numbers.
EvenTerms(t) ==
  LET Even(amount, pct) == (amount * pct) % Whole = 0
      debt == Part(HardSoft(t), t.debtRatioPct)
  IN  /\ Even(t.gfaSqm, t.efficiencyPct) /\ t.salePricePerSqm % 10 = 0
      /\ \A s \in {t, Upside(t), Downside(t)} :
           Even(Gdv(s), s.marketingPct) /\ Even(Gdv(s), s.sellingCostsPct)
      /\ Even(HardSoft(t), t.debtRatioPct) /\ Even(debt, t.financeRatePct)
      /\ (Part(debt, t.financeRatePct) * t.developmentMonths) % 20 = 0

TermNames ==
  {"gfaSqm", "efficiencyPct", "salePricePerSqm", "constructionCostPerSqm", "landCost",
   "professionalFeesPct", "contingencyPct", "marketingPct", "sellingCostsPct",
   "developmentMonths", "debtRatioPct", "financeRatePct", "requiredProfitOnCostPct"}

\* What the feasibility study's DTO demands: nothing negative, and something to
\* sell.  The valuation's bounds nothing; its terms here are the same.
ASSUME AppraisalAssumption ==
  /\ Whole \in Nat \ {0}
  /\ Terms \in [TermNames -> (SUBSET Nat) \ {{}}]
  /\ \A term \in {"gfaSqm", "efficiencyPct", "salePricePerSqm"} : 0 \notin Terms[term]
  /\ \A t \in Drafts : EvenTerms(t)

AppraisalInit == terms \in Drafts

\* A term is revised.
Restate(term) == \E v \in Terms[term] : terms' = [terms EXCEPT ![term] = v]

AppraisalNext == \E term \in TermNames : Restate(term)
-----------------------------------------------------------------------------
\* Something is left of every sale.
SellsForMoney(t) == t.marketingPct + t.sellingCostsPct < Whole

\* There is a profit exactly above the break-even price.
BreaksEven(t) == SellsForMoney(t) => (NetProfit(t) > 0 <=> AboveBreakEven(t))

\* The scenarios lie on either side of the base case.
ScenariosBracket(t) ==
  SellsForMoney(t) => NetProfit(Downside(t)) < NetProfit(t) /\ NetProfit(t) < NetProfit(Upside(t))

\* Who pays the residual value for the land has the required profit left,
\* less the interest on the land itself.
ResidualLeavesTheProfit(t) ==
  LET bought == [t EXCEPT !.landCost = Residual(t)]
  IN  NetProfit(bought) = RequiredProfit(t) - Interest(t, Part(Residual(t), t.debtRatioPct))

\* The studies of one development agree with each other: break-even price
\* with profit, scenarios with the base case, the residual value with the
\* feasibility of a purchase at it (computeFeasibility, computeResidual).
EnginesAgree == BreaksEven(terms) /\ ScenariosBracket(terms) /\ ResidualLeavesTheProfit(terms)
=============================================================================
