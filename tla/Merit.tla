------------------------------- MODULE Merit -------------------------------
(***************************************************************************)
(* The three deterministic scorers that put rivals in order: bids on a     *)
(* tender (evaluateBids), offers on an opportunity (compareOffers) and     *)
(* opportunities for a mandate (scoreFit).  A state is a field of rivals;  *)
(* a step revises, marks or excludes one of them, and the order is         *)
(* computed afresh, as the services do on every request.                   *)
(*                                                                         *)
(* Each scorer is represented by two of its criteria, one of each kind it  *)
(* has.  Numbers are exact: a share of 1 is counted as Unit.               *)
(***************************************************************************)
EXTENDS Integers, FiniteSetsExt

CONSTANTS
  Entrants,  \* rivals, numbered in the order of the list they come in
  Values,    \* what a rival may state, by criterion
  Marks,     \* what the authority may enter for one, 0 to 100 if it keeps to it
  Weights,   \* weightings of criteria in use, by engine
  Mandate,   \* [target, min, max]
  Unit,      \* a share of 1: whole shares are exact where every range divides it
  Silent     \* nothing stated, no mark

VARIABLES engine, weight, stated, mark

meritVars == <<engine, weight, stated, mark>>
-----------------------------------------------------------------------------
\* delivery and experience are criteria of bids and of offers; irr and
\* investment are factors of the fit.
CriteriaOf ==
  [bids |-> <<"delivery", "experience">>, offers |-> <<"delivery", "experience">>,
   fit |-> <<"irr", "investment">>]

CriteriaFor(g) == {CriteriaOf[g][1], CriteriaOf[g][2]}

ASSUME MeritAssumption ==
  /\ Entrants \subseteq Nat /\ Marks \subseteq Int
  /\ \A g \in DOMAIN CriteriaOf :
       /\ \A c \in CriteriaFor(g) : Values[c] \subseteq Int
       /\ Weights[g] \subseteq [CriteriaFor(g) -> Int]
  /\ Mandate \in [target : Int, min : Nat, max : Nat]
  /\ Unit \in Nat \ {0}
  /\ Silent \notin Int

Criteria == CriteriaFor(engine)

\* What a rival may say: a value or nothing for each criterion.
Statements ==
  {f \in [Criteria -> (UNION {Values[c] : c \in Criteria}) \cup {Silent}] :
     \A c \in Criteria : f[c] \in Values[c] \cup {Silent}}

HigherBetter(c) == c # "delivery"

\* The rivals left: drafts, withdrawn and disqualified bids are EXCLUDED.
Field == DOMAIN stated

MeritTypeOK ==
  /\ engine \in DOMAIN CriteriaOf
  /\ weight \in Weights[engine]
  /\ Field \subseteq Entrants
  /\ \A e \in Field : stated[e] \in Statements
  /\ mark \in [Field -> Marks \cup {Silent}]
-----------------------------------------------------------------------------
(* Shares *)

Share(n, d) == (Unit * n) \div d

Stated(c) == {stated[e][c] : e \in Field} \ {Silent}

\* Variant: the best in the set.
Best(c) == IF HigherBetter(c) THEN Max(Stated(c)) ELSE Min(Stated(c))

\* A missing value counts as the worst in the set.
Worst(c) == IF HigherBetter(c) THEN Min(Stated(c)) ELSE Max(Stated(c))

\* Variant: more is better.
UndirectedShare(c, v) ==
  LET min == Min(Stated(c))
      max == Max(Stated(c))
  IN  IF max = min THEN Share(1, 2) ELSE Share(v - min, max - min)

\* Min-max normalization across the field.
NormalizedShare(c, v) ==
  LET min == Min(Stated(c))
      max == Max(Stated(c))
  IN  IF max = min THEN Share(1, 2)
      ELSE IF HigherBetter(c) THEN Share(v - min, max - min) ELSE Share(max - v, max - min)

ObjectiveShare(e, c) == NormalizedShare(c, IF stated[e][c] = Silent THEN Worst(c) ELSE stated[e][c])

\* evaluateBids: a mark wins, clamped; what nobody states is unscored.
\* Marks are on experience here.
Marked(e, c) == c = "experience" /\ mark[e] # Silent

BidShare(e, c) ==
  IF Marked(e, c) THEN Share(Min({100, Max({0, mark[e]})}), 100)
  ELSE IF Stated(c) = {} THEN 0 ELSE ObjectiveShare(e, c)

\* compareOffers: what nobody states is neutral.
OfferShare(e, c) == IF Stated(c) = {} THEN Share(1, 2) ELSE ObjectiveShare(e, c)

\* scoreFit: a return short of the target counts in proportion.
IrrShare(irr) ==
  IF Mandate.target <= 0 \/ irr >= Mandate.target THEN Unit
  ELSE Max({0, Share(irr, Mandate.target)})

\* A ticket outside the band counts less, and nothing from half of the
\* nearest bound away.
TicketShare(ticket) ==
  LET bound == IF ticket < Mandate.min THEN Mandate.min ELSE Mandate.max
      distance == IF ticket < bound THEN bound - ticket ELSE ticket - bound
  IN  IF ticket \in Mandate.min..Mandate.max THEN Unit
      ELSE IF 2 * distance >= bound THEN 0 ELSE Unit - Share(2 * distance, bound)

FitShare(e, c) ==
  IF stated[e][c] = Silent THEN 0
  ELSE IF c = "irr" THEN IrrShare(stated[e][c]) ELSE TicketShare(stated[e][c])
-----------------------------------------------------------------------------
(* Scores and order *)

SumOver(f) == f[CriteriaOf[engine][1]] + f[CriteriaOf[engine][2]]

\* Math.round of the weighted mean, in percent.
Percent(w, share) ==
  LET total == SumOver(w)
      sum == SumOver([c \in Criteria |-> w[c] * share[c]])
  IN  IF total > 0 THEN (200 * sum + total * Unit) \div (2 * total * Unit) ELSE 0

AtLeastZero(w) == Max({0, w})

\* resolveWeights: the default weights when the owner's come to nothing.
DefaultWeight(c) == 15

OfferWeight(c) ==
  IF \A d \in Criteria : weight[d] <= 0 THEN DefaultWeight(c) ELSE AtLeastZero(weight[c])

\* What the listing does not state is left out.
FitWeight(e, c) == IF stated[e][c] = Silent THEN 0 ELSE IF c = "irr" THEN 10 ELSE 20

WeightOn(e, c) ==
  CASE engine = "bids"   -> AtLeastZero(weight[c])
    [] engine = "offers" -> OfferWeight(c)
    [] engine = "fit"    -> FitWeight(e, c)

ShareOn(e, c) ==
  CASE engine = "bids"   -> BidShare(e, c)
    [] engine = "offers" -> OfferShare(e, c)
    [] engine = "fit"    -> FitShare(e, c)

Score(e) == Percent([c \in Criteria |-> WeightOn(e, c)], [c \in Criteria |-> ShareOn(e, c)])

\* The place a rival comes out in.  The sort is stable: of equal scores the
\* one listed first comes first.
Rank(e) ==
  LET score == Score(e)
      Ahead(r, other) == other > score \/ (other = score /\ r < e)
  IN  1 + Cardinality({r \in Field \ {e} : Ahead(r, Score(r))})
-----------------------------------------------------------------------------
MeritInit ==
  /\ engine \in DOMAIN CriteriaOf
  /\ weight \in Weights[engine]
  /\ stated = <<>>
  /\ mark = <<>>

\* A bid, an offer or a listing comes in.
Enter(e) ==
  /\ e \notin Field
  /\ \E f \in Statements : stated' = [r \in Field \cup {e} |-> IF r = e THEN f ELSE stated[r]]
  /\ mark' = [r \in Field \cup {e} |-> IF r = e THEN Silent ELSE mark[r]]
  /\ UNCHANGED <<engine, weight>>

\* A bid, an offer or a listing is edited.
Revise(e) ==
  /\ \E c \in Criteria : \E v \in Values[c] \cup {Silent} : stated' = [stated EXCEPT ![e][c] = v]
  /\ UNCHANGED <<engine, weight, mark>>

\* The authority enters a score of its own.
Mark(e) ==
  /\ engine = "bids"
  /\ \E m \in Marks \cup {Silent} : mark' = [mark EXCEPT ![e] = m]
  /\ UNCHANGED <<engine, weight, stated>>

\* Variant: the mark outlives the bid it was for.
ExcludeKeepingMark(e) ==
  /\ stated' = [r \in Field \ {e} |-> stated[r]]
  /\ UNCHANGED <<engine, weight, mark>>

\* A rival withdraws, is disqualified or taken off the market.
Exclude(e) ==
  /\ stated' = [r \in Field \ {e} |-> stated[r]]
  /\ mark' = [r \in Field \ {e} |-> mark[r]]
  /\ UNCHANGED <<engine, weight>>

MeritNext ==
  \/ \E e \in Entrants : Enter(e)
  \/ \E e \in Field : Revise(e) \/ Mark(e) \/ Exclude(e)

MeritSpec == MeritInit /\ [][MeritNext]_meritVars
-----------------------------------------------------------------------------
\* Of two values stated for a criterion, is v as good as w?
AsGoodValue(c, v, w) ==
  CASE c = "delivery"   -> v <= w
    [] c = "experience" -> v >= w
    [] c = "irr"        -> v >= w
    [] c = "investment" -> TicketShare(v) >= TicketShare(w)

\* Is e as good as r on c?  A bid or an offer that is silent is the worst; a
\* listing that is silent is not compared with one that is not; a mark is
\* compared with a mark.
AsGood(e, r, c) ==
  LET v == stated[e][c]
      w == stated[r][c]
  IN  IF Marked(e, c) \/ Marked(r, c)
        THEN Marked(e, c) /\ Marked(r, c) /\ mark[e] >= mark[r]
        ELSE \/ v = w
             \/ w = Silent /\ engine # "fit"
             \/ v # Silent /\ w # Silent /\ AsGoodValue(c, v, w)

\* Who is as good on every criterion never scores less, whatever the field,
\* the weights, the gaps and the marks (evaluateBids, compareOffers,
\* scoreFit).
MeritIsRewarded ==
  LET score == [e \in Field |-> Score(e)]
  IN  \A e, r \in Field : (\A c \in Criteria : AsGood(e, r, c)) => score[e] >= score[r]

\* Does this step only better what e states or is given?  What a mark has
\* superseded does not count for e any more, but still moves the range.
Betters(e) ==
  /\ Field' = Field
  /\ \A r \in Field \ {e} : stated'[r] = stated[r] /\ mark'[r] = mark[r]
  /\ Marked(e, "experience") <=> Marked(e, "experience")'
  /\ Marked(e, "experience") => mark'[e] >= mark[e]
  /\ \A c \in Criteria :
       LET v == stated[e][c]
           w == stated'[e][c]
       IN  v = w \/ (~Marked(e, c) /\ v # Silent /\ w # Silent /\ AsGoodValue(c, w, v))

\* All who state anything of c state the same: it counts one half for
\* everyone, also for who is silent on it.
Level(c) == Stated(c) # {} /\ Min(Stated(c)) = Max(Stated(c))

\* Does the step make c level, with a rival of e silent on it?
LevelsWithTheSilent(e, c) ==
  /\ Level(c)' /\ ~Level(c)
  /\ \E r \in Field \ {e} : stated[r][c] = Silent /\ ~Marked(r, c)

\* Nobody falls behind by bettering their own terms, although that moves the
\* range every rival is measured against (evaluateBids, compareOffers) - but
\* by drawing level with all others on what a rival is silent on, which lifts
\* that rival from nothing to one half, over a point lost in rounding.
OwnGainNeverCostsRank ==
  [][\A e \in Field :
       Betters(e) /\ (\A c \in Criteria : ~LevelsWithTheSilent(e, c)) => Rank(e)' <= Rank(e)]_<<stated, mark>>
=============================================================================
