---------------------------- MODULE Recommender ----------------------------
(***************************************************************************)
(* The structure recommender: an owner's answers become weighted wishes,   *)
(* every structure of the library is scored by the wishes it meets, and    *)
(* the best comes first.  A state is a set of answers; a step changes one  *)
(* of them, as the owner does in the studio.                               *)
(***************************************************************************)
EXTENDS Integers, Sequences, FiniteSetsExt

VARIABLE profile

Levels == {"low", "medium", "high"}

\* An answer left out counts as FALSE, as "medium" and as no term.
Answers ==
  [ownerType |-> {"PRIVATE", "SEMI_GOVERNMENT", "GOVERNMENT"}, landOwnershipRetained |-> BOOLEAN,
   financingRequired |-> BOOLEAN, userPay |-> BOOLEAN, governmentPay |-> BOOLEAN,
   revenueCertainty |-> Levels, transferRequired |-> BOOLEAN, longConcession |-> BOOLEAN,
   riskAppetite |-> Levels]

Profiles ==
  [ownerType : Answers.ownerType, landOwnershipRetained : BOOLEAN, financingRequired : BOOLEAN,
   userPay : BOOLEAN, governmentPay : BOOLEAN, revenueCertainty : Levels,
   transferRequired : BOOLEAN, longConcession : BOOLEAN, riskAppetite : Levels]

RecommenderTypeOK == profile \in Profiles
-----------------------------------------------------------------------------
Structure(code, tags) == [code |-> code, tags |-> tags]

STRUCTURE_PROFILES == <<
  Structure("gfa-share-jv", {"private", "owner-retains-title", "sales-revenue", "no-finance", "no-revert"}),
  Structure("jda", {"private", "owner-retains-title", "sales-revenue", "revenue-share", "no-revert"}),
  Structure("gross-revenue-jv", {"private", "owner-retains-title", "revenue-share", "no-revert"}),
  Structure("net-profit-jv", {"private", "equity", "revenue-share", "high-risk"}),
  Structure("spv", {"private", "public", "transfers-title", "equity", "private-finance", "high-risk"}),
  Structure("musataha", {"private", "owner-retains-title", "rent", "reverts", "long-term"}),
  Structure("long-term-lease", {"private", "public", "owner-retains-title", "rent", "reverts", "long-term", "low-risk"}),
  Structure("fixed-land-price", {"private", "transfers-title", "low-risk", "no-revert"}),
  Structure("bot", {"public", "private-finance", "user-pay", "reverts", "long-term", "high-risk"}),
  Structure("boot", {"public", "private-finance", "user-pay", "reverts", "long-term"}),
  Structure("boo", {"public", "private-finance", "user-pay", "no-revert", "high-risk"}),
  Structure("bto", {"public", "private-finance", "reverts", "long-term"}),
  Structure("dbfo", {"public", "private-finance", "government-pay", "reverts", "long-term", "low-risk"}),
  Structure("dbfom", {"public", "private-finance", "government-pay", "reverts", "long-term"}),
  Structure("availability-payment", {"public", "government-pay", "reverts", "low-risk", "long-term"}),
  Structure("concession", {"public", "private-finance", "user-pay", "reverts", "long-term"}),
  Structure("design-build", {"public", "private", "no-finance", "short-term", "low-risk"}),
  Structure("epc", {"public", "private", "no-finance", "short-term", "low-risk"}) >>

Wish(tag, weight, when) == [tag |-> tag, weight |-> weight, when |-> when]

deriveDesires(p) ==
  {d \in {Wish("private", 20, p.ownerType = "PRIVATE"),
          Wish("public", 20, p.ownerType # "PRIVATE"),
          Wish("owner-retains-title", 18, p.landOwnershipRetained),
          Wish("transfers-title", 8, ~p.landOwnershipRetained),
          Wish("private-finance", 15, p.financingRequired),
          Wish("no-finance", 6, ~p.financingRequired),
          Wish("user-pay", 12, p.userPay),
          Wish("government-pay", 12, p.governmentPay),
          Wish("sales-revenue", 10, p.revenueCertainty = "high"),
          Wish("rent", 8, p.revenueCertainty = "low"),
          Wish("reverts", 10, p.transferRequired),
          Wish("no-revert", 6, ~p.transferRequired),
          Wish("long-term", 8, p.longConcession),
          Wish("high-risk", 7, p.riskAppetite = "high"),
          Wish("low-risk", 7, p.riskAppetite = "low")} : d.when}

WeightOf(desires) == MapThenSumSet(LAMBDA d : d.weight, desires)

\* Variant: every wish counts the same.
WishesMet(tags, desires) == (100 * Cardinality({d \in desires : d.tag \in tags})) \div Cardinality(desires)

\* Math.round of the share of the wishes met, in percent.
MatchScore(tags, desires) ==
  LET total == WeightOf(desires)
      raw == WeightOf({d \in desires : d.tag \in tags})
  IN  (200 * raw + total) \div (2 * total)

\* The head of the stable sort by score.
recommended(p) ==
  LET desires == deriveDesires(p)
      score == [i \in DOMAIN STRUCTURE_PROFILES |-> MatchScore(STRUCTURE_PROFILES[i].tags, desires)]
      best == Max({score[i] : i \in DOMAIN score})
  IN  STRUCTURE_PROFILES[Min({i \in DOMAIN score : score[i] = best})]
-----------------------------------------------------------------------------
RecommenderInit == profile \in Profiles

\* The owner changes an answer.
Answer(question) == \E a \in Answers[question] : profile' = [profile EXCEPT ![question] = a]

RecommenderNext == \E question \in DOMAIN Answers : Answer(question)
-----------------------------------------------------------------------------
\* Keeping title and the term of a concession weigh 18 and 8 of some 110
\* points, yet no mix of the other answers makes the recommender's first
\* choice a structure that gives up the title the owner keeps, or a short
\* contract where a concession runs (recommendStructures).
AdviceFitsTitleAndTerm ==
  LET tags == recommended(profile).tags
  IN  /\ profile.landOwnershipRetained => "transfers-title" \notin tags
      /\ profile.longConcession => "short-term" \notin tags
=============================================================================
