---------------------------- MODULE MCSideRooms ----------------------------
(***************************************************************************)
(* Six components beside the tender room for TLC, in one run.  They share *)
(* no state, so that a behaviour is one of one of them: focus says of      *)
(* which, and the others stay where they start.                            *)
(***************************************************************************)
EXTENDS WebSession, Consortium, Dossier, Merit, Recommender, Appraisal, TLC

VARIABLE focus

vars == <<webVars, consortiumVars, dossierVars, meritVars, profile, terms, focus>>

(* The instance *)

\* Two requests at a time list the standard folders at most twice.
TwoSeeds == 2

TwoTiers == {1, 2}

FirstTier == 1

\* Three values where there is a middle to be in, two where there is not; a
\* return short of the target; tickets below, inside and above the band.
ValuesStated ==
  [delivery |-> 2..4, experience |-> {2, 4}, irr |-> 2..4, investment |-> 2..4]

MandateSought == [target |-> 4, min |-> 3, max |-> 3]

\* Offers are weighted by their owner, who may enter anything.
WeightsInUse ==
  [bids   |-> {[delivery |-> 3, experience |-> 2]},
   offers |-> {[delivery |-> -1, experience |-> 2], [delivery |-> -1, experience |-> 0]},
   fit    |-> {[irr |-> 10, investment |-> 20]}]

\* Land for nothing, bought, and bought dear; sales that leave nothing, and
\* more debt than the work costs, since neither is refused.  Percentages are
\* coarse, so that every division comes out even.
TermsEntered ==
  [gfaSqm |-> {32}, efficiencyPct |-> {75}, salePricePerSqm |-> {100, 400, 1000},
   constructionCostPerSqm |-> {100, 200}, landCost |-> {0, 4000, 16000},
   professionalFeesPct |-> {0, 50}, contingencyPct |-> {50}, marketingPct |-> {0, 25, 75},
   sellingCostsPct |-> {0, 50}, developmentMonths |-> {20}, debtRatioPct |-> {0, 50, 150},
   financeRatePct |-> {0, 50}, requiredProfitOnCostPct |-> {0, 50}]

\* A third rival matters where rivals meet, in the range they are normalized
\* over: not for the fit, and no more once bids are marked.
ThreeWhereTheyMeet ==
  Cardinality(Field) <= 2 \/ (engine # "fit" /\ \A e \in Field : mark[e] = Silent)

Symmetry ==
  Permutations(Tabs) \cup Permutations(Guests) \cup Permutations(Desks) \cup Permutations(Clerks)
-----------------------------------------------------------------------------
Focuses == {"web", "consortium", "dossier", "merit", "recommender", "appraisal"}

Init ==
  /\ focus \in Focuses
  /\ WebInit /\ ConsortiumInit /\ DossierInit /\ MeritInit
  /\ focus # "dossier" => tier = FirstTier
  /\ focus # "merit" => engine = "fit"
  /\ IF focus = "recommender" THEN RecommenderInit ELSE profile = CHOOSE p \in Profiles : TRUE
  /\ IF focus = "appraisal" THEN AppraisalInit ELSE terms = CHOOSE t \in Drafts : TRUE

Next ==
  \/ /\ focus = "web" /\ WebNext
     /\ UNCHANGED <<consortiumVars, dossierVars, meritVars, profile, terms, focus>>
  \/ /\ focus = "consortium" /\ ConsortiumNext
     /\ UNCHANGED <<webVars, dossierVars, meritVars, profile, terms, focus>>
  \/ /\ focus = "dossier" /\ DossierNext
     /\ UNCHANGED <<webVars, consortiumVars, meritVars, profile, terms, focus>>
  \/ /\ focus = "merit" /\ MeritNext
     /\ UNCHANGED <<webVars, consortiumVars, dossierVars, profile, terms, focus>>
  \/ /\ focus = "recommender" /\ RecommenderNext
     /\ UNCHANGED <<webVars, consortiumVars, dossierVars, meritVars, terms, focus>>
  \/ /\ focus = "appraisal" /\ AppraisalNext
     /\ UNCHANGED <<webVars, consortiumVars, dossierVars, meritVars, profile, focus>>

Spec == Init /\ [][Next]_vars

TypesOK ==
  /\ WebTypeOK /\ ConsortiumTypeOK /\ DossierTypeOK /\ MeritTypeOK
  /\ RecommenderTypeOK /\ AppraisalTypeOK
=============================================================================
