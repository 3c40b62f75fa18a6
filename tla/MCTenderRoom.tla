--------------------------- MODULE MCTenderRoom ---------------------------
(* TenderRoom for TLC: bidders and handlers are interchangeable. *)
EXTENDS TenderRoom, TLC

\* For runs that ask nothing of early, of the criteria or of the times of
\* submission: states that differ in these only have the same futures, and
\* so do states that differ in the checklist of a bid past its draft.
CallView(c) ==
  CASE c.op = "list"         -> [op |-> "list"]
    [] c.op = "updateTender" -> [op |-> "updateTender", deadline |-> c.deadline]
    [] c.op = "submit"       -> [op |-> "submit", bid |-> c.bid]
    [] OTHER                 -> c

View ==
  <<stage, deadline, published, deleted, status,
    {b \in Bidders : status[b] = "DRAFT" /\ ready[b]},
    {b \in Bidders : submittedAt[b] # Null},
    [h \in Handlers |-> CallView(call[h])], now, named>>

Symmetry == Permutations(Bidders) \cup Permutations(Handlers)

\* Liveness starts where bids are submitted and the tender is being judged;
\* without a deadline bids can still be withdrawn and edited.
EvaluationInit ==
  /\ stage = "UNDER_EVALUATION"
  /\ deadline \in {1, Null}
  /\ published = TRUE
  /\ deleted = FALSE
  /\ criteria \in Criteria
  /\ status = [b \in Bidders |-> "SUBMITTED"]
  /\ submittedAt = [b \in Bidders |-> 1]
  /\ ready = [b \in Bidders |-> TRUE]
  /\ call = [h \in Handlers |-> Idle]
  /\ now = 1
  /\ named = {}
  /\ early = {}

LiveSpec == EvaluationInit /\ [][Next]_vars /\ \A h \in Handlers : WF_vars(Resume(h))
=============================================================================
