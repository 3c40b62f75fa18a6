---------------------------- MODULE TenderRoom ----------------------------
(***************************************************************************)
(* One tender and the bids on it: TendersService and BidsService.          *)
(*                                                                         *)
(* Every handler of the two services awaits one read, checks it without    *)
(* yielding, and then awaits one or more unconditional writes by id; there *)
(* is no transaction around them.  A handler is therefore split at its     *)
(* awaits: an action that reads and checks and leaves the coming write in  *)
(* call[h], and an action per write.  Between the two, every other handler *)
(* in flight may run.  One handler is a server that finishes each request  *)
(* before the next; two or more handlers are concurrent requests.          *)
(*                                                                         *)
(* An operator marked "Variant" is a plausible bug in the operator after   *)
(* it, kept to show which property would find it.                          *)
(***************************************************************************)
EXTENDS Naturals

CONSTANTS
  Bidders,    \* users who may bid; the publishing authority is not one of them
  Handlers,   \* slots for requests in flight
  Criteria,   \* versions of the evaluation criteria
  MaxTime,    \* the clock stops here
  MayFail,    \* may a request fail between two awaits?
  Null,       \* a date that is not set
  Undefined   \* a field the request leaves out

Time == 1..MaxTime
Deadlines == 1..(MaxTime + 1) \cup {Null}

ASSUME TenderRoomAssumption ==
  /\ MaxTime \in Nat \ {0}
  /\ MayFail \in BOOLEAN
  /\ Null \notin Nat
  /\ Undefined \notin Deadlines \cup Criteria

VARIABLES
  \* the tender row
  stage, deadline, published, deleted, criteria,
  \* the bid rows, one per bidder (unique on tenderId and bidderId)
  status, submittedAt, ready,
  \* requests in flight, and the clock they read
  call, now,
  \* history: bids ever named preferred bidder, and bids whose envelope the
  \* authority was shown while the submission deadline lay ahead
  named, early

tenderVars == <<stage, deadline, published, deleted, criteria>>
bidVars == <<status, submittedAt, ready>>
history == <<named, early>>
vars == <<tenderVars, bidVars, call, now, history>>
-----------------------------------------------------------------------------
Stages == {"DRAFT", "PUBLISHED", "CLARIFICATION", "SUBMISSION_CLOSED",
           "UNDER_EVALUATION", "PREFERRED_BIDDER", "FINANCIAL_CLOSE", "CANCELLED"}

\* The legal moves of a tender's stage.
AllowedTransitions ==
  [s \in Stages |->
     CASE s = "DRAFT"             -> {"PUBLISHED", "CANCELLED"}
       [] s = "PUBLISHED"         -> {"CLARIFICATION", "SUBMISSION_CLOSED", "CANCELLED"}
       [] s = "CLARIFICATION"     -> {"SUBMISSION_CLOSED", "CANCELLED"}
       [] s = "SUBMISSION_CLOSED" -> {"UNDER_EVALUATION", "CANCELLED"}
       [] s = "UNDER_EVALUATION"  -> {"PREFERRED_BIDDER", "CANCELLED"}
       [] s = "PREFERRED_BIDDER"  -> {"FINANCIAL_CLOSE", "CANCELLED"}
       [] OTHER                   -> {}]

AmendableStages == {"DRAFT", "PUBLISHED", "CLARIFICATION"}
OpenStages == {"PUBLISHED", "CLARIFICATION"}

\* BidStatus; EVALUATED is in the enumeration but nothing ever writes it.
\* ABSENT stands for a bidder who has no bid.
Statuses == {"ABSENT", "DRAFT", "SUBMITTED", "EVALUATED", "WITHDRAWN",
             "DISQUALIFIED", "PREFERRED", "UNSUCCESSFUL"}
Closed == {"WITHDRAWN", "DISQUALIFIED"}

\* The submission deadline as two helpers of BidsService read it.
IsSealed(d) == d # Null /\ d > now
DeadlinePassed(d) == d # Null /\ d <= now

Idle == [op |-> "idle"]

\* What a handler still has to do once its reads and checks are behind it.
Calls ==
  {Idle}
    \cup [op : {"updateTender"}, deadline : Deadlines \cup {Undefined},
          criteria : Criteria \cup {Undefined}]
    \cup [op : {"setStage"}, to : Stages]
    \cup [op : {"remove", "financialClose", "evaluate"}]
    \cup [op : {"create", "update"}, bid : Bidders, ready : BOOLEAN]
    \cup [op : {"submit"}, bid : Bidders, at : Time]
    \cup [op : {"withdraw", "disqualify"}, bid : Bidders]
    \cup [op : {"list"}, deadline : Deadlines]
    \cup [op : {"award", "name", "reject", "close"}, bid : Bidders]

TypeOK ==
  /\ stage \in Stages
  /\ deadline \in Deadlines
  /\ published \in BOOLEAN
  /\ deleted \in BOOLEAN
  /\ criteria \in Criteria
  /\ status \in [Bidders -> Statuses]
  /\ submittedAt \in [Bidders -> Time \cup {Null}]
  /\ ready \in [Bidders -> BOOLEAN]
  /\ call \in [Handlers -> Calls]
  /\ now \in Time
  /\ named \subseteq Bidders
  /\ early \subseteq Bidders

\* TendersService.create: a draft with whatever deadline and criteria came in.
Init ==
  /\ stage = "DRAFT"
  /\ deadline \in Deadlines
  /\ published = FALSE
  /\ deleted = FALSE
  /\ criteria \in Criteria
  /\ status = [b \in Bidders |-> "ABSENT"]
  /\ submittedAt = [b \in Bidders |-> Null]
  /\ ready = [b \in Bidders |-> FALSE]
  /\ call = [h \in Handlers |-> Idle]
  /\ now = 1
  /\ named = {}
  /\ early = {}
-----------------------------------------------------------------------------
(* A free handler takes a request and stops at its next await; a handler   *)
(* goes on to a later await; a handler answers.                            *)
Await(h, c) ==
  /\ call[h] = Idle
  /\ call' = [call EXCEPT ![h] = c]
  /\ UNCHANGED <<tenderVars, bidVars, now, history>>

Continue(h, op) == call' = [call EXCEPT ![h].op = op]

Answer(h) == call' = [call EXCEPT ![h] = Idle]

\* The authority is shown the envelopes of these bids.
Show(bs) == early' = IF IsSealed(deadline) THEN early \cup bs ELSE early
-----------------------------------------------------------------------------
(* TendersService *)

\* update: reads and checks.  The request may carry any deadline, past or
\* null, any criteria, or leave either out.
UpdateTender(h) ==
  /\ ~deleted
  /\ stage \in AmendableStages
  /\ \E d \in Deadlines \cup {Undefined}, c \in Criteria \cup {Undefined} :
       Await(h, [op |-> "updateTender", deadline |-> d, criteria |-> c])

\* Variant: a field the request leaves out is written all the same.
OverwriteTender(h) ==
  /\ call[h].op = "updateTender"
  /\ deadline' = call[h].deadline
  /\ criteria' = call[h].criteria
  /\ Answer(h)
  /\ UNCHANGED <<stage, published, deleted, bidVars, now, history>>

UpdateTenderWrite(h) ==
  /\ call[h].op = "updateTender"
  /\ deadline' = IF call[h].deadline = Undefined THEN deadline ELSE call[h].deadline
  /\ criteria' = IF call[h].criteria = Undefined THEN criteria ELSE call[h].criteria
  /\ Answer(h)
  /\ UNCHANGED <<stage, published, deleted, bidVars, now, history>>

\* setStage: publishing needs a deadline in the future.
SetStage(h) ==
  /\ ~deleted
  /\ \E to \in AllowedTransitions[stage] :
       /\ to = "PUBLISHED" => IsSealed(deadline)
       /\ Await(h, [op |-> "setStage", to |-> to])

SetStageWrite(h) ==
  /\ call[h].op = "setStage"
  /\ stage' = call[h].to
  /\ published' = (published \/ call[h].to = "PUBLISHED")
  /\ Answer(h)
  /\ UNCHANGED <<deadline, deleted, criteria, bidVars, now, history>>

\* Variant: a tender can be deleted in any stage.
RemoveInAnyStage(h) == ~deleted /\ Await(h, [op |-> "remove"])

\* remove: only a draft, by soft deletion.
Remove(h) ==
  /\ ~deleted
  /\ stage = "DRAFT"
  /\ Await(h, [op |-> "remove"])

RemoveWrite(h) ==
  /\ call[h].op = "remove"
  /\ deleted' = TRUE
  /\ Answer(h)
  /\ UNCHANGED <<stage, deadline, published, criteria, bidVars, now, history>>
-----------------------------------------------------------------------------
(* BidsService, for the bidder.  Only creation looks at deletedAt: the      *)
(* other handlers find the bid and take the tender along.                  *)

\* create: the tender must be open and its deadline not passed.
CreateBid(h, b) ==
  /\ ~deleted
  /\ stage \in OpenStages
  /\ ~DeadlinePassed(deadline)
  /\ \E r \in BOOLEAN : Await(h, [op |-> "create", bid |-> b, ready |-> r])

\* Variant: a second creation starts the bid again, as an upsert would.
UpsertBid(h) ==
  /\ call[h].op = "create"
  /\ status' = [status EXCEPT ![call[h].bid] = "DRAFT"]
  /\ ready' = [ready EXCEPT ![call[h].bid] = call[h].ready]
  /\ Answer(h)
  /\ UNCHANGED <<tenderVars, submittedAt, now, history>>

\* The insertion, or the unique constraint's refusal of a second bid.  The
\* handler's own look for an existing bid comes before it and refuses no
\* more than the constraint does, bids never being deleted.
CreateBidWrite(h) ==
  /\ call[h].op = "create"
  /\ LET b == call[h].bid IN
     IF status[b] = "ABSENT"
       THEN /\ status' = [status EXCEPT ![b] = "DRAFT"]
            /\ ready' = [ready EXCEPT ![b] = call[h].ready]
            /\ UNCHANGED submittedAt
       ELSE UNCHANGED bidVars
  /\ Answer(h)
  /\ UNCHANGED <<tenderVars, now, history>>

\* update: the stage is not looked at.
UpdateBid(h, b) ==
  /\ status[b] \in {"DRAFT", "SUBMITTED"}
  /\ ~DeadlinePassed(deadline)
  /\ \E r \in BOOLEAN : Await(h, [op |-> "update", bid |-> b, ready |-> r])

UpdateBidWrite(h) ==
  /\ call[h].op = "update"
  /\ ready' = [ready EXCEPT ![call[h].bid] = call[h].ready]
  /\ Answer(h)
  /\ UNCHANGED <<tenderVars, status, submittedAt, now, history>>

\* Variant: the security and the checklist are not asked for.
SubmitUnready(h, b) ==
  /\ status[b] = "DRAFT"
  /\ stage \in OpenStages
  /\ ~DeadlinePassed(deadline)
  /\ Await(h, [op |-> "submit", bid |-> b, at |-> now])

\* submit: ready is bidSecurityProvided and checklistComplete.  The time of
\* submission is taken with the checks, before the write is sent.
Submit(h, b) ==
  /\ status[b] = "DRAFT"
  /\ stage \in OpenStages
  /\ ~DeadlinePassed(deadline)
  /\ ready[b]
  /\ Await(h, [op |-> "submit", bid |-> b, at |-> now])

SubmitWrite(h) ==
  /\ call[h].op = "submit"
  /\ status' = [status EXCEPT ![call[h].bid] = "SUBMITTED"]
  /\ submittedAt' = [submittedAt EXCEPT ![call[h].bid] = call[h].at]
  /\ Answer(h)
  /\ UNCHANGED <<tenderVars, ready, now, history>>

\* withdraw: neither the stage nor an award stands in its way.
Withdraw(h, b) ==
  /\ status[b] \notin Closed \cup {"ABSENT"}
  /\ ~DeadlinePassed(deadline)
  /\ Await(h, [op |-> "withdraw", bid |-> b])

WithdrawWrite(h) ==
  /\ call[h].op = "withdraw"
  /\ status' = [status EXCEPT ![call[h].bid] = "WITHDRAWN"]
  /\ Answer(h)
  /\ UNCHANGED <<tenderVars, submittedAt, ready, now, history>>
-----------------------------------------------------------------------------
(* BidsService, for the authority *)

\* listForTender: the tender is read first, the bids next, and the seal is
\* judged last, by the deadline read first.
ListBids(h) ==
  /\ ~deleted
  /\ Await(h, [op |-> "list", deadline |-> deadline])

ListBidsReply(h) ==
  /\ call[h].op = "list"
  /\ IF IsSealed(call[h].deadline)
       THEN UNCHANGED early
       ELSE Show({b \in Bidders : status[b] # "ABSENT"})
  /\ Answer(h)
  /\ UNCHANGED <<tenderVars, bidVars, now, named>>

\* Variant: the seal is not judged.
EvaluateSealed(h) == ~deleted /\ Await(h, [op |-> "evaluate"])

\* evaluate: the seal is judged before the bids are read; the ranking shows
\* how the bids in the field compare.
Evaluate(h) ==
  /\ ~deleted
  /\ ~IsSealed(deadline)
  /\ Await(h, [op |-> "evaluate"])

EvaluateReply(h) ==
  /\ call[h].op = "evaluate"
  /\ Show({b \in Bidders : status[b] \notin Closed \cup {"ABSENT", "DRAFT"}})
  /\ Answer(h)
  /\ UNCHANGED <<tenderVars, bidVars, now, named>>

\* disqualify: whatever the stage, the status and the seal; the answer
\* carries the envelope.
Disqualify(h, b) ==
  /\ status[b] # "ABSENT"
  /\ Await(h, [op |-> "disqualify", bid |-> b])

DisqualifyWrite(h) ==
  /\ call[h].op = "disqualify"
  /\ status' = [status EXCEPT ![call[h].bid] = "DISQUALIFIED"]
  /\ Show({call[h].bid})
  /\ Answer(h)
  /\ UNCHANGED <<tenderVars, submittedAt, ready, now, named>>

\* award: the tender is read and its seal judged, then the bid is read, then
\* come three writes.  The tender's stage is not looked at.
Award(h, b) ==
  /\ ~deleted
  /\ ~IsSealed(deadline)
  /\ Await(h, [op |-> "award", bid |-> b])

\* Variant: whatever bid the request names is awarded.
AwardAnyBid(h) ==
  /\ call[h].op = "award"
  /\ Continue(h, "name")
  /\ UNCHANGED <<tenderVars, bidVars, now, history>>

AwardReadBid(h) ==
  /\ call[h].op = "award"
  /\ IF status[call[h].bid] \in Closed \cup {"ABSENT"}
       THEN Answer(h)
       ELSE Continue(h, "name")
  /\ UNCHANGED <<tenderVars, bidVars, now, history>>

NamePreferred(h) ==
  /\ call[h].op = "name"
  /\ status' = [status EXCEPT ![call[h].bid] = "PREFERRED"]
  /\ named' = named \cup {call[h].bid}
  /\ Continue(h, "reject")
  /\ UNCHANGED <<tenderVars, submittedAt, ready, now, early>>

\* Variant: the others lose whatever their status.
MarkAllOthers(h) ==
  /\ call[h].op = "reject"
  /\ status' = [b \in Bidders |->
                  IF b # call[h].bid /\ status[b] # "ABSENT" THEN "UNSUCCESSFUL" ELSE status[b]]
  /\ Continue(h, "close")
  /\ UNCHANGED <<tenderVars, submittedAt, ready, now, history>>

\* Variant: only evaluated bids are taken for live ones.
MarkEvaluatedOthers(h) ==
  /\ call[h].op = "reject"
  /\ status' = [b \in Bidders |->
                  IF b # call[h].bid /\ status[b] = "EVALUATED" THEN "UNSUCCESSFUL" ELSE status[b]]
  /\ Continue(h, "close")
  /\ UNCHANGED <<tenderVars, submittedAt, ready, now, history>>

MarkOthersUnsuccessful(h) ==
  /\ call[h].op = "reject"
  /\ status' = [b \in Bidders |->
                  IF b # call[h].bid /\ status[b] \in {"SUBMITTED", "EVALUATED"}
                    THEN "UNSUCCESSFUL"
                    ELSE status[b]]
  /\ Continue(h, "close")
  /\ UNCHANGED <<tenderVars, submittedAt, ready, now, history>>

\* Variant: the wrong one of the stages the repository accepts.
SetEvaluationStage(h) ==
  /\ call[h].op = "close"
  /\ stage' = "UNDER_EVALUATION"
  /\ Show({call[h].bid})
  /\ Answer(h)
  /\ UNCHANGED <<deadline, published, deleted, criteria, bidVars, now, named>>

SetPreferredStage(h) ==
  /\ call[h].op = "close"
  /\ stage' = "PREFERRED_BIDDER"
  /\ Show({call[h].bid})
  /\ Answer(h)
  /\ UNCHANGED <<deadline, published, deleted, criteria, bidVars, now, named>>

\* Variant: the stage is not looked at.
FinancialCloseAnyStage(h) == ~deleted /\ Await(h, [op |-> "financialClose"])

\* financialClose: looks at the stage, not for a preferred bid.
FinancialClose(h) ==
  /\ ~deleted
  /\ stage = "PREFERRED_BIDDER"
  /\ Await(h, [op |-> "financialClose"])

FinancialCloseWrite(h) ==
  /\ call[h].op = "financialClose"
  /\ stage' = "FINANCIAL_CLOSE"
  /\ Answer(h)
  /\ UNCHANGED <<deadline, published, deleted, criteria, bidVars, now, history>>
-----------------------------------------------------------------------------
\* A query is rejected or the process restarts: what the handler has already
\* written stays, the rest is lost.
Fail(h) ==
  /\ MayFail
  /\ call[h] # Idle
  /\ Answer(h)
  /\ UNCHANGED <<tenderVars, bidVars, now, history>>

Tick ==
  /\ now < MaxTime
  /\ now' = now + 1
  /\ UNCHANGED <<tenderVars, bidVars, call, history>>

Request(h) ==
  \/ UpdateTender(h) \/ SetStage(h) \/ Remove(h)
  \/ ListBids(h) \/ Evaluate(h) \/ FinancialClose(h)
  \/ \E b \in Bidders :
       \/ CreateBid(h, b) \/ UpdateBid(h, b) \/ Submit(h, b) \/ Withdraw(h, b)
       \/ Disqualify(h, b) \/ Award(h, b)

Resume(h) ==
  \/ UpdateTenderWrite(h) \/ SetStageWrite(h) \/ RemoveWrite(h)
  \/ CreateBidWrite(h) \/ UpdateBidWrite(h) \/ SubmitWrite(h) \/ WithdrawWrite(h)
  \/ ListBidsReply(h) \/ EvaluateReply(h) \/ DisqualifyWrite(h)
  \/ AwardReadBid(h) \/ NamePreferred(h) \/ MarkOthersUnsuccessful(h)
  \/ SetPreferredStage(h) \/ FinancialCloseWrite(h)

Next == Tick \/ \E h \in Handlers : Request(h) \/ Resume(h) \/ Fail(h)

Spec == Init /\ [][Next]_vars

\* The event loop resumes every handler whose query was answered.
FairSpec == Spec /\ \A h \in Handlers : WF_vars(Resume(h))
-----------------------------------------------------------------------------
(* What holds however requests interleave and fail *)

\* A bid exists only on a tender that was published: neither a create that
\* raced a stage change nor a cancelled draft leaves one on an unpublished
\* tender (BidsService.create, OPEN_STAGES).
BidsFollowPublication == \A b \in Bidders : status[b] # "ABSENT" => published

\* A bid is marked unsuccessful only if it was submitted and only after some
\* other bid was named (BidsService.award and markOthersUnsuccessful): no
\* crash between the writes, and no second award, loses a bid to nobody.
LosersHaveAWinner ==
  \A b \in Bidders : status[b] = "UNSUCCESSFUL" =>
    submittedAt[b] # Null /\ named \ {b} # {}

\* What a parked write relies on: the row it will touch is there, the
\* publication it follows has happened, and the bid it rejects the others
\* for was named.
Founded(c) ==
  /\ c.op = "setStage" /\ c.to \notin {"PUBLISHED", "CANCELLED"} => published
  /\ c.op \in {"create", "financialClose"} => published
  /\ c.op \in {"update", "submit", "withdraw", "disqualify", "name", "reject", "close"}
       => status[c.bid] # "ABSENT"
  /\ c.op \in {"reject", "close"} => c.bid \in named

\* What makes the two above inductive, checked by TLC before it is proved.
Inductive ==
  /\ \A h \in Handlers : Founded(call[h])
  /\ stage \notin {"DRAFT", "CANCELLED"} => published
  /\ \A b \in Bidders :
       /\ status[b] # "EVALUATED"
       /\ status[b] = "SUBMITTED" => submittedAt[b] # Null
  /\ BidsFollowPublication
  /\ LosersHaveAWinner

-----------------------------------------------------------------------------
(* What holds of a server that finishes each request before the next *)

\* A withdrawn or disqualified bid never takes part again: no later call of
\* submit, update or award brings it back (BidsService).
StaysClosed(b) ==
  status[b] \in {"WITHDRAWN", "DISQUALIFIED"} => status'[b] \in {"WITHDRAWN", "DISQUALIFIED"}

ClosedBidsStayClosed == [][\A b \in Bidders : StaysClosed(b)]_status

\* A bid counts as submitted only on an open tender, with its security and
\* checklist in place, at a time before the deadline in force, even when the
\* deadline passes between the check and the write (BidsService.submit).
InGoodOrder(b) ==
  status[b] # "SUBMITTED" /\ status'[b] = "SUBMITTED" =>
    /\ stage \in {"PUBLISHED", "CLARIFICATION"}
    /\ ready[b]
    /\ deadline # Null => submittedAt'[b] < deadline

SubmittedInGoodOrder == [][\A b \in Bidders : InGoodOrder(b)]_status

\* Apart from the authority's own legal moves, a tender reaches the stage of
\* a preferred bidder only when one was named and no submitted bid was left
\* undecided (TendersService.setStage, BidsService.award).
MovesByRule ==
  \/ stage' \in AllowedTransitions[stage]
  \/ /\ stage' = "PREFERRED_BIDDER"
     /\ \E w \in Bidders : status[w] = "PREFERRED"
     /\ \A b \in Bidders : status[b] # "SUBMITTED"

StageMovesByRule == [][MovesByRule]_stage

\* Only a draft can be deleted, so a deleted tender has no bids to strand
\* (TendersService.remove).
NoBidOnDeletedTender == deleted => \A b \in Bidders : status[b] = "ABSENT"

\* While its deadline lies ahead the only envelope the authority is shown is
\* one it disqualifies, which is then out for good: neither list, evaluate
\* nor award opens one early (BidsService, the sealed view).
OpenedEarlyOnlyByDisqualifying ==
  early \subseteq {b \in Bidders : status[b] = "DISQUALIFIED"}

\* What a handler read is still so when its write comes, the clock aside.
Fresh(c) ==
  /\ c.op = "setStage" => c.to \in AllowedTransitions[stage]
  /\ c.op = "remove" => stage = "DRAFT"
  /\ c.op = "create" => ~deleted
  /\ c.op = "submit" =>
       /\ status[c.bid] = "DRAFT"
       /\ ready[c.bid]
       /\ stage \in {"PUBLISHED", "CLARIFICATION"}
       /\ deadline # Null => c.at < deadline
  /\ c.op = "list" => c.deadline = deadline
  /\ c.op \in {"evaluate", "award", "name", "reject", "close"} => ~IsSealed(deadline)
  /\ c.op \in {"withdraw", "name"} => status[c.bid] \notin {"WITHDRAWN", "DISQUALIFIED", "ABSENT"}
  /\ c.op \in {"reject", "close"} => status[c.bid] = "PREFERRED"
  /\ c.op = "close" => \A b \in Bidders : status[b] # "SUBMITTED"
  /\ c.op = "financialClose" => stage = "PREFERRED_BIDDER"

\* The inductive invariant of a server without overlapping requests.
Serial ==
  /\ \A h \in Handlers : Fresh(call[h])
  /\ stage = "DRAFT" => ~published
  /\ NoBidOnDeletedTender
  /\ OpenedEarlyOnlyByDisqualifying

\* A bid's status as the abstract book of AwardBook sees it.
Standing(s) ==
  CASE s = "ABSENT"                     -> "none"
    [] s = "DRAFT"                      -> "private"
    [] s \in {"SUBMITTED", "EVALUATED"} -> "live"
    [] s \in {"WITHDRAWN", "DISQUALIFIED"} -> "closed"
    [] s = "PREFERRED"                  -> "won"
    [] OTHER                            -> "lost"

Book == INSTANCE AwardBook
          WITH open <- published, book <- [b \in Bidders |-> Standing(status[b])]

\* The two services keep the promises of AwardBook, whatever fails, as long
\* as requests do not overlap.
KeepsTheBook == Book!BookSpec

-----------------------------------------------------------------------------
(* What must eventually happen, when nothing fails *)

\* Once an award has named its bid, every other submitted bid is decided and
\* the tender reaches the stage of a preferred bidder (BidsService.award).
Naming(w) == \E h \in Handlers : call[h] = [op |-> "reject", bid |-> w]

AwardDecidesEveryBid ==
  \A w, b \in Bidders :
    w # b /\ Naming(w) /\ status[b] = "SUBMITTED" ~> status[b] # "SUBMITTED"

AwardReachesItsStage ==
  \A w \in Bidders : Naming(w) ~> stage = "PREFERRED_BIDDER"

-----------------------------------------------------------------------------
(* What the sources say and the code does not keep *)

\* "Name the preferred bidder; all other live bids become unsuccessful"
\* (bids.service.ts:253): so there is one preferred bidder at most.
OnePreferredBidder ==
  \A a, b \in Bidders : status[a] = "PREFERRED" /\ status[b] = "PREFERRED" => a = b

\* "Name a preferred bidder before reaching financial close"
\* (bids.service.ts:289).
FinancialCloseHasAWinner ==
  stage = "FINANCIAL_CLOSE" => \E b \in Bidders : status[b] = "PREFERRED"

\* "Before the submission deadline the authority may see only that a bid
\* EXISTS and whether it is compliant - never its contents"
\* (bid.serializer.ts:26).
SealedUntilDeadline == early = {}
=============================================================================
