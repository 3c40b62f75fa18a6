------------------------- MODULE TenderRoomProofs -------------------------
(* Theorems about TenderRoom, for any bidders, handlers and length of time. *)
EXTENDS TenderRoom, TLAPS

\* A parked call carries what its write will use.
LEMMA CallFields ==
  ASSUME NEW c \in Calls
  PROVE  /\ c.op = "updateTender" => /\ c.deadline \in Deadlines \cup {Undefined}
                                     /\ c.criteria \in Criteria \cup {Undefined}
         /\ c.op = "setStage" => c.to \in Stages
         /\ c.op \in {"create", "update"} => c.ready \in BOOLEAN
         /\ c.op = "submit" => c.at \in Time
         /\ c.op \in {"create", "update", "submit", "withdraw", "disqualify",
                      "award", "name", "reject", "close"} => c.bid \in Bidders
         /\ c.op \in {"award", "name", "reject", "close"} =>
              \A next \in {"name", "reject", "close"} : [c EXCEPT !.op = next] \in Calls
BY DEF Calls, Idle

\* The stages a tender may move to are stages.
LEMMA TransitionsAreStages ==
  ASSUME NEW s \in Stages
  PROVE  AllowedTransitions[s] \subseteq Stages \ {"DRAFT"}
BY DEF AllowedTransitions, Stages

\* Taking a request, going on and answering keep the types.
LEMMA AwaitType ==
  ASSUME TypeOK, NEW h \in Handlers, NEW c \in Calls, Await(h, c)
  PROVE  TypeOK'
BY DEF TypeOK, Await, tenderVars, bidVars, history

LEMMA CallType ==
  ASSUME TypeOK, NEW h \in Handlers
  PROVE  /\ Answer(h) => call' \in [Handlers -> Calls]
         /\ call[h].op \in {"award", "name", "reject", "close"} =>
              \A next \in {"name", "reject", "close"} :
                Continue(h, next) => call' \in [Handlers -> Calls]
<1>1. Idle \in Calls
  BY DEF Calls
<1>2. Answer(h) => call' \in [Handlers -> Calls]
  BY <1>1 DEF TypeOK, Answer
<1>3. ASSUME call[h].op \in {"award", "name", "reject", "close"},
             NEW next \in {"name", "reject", "close"}, Continue(h, next)
      PROVE  call' \in [Handlers -> Calls]
  <2>1. call[h] \in Calls
    BY DEF TypeOK
  <2>2. [call[h] EXCEPT !.op = next] \in Calls
    BY <1>3, <2>1, CallFields
  <2>. QED
    BY <1>3, <2>2 DEF TypeOK, Continue
<1>. QED
  BY <1>2, <1>3

\* Taking any request keeps the types.
LEMMA RequestType ==
  ASSUME TypeOK, NEW h \in Handlers, Request(h)
  PROVE  TypeOK'
<1>1. ASSUME UpdateTender(h) PROVE TypeOK'
  <2>1. PICK d \in Deadlines \cup {Undefined}, c \in Criteria \cup {Undefined} :
          Await(h, [op |-> "updateTender", deadline |-> d, criteria |-> c])
    BY <1>1 DEF UpdateTender
  <2>2. [op |-> "updateTender", deadline |-> d, criteria |-> c] \in Calls
    BY DEF Calls
  <2>. QED
    BY <2>1, <2>2, AwaitType
<1>2. ASSUME SetStage(h) PROVE TypeOK'
  <2>1. PICK to \in AllowedTransitions[stage] : Await(h, [op |-> "setStage", to |-> to])
    BY <1>2 DEF SetStage
  <2>2. to \in Stages
    BY <2>1, TransitionsAreStages DEF TypeOK
  <2>3. [op |-> "setStage", to |-> to] \in Calls
    BY <2>2 DEF Calls
  <2>. QED
    BY <2>1, <2>3, AwaitType
<1>3. ASSUME Remove(h) \/ Evaluate(h) \/ FinancialClose(h) PROVE TypeOK'
  <2>1. PICK o \in {"remove", "evaluate", "financialClose"} : Await(h, [op |-> o])
    BY <1>3 DEF Remove, Evaluate, FinancialClose
  <2>2. [op |-> o] \in Calls
    BY DEF Calls
  <2>. QED
    BY <2>1, <2>2, AwaitType
<1>4. ASSUME ListBids(h) PROVE TypeOK'
  <2>1. [op |-> "list", deadline |-> deadline] \in Calls
    BY DEF Calls, TypeOK
  <2>. QED
    BY <1>4, <2>1, AwaitType DEF ListBids
<1>5. ASSUME NEW b \in Bidders, CreateBid(h, b) \/ UpdateBid(h, b) PROVE TypeOK'
  <2>1. PICK o \in {"create", "update"}, r \in BOOLEAN :
          Await(h, [op |-> o, bid |-> b, ready |-> r])
    BY <1>5 DEF CreateBid, UpdateBid
  <2>2. [op |-> o, bid |-> b, ready |-> r] \in Calls
    BY DEF Calls
  <2>. QED
    BY <2>1, <2>2, AwaitType
<1>6. ASSUME NEW b \in Bidders, Submit(h, b) PROVE TypeOK'
  <2>1. [op |-> "submit", bid |-> b, at |-> now] \in Calls
    BY DEF Calls, TypeOK
  <2>. QED
    BY <1>6, <2>1, AwaitType DEF Submit
<1>7. ASSUME NEW b \in Bidders, Withdraw(h, b) \/ Disqualify(h, b) \/ Award(h, b) PROVE TypeOK'
  <2>1. PICK o \in {"withdraw", "disqualify", "award"} : Await(h, [op |-> o, bid |-> b])
    BY <1>7 DEF Withdraw, Disqualify, Award
  <2>2. [op |-> o, bid |-> b] \in Calls
    BY DEF Calls
  <2>. QED
    BY <2>1, <2>2, AwaitType
<1>. QED
  BY <1>1, <1>2, <1>3, <1>4, <1>5, <1>6, <1>7 DEF Request

\* Resuming any handler keeps the types.
LEMMA ResumeType ==
  ASSUME TypeOK, NEW h \in Handlers, Resume(h)
  PROVE  TypeOK'
<1>c. call[h] \in Calls
  BY DEF TypeOK
<1>s. ASSUME NEW bs \in SUBSET Bidders, Show(bs) PROVE early' \subseteq Bidders
  BY <1>s DEF Show, TypeOK
<1>1. ASSUME UpdateTenderWrite(h) PROVE TypeOK'
  BY <1>1, <1>c, CallFields, CallType DEF UpdateTenderWrite, TypeOK, bidVars, history
<1>2. ASSUME SetStageWrite(h) PROVE TypeOK'
  BY <1>2, <1>c, CallFields, CallType DEF SetStageWrite, TypeOK, bidVars, history
<1>3. ASSUME RemoveWrite(h) PROVE TypeOK'
  BY <1>3, CallType DEF RemoveWrite, TypeOK, bidVars, history
<1>4. ASSUME CreateBidWrite(h) PROVE TypeOK'
  BY <1>4, <1>c, CallFields, CallType
     DEF CreateBidWrite, TypeOK, Statuses, tenderVars, bidVars, history
<1>5. ASSUME UpdateBidWrite(h) PROVE TypeOK'
  BY <1>5, <1>c, CallFields, CallType DEF UpdateBidWrite, TypeOK, tenderVars, history
<1>6. ASSUME SubmitWrite(h) PROVE TypeOK'
  BY <1>6, <1>c, CallFields, CallType DEF SubmitWrite, TypeOK, Statuses, tenderVars, history
<1>7. ASSUME WithdrawWrite(h) PROVE TypeOK'
  BY <1>7, <1>c, CallFields, CallType DEF WithdrawWrite, TypeOK, Statuses, tenderVars, history
<1>8. ASSUME ListBidsReply(h) PROVE TypeOK'
  BY <1>8, <1>s, CallType DEF ListBidsReply, TypeOK, tenderVars, bidVars
<1>9. ASSUME EvaluateReply(h) PROVE TypeOK'
  BY <1>9, <1>s, CallType DEF EvaluateReply, TypeOK, tenderVars, bidVars
<1>10. ASSUME DisqualifyWrite(h) PROVE TypeOK'
  BY <1>10, <1>s, <1>c, CallFields, CallType DEF DisqualifyWrite, TypeOK, Statuses, tenderVars
<1>11. ASSUME AwardReadBid(h) PROVE TypeOK'
  BY <1>11, CallType DEF AwardReadBid, TypeOK, tenderVars, bidVars, history
<1>12. ASSUME NamePreferred(h) PROVE TypeOK'
  BY <1>12, <1>c, CallFields, CallType DEF NamePreferred, TypeOK, Statuses, tenderVars
<1>13. ASSUME MarkOthersUnsuccessful(h) PROVE TypeOK'
  BY <1>13, CallType DEF MarkOthersUnsuccessful, TypeOK, Statuses, tenderVars, history
<1>14. ASSUME SetPreferredStage(h) PROVE TypeOK'
  BY <1>14, <1>s, <1>c, CallFields, CallType DEF SetPreferredStage, TypeOK, Stages, bidVars
<1>15. ASSUME FinancialCloseWrite(h) PROVE TypeOK'
  BY <1>15, CallType DEF FinancialCloseWrite, TypeOK, Stages, bidVars, history
<1>. QED
  BY <1>1, <1>2, <1>3, <1>4, <1>5, <1>6, <1>7, <1>8, <1>9, <1>10, <1>11, <1>12,
     <1>13, <1>14, <1>15 DEF Resume

LEMMA InitType == Init => TypeOK
<1>1. 1 \in Time
  BY TenderRoomAssumption DEF Time
<1>2. Idle \in Calls
  BY DEF Calls
<1>. QED
  BY <1>1, <1>2 DEF Init, TypeOK, Stages, Statuses

LEMMA NextType ==
  ASSUME TypeOK, [Next]_vars
  PROVE  TypeOK'
<1>1. CASE Tick
  BY <1>1, TenderRoomAssumption DEF Tick, TypeOK, Time, tenderVars, bidVars, history
<1>2. ASSUME NEW h \in Handlers, Fail(h) PROVE TypeOK'
  BY <1>2, CallType DEF Fail, TypeOK, tenderVars, bidVars, history
<1>3. CASE UNCHANGED vars
  BY <1>3 DEF vars, TypeOK, tenderVars, bidVars, history
<1>. QED
  BY <1>1, <1>2, <1>3, RequestType, ResumeType DEF Next

\* Every variable keeps its type, whatever interleaves and fails.
THEOREM TypeCorrect == Spec => []TypeOK
BY InitType, NextType, PTL DEF Spec
-----------------------------------------------------------------------------
(* The inductive invariant.  Publications, rows and namings are never undone, *)
(* so a parked call keeps its foundation while other handlers run; what is    *)
(* left to show of a step is that it leaves its own call founded and that     *)
(* the rows it wrote satisfy the invariant.                                   *)

Rows ==
  /\ stage \notin {"DRAFT", "CANCELLED"} => published
  /\ \A b \in Bidders :
       /\ status[b] # "EVALUATED"
       /\ status[b] = "SUBMITTED" => submittedAt[b] # Null
  /\ BidsFollowPublication
  /\ LosersHaveAWinner

\* Nothing that was published, created or named ceases to be.
Keeps ==
  /\ published => published'
  /\ \A b \in Bidders : status[b] # "ABSENT" => status'[b] # "ABSENT"
  /\ named \subseteq named'

LEMMA FoundedKept ==
  ASSUME TypeOK, Inductive, Keeps, NEW h \in Handlers,
         call' = [call EXCEPT ![h] = call'[h]], Founded(call[h])'
  PROVE  \A g \in Handlers : Founded(call[g])'
<1> SUFFICES ASSUME NEW g \in Handlers, g # h PROVE Founded(call[g])'
  OBVIOUS
<1>1. call'[g] = call[g]
  BY DEF TypeOK
<1>2. call[g] \in Calls /\ Founded(call[g])
  BY DEF TypeOK, Inductive
<1>. QED
  BY <1>1, <1>2, CallFields DEF Founded, Keeps

\* Waiting for a write leaves the rows alone.
LEMMA AwaitInductive ==
  ASSUME TypeOK, Inductive, NEW h \in Handlers, NEW c \in Calls, Await(h, c), Founded(c)
  PROVE  Inductive'
<1>1. call'[h] = c
  BY DEF Await, TypeOK
<1>2. Founded(call[h])'
  BY <1>1 DEF Founded, Await, tenderVars, bidVars, history
<1>3. Keeps
  BY DEF Keeps, Await, tenderVars, bidVars, history
<1>4. \A g \in Handlers : Founded(call[g])'
  BY <1>1, <1>2, <1>3, FoundedKept DEF Await
<1>5. Rows'
  BY DEF Rows, Inductive, BidsFollowPublication, LosersHaveAWinner, Await,
         tenderVars, bidVars, history
<1>. QED
  BY <1>4, <1>5 DEF Inductive, Rows

LEMMA RequestInductive ==
  ASSUME TypeOK, Inductive, NEW h \in Handlers, Request(h)
  PROVE  Inductive'
<1>1. ASSUME UpdateTender(h) PROVE Inductive'
  <2>1. PICK d \in Deadlines \cup {Undefined}, c \in Criteria \cup {Undefined} :
          Await(h, [op |-> "updateTender", deadline |-> d, criteria |-> c])
    BY <1>1 DEF UpdateTender
  <2>2. [op |-> "updateTender", deadline |-> d, criteria |-> c] \in Calls
    BY DEF Calls
  <2>. QED
    BY <2>1, <2>2, AwaitInductive DEF Founded
<1>2. ASSUME SetStage(h) PROVE Inductive'
  <2>1. PICK to \in AllowedTransitions[stage] : Await(h, [op |-> "setStage", to |-> to])
    BY <1>2 DEF SetStage
  <2>2. to \in Stages
    BY <2>1, TransitionsAreStages DEF TypeOK
  <2>3. [op |-> "setStage", to |-> to] \in Calls
    BY <2>2 DEF Calls
  <2>4. to \notin {"PUBLISHED", "CANCELLED"} => stage \notin {"DRAFT", "CANCELLED"}
    BY <2>1 DEF AllowedTransitions, TypeOK, Stages
  <2>5. Founded([op |-> "setStage", to |-> to])
    BY <2>4 DEF Founded, Inductive
  <2>. QED
    BY <2>1, <2>3, <2>5, AwaitInductive
<1>3. ASSUME Remove(h) \/ Evaluate(h) \/ FinancialClose(h) PROVE Inductive'
  <2>1. PICK o \in {"remove", "evaluate", "financialClose"} :
          Await(h, [op |-> o]) /\ (o = "financialClose" => published)
    BY <1>3 DEF Remove, Evaluate, FinancialClose, Inductive
  <2>2. [op |-> o] \in Calls
    BY DEF Calls
  <2>3. Founded([op |-> o])
    BY <2>1 DEF Founded
  <2>. QED
    BY <2>1, <2>2, <2>3, AwaitInductive
<1>4. ASSUME ListBids(h) PROVE Inductive'
  <2>1. [op |-> "list", deadline |-> deadline] \in Calls
    BY DEF Calls, TypeOK
  <2>. QED
    BY <1>4, <2>1, AwaitInductive DEF ListBids, Founded
<1>5. ASSUME NEW b \in Bidders, CreateBid(h, b) \/ UpdateBid(h, b) PROVE Inductive'
  <2>1. PICK o \in {"create", "update"}, r \in BOOLEAN :
          /\ Await(h, [op |-> o, bid |-> b, ready |-> r])
          /\ o = "create" => published
          /\ o = "update" => status[b] # "ABSENT"
    BY <1>5 DEF CreateBid, UpdateBid, OpenStages, Inductive
  <2>2. [op |-> o, bid |-> b, ready |-> r] \in Calls
    BY DEF Calls
  <2>3. Founded([op |-> o, bid |-> b, ready |-> r])
    BY <2>1 DEF Founded
  <2>. QED
    BY <2>1, <2>2, <2>3, AwaitInductive
<1>6. ASSUME NEW b \in Bidders, Submit(h, b) PROVE Inductive'
  <2>1. [op |-> "submit", bid |-> b, at |-> now] \in Calls
    BY DEF Calls, TypeOK
  <2>2. Founded([op |-> "submit", bid |-> b, at |-> now])
    BY <1>6 DEF Submit, Founded
  <2>. QED
    BY <1>6, <2>1, <2>2, AwaitInductive DEF Submit
<1>7. ASSUME NEW b \in Bidders, Withdraw(h, b) \/ Disqualify(h, b) \/ Award(h, b)
      PROVE  Inductive'
  <2>1. PICK o \in {"withdraw", "disqualify", "award"} :
          /\ Await(h, [op |-> o, bid |-> b])
          /\ o # "award" => status[b] # "ABSENT"
    BY <1>7 DEF Withdraw, Disqualify, Award
  <2>2. [op |-> o, bid |-> b] \in Calls
    BY DEF Calls
  <2>3. Founded([op |-> o, bid |-> b])
    BY <2>1 DEF Founded
  <2>. QED
    BY <2>1, <2>2, <2>3, AwaitInductive
<1>. QED
  BY <1>1, <1>2, <1>3, <1>4, <1>5, <1>6, <1>7 DEF Request

\* A handler that answers needs no foundation any more.
LEMMA AnswerInductive ==
  ASSUME TypeOK, Inductive, NEW h \in Handlers, Answer(h), Keeps, Rows'
  PROVE  Inductive'
<1>1. call'[h] = Idle
  BY DEF Answer, TypeOK
<1>2. Founded(call[h])'
  BY <1>1 DEF Founded, Idle
<1>3. \A g \in Handlers : Founded(call[g])'
  BY <1>1, <1>2, FoundedKept DEF Answer
<1>. QED
  BY <1>3 DEF Inductive, Rows

\* A handler that goes on needs the foundation of its next write.
LEMMA ContinueInductive ==
  ASSUME TypeOK, Inductive, NEW h \in Handlers, NEW next \in {"name", "reject", "close"},
         call[h].op \in {"award", "name", "reject"}, Continue(h, next), Keeps, Rows',
         status'[call[h].bid] # "ABSENT",
         next \in {"reject", "close"} => call[h].bid \in named'
  PROVE  Inductive'
<1>1. call[h] \in Calls
  BY DEF TypeOK
<1>2. call'[h] = [call[h] EXCEPT !.op = next]
  BY DEF Continue, TypeOK
<1>3. call'[h].op = next /\ call'[h].bid = call[h].bid
  BY <1>1, <1>2 DEF Calls, Idle
<1>4. Founded(call[h])'
  BY <1>3 DEF Founded
<1>5. \A g \in Handlers : Founded(call[g])'
  BY <1>2, <1>4, FoundedKept DEF Continue
<1>. QED
  BY <1>5 DEF Inductive, Rows

\* Resuming a handler keeps the invariant, one step per write.
LEMMA ResumeInductive ==
  ASSUME TypeOK, Inductive, NEW h \in Handlers, Resume(h)
  PROVE  Inductive'
<1>c. call[h] \in Calls /\ Founded(call[h])
  BY DEF TypeOK, Inductive
<1>n. Null \notin Time
  BY TenderRoomAssumption DEF Time
<1>1. ASSUME UpdateTenderWrite(h) \/ RemoveWrite(h) PROVE Inductive'
  <2>1. Keeps /\ Rows' /\ Answer(h)
    BY <1>1 DEF UpdateTenderWrite, RemoveWrite, Keeps, Rows, Inductive,
               BidsFollowPublication, LosersHaveAWinner, bidVars, history
  <2>. QED
    BY <2>1, AnswerInductive
<1>2. ASSUME SetStageWrite(h) PROVE Inductive'
  <2>1. Keeps /\ Answer(h)
    BY <1>2 DEF SetStageWrite, Keeps, bidVars, history
  <2>2. stage' \notin {"DRAFT", "CANCELLED"} => published'
    BY <1>2, <1>c DEF SetStageWrite, Founded
  <2>3. Rows'
    BY <1>2, <2>2 DEF SetStageWrite, Rows, Inductive, BidsFollowPublication,
                      LosersHaveAWinner, bidVars, history
  <2>. QED
    BY <2>1, <2>3, AnswerInductive
<1>3. ASSUME CreateBidWrite(h) PROVE Inductive'
  <2>1. published /\ call[h].bid \in Bidders
    BY <1>3, <1>c, CallFields DEF CreateBidWrite, Founded
  <2>2. /\ status' = [b \in Bidders |->
                        IF b = call[h].bid /\ status[b] = "ABSENT" THEN "DRAFT" ELSE status[b]]
        /\ UNCHANGED <<submittedAt, stage, published, named>> /\ Answer(h)
    BY <1>3 DEF CreateBidWrite, TypeOK, tenderVars, bidVars, history
  <2>3. Keeps
    BY <2>2 DEF Keeps
  <2>4. Rows'
    BY <2>1, <2>2 DEF Rows, Inductive, BidsFollowPublication, LosersHaveAWinner
  <2>. QED
    BY <2>2, <2>3, <2>4, AnswerInductive
<1>4. ASSUME UpdateBidWrite(h) \/ ListBidsReply(h) \/ EvaluateReply(h) PROVE Inductive'
  <2>1. Keeps /\ Rows' /\ Answer(h)
    BY <1>4 DEF UpdateBidWrite, ListBidsReply, EvaluateReply, Keeps, Rows, Inductive,
               BidsFollowPublication, LosersHaveAWinner, tenderVars, bidVars, history
  <2>. QED
    BY <2>1, AnswerInductive
<1>5. ASSUME SubmitWrite(h) PROVE Inductive'
  <2>1. status[call[h].bid] # "ABSENT" /\ call[h].bid \in Bidders /\ call[h].at # Null
    BY <1>5, <1>c, <1>n, CallFields DEF SubmitWrite, Founded
  <2>2. Keeps /\ Answer(h)
    BY <1>5, <2>1 DEF SubmitWrite, Keeps, TypeOK, tenderVars, history
  <2>3. Rows'
    BY <1>5, <2>1 DEF SubmitWrite, Rows, Inductive, BidsFollowPublication,
                      LosersHaveAWinner, TypeOK, tenderVars, history
  <2>. QED
    BY <2>2, <2>3, AnswerInductive
<1>6. ASSUME WithdrawWrite(h) \/ DisqualifyWrite(h) PROVE Inductive'
  <2>1. PICK s \in {"WITHDRAWN", "DISQUALIFIED"} :
          /\ status' = [status EXCEPT ![call[h].bid] = s]
          /\ UNCHANGED <<submittedAt, stage, published, named>> /\ Answer(h)
          /\ status[call[h].bid] # "ABSENT"
    BY <1>6, <1>c DEF WithdrawWrite, DisqualifyWrite, Founded, tenderVars, history
  <2>2. Keeps
    BY <2>1 DEF Keeps, TypeOK
  <2>3. Rows'
    BY <2>1 DEF Rows, Inductive, BidsFollowPublication, LosersHaveAWinner, TypeOK
  <2>. QED
    BY <2>1, <2>2, <2>3, AnswerInductive
<1>7. ASSUME AwardReadBid(h) PROVE Inductive'
  <2>1. Keeps /\ Rows'
    BY <1>7 DEF AwardReadBid, Keeps, Rows, Inductive, BidsFollowPublication,
               LosersHaveAWinner, tenderVars, bidVars, history
  <2>2. CASE Answer(h)
    BY <2>1, <2>2, AnswerInductive
  <2>3. CASE Continue(h, "name") /\ status[call[h].bid] # "ABSENT"
    <3>1. status'[call[h].bid] # "ABSENT" /\ call[h].op = "award"
      BY <1>7, <2>3 DEF AwardReadBid, bidVars
    <3>. QED
      BY <2>1, <2>3, <3>1, ContinueInductive
  <2>. QED
    BY <1>7, <2>2, <2>3 DEF AwardReadBid
<1>8. ASSUME NamePreferred(h) PROVE Inductive'
  <2>1. call[h].op = "name" /\ call[h].bid \in Bidders /\ status[call[h].bid] # "ABSENT"
    BY <1>8, <1>c, CallFields DEF NamePreferred, Founded
  <2>2. Keeps /\ status'[call[h].bid] # "ABSENT" /\ call[h].bid \in named'
    BY <1>8, <2>1 DEF NamePreferred, Keeps, TypeOK, tenderVars
  <2>3. Rows'
    BY <1>8, <2>1 DEF NamePreferred, Rows, Inductive, BidsFollowPublication,
                      LosersHaveAWinner, TypeOK, tenderVars
  <2>. QED
    BY <1>8, <2>1, <2>2, <2>3, ContinueInductive DEF NamePreferred
<1>9. ASSUME MarkOthersUnsuccessful(h) PROVE Inductive'
  <2>1. /\ call[h].op = "reject" /\ call[h].bid \in Bidders
        /\ status[call[h].bid] # "ABSENT" /\ call[h].bid \in named
    BY <1>9, <1>c, CallFields DEF MarkOthersUnsuccessful, Founded
  <2>2. Keeps /\ status'[call[h].bid] # "ABSENT"
    BY <1>9, <2>1 DEF MarkOthersUnsuccessful, Keeps, tenderVars, history
  <2>3. Rows'
    BY <1>9, <2>1 DEF MarkOthersUnsuccessful, Rows, Inductive, BidsFollowPublication,
                      LosersHaveAWinner, tenderVars, history
  <2>. QED
    BY <1>9, <2>1, <2>2, <2>3, ContinueInductive DEF MarkOthersUnsuccessful, history
<1>10. ASSUME SetPreferredStage(h) \/ FinancialCloseWrite(h) PROVE Inductive'
  <2>1. published
    BY <1>10, <1>c, CallFields
       DEF SetPreferredStage, FinancialCloseWrite, Founded, Inductive, BidsFollowPublication
  <2>2. Keeps /\ Rows' /\ Answer(h)
    BY <1>10, <2>1 DEF SetPreferredStage, FinancialCloseWrite, Keeps, Rows, Inductive,
                       BidsFollowPublication, LosersHaveAWinner, bidVars, history
  <2>. QED
    BY <2>2, AnswerInductive
<1>. QED
  BY <1>1, <1>2, <1>3, <1>4, <1>5, <1>6, <1>7, <1>8, <1>9, <1>10 DEF Resume

LEMMA InitInductive == Init => Inductive
BY DEF Init, Inductive, Founded, Idle, BidsFollowPublication, LosersHaveAWinner

LEMMA NextInductive ==
  ASSUME TypeOK, Inductive, [Next]_vars
  PROVE  Inductive'
<1>1. CASE UNCHANGED <<tenderVars, bidVars, call, history>>
  BY <1>1 DEF Inductive, Founded, BidsFollowPublication, LosersHaveAWinner,
             tenderVars, bidVars, history
<1>2. ASSUME NEW h \in Handlers, Fail(h) PROVE Inductive'
  <2>1. Keeps /\ Rows' /\ Answer(h)
    BY <1>2 DEF Fail, Keeps, Rows, Inductive, BidsFollowPublication, LosersHaveAWinner,
               tenderVars, bidVars, history
  <2>. QED
    BY <2>1, AnswerInductive
<1>. QED
  BY <1>1, <1>2, RequestInductive, ResumeInductive DEF Next, Tick, vars

\* The inductive invariant holds for any number of bidders, of concurrent
\* requests and of failures.
THEOREM InductiveHolds == Spec => []Inductive
BY TypeCorrect, InitInductive, NextInductive, PTL DEF Spec

\* A bid exists only on a tender that was published.
THEOREM PublicationFirst == Spec => []BidsFollowPublication
<1>1. Inductive => BidsFollowPublication
  BY DEF Inductive
<1>. QED
  BY <1>1, InductiveHolds, PTL

\* A bid is marked unsuccessful only once it was submitted and another named.
THEOREM NoLossWithoutAWinner == Spec => []LosersHaveAWinner
<1>1. Inductive => LosersHaveAWinner
  BY DEF Inductive
<1>. QED
  BY <1>1, InductiveHolds, PTL
-----------------------------------------------------------------------------
(***************************************************************************)
(* What TenderRoom keeps when requests do not overlap, for any bidders and *)
(* length of time and whatever fails: what a handler read is still so when *)
(* it writes, and from that follow the properties of the serial service    *)
(* and the refinement of AwardBook.                                        *)
(***************************************************************************)
\* The server finishes each request before it takes the next.
OneAtATime == \A g, h \in Handlers : g = h

\* The part of the invariant that is about rows, not about calls.
SerialRows ==
  /\ stage = "DRAFT" => ~published
  /\ NoBidOnDeletedTender
  /\ OpenedEarlyOnlyByDisqualifying

\* With one handler, its own call is all there is to keep fresh.
LEMMA SerialStep ==
  ASSUME OneAtATime, TypeOK, NEW h \in Handlers, Fresh(call[h])', SerialRows'
  PROVE  Serial'
BY DEF OneAtATime, Serial, SerialRows

LEMMA AnswerSerial ==
  ASSUME OneAtATime, TypeOK, NEW h \in Handlers, Answer(h), SerialRows'
  PROVE  Serial'
<1>1. call'[h] = Idle
  BY DEF Answer, TypeOK
<1>2. Fresh(call[h])'
  BY <1>1 DEF Fresh, Idle
<1>. QED
  BY <1>2, SerialStep

LEMMA AwaitSerial ==
  ASSUME OneAtATime, TypeOK, Serial, NEW h \in Handlers, NEW c, Await(h, c), Fresh(c)
  PROVE  Serial'
<1>1. call'[h] = c
  BY DEF Await, TypeOK
<1>2. Fresh(call[h])'
  BY <1>1 DEF Fresh, IsSealed, Await, tenderVars, bidVars, history
<1>3. SerialRows'
  BY DEF SerialRows, Serial, NoBidOnDeletedTender, OpenedEarlyOnlyByDisqualifying, Await,
         tenderVars, bidVars, history
<1>. QED
  BY <1>2, <1>3, SerialStep

\* What a request checks is what its write relies on.
LEMMA RequestSerial ==
  ASSUME OneAtATime, TypeOK, Serial, NEW h \in Handlers, Request(h)
  PROVE  Serial'
<1>1. ASSUME UpdateTender(h) PROVE Serial'
  <2>1. PICK d, c : Await(h, [op |-> "updateTender", deadline |-> d, criteria |-> c])
    BY <1>1 DEF UpdateTender
  <2>. QED
    BY <2>1, AwaitSerial DEF Fresh
<1>2. ASSUME SetStage(h) PROVE Serial'
  <2>1. PICK to \in AllowedTransitions[stage] : Await(h, [op |-> "setStage", to |-> to])
    BY <1>2 DEF SetStage
  <2>. QED
    BY <2>1, AwaitSerial DEF Fresh
<1>4. ASSUME Remove(h) \/ Evaluate(h) \/ FinancialClose(h) PROVE Serial'
  <2>1. PICK o \in {"remove", "evaluate", "financialClose"} :
          Await(h, [op |-> o]) /\ Fresh([op |-> o])
    BY <1>4 DEF Remove, Evaluate, FinancialClose, Fresh
  <2>. QED
    BY <2>1, AwaitSerial
<1>5. ASSUME ListBids(h) PROVE Serial'
  BY <1>5, AwaitSerial DEF ListBids, Fresh
<1>6. ASSUME NEW b \in Bidders, CreateBid(h, b) \/ UpdateBid(h, b) PROVE Serial'
  <2>1. PICK o \in {"create", "update"}, r \in BOOLEAN :
          /\ Await(h, [op |-> o, bid |-> b, ready |-> r])
          /\ o = "create" => ~deleted
    BY <1>6 DEF CreateBid, UpdateBid
  <2>2. Fresh([op |-> o, bid |-> b, ready |-> r])
    BY <2>1 DEF Fresh
  <2>. QED
    BY <2>1, <2>2, AwaitSerial
<1>7. ASSUME NEW b \in Bidders, Withdraw(h, b) \/ Disqualify(h, b) \/ Award(h, b)
      PROVE  Serial'
  <2>1. PICK o \in {"withdraw", "disqualify", "award"} :
          /\ Await(h, [op |-> o, bid |-> b])
          /\ o = "award" => ~IsSealed(deadline)
          /\ o = "withdraw" => status[b] \notin {"WITHDRAWN", "DISQUALIFIED", "ABSENT"}
    BY <1>7 DEF Withdraw, Disqualify, Award, Closed
  <2>2. Fresh([op |-> o, bid |-> b])
    BY <2>1 DEF Fresh
  <2>. QED
    BY <2>1, <2>2, AwaitSerial
<1>3. ASSUME NEW b \in Bidders, Submit(h, b) PROVE Serial'
  <2>1. deadline # Null => now < deadline
    BY <1>3 DEF Submit, DeadlinePassed, TypeOK, Deadlines, Time
  <2>2. Fresh([op |-> "submit", bid |-> b, at |-> now])
    BY <1>3, <2>1 DEF Submit, OpenStages, Fresh
  <2>. QED
    BY <1>3, <2>2, AwaitSerial DEF Submit
<1>. QED
  BY <1>1, <1>2, <1>3, <1>4, <1>5, <1>6, <1>7 DEF Request

\* A seal once broken stays broken while the deadline stays, since the clock
\* only goes forward.
LEMMA TickSerial ==
  ASSUME TypeOK, Serial, Tick
  PROVE  Serial'
<1>1. ~IsSealed(deadline) => ~IsSealed(deadline)'
  BY DEF IsSealed, Tick, TypeOK, Deadlines, Time, tenderVars
<1>2. ASSUME NEW h \in Handlers PROVE Fresh(call[h])'
  <2>1. Fresh(call[h])
    BY DEF Serial
  <2>. QED
    BY <1>1, <2>1 DEF Fresh, Tick, tenderVars, bidVars
<1>. QED
  BY <1>2 DEF Serial, NoBidOnDeletedTender, OpenedEarlyOnlyByDisqualifying, Tick,
              tenderVars, bidVars, history

\* Every write finds what its handler read, and leaves the next write fresh.
LEMMA ResumeSerial ==
  ASSUME OneAtATime, TypeOK, Inductive, Serial, NEW h \in Handlers, Resume(h)
  PROVE  Serial'
<1>c. call[h] \in Calls /\ Fresh(call[h]) /\ Founded(call[h])
  BY DEF TypeOK, Inductive, Serial
<1>r. SerialRows
  BY DEF Serial, SerialRows
<1> USE DEF NoBidOnDeletedTender, OpenedEarlyOnlyByDisqualifying
<1>1. ASSUME UpdateTenderWrite(h) \/ UpdateBidWrite(h) PROVE Serial'
  <2>1. SerialRows' /\ Answer(h)
    BY <1>1, <1>r DEF UpdateTenderWrite, UpdateBidWrite, SerialRows, tenderVars, bidVars, history
  <2>. QED
    BY <2>1, AnswerSerial
<1>2. ASSUME SetStageWrite(h) PROVE Serial'
  <2>1. stage' # "DRAFT"
    BY <1>2, <1>c, TransitionsAreStages DEF SetStageWrite, Fresh, TypeOK
  <2>2. SerialRows' /\ Answer(h)
    BY <1>2, <1>r, <2>1 DEF SetStageWrite, SerialRows, bidVars, history
  <2>. QED
    BY <2>2, AnswerSerial
<1>3. ASSUME RemoveWrite(h) PROVE Serial'
  <2>1. \A b \in Bidders : status[b] = "ABSENT"
    BY <1>3, <1>c, <1>r DEF RemoveWrite, Fresh, SerialRows, Inductive, BidsFollowPublication
  <2>2. SerialRows' /\ Answer(h)
    BY <1>3, <1>r, <2>1 DEF RemoveWrite, SerialRows, bidVars, history
  <2>. QED
    BY <2>2, AnswerSerial
<1>4. ASSUME CreateBidWrite(h) PROVE Serial'
  <2>1. ~deleted
    BY <1>4, <1>c DEF CreateBidWrite, Fresh
  <2>2. SerialRows' /\ Answer(h)
    BY <1>4, <1>r, <2>1 DEF CreateBidWrite, SerialRows, TypeOK, tenderVars, bidVars, history
  <2>. QED
    BY <2>2, AnswerSerial
<1>5. ASSUME SubmitWrite(h) \/ WithdrawWrite(h) PROVE Serial'
  <2>1. /\ call[h].bid \in Bidders
        /\ status[call[h].bid] # "ABSENT"
        /\ status[call[h].bid] # "DISQUALIFIED"
    BY <1>5, <1>c, CallFields DEF SubmitWrite, WithdrawWrite, Fresh, Founded
  <2>2. SerialRows' /\ Answer(h)
    BY <1>5, <1>r, <2>1, <1>c
       DEF SubmitWrite, WithdrawWrite, SerialRows, Inductive, BidsFollowPublication, TypeOK,
           tenderVars, history
  <2>. QED
    BY <2>2, AnswerSerial
<1>6. ASSUME ListBidsReply(h) \/ EvaluateReply(h) PROVE Serial'
  <2>1. UNCHANGED early
    BY <1>6, <1>c DEF ListBidsReply, EvaluateReply, Fresh, Show
  <2>2. SerialRows' /\ Answer(h)
    BY <1>6, <1>r, <2>1 DEF ListBidsReply, EvaluateReply, SerialRows, tenderVars, bidVars
  <2>. QED
    BY <2>2, AnswerSerial
<1>7. ASSUME DisqualifyWrite(h) PROVE Serial'
  <2>1. call[h].bid \in Bidders /\ status[call[h].bid] # "ABSENT"
    BY <1>7, <1>c, CallFields DEF DisqualifyWrite, Founded
  <2>2. early' \subseteq early \cup {call[h].bid}
    BY <1>7 DEF DisqualifyWrite, Show
  <2>3. ~deleted
    BY <1>r, <2>1 DEF SerialRows
  <2>4. SerialRows' /\ Answer(h)
    BY <1>7, <1>r, <2>1, <2>2, <2>3 DEF DisqualifyWrite, SerialRows, TypeOK, tenderVars
  <2>. QED
    BY <2>4, AnswerSerial
<1>8. ASSUME AwardReadBid(h) PROVE Serial'
  <2>1. SerialRows'
    BY <1>8, <1>r DEF AwardReadBid, SerialRows, tenderVars, bidVars, history
  <2>2. CASE Answer(h)
    BY <2>1, <2>2, AnswerSerial
  <2>3. CASE Continue(h, "name") /\ status[call[h].bid] \notin Closed \cup {"ABSENT"}
    <3>1. call'[h].op = "name" /\ call'[h].bid = call[h].bid
      BY <1>8, <1>c, <2>3 DEF AwardReadBid, Continue, TypeOK, Calls, Idle
    <3>2. ~IsSealed(deadline)'
      BY <1>8, <1>c DEF AwardReadBid, Fresh, IsSealed, tenderVars
    <3>3. Fresh(call[h])'
      BY <1>8, <2>3, <3>1, <3>2 DEF AwardReadBid, Fresh, Closed, bidVars
    <3>. QED
      BY <2>1, <3>3, SerialStep
  <2>. QED
    BY <1>8, <2>2, <2>3 DEF AwardReadBid
<1>9. ASSUME NamePreferred(h) PROVE Serial'
  <2>1. /\ call[h].bid \in Bidders /\ ~IsSealed(deadline)
        /\ status[call[h].bid] \notin {"DISQUALIFIED", "ABSENT"}
    BY <1>9, <1>c, CallFields DEF NamePreferred, Fresh
  <2>2. call'[h].op = "reject" /\ call'[h].bid = call[h].bid
    BY <1>9, <1>c DEF NamePreferred, Continue, TypeOK, Calls, Idle
  <2>3. ~IsSealed(deadline)' /\ status'[call[h].bid] = "PREFERRED"
    BY <1>9, <2>1 DEF NamePreferred, IsSealed, TypeOK, tenderVars
  <2>4. Fresh(call[h])'
    BY <2>2, <2>3 DEF Fresh
  <2>5. SerialRows'
    BY <1>9, <1>r, <2>1 DEF NamePreferred, SerialRows, TypeOK, tenderVars
  <2>. QED
    BY <2>4, <2>5, SerialStep
<1>10. ASSUME MarkOthersUnsuccessful(h) PROVE Serial'
  <2>1. /\ call[h].bid \in Bidders /\ ~IsSealed(deadline)
        /\ status[call[h].bid] = "PREFERRED"
    BY <1>10, <1>c, CallFields DEF MarkOthersUnsuccessful, Fresh
  <2>2. call'[h].op = "close" /\ call'[h].bid = call[h].bid
    BY <1>10, <1>c DEF MarkOthersUnsuccessful, Continue, TypeOK, Calls, Idle
  <2>3. /\ ~IsSealed(deadline)' /\ status'[call[h].bid] = "PREFERRED"
        /\ \A b \in Bidders : status'[b] # "SUBMITTED"
    BY <1>10, <2>1 DEF MarkOthersUnsuccessful, IsSealed, tenderVars
  <2>4. Fresh(call[h])'
    BY <2>2, <2>3 DEF Fresh
  <2>5. SerialRows'
    BY <1>10, <1>r DEF MarkOthersUnsuccessful, SerialRows, tenderVars, history
  <2>. QED
    BY <2>4, <2>5, SerialStep
<1>11. ASSUME SetPreferredStage(h) \/ FinancialCloseWrite(h) PROVE Serial'
  <2>1. UNCHANGED early
    BY <1>11, <1>c DEF SetPreferredStage, FinancialCloseWrite, Fresh, Show, history
  <2>2. SerialRows' /\ Answer(h)
    BY <1>11, <1>r, <2>1 DEF SetPreferredStage, FinancialCloseWrite, SerialRows, bidVars, history
  <2>. QED
    BY <2>2, AnswerSerial
<1>. QED
  BY <1>1, <1>2, <1>3, <1>4, <1>5, <1>6, <1>7, <1>8, <1>9, <1>10, <1>11 DEF Resume

LEMMA InitSerial == Init => Serial
BY DEF Init, Serial, Fresh, Idle, NoBidOnDeletedTender, OpenedEarlyOnlyByDisqualifying

LEMMA NextSerial ==
  ASSUME OneAtATime, TypeOK, Inductive, Serial, [Next]_vars
  PROVE  Serial'
<1>1. CASE UNCHANGED vars
  BY <1>1 DEF Serial, Fresh, IsSealed, NoBidOnDeletedTender, OpenedEarlyOnlyByDisqualifying,
              vars, tenderVars, bidVars, history
<1>2. ASSUME NEW h \in Handlers, Fail(h) PROVE Serial'
  <2>1. SerialRows' /\ Answer(h)
    BY <1>2 DEF Fail, Serial, SerialRows, NoBidOnDeletedTender, OpenedEarlyOnlyByDisqualifying,
                tenderVars, bidVars, history
  <2>. QED
    BY <2>1, AnswerSerial
<1>. QED
  BY <1>1, <1>2, RequestSerial, ResumeSerial, TickSerial DEF Next

\* Without overlapping requests, every write finds what its handler read.
THEOREM SerialHolds ==
  ASSUME OneAtATime
  PROVE  Spec => []Serial
BY TypeCorrect, InductiveHolds, InitSerial, NextSerial, PTL DEF Spec

\* A deleted tender has no bids.
THEOREM DeletedWithoutBids ==
  ASSUME OneAtATime
  PROVE  Spec => []NoBidOnDeletedTender
<1>1. Serial => NoBidOnDeletedTender
  BY DEF Serial
<1>. QED
  BY <1>1, SerialHolds, PTL

\* Before its deadline only a bid being disqualified is opened.
THEOREM SealKeptExceptByDisqualifying ==
  ASSUME OneAtATime
  PROVE  Spec => []OpenedEarlyOnlyByDisqualifying
<1>1. Serial => OpenedEarlyOnlyByDisqualifying
  BY DEF Serial
<1>. QED
  BY <1>1, SerialHolds, PTL
-----------------------------------------------------------------------------
(* Properties of steps *)

\* The status of a bid changes by one of these writes only.
LEMMA StatusChanges ==
  ASSUME TypeOK, Inductive, Serial, [Next]_vars, NEW b \in Bidders, status'[b] # status[b]
  PROVE  \/ published /\ status[b] = "ABSENT" /\ status'[b] = "DRAFT"
         \/ \E h \in Handlers : SubmitWrite(h) /\ call[h].bid = b
         \/ status[b] # "ABSENT" /\ status'[b] \in {"WITHDRAWN", "DISQUALIFIED"}
         \/ status[b] \notin {"ABSENT", "WITHDRAWN", "DISQUALIFIED"} /\ status'[b] = "PREFERRED"
         \/ /\ \E h \in Handlers : MarkOthersUnsuccessful(h)
            /\ status[b] = "SUBMITTED" /\ status'[b] = "UNSUCCESSFUL"
<1>1. PICK h \in Handlers : Resume(h)
  <2>1. ASSUME NEW h \in Handlers, Request(h) PROVE UNCHANGED status
    BY <2>1 DEF Request, UpdateTender, SetStage, Remove, ListBids, Evaluate, FinancialClose,
                CreateBid, UpdateBid, Submit, Withdraw, Disqualify, Award, Await, bidVars
  <2>. QED
    BY <2>1 DEF Next, vars, bidVars, Tick, Fail
<1>c. call[h] \in Calls /\ Fresh(call[h]) /\ Founded(call[h])
  BY DEF TypeOK, Inductive, Serial
<1>2. CASE CreateBidWrite(h)
  BY <1>2, <1>c, CallFields DEF CreateBidWrite, Founded, TypeOK, bidVars
<1>3. CASE SubmitWrite(h)
  BY <1>3 DEF SubmitWrite, TypeOK
<1>4. CASE WithdrawWrite(h) \/ DisqualifyWrite(h)
  BY <1>4, <1>c DEF WithdrawWrite, DisqualifyWrite, Founded, TypeOK
<1>5. CASE NamePreferred(h)
  BY <1>5, <1>c DEF NamePreferred, Fresh, TypeOK
<1>6. CASE MarkOthersUnsuccessful(h)
  BY <1>6 DEF MarkOthersUnsuccessful, Inductive
<1>7. CASE UNCHANGED status
  BY <1>7
<1>. QED
  BY <1>1, <1>2, <1>3, <1>4, <1>5, <1>6, <1>7
     DEF Resume, UpdateTenderWrite, SetStageWrite, RemoveWrite, UpdateBidWrite, ListBidsReply,
         EvaluateReply, AwardReadBid, SetPreferredStage, FinancialCloseWrite, bidVars

\* A withdrawn or disqualified bid stays out.
THEOREM ClosedStaysClosed ==
  ASSUME OneAtATime
  PROVE  Spec => ClosedBidsStayClosed
<1>1. ASSUME TypeOK, Inductive, Serial, [Next]_vars
      PROVE  \A b \in Bidders : StaysClosed(b)
  <2> SUFFICES ASSUME NEW b \in Bidders, status[b] \in {"WITHDRAWN", "DISQUALIFIED"},
                      status'[b] # status[b]
               PROVE  status'[b] \in {"WITHDRAWN", "DISQUALIFIED"}
    BY DEF StaysClosed
  <2>1. ~\E h \in Handlers : SubmitWrite(h) /\ call[h].bid = b
    BY <1>1 DEF SubmitWrite, Serial, Fresh
  <2>. QED
    BY <1>1, <2>1, StatusChanges
<1>. QED
  BY <1>1, TypeCorrect, InductiveHolds, SerialHolds, PTL DEF Spec, ClosedBidsStayClosed

\* A bid is submitted in good order, however late its write lands.
THEOREM GoodOrder ==
  ASSUME OneAtATime
  PROVE  Spec => SubmittedInGoodOrder
<1>1. ASSUME TypeOK, Inductive, Serial, [Next]_vars
      PROVE  \A b \in Bidders : InGoodOrder(b)
  <2> SUFFICES ASSUME NEW b \in Bidders, status[b] # "SUBMITTED", status'[b] = "SUBMITTED"
               PROVE  InGoodOrder(b)
    BY DEF InGoodOrder
  <2>1. PICK h \in Handlers : SubmitWrite(h) /\ call[h].bid = b
    BY <1>1, StatusChanges
  <2>2. Fresh(call[h])
    BY <1>1 DEF Serial
  <2>3. submittedAt'[b] = call[h].at
    BY <1>1, <2>1 DEF SubmitWrite, TypeOK
  <2>. QED
    BY <2>1, <2>2, <2>3 DEF SubmitWrite, Fresh, InGoodOrder
<1>. QED
  BY <1>1, TypeCorrect, InductiveHolds, SerialHolds, PTL DEF Spec, SubmittedInGoodOrder

\* A tender's stage moves by the table, or to its preferred bidder by an
\* award that has decided every submitted bid.
THEOREM StageRule ==
  ASSUME OneAtATime
  PROVE  Spec => StageMovesByRule
<1>1. ASSUME TypeOK, Serial, [Next]_vars
      PROVE  [MovesByRule]_stage
  <2> SUFFICES ASSUME stage' # stage PROVE MovesByRule
    OBVIOUS
  <2>1. PICK h \in Handlers :
          SetStageWrite(h) \/ SetPreferredStage(h) \/ FinancialCloseWrite(h)
    <3>1. ASSUME NEW h \in Handlers, Request(h) PROVE UNCHANGED stage
      BY <3>1 DEF Request, UpdateTender, SetStage, Remove, ListBids, Evaluate, FinancialClose,
                  CreateBid, UpdateBid, Submit, Withdraw, Disqualify, Award, Await, tenderVars
    <3>2. PICK h \in Handlers : Resume(h)
      BY <1>1, <3>1 DEF Next, vars, tenderVars, Tick, Fail
    <3>. QED
      BY <1>1, <3>2
         DEF Resume, UpdateTenderWrite, RemoveWrite, CreateBidWrite, UpdateBidWrite, SubmitWrite,
             WithdrawWrite, ListBidsReply, EvaluateReply, DisqualifyWrite, AwardReadBid,
             NamePreferred, MarkOthersUnsuccessful, tenderVars
  <2>2. call[h] \in Calls /\ Fresh(call[h])
    BY <1>1 DEF TypeOK, Serial
  <2>3. CASE SetStageWrite(h)
    BY <2>2, <2>3 DEF SetStageWrite, Fresh, MovesByRule
  <2>4. CASE SetPreferredStage(h)
    BY <2>2, <2>4, CallFields DEF SetPreferredStage, Fresh, MovesByRule
  <2>5. CASE FinancialCloseWrite(h)
    BY <2>2, <2>5 DEF FinancialCloseWrite, Fresh, MovesByRule, AllowedTransitions, Stages
  <2>. QED
    BY <2>1, <2>3, <2>4, <2>5
<1>. QED
  BY <1>1, TypeCorrect, SerialHolds, PTL DEF Spec, StageMovesByRule

-----------------------------------------------------------------------------
(* The refinement: every write is a step of the abstract book, or none *)

\* The standings of all bids, which is what the book holds.
Shelf == [b \in Bidders |-> Standing(status[b])]

\* A write to one bid is a write to its place on the shelf.
LEMMA ShelfExcept ==
  ASSUME TypeOK, NEW b \in Bidders, NEW s, status' = [status EXCEPT ![b] = s]
  PROVE  Shelf' = [Shelf EXCEPT ![b] = Standing(s)]
BY DEF Shelf, TypeOK

LEMMA ShelfSame ==
  ASSUME UNCHANGED status
  PROVE  Shelf' = Shelf
BY DEF Shelf

\* Every write of a handler is a step of the book, or none.
LEMMA ResumeBook ==
  ASSUME TypeOK, Inductive, Serial, NEW h \in Handlers, Resume(h)
  PROVE  [Book!BookNext]_<<published, Shelf>>
<1>c. call[h] \in Calls /\ Fresh(call[h]) /\ Founded(call[h])
  BY DEF TypeOK, Inductive, Serial
<1>s. \A b \in Bidders : Shelf[b] = Standing(status[b])
  BY DEF Shelf
<1>1. CASE UNCHANGED <<status, published>>
  BY <1>1, ShelfSame
<1>2. CASE SetStageWrite(h)
  <2>1. UNCHANGED status
    BY <1>2 DEF SetStageWrite, bidVars
  <2>2. published' = published \/ published' = TRUE
    BY <1>2 DEF SetStageWrite, TypeOK
  <2>3. Shelf' = Shelf
    BY <2>1, ShelfSame
  <2>. QED
    BY <2>2, <2>3 DEF Book!BookNext, Book!Publish, Shelf
<1>3. CASE CreateBidWrite(h) /\ status[call[h].bid] = "ABSENT"
  <2> DEFINE b == call[h].bid
  <2>1. b \in Bidders /\ published /\ UNCHANGED published
    BY <1>3, <1>c, CallFields DEF CreateBidWrite, Founded, tenderVars
  <2>2. status' = [status EXCEPT ![b] = "DRAFT"]
    BY <1>3 DEF CreateBidWrite
  <2>3. Shelf' = [Shelf EXCEPT ![b] = "private"]
    BY <2>1, <2>2, ShelfExcept DEF Standing
  <2>4. Shelf[b] = "none"
    BY <1>3, <1>s, <2>1 DEF Standing
  <2>5. Book!Enter(b)
    BY <2>1, <2>3, <2>4 DEF Book!Enter, Book!Stand, Shelf
  <2>. QED
    BY <2>1, <2>5 DEF Book!BookNext
<1>4. CASE SubmitWrite(h)
  <2> DEFINE b == call[h].bid
  <2>1. b \in Bidders /\ status[b] = "DRAFT" /\ UNCHANGED published
    BY <1>4, <1>c, CallFields DEF SubmitWrite, Fresh, tenderVars
  <2>2. status' = [status EXCEPT ![b] = "SUBMITTED"]
    BY <1>4 DEF SubmitWrite
  <2>3. Shelf' = [Shelf EXCEPT ![b] = "live"]
    BY <2>1, <2>2, ShelfExcept DEF Standing
  <2>4. Shelf[b] = "private"
    BY <1>s, <2>1 DEF Standing
  <2>5. Book!Offer(b)
    BY <2>1, <2>3, <2>4 DEF Book!Offer, Book!Stand, Shelf
  <2>. QED
    BY <2>1, <2>5 DEF Book!BookNext
<1>5. CASE WithdrawWrite(h) \/ DisqualifyWrite(h)
  <2> DEFINE b == call[h].bid
  <2>1. b \in Bidders /\ status[b] # "ABSENT" /\ UNCHANGED published
    BY <1>5, <1>c, CallFields DEF WithdrawWrite, DisqualifyWrite, Founded, tenderVars
  <2>2. PICK s \in {"WITHDRAWN", "DISQUALIFIED"} : status' = [status EXCEPT ![b] = s]
    BY <1>5 DEF WithdrawWrite, DisqualifyWrite
  <2>3. Shelf' = [Shelf EXCEPT ![b] = "closed"]
    BY <2>1, <2>2, ShelfExcept DEF Standing
  <2>4. Shelf[b] \in Book!Standings \ {"none"}
    BY <1>s, <2>1 DEF Standing, Book!Standings, TypeOK, Statuses
  <2>5. Book!Leave(b)
    BY <2>1, <2>3, <2>4 DEF Book!Leave, Book!Stand, Shelf
  <2>. QED
    BY <2>1, <2>5 DEF Book!BookNext
<1>6. CASE NamePreferred(h)
  <2> DEFINE b == call[h].bid
  <2>1. /\ b \in Bidders /\ UNCHANGED published
        /\ status[b] \notin {"WITHDRAWN", "DISQUALIFIED", "ABSENT"}
    BY <1>6, <1>c, CallFields DEF NamePreferred, Fresh, tenderVars
  <2>2. status' = [status EXCEPT ![b] = "PREFERRED"]
    BY <1>6 DEF NamePreferred
  <2>3. Shelf' = [Shelf EXCEPT ![b] = "won"]
    BY <2>1, <2>2, ShelfExcept DEF Standing
  <2>4. Shelf[b] \in {"private", "live", "won", "lost"}
    BY <1>s, <2>1 DEF Standing, TypeOK, Statuses
  <2>5. Book!Win(b)
    BY <2>1, <2>3, <2>4 DEF Book!Win, Book!Stand, Shelf
  <2>. QED
    BY <2>1, <2>5 DEF Book!BookNext
<1>7. CASE MarkOthersUnsuccessful(h)
  <2>1. call[h].bid \in Bidders /\ status[call[h].bid] = "PREFERRED" /\ UNCHANGED published
    BY <1>7, <1>c, CallFields DEF MarkOthersUnsuccessful, Fresh, tenderVars
  <2>2. \E w \in Bidders : Shelf[w] = "won"
    BY <1>s, <2>1 DEF Standing
  <2>3. \A b \in Bidders :
          status'[b] = IF status[b] \in {"SUBMITTED", "EVALUATED"} THEN "UNSUCCESSFUL" ELSE status[b]
    BY <1>7, <2>1 DEF MarkOthersUnsuccessful
  <2>4. \A b \in Bidders :
          Standing(status'[b]) = IF Shelf[b] = "live" THEN "lost" ELSE Shelf[b]
    BY <1>s, <2>3 DEF Standing, TypeOK, Statuses
  <2>5. Shelf' = [b \in Bidders |-> IF Shelf[b] = "live" THEN "lost" ELSE Shelf[b]]
    BY <2>4 DEF Shelf
  <2>6. Book!TurnDown
    BY <2>1, <2>2, <2>5 DEF Book!TurnDown, Shelf
  <2>. QED
    BY <2>6 DEF Book!BookNext
<1>. QED
  BY <1>1, <1>2, <1>3, <1>4, <1>5, <1>6, <1>7
     DEF Resume, UpdateTenderWrite, RemoveWrite, CreateBidWrite, UpdateBidWrite, ListBidsReply,
         EvaluateReply, AwardReadBid, SetPreferredStage, FinancialCloseWrite, tenderVars, bidVars

\* Every other step leaves the book as it is.
LEMMA NextBook ==
  ASSUME TypeOK, Inductive, Serial, [Next]_vars
  PROVE  [Book!BookNext]_<<published, Shelf>>
<1>1. ASSUME NEW h \in Handlers, Request(h) PROVE UNCHANGED <<status, published>>
  BY <1>1 DEF Request, UpdateTender, SetStage, Remove, ListBids, Evaluate, FinancialClose,
              CreateBid, UpdateBid, Submit, Withdraw, Disqualify, Award, Await, bidVars, tenderVars
<1>2. CASE UNCHANGED <<status, published>>
  BY <1>2, ShelfSame
<1>. QED
  BY <1>1, <1>2, ResumeBook DEF Next, Tick, Fail, vars, tenderVars, bidVars

\* The two services implement AwardBook.
THEOREM KeepsTheAwardBook ==
  ASSUME OneAtATime
  PROVE  Spec => KeepsTheBook
<1>1. Init => Book!BookInit
  BY DEF Init, Book!BookInit, Standing
<1>2. ASSUME TypeOK, Inductive, Serial, [Next]_vars
      PROVE  [Book!BookNext]_<<published, [b \in Bidders |-> Standing(status[b])]>>
  BY <1>2, NextBook DEF Shelf
<1>. QED
  BY <1>1, <1>2, TypeCorrect, InductiveHolds, SerialHolds, PTL
     DEF Spec, KeepsTheBook, Book!BookSpec
=============================================================================
