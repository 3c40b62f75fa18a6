--------------------------- MODULE TenderPapers ---------------------------
(***************************************************************************)
(* The papers around one tender: clarification questions, addenda and the  *)
(* Swiss challenge, as ClarificationsService keeps them.                   *)
(*                                                                         *)
(* Its handlers are split at their awaits as in TenderRoom and may fail    *)
(* between two of them.  The tender's own moves are TenderRoom's business: *)
(* here they are single steps of an environment.  Only a draft is deleted, *)
(* and then every handler answers that there is no tender.                 *)
(*                                                                         *)
(* An operator marked "Variant" is a plausible bug in the operator after   *)
(* it, kept to show which property would find it.                          *)
(***************************************************************************)
EXTENDS Naturals, Sequences

CONSTANTS
  Questions,   \* rows a bidder may create, one each
  Answers,     \* texts the authority may answer with
  Handlers,    \* slots for requests in flight
  MaxTime,     \* the clock stops here
  MaxAddenda,  \* addenda that may be issued
  Window,      \* length of the challenge window
  Null         \* a date that is not set

Time == 1..MaxTime
Dates == 1..(MaxTime + 1)
Deadlines == Dates \cup {Null}

ASSUME TenderPapersAssumption ==
  /\ MaxTime \in Nat \ {0}
  /\ MaxAddenda \in Nat
  /\ Window \in Nat \ {0}
  /\ Null \notin Nat
  /\ {"ABSENT", "OPEN"} \cap Answers = {}

VARIABLES
  \* the tender row
  stage, deadline, clarifyBy,
  \* a question is ABSENT, OPEN, or its published answer
  question,
  \* addendum n announces addenda[n], a new deadline or none
  addenda,
  \* the challenge row (unique on tenderId) and the end of its window
  challenge, windowEnd,
  \* requests in flight, and the clock they read
  call, now,
  \* history: did two requests ever overlap, or one fail?  The deadline the
  \* bidders were told last.  The handlers that had been admitted to ask or to
  \* issue an addendum when submissions closed, until they answer.
  disturbed, promise, late

tender == <<stage, deadline, clarifyBy>>
papers == <<question, addenda, challenge, windowEnd>>
vars == <<tender, papers, call, now, disturbed, promise, late>>
-----------------------------------------------------------------------------
\* The stages up to the one that ends questions; CLOSED is every later one.
Stages == {"DRAFT", "PUBLISHED", "CLARIFICATION", "CLOSED"}

QuestionStages == {"PUBLISHED", "CLARIFICATION"}

\* AllowedTransitions of the tender, as far as questions are concerned.
StageMoves ==
  [DRAFT |-> {"PUBLISHED", "CLOSED"}, PUBLISHED |-> {"CLARIFICATION", "CLOSED"},
   CLARIFICATION |-> {"CLOSED"}, CLOSED |-> {}]

\* ChallengeStatus; nothing ever writes CLOSED.
Wins == {"ORIGINAL_WINS", "CHALLENGER_WINS"}
Outcomes == Wins \cup {"CANCELLED"}
ChallengeStatus == {"ABSENT", "OPEN"} \cup Outcomes

Ahead(d) == d # Null /\ d > now

Idle == [op |-> "idle"]

Calls ==
  {Idle}
    \cup [op : {"ask"}, q : Questions]
    \cup [op : {"answer"}, q : Questions, text : Answers]
    \cup [op : {"number"}, date : Deadlines]
    \cup [op : {"insert"}, date : Deadlines, n : 1..MaxAddenda]
    \cup [op : {"move"}, date : Dates]
    \cup [op : {"open"}, end : Nat]
    \cup [op : {"decide"}, to : Outcomes]

TypeOK ==
  /\ stage \in Stages
  /\ deadline \in Deadlines
  /\ clarifyBy \in Deadlines
  /\ question \in [Questions -> {"ABSENT", "OPEN"} \cup Answers]
  /\ addenda \in Seq(Deadlines)
  /\ challenge \in ChallengeStatus
  /\ windowEnd \in Nat
  /\ call \in [Handlers -> Calls]
  /\ now \in Time
  /\ disturbed \in BOOLEAN
  /\ promise \in Deadlines
  /\ late \subseteq Handlers

Init ==
  /\ stage = "DRAFT"
  /\ deadline \in Deadlines
  /\ clarifyBy \in Deadlines
  /\ question = [q \in Questions |-> "ABSENT"]
  /\ addenda = <<>>
  /\ challenge = "ABSENT"
  /\ windowEnd = 0
  /\ call = [h \in Handlers |-> Idle]
  /\ now = 1
  /\ disturbed = FALSE
  /\ promise = deadline
  /\ late = {}
-----------------------------------------------------------------------------
Busy == \E h \in Handlers : call[h] # Idle

Await(h, c) ==
  /\ call[h] = Idle
  /\ call' = [call EXCEPT ![h] = c]
  /\ disturbed' = (disturbed \/ Busy)
  /\ UNCHANGED <<tender, papers, now, promise, late>>

\* What is left of a handler that answers or fails.
Drop(h) == late' = late \ {h}

\* A handler goes on to another await, or answers.
GoOn(h, c) ==
  /\ call' = [call EXCEPT ![h] = c]
  /\ IF c = Idle THEN Drop(h) ELSE UNCHANGED late
  /\ UNCHANGED <<now, disturbed>>

Answer(h) == GoOn(h, Idle)
-----------------------------------------------------------------------------
(* TendersService, as an environment *)

SetStage ==
  /\ \E to \in StageMoves[stage] :
       /\ to = "PUBLISHED" => Ahead(deadline)
       /\ stage' = to
       /\ late' = IF to = "CLOSED"
                    THEN {h \in Handlers : call[h].op \in {"ask", "number", "insert", "move"}}
                    ELSE late
  /\ disturbed' = (disturbed \/ Busy)
  /\ UNCHANGED <<deadline, clarifyBy, papers, call, now, promise>>

\* The authority's own edit of the deadlines, until submissions close.
UpdateTender ==
  /\ stage # "CLOSED"
  /\ \E d, c \in Deadlines :
       /\ deadline' = d
       /\ clarifyBy' = c
       /\ promise' = d
  /\ disturbed' = (disturbed \/ Busy)
  /\ UNCHANGED <<stage, papers, call, now, late>>
-----------------------------------------------------------------------------
(* Clarifications *)

\* ask: by the clarification deadline, or else by the submission deadline.
Ask(h, q) ==
  /\ question[q] = "ABSENT"
  /\ \A g \in Handlers : call[g] # [op |-> "ask", q |-> q]
  /\ stage \in QuestionStages
  /\ LET cutoff == IF clarifyBy # Null THEN clarifyBy ELSE deadline
     IN  cutoff = Null \/ Ahead(cutoff)
  /\ Await(h, [op |-> "ask", q |-> q])

AskWrite(h) ==
  /\ call[h].op = "ask"
  /\ question' = [question EXCEPT ![call[h].q] = "OPEN"]
  /\ Answer(h)
  /\ UNCHANGED <<tender, addenda, challenge, windowEnd, promise>>

\* Variant: an answered question may be answered again.
AnswerAgain(h, q) ==
  /\ question[q] # "ABSENT"
  /\ \E a \in Answers : Await(h, [op |-> "answer", q |-> q, text |-> a])

\* answer: the question is read unanswered; the tender, read next, only says
\* who may answer.
AnswerQuestion(h, q) ==
  /\ question[q] = "OPEN"
  /\ \E a \in Answers : Await(h, [op |-> "answer", q |-> q, text |-> a])

\* The answer is published to every bidder in the same write.
AnswerQuestionWrite(h) ==
  /\ call[h].op = "answer"
  /\ question' = [question EXCEPT ![call[h].q] = call[h].text]
  /\ Answer(h)
  /\ UNCHANGED <<tender, addenda, challenge, windowEnd, promise>>
-----------------------------------------------------------------------------
(* Addenda *)

\* Variant: addenda may be issued in any stage.
IssueAnytime(h) ==
  /\ Len(addenda) < MaxAddenda
  /\ \E d \in Deadlines : Await(h, [op |-> "number", date |-> d])

IssueAddendum(h) ==
  /\ Len(addenda) < MaxAddenda
  /\ stage \in QuestionStages
  /\ \E d \in Deadlines : Await(h, [op |-> "number", date |-> d])

\* nextAddendumNumber, one more than the largest; a revised deadline must
\* then lie ahead.
NextAddendumNumber(h) ==
  /\ call[h].op = "number"
  /\ Len(addenda) < MaxAddenda
  /\ GoOn(h, IF call[h].date = Null \/ Ahead(call[h].date)
               THEN [op |-> "insert", date |-> call[h].date, n |-> Len(addenda) + 1]
               ELSE Idle)
  /\ UNCHANGED <<tender, papers, promise>>

\* An addendum that revises the deadline goes on to move it.
AfterInsert(h, d) == GoOn(h, IF d = Null THEN Idle ELSE [op |-> "move", date |-> d])

\* Variant: the addendum of that number is written over.
UpsertAddendum(h) ==
  /\ call[h].op = "insert"
  /\ addenda' = [i \in 1..Len(addenda) \cup {call[h].n} |->
                   IF i = call[h].n THEN call[h].date ELSE addenda[i]]
  /\ promise' = IF call[h].date = Null THEN promise ELSE call[h].date
  /\ AfterInsert(h, call[h].date)
  /\ UNCHANGED <<tender, question, challenge, windowEnd>>

\* The insertion, or the unique constraint's refusal of a number taken.
InsertAddendum(h) ==
  /\ call[h].op = "insert"
  /\ IF call[h].n > Len(addenda)
       THEN /\ addenda' = Append(addenda, call[h].date)
            /\ promise' = IF call[h].date = Null THEN promise ELSE call[h].date
            /\ AfterInsert(h, call[h].date)
       ELSE Answer(h) /\ UNCHANGED <<addenda, promise>>
  /\ UNCHANGED <<tender, question, challenge, windowEnd>>

\* Variant: the deadline is only ever extended.
ExtendDeadline(h) ==
  /\ call[h].op = "move"
  /\ deadline' = IF Ahead(deadline) /\ deadline > call[h].date THEN deadline ELSE call[h].date
  /\ Answer(h)
  /\ UNCHANGED <<stage, clarifyBy, papers, promise>>

\* updateTenderDeadline
MoveDeadline(h) ==
  /\ call[h].op = "move"
  /\ deadline' = call[h].date
  /\ Answer(h)
  /\ UNCHANGED <<stage, clarifyBy, papers, promise>>
-----------------------------------------------------------------------------
(* Swiss challenge *)

\* openChallenge: in any stage.  Challenges are never deleted, so the look
\* for an existing one refuses what the insertion does.
OpenChallenge(h) == Await(h, [op |-> "open", end |-> now + Window])

OpenChallengeWrite(h) ==
  /\ call[h].op = "open"
  /\ IF challenge = "ABSENT"
       THEN challenge' = "OPEN" /\ windowEnd' = call[h].end
       ELSE UNCHANGED <<challenge, windowEnd>>
  /\ Answer(h)
  /\ UNCHANGED <<tender, question, addenda, promise>>

\* Variant: a challenge may be decided while its window is open.
DecideAtOnce(h) ==
  /\ challenge = "OPEN"
  /\ \E to \in Outcomes : Await(h, [op |-> "decide", to |-> to])

\* decideChallenge: only a cancellation may come before the window closes.
DecideChallenge(h) ==
  /\ challenge = "OPEN"
  /\ \E to \in Outcomes :
       /\ to # "CANCELLED" => windowEnd <= now
       /\ Await(h, [op |-> "decide", to |-> to])

\* Variant: the decision only closes the challenge.
CloseChallengeWrite(h) ==
  /\ call[h].op = "decide"
  /\ challenge' = "CLOSED"
  /\ Answer(h)
  /\ UNCHANGED <<tender, question, addenda, windowEnd, promise>>

DecideChallengeWrite(h) ==
  /\ call[h].op = "decide"
  /\ challenge' = call[h].to
  /\ Answer(h)
  /\ UNCHANGED <<tender, question, addenda, windowEnd, promise>>
-----------------------------------------------------------------------------
Request(h) ==
  \/ \E q \in Questions : Ask(h, q) \/ AnswerQuestion(h, q)
  \/ IssueAddendum(h) \/ OpenChallenge(h) \/ DecideChallenge(h)

Resume(h) ==
  \/ AskWrite(h) \/ AnswerQuestionWrite(h)
  \/ NextAddendumNumber(h) \/ InsertAddendum(h) \/ MoveDeadline(h)
  \/ OpenChallengeWrite(h) \/ DecideChallengeWrite(h)

\* A query fails, or the server restarts: what is left of the handler is lost.
Fail(h) ==
  /\ call[h] # Idle
  /\ call' = [call EXCEPT ![h] = Idle]
  /\ Drop(h)
  /\ disturbed' = TRUE
  /\ UNCHANGED <<tender, papers, now, promise>>

Tick ==
  /\ now < MaxTime
  /\ now' = now + 1
  /\ UNCHANGED <<tender, papers, call, disturbed, promise, late>>

Next == Tick \/ SetStage \/ UpdateTender \/ \E h \in Handlers : Request(h) \/ Resume(h) \/ Fail(h)

Spec == Init /\ [][Next]_vars
-----------------------------------------------------------------------------
(* What holds however requests interleave and fail *)

\* "Addenda are append-only - the sequence is the audit trail of what changed
\* and when" (schema.prisma, Addendum): two issued at once under one number
\* lose neither, for the constraint refuses the second.
Extends(s, t) == Len(s) <= Len(t) /\ \A i \in 1..Len(s) : t[i] = s[i]

AddendaAppendOnly == [][Extends(addenda, addenda')]_addenda

\* Nobody wins a challenge while third parties may still answer it, whatever
\* was opened, decided or cancelled at the same time
\* (ClarificationsService.decideChallenge).
NoWinnerInsideTheWindow == challenge \in Wins => windowEnd <= now

\* "Amending terms after bids close would undermine the process"
\* (clarifications.service.ts:107): once submissions have closed no question
\* and no addendum appears and no deadline moves, whatever overlaps or fails,
\* but by a request that had been admitted before they closed and has not
\* answered since (ClarificationsService.ask, issueAddendum).
Grows ==
  \/ Len(addenda') > Len(addenda)
  \/ \E q \in Questions : question[q] = "ABSENT" /\ question'[q] = "OPEN"

LatePapersWereUnderWay ==
  [][stage = "CLOSED" /\ (Grows \/ deadline' # deadline) =>
       \E h \in late : call'[h] # call[h]]_<<papers, deadline>>
-----------------------------------------------------------------------------
(* What holds as long as no two requests overlap and none fails *)

\* Between requests the tender's deadline is the one its bidders were told
\* last, by an addendum or by the authority's edit
\* (ClarificationsService.issueAddendum, updateTenderDeadline).
AnnouncedDeadlineHolds == ~disturbed /\ ~Busy => deadline = promise

\* A published answer and the outcome of a challenge are never replaced
\* (ClarificationsService.answer, decideChallenge).
Stands(q) == question[q] \in Answers => question'[q] = question[q]

DecisionsStand ==
  [][~disturbed' =>
       /\ \A q \in Questions : Stands(q)
       /\ challenge \in Outcomes => challenge' = challenge]_papers
-----------------------------------------------------------------------------
(* Invariants the proofs rest on *)

\* A win about to be written was read open and past its window.
WinsInTime ==
  /\ NoWinnerInsideTheWindow
  /\ \A h \in Handlers :
       call[h].op = "decide" /\ call[h].to \in Wins => challenge # "ABSENT" /\ windowEnd <= now

\* Whoever is about to write after submissions closed was admitted before.
AdmittedInTime ==
  stage = "CLOSED" =>
    \A h \in Handlers : call[h].op \in {"ask", "number", "insert", "move"} => h \in late

\* What a handler read is still so when it goes on.
Fresh(c) ==
  /\ c.op \in {"ask", "number", "insert"} => stage \in QuestionStages
  /\ c.op = "ask" => question[c.q] = "ABSENT"
  /\ c.op = "answer" => question[c.q] = "OPEN"
  /\ c.op = "move" => promise = c.date
  /\ c.op = "decide" => challenge = "OPEN"

\* Of requests that never overlapped one at most is in flight, what it read
\* is fresh, and only one about to move the deadline leaves it unannounced.
Serial ==
  ~disturbed =>
    /\ \A g, h \in Handlers : g # h => call[g] = Idle \/ call[h] = Idle
    /\ \A h \in Handlers : Fresh(call[h])
    /\ (\A h \in Handlers : call[h].op # "move") => deadline = promise
=============================================================================
