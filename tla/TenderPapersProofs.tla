------------------------ MODULE TenderPapersProofs ------------------------
(***************************************************************************)
(* TenderPapers for any number of questions, addenda and requests in       *)
(* flight: types, the challenge window, the addenda and what comes after   *)
(* submissions closed whatever happens, and the rest as long as no two     *)
(* requests overlap and none fails.                                        *)
(***************************************************************************)
EXTENDS TenderPapers, TLAPS

\* What the operation of a parked call says about its other fields.
LEMMA CallFields ==
  ASSUME NEW c \in Calls
  PROVE  /\ c.op \in {"ask", "answer"} => c.q \in Questions
         /\ c.op = "answer" => c.text \in Answers
         /\ c.op \in {"number", "insert"} => c.date \in Deadlines
         /\ c.op = "move" => c.date \in Dates
         /\ c.op = "open" => c.end \in Nat
         /\ c.op = "decide" => c.to \in Outcomes
BY DEF Calls, Idle

LEMMA GoOnType ==
  ASSUME TypeOK, NEW h \in Handlers, NEW c \in Calls, GoOn(h, c)
  PROVE  /\ call' \in [Handlers -> Calls] /\ now' \in Time /\ disturbed' \in BOOLEAN
         /\ late' \subseteq Handlers
BY DEF TypeOK, GoOn, Drop

LEMMA AwaitType ==
  ASSUME TypeOK, NEW h \in Handlers, NEW c \in Calls, Await(h, c)
  PROVE  TypeOK'
BY DEF TypeOK, Await, tender, papers

LEMMA IdleIsCall == Idle \in Calls
BY DEF Calls

\* A request takes on a call that is fresh; a win it asks for is in time.
LEMMA RequestCalls ==
  ASSUME TypeOK, NEW h \in Handlers, Request(h)
  PROVE  \E c \in Calls :
           /\ Await(h, c)
           /\ Fresh(c)
           /\ c.op # "move"
           /\ c.op = "decide" /\ c.to \in Wins => windowEnd <= now
<1>1. ASSUME NEW q \in Questions, Ask(h, q)
      PROVE  LET c == [op |-> "ask", q |-> q] IN c \in Calls /\ Await(h, c) /\ Fresh(c)
  BY <1>1 DEF Ask, Fresh, Calls
<1>2. ASSUME NEW q \in Questions, AnswerQuestion(h, q)
      PROVE  \E a \in Answers :
               LET c == [op |-> "answer", q |-> q, text |-> a]
               IN  c \in Calls /\ Await(h, c) /\ Fresh(c)
  BY <1>2 DEF AnswerQuestion, Fresh, Calls
<1>3. ASSUME IssueAddendum(h)
      PROVE  \E d \in Deadlines :
               LET c == [op |-> "number", date |-> d]
               IN  c \in Calls /\ Await(h, c) /\ Fresh(c)
  BY <1>3 DEF IssueAddendum, Fresh, Calls
<1>4. ASSUME OpenChallenge(h)
      PROVE  LET c == [op |-> "open", end |-> now + Window]
             IN  c \in Calls /\ Await(h, c) /\ Fresh(c)
  <2>1. now + Window \in Nat
    BY TenderPapersAssumption DEF TypeOK, Time
  <2>. QED
    BY <1>4, <2>1 DEF OpenChallenge, Fresh, Calls
<1>5. ASSUME DecideChallenge(h)
      PROVE  \E to \in Outcomes :
               LET c == [op |-> "decide", to |-> to]
               IN  /\ c \in Calls /\ Await(h, c) /\ Fresh(c)
                   /\ to \in Wins => windowEnd <= now
  <2>1. PICK to \in Outcomes :
          /\ Await(h, [op |-> "decide", to |-> to])
          /\ to # "CANCELLED" => windowEnd <= now
    BY <1>5 DEF DecideChallenge
  <2>2. [op |-> "decide", to |-> to] \in Calls /\ (to \in Wins => windowEnd <= now)
    BY <2>1 DEF Calls, Wins
  <2>3. Fresh([op |-> "decide", to |-> to])
    BY <1>5 DEF DecideChallenge, Fresh
  <2>. QED
    BY <2>1, <2>2, <2>3
<1>. QED
  BY <1>1, <1>2, <1>3, <1>4, <1>5 DEF Request

\* A write keeps the types.
LEMMA ResumeType ==
  ASSUME TypeOK, NEW h \in Handlers, Resume(h)
  PROVE  TypeOK'
<1>c. call[h] \in Calls
  BY DEF TypeOK
<1>1. CASE AskWrite(h) \/ AnswerQuestionWrite(h)
  <2>1. Answer(h) /\ question' \in [Questions -> {"ABSENT", "OPEN"} \cup Answers]
    BY <1>1, <1>c, CallFields DEF AskWrite, AnswerQuestionWrite, TypeOK
  <2>. QED
    BY <1>1, <2>1, IdleIsCall, GoOnType DEF Answer, AskWrite, AnswerQuestionWrite, TypeOK, tender
<1>2. CASE NextAddendumNumber(h)
  <2>1. PICK c \in {Idle, [op |-> "insert", date |-> call[h].date, n |-> Len(addenda) + 1]} :
          GoOn(h, c)
    BY <1>2 DEF NextAddendumNumber
  <2>2. Len(addenda) + 1 \in 1..MaxAddenda /\ call[h].date \in Deadlines
    BY <1>2, <1>c, CallFields, TenderPapersAssumption DEF NextAddendumNumber, TypeOK
  <2>3. c \in Calls
    BY <2>2 DEF Calls
  <2>. QED
    BY <1>2, <2>1, <2>3, GoOnType DEF NextAddendumNumber, TypeOK, tender, papers
<1>3. CASE InsertAddendum(h)
  <2>1. call[h].date \in Deadlines
    BY <1>3, <1>c, CallFields DEF InsertAddendum
  <2>2. PICK c \in {Idle, [op |-> "move", date |-> call[h].date]} : GoOn(h, c) /\ c \in Calls
    BY <1>3, <2>1 DEF InsertAddendum, AfterInsert, Answer, Calls, Deadlines
  <2>3. addenda' \in Seq(Deadlines) /\ promise' \in Deadlines
    BY <1>3, <2>1 DEF InsertAddendum, TypeOK
  <2>. QED
    BY <1>3, <2>2, <2>3, GoOnType DEF InsertAddendum, TypeOK, tender
<1>4. CASE MoveDeadline(h)
  <2>1. call[h].date \in Deadlines
    BY <1>4, <1>c, CallFields DEF MoveDeadline, Deadlines
  <2>. QED
    BY <1>4, <2>1, IdleIsCall, GoOnType DEF MoveDeadline, Answer, TypeOK, papers
<1>5. CASE OpenChallengeWrite(h) \/ DecideChallengeWrite(h)
  <2>1. Answer(h) /\ challenge' \in ChallengeStatus /\ windowEnd' \in Nat
    BY <1>5, <1>c, CallFields
       DEF OpenChallengeWrite, DecideChallengeWrite, TypeOK, ChallengeStatus
  <2>. QED
    BY <1>5, <2>1, IdleIsCall, GoOnType
       DEF Answer, OpenChallengeWrite, DecideChallengeWrite, TypeOK, tender
<1>. QED
  BY <1>1, <1>2, <1>3, <1>4, <1>5 DEF Resume

\* Every row, parked request and history is of its type.
THEOREM TypeCorrect == Spec => []TypeOK
<1>1. ASSUME Init PROVE TypeOK
  <2>1. now \in Time /\ addenda \in Seq(Deadlines)
    BY <1>1, TenderPapersAssumption DEF Init, Time
  <2>2. call \in [Handlers -> Calls]
    BY <1>1, IdleIsCall DEF Init
  <2>. QED
    BY <1>1, <2>1, <2>2 DEF Init, TypeOK, Stages, ChallengeStatus
<1>2. ASSUME TypeOK, Tick \/ SetStage \/ UpdateTender PROVE TypeOK'
  <2>1. CASE Tick
    BY <1>2, <2>1, TenderPapersAssumption DEF Tick, TypeOK, Time, tender, papers
  <2>2. CASE SetStage
    BY <1>2, <2>2 DEF SetStage, TypeOK, Stages, StageMoves, papers
  <2>3. CASE UpdateTender
    BY <1>2, <2>3 DEF UpdateTender, TypeOK, papers
  <2>. QED
    BY <1>2, <2>1, <2>2, <2>3
<1>3. ASSUME TypeOK, NEW h \in Handlers, Request(h) \/ Fail(h) PROVE TypeOK'
  <2>1. CASE Request(h)
    BY <1>3, <2>1, RequestCalls, AwaitType
  <2>2. CASE Fail(h)
    BY <1>3, <2>2, IdleIsCall DEF Fail, Drop, TypeOK, tender, papers
  <2>. QED
    BY <1>3, <2>1, <2>2
<1>4. TypeOK /\ UNCHANGED vars => TypeOK'
  BY DEF TypeOK, vars, tender, papers
<1>5. TypeOK /\ [Next]_vars => TypeOK'
  BY <1>2, <1>3, <1>4, ResumeType DEF Next
<1>. QED
  BY <1>1, <1>5, PTL DEF Spec
-----------------------------------------------------------------------------
(* Whatever overlaps or fails *)

\* A handler that answers, with the challenge left alone, keeps WinsInTime.
LEMMA WinsKept ==
  ASSUME TypeOK, WinsInTime, NEW h \in Handlers, NEW c,
         call' = [call EXCEPT ![h] = c],
         c.op = "decide" /\ c.to \in Wins => challenge # "ABSENT" /\ windowEnd <= now,
         UNCHANGED <<challenge, windowEnd, now>>
  PROVE  WinsInTime'
<1>1. \A g \in Handlers : call'[g] = IF g = h THEN c ELSE call[g]
  BY DEF TypeOK
<1>. QED
  BY <1>1 DEF WinsInTime, NoWinnerInsideTheWindow

LEMMA ResumeWins ==
  ASSUME TypeOK, WinsInTime, NEW h \in Handlers, Resume(h)
  PROVE  WinsInTime'
<1>c. call[h] \in Calls
  BY DEF TypeOK
<1>1. CASE AskWrite(h) \/ AnswerQuestionWrite(h) \/ MoveDeadline(h)
  BY <1>1, WinsKept
     DEF AskWrite, AnswerQuestionWrite, MoveDeadline, Answer, GoOn, Idle, papers
<1>2. CASE NextAddendumNumber(h)
  BY <1>2, WinsKept DEF NextAddendumNumber, GoOn, Idle, papers
<1>3. CASE InsertAddendum(h)
  BY <1>3, WinsKept DEF InsertAddendum, AfterInsert, Answer, GoOn, Idle
<1>4. CASE OpenChallengeWrite(h)
  <2>1. CASE challenge = "ABSENT"
    <3>1. \A g \in Handlers : call'[g] = IF g = h THEN Idle ELSE call[g]
      BY <1>4 DEF OpenChallengeWrite, Answer, GoOn, TypeOK
    <3>. QED
      BY <1>4, <2>1, <3>1
         DEF OpenChallengeWrite, WinsInTime, NoWinnerInsideTheWindow, Wins, Idle
  <2>2. CASE challenge # "ABSENT"
    BY <1>4, <2>2, WinsKept DEF OpenChallengeWrite, Answer, GoOn, Idle
  <2>. QED
    BY <2>1, <2>2
<1>5. CASE DecideChallengeWrite(h)
  <2>1. /\ \A g \in Handlers : call'[g] = IF g = h THEN Idle ELSE call[g]
        /\ challenge' = call[h].to
        /\ UNCHANGED <<windowEnd, now>>
    BY <1>5 DEF DecideChallengeWrite, Answer, GoOn, TypeOK
  <2>2. challenge' # "ABSENT"
    BY <1>5, <1>c, <2>1, CallFields DEF DecideChallengeWrite, Outcomes, Wins
  <2>. QED
    BY <1>5, <2>1, <2>2 DEF DecideChallengeWrite, WinsInTime, NoWinnerInsideTheWindow, Idle
<1>. QED
  BY <1>1, <1>2, <1>3, <1>4, <1>5 DEF Resume

\* No challenge is won inside its window, however it is opened and decided.
THEOREM WindowHolds == Spec => []NoWinnerInsideTheWindow
<1>1. Init => WinsInTime
  BY DEF Init, WinsInTime, NoWinnerInsideTheWindow, Wins, Idle
<1>2. ASSUME TypeOK, WinsInTime, Tick PROVE WinsInTime'
  BY <1>2 DEF Tick, WinsInTime, NoWinnerInsideTheWindow, TypeOK, Time, papers
<1>3. ASSUME TypeOK, WinsInTime, SetStage \/ UpdateTender \/ UNCHANGED vars PROVE WinsInTime'
  BY <1>3 DEF SetStage, UpdateTender, WinsInTime, NoWinnerInsideTheWindow, papers, vars
<1>4. ASSUME TypeOK, WinsInTime, NEW h \in Handlers, Request(h) PROVE WinsInTime'
  <2>1. PICK c \in Calls : /\ Await(h, c) /\ Fresh(c)
                           /\ c.op = "decide" /\ c.to \in Wins => windowEnd <= now
    BY <1>4, RequestCalls
  <2>. QED
    BY <1>4, <2>1, WinsKept DEF Await, Fresh, papers
<1>5. ASSUME TypeOK, WinsInTime, NEW h \in Handlers, Fail(h) PROVE WinsInTime'
  BY <1>5, WinsKept DEF Fail, Idle, papers
<1>6. TypeOK /\ WinsInTime /\ [Next]_vars => WinsInTime'
  BY <1>2, <1>3, <1>4, <1>5, ResumeWins DEF Next
<1>7. WinsInTime => NoWinnerInsideTheWindow
  BY DEF WinsInTime
<1>. QED
  BY <1>1, <1>6, <1>7, TypeCorrect, PTL DEF Spec

\* However issues interleave, no addendum is lost, changed or renumbered.
THEOREM AddendaHold == Spec => AddendaAppendOnly
<1>1. ASSUME TypeOK, NEW h \in Handlers, InsertAddendum(h) PROVE Extends(addenda, addenda')
  BY <1>1 DEF InsertAddendum, Extends, TypeOK
<1>2. ASSUME TypeOK, [Next]_vars PROVE [Extends(addenda, addenda')]_addenda
  <2>1. (\E h \in Handlers : InsertAddendum(h)) \/ UNCHANGED addenda
    BY <1>2 DEF Next, vars, papers, Tick, SetStage, UpdateTender, Fail, Await, Request, Ask,
                AnswerQuestion, IssueAddendum, OpenChallenge, DecideChallenge, Resume, AskWrite,
                AnswerQuestionWrite, NextAddendumNumber, MoveDeadline, OpenChallengeWrite,
                DecideChallengeWrite
  <2>. QED
    BY <1>1, <1>2, <2>1
<1>. QED
  BY <1>2, TypeCorrect, PTL DEF Spec, AddendaAppendOnly
-----------------------------------------------------------------------------
(* After submissions have closed *)

Papers == {"ask", "number", "insert", "move"}

\* A handler goes on to something it was admitted to, or answers.
LEMMA AdmittedKept ==
  ASSUME TypeOK, AdmittedInTime, NEW h \in Handlers, NEW c, call' = [call EXCEPT ![h] = c],
         UNCHANGED stage,
         IF c = Idle THEN late' = late \ {h} ELSE UNCHANGED late,
         c.op \in Papers => call[h].op \in Papers \/ stage # "CLOSED"
  PROVE  AdmittedInTime'
<1>1. \A g \in Handlers : call'[g] = IF g = h THEN c ELSE call[g]
  BY DEF TypeOK
<1>2. Idle.op \notin Papers
  BY DEF Idle, Papers
<1>3. ASSUME stage = "CLOSED", NEW g \in Handlers, call'[g].op \in Papers PROVE g \in late'
  <2>1. call[g].op \in Papers /\ call'[g] # Idle
    BY <1>1, <1>2, <1>3
  <2>2. g \in late
    BY <1>3, <2>1 DEF AdmittedInTime, Papers
  <2>. QED
    BY <1>1, <2>1, <2>2
<1>. QED
  BY <1>3 DEF AdmittedInTime, Papers

LEMMA ResumeAdmitted ==
  ASSUME TypeOK, AdmittedInTime, NEW h \in Handlers, Resume(h)
  PROVE  AdmittedInTime'
<1>i. Idle.op \notin Papers
  BY DEF Idle, Papers
<1>1. PICK c : GoOn(h, c) /\ (c.op \in Papers => call[h].op \in Papers)
  <2>1. CASE NextAddendumNumber(h) \/ InsertAddendum(h)
    BY <2>1, <1>i DEF NextAddendumNumber, InsertAddendum, AfterInsert, Answer, Papers
  <2>2. CASE ~(NextAddendumNumber(h) \/ InsertAddendum(h))
    <3>1. Answer(h)
      BY <2>2 DEF Resume, AskWrite, AnswerQuestionWrite, MoveDeadline, OpenChallengeWrite,
                  DecideChallengeWrite
    <3>. QED
      BY <3>1, <1>i DEF Answer
  <2>. QED
    BY <2>1, <2>2
<1>2. UNCHANGED stage
  BY DEF Resume, AskWrite, AnswerQuestionWrite, NextAddendumNumber, InsertAddendum, MoveDeadline,
         OpenChallengeWrite, DecideChallengeWrite, tender
<1>. QED
  BY <1>1, <1>2, AdmittedKept DEF GoOn, Drop

LEMMA AdmittedHolds == Spec => []AdmittedInTime
<1>1. Init => AdmittedInTime
  BY DEF Init, AdmittedInTime
<1>2. ASSUME TypeOK, AdmittedInTime, Tick \/ UpdateTender \/ UNCHANGED vars PROVE AdmittedInTime'
  BY <1>2 DEF Tick, UpdateTender, vars, tender, AdmittedInTime
<1>3. ASSUME TypeOK, SetStage PROVE AdmittedInTime'
  <2>1. PICK to \in StageMoves[stage] :
          /\ stage' = to
          /\ to = "CLOSED" =>
               late' = {h \in Handlers : call[h].op \in {"ask", "number", "insert", "move"}}
    BY <1>3 DEF SetStage
  <2>. QED
    BY <1>3, <2>1 DEF SetStage, AdmittedInTime
<1>4. ASSUME TypeOK, AdmittedInTime, NEW h \in Handlers, Request(h) PROVE AdmittedInTime'
  <2>1. PICK c \in Calls : Await(h, c) /\ Fresh(c) /\ c.op # "move"
    BY <1>4, RequestCalls
  <2>2. c.op \in Papers => stage # "CLOSED"
    BY <2>1 DEF Fresh, Papers, QuestionStages
  <2>3. \A g \in Handlers : call'[g] = IF g = h THEN c ELSE call[g]
    BY <1>4, <2>1 DEF Await, TypeOK
  <2>. QED
    BY <1>4, <2>1, <2>2, <2>3 DEF Await, AdmittedInTime, Papers, tender
<1>5. ASSUME TypeOK, AdmittedInTime, NEW h \in Handlers, Fail(h) PROVE AdmittedInTime'
  BY <1>5, AdmittedKept DEF Fail, Drop, Idle, Papers, tender
<1>6. TypeOK /\ AdmittedInTime /\ [Next]_vars => AdmittedInTime'
  BY <1>2, <1>3, <1>4, <1>5, ResumeAdmitted DEF Next
<1>. QED
  BY <1>1, <1>6, TypeCorrect, PTL DEF Spec

\* After submissions have closed no question and no addendum appears and no
\* deadline moves but by a request admitted before they closed.
THEOREM PapersStayInTime == Spec => LatePapersWereUnderWay
<1>1. ASSUME TypeOK, AdmittedInTime, [Next]_vars, stage = "CLOSED", Grows \/ deadline' # deadline
      PROVE  \E h \in late : call'[h] # call[h]
  <2>1. ~UNCHANGED <<question, addenda, deadline>>
    BY <1>1 DEF Grows, TypeOK
  <2>2. PICK h \in Handlers :
          \/ AskWrite(h) \/ AnswerQuestionWrite(h) \/ InsertAddendum(h) \/ MoveDeadline(h)
    BY <1>1, <2>1
       DEF Next, vars, tender, papers, Tick, SetStage, StageMoves, UpdateTender, Fail, Await,
           Request, Ask, AnswerQuestion, IssueAddendum, OpenChallenge, DecideChallenge, Resume,
           NextAddendumNumber, OpenChallengeWrite, DecideChallengeWrite
  <2>3. CASE AskWrite(h) \/ InsertAddendum(h) \/ MoveDeadline(h)
    <3>1. h \in late
      BY <1>1, <2>3 DEF AskWrite, InsertAddendum, MoveDeadline, AdmittedInTime
    <3>2. call'[h].op # call[h].op
      BY <1>1, <2>3 DEF AskWrite, InsertAddendum, MoveDeadline, AfterInsert, Answer, GoOn, Idle,
                        TypeOK
    <3>. QED
      BY <3>1, <3>2
  <2>4. CASE AnswerQuestionWrite(h)
    <3>1. call[h].q \in Questions /\ call[h].text # "OPEN" /\ UNCHANGED <<addenda, deadline>>
      BY <1>1, <2>4, CallFields, TenderPapersAssumption DEF AnswerQuestionWrite, TypeOK, tender
    <3>2. \A q \in Questions : question'[q] = IF q = call[h].q THEN call[h].text ELSE question[q]
      BY <1>1, <2>4, <3>1 DEF AnswerQuestionWrite, TypeOK
    <3>. QED
      BY <1>1, <3>1, <3>2 DEF Grows, TypeOK
  <2>. QED
    BY <2>2, <2>3, <2>4
<1>. QED
  BY <1>1, TypeCorrect, AdmittedHolds, PTL DEF Spec, LatePapersWereUnderWay
-----------------------------------------------------------------------------
(* As long as no two requests overlap and none fails *)

\* A handler alone in flight makes a step that leaves it idle or fresh.
LEMMA SerialStep ==
  ASSUME TypeOK, NEW h \in Handlers, NEW c, call' = [call EXCEPT ![h] = c],
         \A g \in Handlers : g # h => call[g] = Idle,
         Fresh(c)', c.op # "move" => deadline' = promise'
  PROVE  Serial'
<1>1. \A g \in Handlers : call'[g] = IF g = h THEN c ELSE Idle
  BY DEF TypeOK
<1>2. \A g \in Handlers : Fresh(call[g])'
  BY <1>1 DEF Fresh, Idle
<1>. QED
  BY <1>1, <1>2 DEF Serial

LEMMA RequestSerial ==
  ASSUME TypeOK, Serial, NEW h \in Handlers, Request(h)
  PROVE  Serial'
<1>1. PICK c \in Calls : Await(h, c) /\ Fresh(c) /\ c.op # "move"
  BY RequestCalls
<1>2. CASE disturbed'
  BY <1>2 DEF Serial
<1>3. CASE ~disturbed'
  <2>1. ~disturbed /\ \A g \in Handlers : call[g] = Idle
    BY <1>1, <1>3 DEF Await, Busy
  <2>2. Fresh(c)' /\ deadline' = promise'
    BY <1>1, <2>1 DEF Await, Fresh, Serial, Idle, tender, papers
  <2>. QED
    BY <1>1, <2>1, <2>2, SerialStep DEF Await
<1>. QED
  BY <1>2, <1>3

\* What the writes of a request that met no other do.
LEMMA ResumeSerial ==
  ASSUME TypeOK, Serial, NEW h \in Handlers, Resume(h)
  PROVE  Serial'
<1>u. UNCHANGED disturbed
  BY DEF Resume, AskWrite, AnswerQuestionWrite, NextAddendumNumber, InsertAddendum, AfterInsert,
         MoveDeadline, OpenChallengeWrite, DecideChallengeWrite, GoOn, Answer
<1>o. CASE disturbed
  BY <1>o, <1>u DEF Serial
<1>a. SUFFICES ASSUME ~disturbed PROVE Serial'
  BY <1>o
<1>c. /\ Fresh(call[h])
      /\ call[h] # Idle
      /\ \A g \in Handlers : g # h => call[g] = Idle
  BY <1>a DEF Serial, Resume, AskWrite, AnswerQuestionWrite, NextAddendumNumber, InsertAddendum,
              MoveDeadline, OpenChallengeWrite, DecideChallengeWrite, Idle
<1>d. call[h].op # "move" => deadline = promise
  BY <1>a, <1>c DEF Serial, Idle
<1>i. Fresh(Idle)' /\ Idle.op # "move"
  BY DEF Fresh, Idle
<1>1. CASE AskWrite(h) \/ AnswerQuestionWrite(h) \/ OpenChallengeWrite(h) \/ DecideChallengeWrite(h)
  <2>1. call[h].op # "move" /\ UNCHANGED <<deadline, promise>> /\ Answer(h)
    BY <1>1 DEF AskWrite, AnswerQuestionWrite, OpenChallengeWrite, DecideChallengeWrite, tender
  <2>. QED
    BY <1>c, <1>d, <1>i, <2>1, SerialStep DEF Answer, GoOn
<1>2. CASE NextAddendumNumber(h)
  <2>1. PICK c : GoOn(h, c) /\ Fresh(c) /\ c.op # "move"
    BY <1>2, <1>c DEF NextAddendumNumber, Fresh, Idle
  <2>2. Fresh(c)' /\ deadline' = promise'
    BY <1>2, <1>d, <2>1 DEF NextAddendumNumber, Fresh, tender, papers
  <2>. QED
    BY <1>c, <2>1, <2>2, SerialStep DEF GoOn
<1>3. CASE InsertAddendum(h)
  <2>1. PICK c : /\ GoOn(h, c)
                 /\ Fresh(c)'
                 /\ c.op # "move" => deadline' = promise'
    BY <1>3, <1>d DEF InsertAddendum, AfterInsert, Answer, Fresh, Idle, tender
  <2>. QED
    BY <1>c, <2>1, SerialStep DEF GoOn
<1>4. CASE MoveDeadline(h)
  <2>1. deadline' = promise'
    BY <1>4, <1>c DEF MoveDeadline, Fresh
  <2>. QED
    BY <1>4, <1>c, <1>i, <2>1, SerialStep DEF MoveDeadline, Answer, GoOn
<1>. QED
  BY <1>1, <1>2, <1>3, <1>4 DEF Resume

LEMMA SerialHolds == Spec => []Serial
<1>1. Init => Serial
  BY DEF Init, Serial, Fresh, Idle
<1>2. ASSUME TypeOK, Serial, Tick \/ UNCHANGED vars PROVE Serial'
  BY <1>2 DEF Tick, Serial, Fresh, vars, tender, papers
<1>3. ASSUME TypeOK, Serial, SetStage \/ UpdateTender PROVE Serial'
  <2>1. CASE disturbed'
    BY <2>1 DEF Serial
  <2>2. CASE ~disturbed'
    <3>1. ~disturbed /\ \A h \in Handlers : call[h] = Idle /\ call'[h] = Idle
      BY <1>3, <2>2 DEF SetStage, UpdateTender, Busy
    <3>2. deadline' = promise'
      BY <1>3, <3>1 DEF SetStage, UpdateTender, Serial, Idle
    <3>. QED
      BY <3>1, <3>2 DEF Serial, Fresh, Idle
  <2>. QED
    BY <2>1, <2>2
<1>4. ASSUME NEW h \in Handlers, Fail(h) PROVE Serial'
  BY <1>4 DEF Fail, Serial
<1>5. TypeOK /\ Serial /\ [Next]_vars => Serial'
  BY <1>2, <1>3, <1>4, RequestSerial, ResumeSerial DEF Next
<1>. QED
  BY <1>1, <1>5, TypeCorrect, PTL DEF Spec

\* Between requests the deadline is the one that was announced last.
THEOREM DeadlineHolds == Spec => []AnnouncedDeadlineHolds
<1>1. Serial => AnnouncedDeadlineHolds
  BY DEF Serial, AnnouncedDeadlineHolds, Busy, Idle
<1>. QED
  BY <1>1, SerialHolds, PTL

\* The steps that touch the papers, and what each of them read.
LEMMA PaperSteps ==
  ASSUME TypeOK, Serial, [Next]_vars, ~disturbed'
  PROVE  \/ UNCHANGED papers
         \/ \E h \in Handlers :
              /\ Fresh(call[h]) /\ call[h] \in Calls
              /\ \/ AskWrite(h) \/ AnswerQuestionWrite(h) \/ InsertAddendum(h)
                 \/ OpenChallengeWrite(h) \/ DecideChallengeWrite(h)
<1>1. CASE UNCHANGED papers
  BY <1>1
<1>2. CASE ~UNCHANGED papers
  <2>1. PICK h \in Handlers : \/ AskWrite(h) \/ AnswerQuestionWrite(h) \/ InsertAddendum(h)
                              \/ OpenChallengeWrite(h) \/ DecideChallengeWrite(h)
    BY <1>2 DEF Next, vars, Tick, SetStage, UpdateTender, Fail, Await, Request, Ask,
                AnswerQuestion, IssueAddendum, OpenChallenge, DecideChallenge, Resume,
                NextAddendumNumber, MoveDeadline
  <2>2. ~disturbed
    BY <2>1 DEF AskWrite, AnswerQuestionWrite, InsertAddendum, AfterInsert, OpenChallengeWrite,
                DecideChallengeWrite, GoOn, Answer
  <2>. QED
    BY <2>1, <2>2 DEF Serial, TypeOK
<1>. QED
  BY <1>1, <1>2

\* No published answer and no outcome of a challenge is ever replaced.
THEOREM DecisionsHold == Spec => DecisionsStand
<1>1. ASSUME TypeOK, Serial, [Next]_vars, ~disturbed'
      PROVE  /\ \A q \in Questions : Stands(q)
             /\ challenge \in Outcomes => challenge' = challenge
  <2>1. CASE UNCHANGED papers
    BY <2>1 DEF Stands, papers
  <2>2. ASSUME NEW h \in Handlers, Fresh(call[h]), call[h] \in Calls,
               AskWrite(h) \/ AnswerQuestionWrite(h)
        PROVE  /\ \A q \in Questions : Stands(q)
               /\ challenge' = challenge
    <3>1. call[h].q \in Questions /\ question[call[h].q] \in {"ABSENT", "OPEN"}
      BY <2>2, CallFields DEF Fresh, AskWrite, AnswerQuestionWrite
    <3>2. \A q \in Questions : q # call[h].q => question'[q] = question[q]
      BY <2>2, <1>1 DEF AskWrite, AnswerQuestionWrite, TypeOK
    <3>. QED
      BY <2>2, <3>1, <3>2, TenderPapersAssumption DEF Stands, AskWrite, AnswerQuestionWrite
  <2>3. ASSUME NEW h \in Handlers, Fresh(call[h]),
               InsertAddendum(h) \/ OpenChallengeWrite(h) \/ DecideChallengeWrite(h)
        PROVE  /\ UNCHANGED question
               /\ challenge \in Outcomes => challenge' = challenge
    BY <2>3 DEF InsertAddendum, OpenChallengeWrite, DecideChallengeWrite, Fresh, Outcomes, Wins
  <2>. QED
    BY <1>1, <2>1, <2>2, <2>3, PaperSteps DEF Stands
<1>. QED
  BY <1>1, TypeCorrect, SerialHolds, PTL DEF Spec, DecisionsStand
=============================================================================
