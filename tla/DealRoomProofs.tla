-------------------------- MODULE DealRoomProofs --------------------------
(***************************************************************************)
(* DealRoom for any number of developers and of requests in flight: types, *)
(* that nobody unvetted gets in, that the owner's word stands, and, as     *)
(* long as no two requests overlap, that grants rest on their own          *)
(* signature and the ledger is kept.                                       *)
(***************************************************************************)
EXTENDS DealRoom, TLAPS

\* What the operation of a parked call says about its other fields.
LEMMA CallFields ==
  ASSUME NEW c \in Calls
  PROVE  /\ c.op \in AccessOps \cup OfferOps \cup {"judge"} => c.dev \in Developers
         /\ c.op = "judge" => c.to \in OwnerSettable
BY DEF Calls, Idle, AccessOps, OfferOps, ListingOps

LEMMA AnswerType ==
  ASSUME TypeOK, NEW h \in Handlers, Answer(h)
  PROVE  call' \in [Handlers -> Calls] /\ overlapped' \in BOOLEAN
BY DEF TypeOK, Answer, Calls

LEMMA AwaitType ==
  ASSUME TypeOK, NEW h \in Handlers, NEW c \in Calls, Await(h, c) \/ GoOn(h, c)
  PROVE  TypeOK'
BY DEF TypeOK, Await, GoOn, listing, grants, history, words

\* A request takes on a call that is fresh, and never one about to insert.
LEMMA RequestCalls ==
  ASSUME NEW h \in Handlers, Request(h)
  PROVE  \E c \in Calls :
           /\ Await(h, c)
           /\ Fresh(c)
           /\ c.op # "insert"
<1>1. CASE Publish(h) \/ Remove(h) \/ Unpublish(h) \/ Archive(h) \/ Restore(h)
  <2>1. PICK o \in ListingOps : Await(h, [op |-> o]) /\ Fresh([op |-> o])
    BY <1>1 DEF Publish, Remove, Unpublish, Archive, Restore, ListingOps, Fresh, Gone
  <2>2. [op |-> o] \in Calls /\ o # "insert"
    BY DEF Calls, ListingOps
  <2>. QED
    BY <2>1, <2>2
<1>2. ASSUME NEW d \in Developers,
             \/ View(h, d) \/ RequestAccess(h, d) \/ Decide(h, d) \/ SignNda(h, d)
             \/ Revoke(h, d) \/ SubmitOffer(h, d) \/ AmendOffer(h, d) \/ WithdrawOffer(h, d)
      PROVE  \E c \in Calls :
               /\ Await(h, c)
               /\ Fresh(c)
               /\ c.op # "insert"
  <2>1. PICK o \in {"view", "request", "approve", "reject", "sign", "revoke", "offer", "amend",
                    "withdraw"} :
          /\ Await(h, [op |-> o, dev |-> d])
          /\ Fresh([op |-> o, dev |-> d])
    <3>1. CASE View(h, d) \/ RequestAccess(h, d) \/ SubmitOffer(h, d)
      BY <3>1 DEF View, RequestAccess, SubmitOffer, Fresh, OnMarket
    <3>2. CASE Decide(h, d) \/ SignNda(h, d) \/ Revoke(h, d)
      BY <3>2 DEF Decide, SignNda, Revoke, Fresh
    <3>3. CASE AmendOffer(h, d) \/ WithdrawOffer(h, d)
      BY <3>3 DEF AmendOffer, WithdrawOffer, Fresh
    <3>. QED
      BY <1>2, <3>1, <3>2, <3>3
  <2>2. [op |-> o, dev |-> d] \in Calls
    BY DEF Calls, AccessOps, OfferOps
  <2>. QED
    BY <2>1, <2>2
<1>3. ASSUME NEW d \in Developers, SetOfferStatus(h, d)
      PROVE  \E c \in Calls :
               /\ Await(h, c)
               /\ Fresh(c)
               /\ c.op # "insert"
  <2>1. PICK s \in OwnerSettable : Await(h, [op |-> "judge", dev |-> d, to |-> s])
    BY <1>3 DEF SetOfferStatus
  <2>2. [op |-> "judge", dev |-> d, to |-> s] \in Calls
    BY DEF Calls
  <2>3. Fresh([op |-> "judge", dev |-> d, to |-> s])
    BY <1>3 DEF SetOfferStatus, Fresh
  <2>. QED
    BY <2>1, <2>2, <2>3
<1>. QED
  BY <1>1, <1>2, <1>3 DEF Request

\* A write keeps the types.
LEMMA ResumeType ==
  ASSUME TypeOK, NEW h \in Handlers, Resume(h)
  PROVE  TypeOK'
<1>c. call[h] \in Calls
  BY DEF TypeOK
<1>1. CASE PublishWrite(h) \/ RemoveWrite(h) \/ UnpublishWrite(h) \/ ArchiveWrite(h) \/ RestoreWrite(h)
  <2>1. Answer(h) /\ listed' \in Listed /\ deleted' \in BOOLEAN /\ UNCHANGED <<grants, offer, history>>
    BY <1>1 DEF PublishWrite, RemoveWrite, UnpublishWrite, ArchiveWrite, RestoreWrite,
                ListingWrite, TypeOK, Listed
  <2>. QED
    BY <2>1, AnswerType DEF TypeOK, grants, history, words
<1>2. CASE ViewReply(h)
  <2>1. call[h].dev \in Developers
    BY <1>2, <1>c, CallFields DEF ViewReply, AccessOps
  <2>. QED
    BY <1>2, <2>1, AnswerType DEF ViewReply, TypeOK, listing, grants, words
<1>3. CASE RequestReadRow(h) \/ SubmitOfferCheckAccess(h)
  <2>1. call[h].dev \in Developers
    BY <1>3, <1>c, CallFields DEF RequestReadRow, SubmitOfferCheckAccess, AccessOps, OfferOps
  <2>2. PICK c \in {Idle} \cup [op : {"create", "reset", "insert"}, dev : Developers] : GoOn(h, c)
    BY <1>3, <2>1 DEF RequestReadRow, SubmitOfferCheckAccess
  <2>3. c \in Calls
    BY DEF Calls, AccessOps, OfferOps
  <2>. QED
    BY <2>2, <2>3, AwaitType
<1>4. CASE CreateRequestWrite(h) \/ ResetRequestWrite(h)
  <2>1. call[h].dev \in Developers /\ Answer(h)
    BY <1>4, <1>c, CallFields DEF CreateRequestWrite, ResetRequestWrite, AccessOps
  <2>. QED
    BY <1>4, <2>1, AnswerType
       DEF CreateRequestWrite, ResetRequestWrite, Pending, TypeOK, AccessStatus, listing, grants
<1>5. CASE DecideWrite(h) \/ SignNdaWrite(h) \/ RevokeWrite(h)
  <2>1. call[h].dev \in Developers /\ Answer(h)
    BY <1>5, <1>c, CallFields DEF DecideWrite, SignNdaWrite, RevokeWrite, AccessOps
  <2>. QED
    BY <1>5, <2>1, AnswerType
       DEF DecideWrite, SignNdaWrite, RevokeWrite, Vet, TypeOK, AccessStatus, UnderWay, listing,
           history, words
<1>6. CASE InsertOffer(h) \/ AmendOfferWrite(h) \/ WithdrawOfferWrite(h)
  <2>1. call[h].dev \in Developers /\ Answer(h)
    BY <1>6, <1>c, CallFields DEF InsertOffer, AmendOfferWrite, WithdrawOfferWrite, OfferOps
  <2>. QED
    BY <1>6, <2>1, AnswerType
       DEF InsertOffer, AmendOfferWrite, WithdrawOfferWrite, TypeOK, OfferStatus, listing, grants,
           history, words
<1>7. CASE SetOfferStatusWrite(h)
  <2>1. call[h].dev \in Developers /\ call[h].to \in OfferStatus /\ Answer(h)
    BY <1>7, <1>c, CallFields DEF SetOfferStatusWrite, OwnerSettable, OfferStatus
  <2>. QED
    BY <1>7, <2>1, AnswerType DEF SetOfferStatusWrite, UnderWay, TypeOK, listing, grants
<1>. QED
  BY <1>1, <1>2, <1>3, <1>4, <1>5, <1>6, <1>7 DEF Resume

\* Every row, parked request and history is of its type.
THEOREM TypeCorrect == Spec => []TypeOK
<1>1. Init => TypeOK
  <2>1. Idle \in Calls
    BY DEF Calls
  <2>. QED
    BY <2>1 DEF Init, TypeOK, Listed, AccessStatus, OfferStatus
<1>2. ASSUME TypeOK, NEW h \in Handlers, Request(h) PROVE TypeOK'
  <2>1. PICK c \in Calls : Await(h, c)
    BY <1>2, RequestCalls
  <2>. QED
    BY <1>2, <2>1, AwaitType
<1>3. TypeOK /\ UNCHANGED vars => TypeOK'
  BY DEF TypeOK, vars, listing, grants, history, words
<1>4. TypeOK /\ [Next]_vars => TypeOK'
  BY <1>2, <1>3, ResumeType DEF Next
<1>. QED
  BY <1>1, <1>4, PTL DEF Spec
-----------------------------------------------------------------------------
(* Nobody unvetted, however requests interleave *)

\* A vetted developer stays one, so what a handler holds stays vetted.
LEMMA VettingKept ==
  ASSUME TypeOK, Vetting, NEW h \in Handlers, call' = [call EXCEPT ![h] = Idle],
         vetted \subseteq vetted', NobodyUnvetted',
         \A d \in Developers : Granted(d)' => d \in vetted'
  PROVE  Vetting'
<1>1. \A g \in Handlers : call'[g] = call[g] \/ call'[g] = Idle
  BY DEF TypeOK
<1>. QED
  BY <1>1 DEF Vetting, Idle

LEMMA VettingRequest ==
  ASSUME TypeOK, Vetting, NEW h \in Handlers, Request(h)
  PROVE  Vetting'
<1>1. PICK c \in Calls : Await(h, c) /\ Fresh(c) /\ c.op # "insert"
  BY RequestCalls
<1>2. c.op \in {"withdraw", "judge"} => c.dev \in vetted
  BY <1>1, CallFields DEF Fresh, Vetting, NobodyUnvetted, Offered, OfferOps
<1>3. \A g \in Handlers : call'[g] = IF g = h THEN c ELSE call[g]
  BY <1>1 DEF Await, TypeOK
<1>4. UNCHANGED <<listing, grants, offer, history>>
  BY <1>1 DEF Await
<1>. QED
  BY <1>1, <1>2, <1>3, <1>4
     DEF Vetting, NobodyUnvetted, Offered, Granted, grants, history, words

LEMMA VettingResume ==
  ASSUME TypeOK, Vetting, NEW h \in Handlers, Resume(h)
  PROVE  Vetting'
<1>c. call[h] \in Calls
  BY DEF TypeOK
<1>1. CASE PublishWrite(h) \/ RemoveWrite(h) \/ UnpublishWrite(h) \/ ArchiveWrite(h) \/ RestoreWrite(h)
  <2>1. Answer(h) /\ UNCHANGED <<grants, offer, history>>
    BY <1>1 DEF PublishWrite, RemoveWrite, UnpublishWrite, ArchiveWrite, RestoreWrite, ListingWrite
  <2>. QED
    BY <2>1, VettingKept DEF Answer, Vetting, NobodyUnvetted, Offered, Granted, grants, history, words
<1>2. CASE ViewReply(h)
  <2>1. NobodyUnvetted'
    BY <1>2, <1>c, CallFields DEF ViewReply, AccessOps, Vetting, NobodyUnvetted, Offered
  <2>. QED
    BY <1>2, <2>1, VettingKept DEF ViewReply, Answer, Vetting, Granted, grants
<1>3. CASE RequestReadRow(h) \/ SubmitOfferCheckAccess(h)
  <2>1. PICK c : GoOn(h, c) /\ (c.op \in {"insert", "withdraw", "judge"} => c.dev \in vetted)
    <3>1. CASE RequestReadRow(h)
      BY <3>1 DEF RequestReadRow, Idle
    <3>2. CASE SubmitOfferCheckAccess(h)
      BY <3>2, <1>c, CallFields DEF SubmitOfferCheckAccess, OfferOps, Vetting, Idle
    <3>. QED
      BY <1>3, <3>1, <3>2
  <2>2. \A g \in Handlers : call'[g] = IF g = h THEN c ELSE call[g]
    BY <2>1 DEF GoOn, TypeOK
  <2>. QED
    BY <2>1, <2>2 DEF GoOn, Vetting, NobodyUnvetted, Offered, Granted, grants, history, words
<1>4. CASE CreateRequestWrite(h) \/ ResetRequestWrite(h)
  <2>1. Answer(h) /\ UNCHANGED <<offer, shown, vetted>> /\ call[h].dev \in Developers
    BY <1>4, <1>c, CallFields DEF CreateRequestWrite, ResetRequestWrite, AccessOps
  <2>2. \A d \in Developers : Granted(d)' => Granted(d)
    BY <1>4 DEF CreateRequestWrite, ResetRequestWrite, Pending, Granted, TypeOK, grants
  <2>. QED
    BY <2>1, <2>2, VettingKept DEF Answer, Vetting, NobodyUnvetted, Offered
<1>5. CASE DecideWrite(h) \/ SignNdaWrite(h)
  <2>1. Answer(h) /\ Vet /\ UNCHANGED <<offer, shown>>
    BY <1>5 DEF DecideWrite, SignNdaWrite
  <2>. QED
    BY <2>1, VettingKept DEF Vet, Answer, Vetting, NobodyUnvetted, Offered, Granted
<1>6. CASE RevokeWrite(h)
  <2>1. \A d \in Developers : Granted(d)' => Granted(d)
    BY <1>6 DEF RevokeWrite, Granted, TypeOK
  <2>. QED
    BY <1>6, <2>1, VettingKept DEF RevokeWrite, Answer, Vetting, NobodyUnvetted, Offered, history, words
<1>7. CASE InsertOffer(h) \/ WithdrawOfferWrite(h) \/ SetOfferStatusWrite(h)
  <2>1. call[h].dev \in vetted /\ Answer(h) /\ UNCHANGED <<grants, vetted, shown>>
    BY <1>7 DEF InsertOffer, WithdrawOfferWrite, SetOfferStatusWrite, Vetting, history, words
  <2>2. \A d \in Developers : d # call[h].dev => offer'[d] = offer[d]
    BY <1>7 DEF InsertOffer, WithdrawOfferWrite, SetOfferStatusWrite, TypeOK
  <2>. QED
    BY <2>1, <2>2, VettingKept DEF Answer, Vetting, NobodyUnvetted, Offered, Granted, grants
<1>8. CASE AmendOfferWrite(h)
  BY <1>8, VettingKept DEF AmendOfferWrite, Answer, Vetting, NobodyUnvetted, Offered, Granted, grants
<1>. QED
  BY <1>1, <1>2, <1>3, <1>4, <1>5, <1>6, <1>7, <1>8 DEF Resume

LEMMA VettingAlways == Spec => []Vetting
<1>1. Init => Vetting
  BY DEF Init, Vetting, NobodyUnvetted, Offered, Granted, Idle
<1>2. Vetting /\ UNCHANGED vars => Vetting'
  BY DEF Vetting, NobodyUnvetted, Offered, Granted, vars, grants, history
<1>3. TypeOK /\ Vetting /\ [Next]_vars => Vetting'
  BY <1>2, VettingRequest, VettingResume DEF Next
<1>. QED
  BY <1>1, <1>3, TypeCorrect, PTL DEF Spec

\* However requests interleave, whoever is shown the confidential side or
\* makes an offer has held a grant.
THEOREM VettingHolds == Spec => []NobodyUnvetted
<1>1. Vetting => NobodyUnvetted
  BY DEF Vetting
<1>. QED
  BY <1>1, VettingAlways, PTL
-----------------------------------------------------------------------------
(* The owner's word, however requests interleave *)

\* A parked call goes on over the owner's word only if it is late.
Excused(c, h) ==
  /\ c.op = "amend" => c.dev \notin closed \/ h \in late
  /\ c.op = "approve" => c.dev \notin revoked \/ h \in late

LEMMA WordCalls ==
  OwnersWord <=> /\ \A d \in closed : offer[d] \notin Editable \cup {"ABSENT"}
                 /\ \A d \in Developers : access[d] = "PENDING" => d \notin revoked
                 /\ \A h \in Handlers : Excused(call[h], h)
BY DEF OwnersWord, Excused

\* A step of a handler on rows no word is about.
LEMMA WordKept ==
  ASSUME TypeOK, OwnersWord, NEW h \in Handlers, NEW c, call' = [call EXCEPT ![h] = c],
         c.op \notin {"amend", "approve"}, UNCHANGED <<closed, revoked, late>>,
         \A d \in closed : offer'[d] \notin Editable \cup {"ABSENT"},
         \A d \in Developers : access'[d] = "PENDING" => access[d] = "PENDING"
  PROVE  OwnersWord'
<1>1. \A g \in Handlers : call'[g] = IF g = h THEN c ELSE call[g]
  BY DEF TypeOK
<1>. QED
  BY <1>1 DEF OwnersWord

LEMMA WordRequest ==
  ASSUME TypeOK, OwnersWord, NEW h \in Handlers, Request(h)
  PROVE  OwnersWord'
<1>1. PICK c \in Calls : Await(h, c) /\ Fresh(c)
  BY RequestCalls
<1>2. Excused(c, h)
  BY <1>1, CallFields DEF Excused, Fresh, OwnersWord, AccessOps
<1>3. \A g \in Handlers : call'[g] = IF g = h THEN c ELSE call[g]
  BY <1>1 DEF Await, TypeOK
<1>4. UNCHANGED <<access, offer, closed, revoked, late>>
  BY <1>1 DEF Await, grants, history, words
<1>. QED
  BY <1>2, <1>3, <1>4 DEF OwnersWord, Excused

LEMMA WordResume ==
  ASSUME TypeOK, OwnersWord, NEW h \in Handlers, Resume(h)
  PROVE  OwnersWord'
<1>c. call[h] \in Calls
  BY DEF TypeOK
<1>i. Idle.op \notin {"amend", "approve"}
  BY DEF Idle
<1>1. CASE \/ PublishWrite(h) \/ RemoveWrite(h) \/ UnpublishWrite(h) \/ ArchiveWrite(h)
           \/ RestoreWrite(h) \/ ViewReply(h) \/ SignNdaWrite(h)
  <2>1. Answer(h) /\ UNCHANGED <<access, offer, closed, revoked, late>>
    BY <1>1 DEF PublishWrite, RemoveWrite, UnpublishWrite, ArchiveWrite, RestoreWrite,
                ListingWrite, ViewReply, SignNdaWrite, grants, history, words
  <2>. QED
    BY <2>1, <1>i, WordKept DEF Answer, OwnersWord
<1>2. CASE RequestReadRow(h) \/ SubmitOfferCheckAccess(h)
  <2>1. PICK c : GoOn(h, c) /\ c.op \notin {"amend", "approve"}
    BY <1>2, <1>i DEF RequestReadRow, SubmitOfferCheckAccess
  <2>2. UNCHANGED <<access, offer, closed, revoked, late>>
    BY <2>1 DEF GoOn, grants, history, words
  <2>. QED
    BY <2>1, <2>2, WordKept DEF GoOn, OwnersWord
<1>3. CASE InsertOffer(h) \/ WithdrawOfferWrite(h)
  <2>1. Answer(h) /\ UNCHANGED <<access, closed, revoked, late>>
    BY <1>3 DEF InsertOffer, WithdrawOfferWrite, grants, history, words
  <2>2. \A d \in closed : offer'[d] \notin Editable \cup {"ABSENT"}
    BY <1>3 DEF InsertOffer, WithdrawOfferWrite, OwnersWord, Editable, TypeOK
  <2>. QED
    BY <2>1, <2>2, <1>i, WordKept DEF Answer
<1>4. CASE CreateRequestWrite(h) \/ ResetRequestWrite(h)
  <2>1. /\ Answer(h) /\ UNCHANGED <<offer, closed, late>>
        /\ Pending(call[h].dev) \/ UNCHANGED <<access, revoked>>
    BY <1>4 DEF CreateRequestWrite, ResetRequestWrite, grants
  <2>2. revoked' \subseteq revoked
        /\ \A d \in Developers : access'[d] = "PENDING" => d \notin revoked'
    BY <2>1 DEF Pending, OwnersWord, TypeOK
  <2>3. \A g \in Handlers : call'[g] = IF g = h THEN Idle ELSE call[g]
    BY <2>1 DEF Answer, TypeOK
  <2>. QED
    BY <2>1, <2>2, <2>3, <1>i DEF OwnersWord
<1>5. CASE DecideWrite(h) \/ AmendOfferWrite(h)
  <2>1. /\ Answer(h) /\ late' = late \ {h} /\ UNCHANGED <<offer, closed, revoked>>
        /\ \A d \in Developers : access'[d] = "PENDING" => access[d] = "PENDING"
    BY <1>5 DEF DecideWrite, AmendOfferWrite, grants, TypeOK
  <2>2. \A g \in Handlers : call'[g] = IF g = h THEN Idle ELSE call[g]
    BY <2>1 DEF Answer, TypeOK
  <2>. QED
    BY <2>1, <2>2, <1>i DEF OwnersWord
<1>6. CASE RevokeWrite(h)
  <2>1. \A g \in Handlers : call'[g] = IF g = h THEN Idle ELSE call[g]
    BY <1>6 DEF RevokeWrite, Answer, TypeOK
  <2>2. \A d \in Developers : access'[d] = "PENDING" => d \notin revoked'
    BY <1>6, <1>c, CallFields DEF RevokeWrite, OwnersWord, TypeOK, AccessOps
  <2>. QED
    BY <1>6, <2>1, <2>2, <1>i DEF RevokeWrite, UnderWay, OwnersWord
<1>7. CASE SetOfferStatusWrite(h)
  <2>1. \A g \in Handlers : call'[g] = IF g = h THEN Idle ELSE call[g]
    BY <1>7 DEF SetOfferStatusWrite, Answer, TypeOK
  <2>2. call[h].dev \in Developers /\ call[h].to \in OwnerSettable
    BY <1>7, <1>c, CallFields DEF SetOfferStatusWrite
  <2>3. UNCHANGED <<access, revoked>>
    BY <1>7 DEF SetOfferStatusWrite, grants
  <2>4. \A d \in closed' : offer'[d] \notin Editable \cup {"ABSENT"}
    BY <1>7, <2>2 DEF SetOfferStatusWrite, OwnersWord, Editable, OwnerSettable, TypeOK
  <2>5. \A g \in Handlers : Excused(call[g], g)'
    BY <1>7, <2>1, <2>3, <1>i DEF SetOfferStatusWrite, UnderWay, OwnersWord, Excused
  <2>. QED
    BY <2>3, <2>4, <2>5 DEF OwnersWord, Excused
<1>. QED
  BY <1>1, <1>2, <1>3, <1>4, <1>5, <1>6, <1>7 DEF Resume

\* The invariant behind the two promises below, however requests interleave.
LEMMA WordHolds == Spec => []OwnersWord
<1>1. Init => OwnersWord
  BY DEF Init, OwnersWord, Idle
<1>2. OwnersWord /\ UNCHANGED vars => OwnersWord'
  BY DEF OwnersWord, vars, grants, history, words
<1>3. TypeOK /\ OwnersWord /\ [Next]_vars => OwnersWord'
  BY <1>2, WordRequest, WordResume DEF Next
<1>. QED
  BY <1>1, <1>3, TypeCorrect, PTL DEF Spec

\* Once the owner has decided on an offer its terms change only after it is
\* put back under review, but by an amendment under way at the decision.
THEOREM TermsStand == Spec => DecidedTermsStand
<1>1. OwnersWord => \A h \in Handlers : call[h].op = "amend" => call[h].dev \notin closed \/ h \in late
  BY DEF OwnersWord
<1>2. OwnersWord => \A h \in Handlers : Finishes(h, "amend") => call[h].dev \notin closed \/ h \in late
  BY <1>1 DEF Finishes
<1>. QED
  BY <1>2, WordHolds, PTL DEF DecidedTermsStand

\* Only the write of an approval approves.
LEMMA ApprovalSteps ==
  ASSUME TypeOK, [Next]_vars, NEW d \in Developers, access'[d] = "APPROVED", access[d] # "APPROVED"
  PROVE  \E h \in Handlers : Finishes(h, "approve") /\ call[h].dev = d
<1>1. ASSUME NEW h \in Handlers, Request(h) PROVE FALSE
  <2>1. PICK c \in Calls : Await(h, c)
    BY <1>1, RequestCalls
  <2>. QED
    BY <2>1 DEF Await, grants
<1>2. PICK h \in Handlers : Resume(h)
  BY <1>1 DEF Next, vars, grants
<1>3. CASE DecideWrite(h)
  <2>1. call[h].op = "approve" /\ call[h].dev = d /\ call'[h] = Idle
    BY <1>3 DEF DecideWrite, Answer, TypeOK
  <2>. QED
    BY <2>1 DEF Finishes
<1>4. CASE CreateRequestWrite(h) \/ ResetRequestWrite(h) \/ RevokeWrite(h)
  BY <1>4 DEF CreateRequestWrite, ResetRequestWrite, Pending, RevokeWrite, TypeOK, grants
<1>5. CASE ~ UNCHANGED access
  BY <1>2, <1>3, <1>4, <1>5
     DEF Resume, PublishWrite, RemoveWrite, UnpublishWrite, ArchiveWrite, RestoreWrite,
         ListingWrite, ViewReply, RequestReadRow, SignNdaWrite, SubmitOfferCheckAccess,
         InsertOffer, AmendOfferWrite, WithdrawOfferWrite, SetOfferStatusWrite, GoOn, grants
<1>. QED
  BY <1>5

\* Whoever was revoked is approved again only after a new request, but by an
\* approval under way at the revocation.
THEOREM RevocationsStand == Spec => RevocationStands
<1>1. ASSUME TypeOK, OwnersWord, [Next]_vars, NEW d \in Developers,
             access'[d] = "APPROVED", access[d] # "APPROVED"
      PROVE  d \notin revoked \/ \E h \in late : Finishes(h, "approve") /\ call[h].dev = d
  <2>1. PICK h \in Handlers : Finishes(h, "approve") /\ call[h].dev = d
    BY <1>1, ApprovalSteps
  <2>2. d \notin revoked \/ h \in late
    BY <1>1, <2>1 DEF OwnersWord, Finishes
  <2>. QED
    BY <2>1, <2>2
<1>2. TypeOK /\ OwnersWord /\ [Next]_vars =>
        \A d \in Developers :
          access'[d] = "APPROVED" /\ access[d] # "APPROVED" =>
            d \notin revoked \/ \E h \in late : Finishes(h, "approve") /\ call[h].dev = d
  BY <1>1
<1>. QED
  BY <1>2, TypeCorrect, WordHolds, PTL DEF Spec, RevocationStands
-----------------------------------------------------------------------------
(* As long as no two requests overlap *)

\* The part of Serial that is about rows and history, words, not about calls.
SerialRows ==
  /\ \A d \in Developers : access[d] \in {"ABSENT", "PENDING"} => ~signed[d]
  /\ \A d \in Developers : Granted(d) => d \in sound

\* A handler alone in flight makes a step that leaves it idle or fresh.
LEMMA SerialStep ==
  ASSUME TypeOK, NEW h \in Handlers, NEW c, call' = [call EXCEPT ![h] = c],
         \A g \in Handlers : g # h => call[g] = Idle,
         Fresh(c)', SerialRows'
  PROVE  Serial'
<1>1. \A g \in Handlers : call'[g] = IF g = h THEN c ELSE Idle
  BY DEF TypeOK
<1>2. \A g \in Handlers : Fresh(call[g])'
  BY <1>1 DEF Fresh, Idle
<1>. QED
  BY <1>1, <1>2 DEF Serial, SerialRows

LEMMA AnswerSerial ==
  ASSUME TypeOK, Serial, ~overlapped, NEW h \in Handlers, call[h] # Idle, Answer(h), SerialRows'
  PROVE  Serial'
<1>1. \A g \in Handlers : g # h => call[g] = Idle
  BY DEF Serial
<1>2. Fresh(Idle)'
  BY DEF Fresh, Idle
<1>. QED
  BY <1>1, <1>2, SerialStep DEF Answer

LEMMA RequestSerial ==
  ASSUME TypeOK, Serial, NEW h \in Handlers, Request(h)
  PROVE  Serial'
<1>1. PICK c \in Calls : Await(h, c) /\ Fresh(c)
  BY RequestCalls
<1>2. CASE overlapped'
  BY <1>2 DEF Serial
<1>3. CASE ~overlapped'
  <2>1. ~overlapped /\ \A g \in Handlers : call[g] = Idle
    BY <1>1, <1>3 DEF Await
  <2>2. Fresh(c)'
    BY <1>1 DEF Await, Fresh, Gone, OnMarket, Granted, listing, grants
  <2>3. SerialRows'
    BY <1>1, <2>1 DEF Await, Serial, SerialRows, Granted, grants, history, words
  <2>. QED
    BY <1>1, <2>1, <2>2, <2>3, SerialStep DEF Await
<1>. QED
  BY <1>2, <1>3

LEMMA ResumeSerial ==
  ASSUME TypeOK, Serial, NEW h \in Handlers, Resume(h)
  PROVE  Serial'
<1>u. UNCHANGED overlapped
  BY DEF Resume, PublishWrite, RemoveWrite, UnpublishWrite, ArchiveWrite, RestoreWrite,
         ListingWrite, ViewReply, RequestReadRow, CreateRequestWrite, ResetRequestWrite,
         DecideWrite, SignNdaWrite, RevokeWrite, SubmitOfferCheckAccess, InsertOffer,
         AmendOfferWrite, WithdrawOfferWrite, SetOfferStatusWrite, GoOn, Answer
<1>o. CASE overlapped
  BY <1>o, <1>u DEF Serial
<1>a. SUFFICES ASSUME ~overlapped PROVE Serial'
  BY <1>o
<1>c. call[h] \in Calls /\ Fresh(call[h]) /\ SerialRows
  BY <1>a DEF TypeOK, Serial, SerialRows
<1>1. CASE PublishWrite(h) \/ RemoveWrite(h) \/ UnpublishWrite(h) \/ ArchiveWrite(h) \/ RestoreWrite(h)
  <2>1. PICK o \in ListingOps : call[h].op = o /\ Answer(h) /\ UNCHANGED <<grants, history>>
    BY <1>1 DEF PublishWrite, RemoveWrite, UnpublishWrite, ArchiveWrite, RestoreWrite,
                ListingWrite, ListingOps
  <2>2. call[h] # Idle
    BY <2>1 DEF Idle, ListingOps
  <2>. QED
    BY <1>a, <1>c, <2>1, <2>2, AnswerSerial DEF SerialRows, Granted, grants, history, words
<1>2. CASE \/ ViewReply(h) \/ InsertOffer(h) \/ AmendOfferWrite(h)
           \/ WithdrawOfferWrite(h) \/ SetOfferStatusWrite(h)
  <2>1. call[h] # Idle /\ Answer(h) /\ UNCHANGED <<grants, sound>>
    BY <1>2 DEF ViewReply, InsertOffer, WithdrawOfferWrite, SetOfferStatusWrite, AmendOfferWrite,
                history, Idle
  <2>. QED
    BY <1>a, <1>c, <2>1, AnswerSerial DEF SerialRows, Granted, grants
<1>3. CASE RequestReadRow(h) \/ SubmitOfferCheckAccess(h)
  <2>1. PICK c : GoOn(h, c) /\ Fresh(c)
    <3>1. CASE RequestReadRow(h)
      BY <1>c, <3>1 DEF RequestReadRow, Fresh, Idle
    <3>2. CASE SubmitOfferCheckAccess(h)
      BY <1>c, <3>2 DEF SubmitOfferCheckAccess, Fresh, Idle
    <3>. QED
      BY <1>3, <3>1, <3>2
  <2>2. call[h] # Idle
    BY <1>3 DEF RequestReadRow, SubmitOfferCheckAccess, Idle
  <2>3. \A g \in Handlers : g # h => call[g] = Idle
    BY <2>2, <1>a DEF Serial
  <2>4. Fresh(c)' /\ SerialRows'
    BY <1>c, <2>1
       DEF GoOn, Fresh, Gone, OnMarket, SerialRows, Granted, listing, grants, history, words
  <2>. QED
    BY <2>1, <2>3, <2>4, SerialStep DEF GoOn
<1>4. CASE CreateRequestWrite(h) \/ ResetRequestWrite(h)
  <2>1. /\ call[h] # Idle /\ Answer(h) /\ Pending(call[h].dev)
        /\ call[h].dev \in Developers
    BY <1>4, <1>c, CallFields DEF CreateRequestWrite, ResetRequestWrite, Idle, Fresh, AccessOps
  <2>2. SerialRows'
    BY <1>c, <2>1 DEF SerialRows, Pending, Granted, TypeOK
  <2>. QED
    BY <2>1, <2>2, <1>a, AnswerSerial
<1>5. CASE DecideWrite(h)
  <2>1. call[h].dev \in Developers /\ ~signed[call[h].dev]
    BY <1>5, <1>c, CallFields DEF DecideWrite, Fresh, SerialRows, AccessOps
  <2>2. SerialRows'
    BY <1>5, <1>c, <2>1 DEF DecideWrite, SerialRows, Granted, TypeOK
  <2>. QED
    BY <1>5, <2>2, <1>a, AnswerSerial DEF DecideWrite, Idle
<1>6. CASE SignNdaWrite(h)
  <2>1. call[h].dev \in Developers /\ access[call[h].dev] = "APPROVED"
    BY <1>6, <1>c, CallFields DEF SignNdaWrite, Fresh, AccessOps
  <2>2. SerialRows'
    BY <1>6, <1>c, <2>1 DEF SignNdaWrite, SerialRows, Granted, TypeOK
  <2>. QED
    BY <1>6, <2>2, <1>a, AnswerSerial DEF SignNdaWrite, Idle
<1>7. CASE RevokeWrite(h)
  <2>1. SerialRows'
    BY <1>7, <1>c DEF RevokeWrite, SerialRows, Granted, TypeOK, history, words
  <2>. QED
    BY <1>7, <2>1, <1>a, AnswerSerial DEF RevokeWrite, Idle
<1>. QED
  BY <1>1, <1>2, <1>3, <1>4, <1>5, <1>6, <1>7 DEF Resume

\* The inductive invariant, for any developers and requests in flight.
THEOREM InductiveHolds == Spec => []Inductive
<1>1. Init => Serial
  BY DEF Init, Granted, Serial, Fresh, Idle
<1>2. Serial /\ UNCHANGED vars => Serial'
  BY DEF Serial, Fresh, Gone, OnMarket, Granted, vars, listing, grants, history, words
<1>3. TypeOK /\ Serial /\ [Next]_vars => Serial'
  BY <1>2, RequestSerial, ResumeSerial DEF Next
<1>4. Inductive <=> Vetting /\ OwnersWord /\ Serial
  BY DEF Inductive
<1>. QED
  BY <1>1, <1>3, <1>4, VettingAlways, WordHolds, TypeCorrect, PTL DEF Spec

\* A grant in force rests on a signature under its own approval.
THEOREM GrantsAreSigned == Spec => []GrantRestsOnItsOwnNda
<1>1. Inductive => GrantRestsOnItsOwnNda
  BY DEF Inductive, Serial, GrantRestsOnItsOwnNda
<1>. QED
  BY <1>1, InductiveHolds, PTL

-----------------------------------------------------------------------------
(* AccessLedger, as long as no two requests overlap *)

LEMMA StandingSame ==
  ASSUME UNCHANGED grants
  PROVE  Standing' = Standing
BY DEF Standing, grants

\* A step that touches the row of one developer moves that one's standing.
LEMMA StandingExcept ==
  ASSUME NEW d \in Developers, NEW to,
         \A e \in Developers : e # d => access'[e] = access[e] /\ signed'[e] = signed[e],
         Standing'[d] = to
  PROVE  Standing' = [Standing EXCEPT ![d] = to]
BY DEF Standing

\* The writes on the listing are moves of its market.
LEMMA ListingLedger ==
  ASSUME TypeOK, Serial, ~overlapped, NEW h \in Handlers,
         \/ PublishWrite(h) \/ RemoveWrite(h) \/ UnpublishWrite(h)
         \/ ArchiveWrite(h) \/ RestoreWrite(h)
  PROVE  Ledger!LedgerNext \/ UNCHANGED <<Market, Standing, shown, Offered>>
<1>c. Fresh(call[h])
  BY DEF Serial
<1>1. UNCHANGED <<Standing, shown, Offered>>
  BY StandingSame DEF PublishWrite, RemoveWrite, UnpublishWrite, ArchiveWrite, RestoreWrite,
       ListingWrite, Offered, history, words
<1>2. CASE PublishWrite(h)
  <2>1. Market = "draft" /\ Market' = "on"
    BY <1>2, <1>c DEF PublishWrite, ListingWrite, Fresh, Market, Gone, OnMarket
  <2>. QED
    BY <1>1, <2>1 DEF Ledger!LedgerNext, Ledger!Launch, Ledger!Market
<1>3. CASE RemoveWrite(h) \/ ArchiveWrite(h)
  <2>1. Market' = "gone" /\ Market \in {"draft", "on", "gone"}
    BY <1>3 DEF RemoveWrite, ArchiveWrite, ListingWrite, Market, Gone
  <2>. QED
    BY <1>1, <2>1 DEF Ledger!LedgerNext, Ledger!Retire, Ledger!Market
<1>4. CASE UnpublishWrite(h)
  <2>1. (Market = "on" /\ Market' = "draft") \/ UNCHANGED Market
    BY <1>4, <1>c DEF UnpublishWrite, ListingWrite, Fresh, Market, Gone, OnMarket
  <2>. QED
    BY <1>1, <2>1 DEF Ledger!LedgerNext, Ledger!TakeDown, Ledger!Market
<1>5. CASE RestoreWrite(h)
  <2>1. Market = "gone" /\ Market' = "draft"
    BY <1>5, <1>c DEF RestoreWrite, ListingWrite, Fresh, Market, Gone, OnMarket
  <2>. QED
    BY <1>1, <2>1 DEF Ledger!LedgerNext, Ledger!Return, Ledger!Market
<1>. QED
  BY <1>2, <1>3, <1>4, <1>5

\* The writes on a request are moves of its developer's standing.
LEMMA GrantLedger ==
  ASSUME TypeOK, Serial, ~overlapped, NEW h \in Handlers,
         \/ CreateRequestWrite(h) \/ ResetRequestWrite(h) \/ DecideWrite(h)
         \/ SignNdaWrite(h) \/ RevokeWrite(h)
  PROVE  Ledger!LedgerNext \/ UNCHANGED <<Market, Standing, shown, Offered>>
<1> DEFINE d == call[h].dev
<1>c. /\ call[h] \in Calls /\ Fresh(call[h])
      /\ \A e \in Developers : access[e] \in {"ABSENT", "PENDING"} => ~signed[e]
  BY DEF Serial, TypeOK
<1>d. d \in Developers
  BY <1>c, CallFields DEF CreateRequestWrite, ResetRequestWrite, DecideWrite, SignNdaWrite,
       RevokeWrite, AccessOps
<1>1. UNCHANGED <<Market, shown, Offered>>
  BY DEF CreateRequestWrite, ResetRequestWrite, DecideWrite, SignNdaWrite, RevokeWrite, Market,
       Gone, OnMarket, Offered, listing, history, words
<1>2. \A e \in Developers : e # d => access'[e] = access[e] /\ signed'[e] = signed[e]
  BY DEF CreateRequestWrite, ResetRequestWrite, Pending, DecideWrite, SignNdaWrite, RevokeWrite,
       TypeOK, grants
<1>s. Standing[d] = CASE access[d] = "APPROVED" -> IF signed[d] THEN "in" ELSE "cleared"
                      [] access[d] = "PENDING"  -> "asked"
                      [] OTHER                  -> "out"
  BY <1>d DEF Standing
<1>3. CASE CreateRequestWrite(h) \/ ResetRequestWrite(h)
  <2>1. Market = "on" /\ Standing[d] = "out"
    BY <1>3, <1>c, <1>s DEF CreateRequestWrite, ResetRequestWrite, Fresh, Market, Gone, OnMarket
  <2>2. access'[d] = "PENDING"
    BY <1>3, <1>c, <1>d DEF CreateRequestWrite, ResetRequestWrite, Pending, Fresh, TypeOK
  <2>3. Standing' = [Standing EXCEPT ![d] = "asked"]
    BY <1>d, <1>2, <2>2, StandingExcept DEF Standing
  <2>. QED
    BY <1>d, <1>1, <2>1, <2>3 DEF Ledger!LedgerNext, Ledger!Ask, Ledger!Stand
<1>4. CASE DecideWrite(h)
  <2>1. Standing[d] = "asked" /\ ~signed'[d]
    BY <1>4, <1>c, <1>d, <1>s DEF DecideWrite, Fresh
  <2>2. PICK to \in {"APPROVED", "REJECTED"} : access'[d] = to
    BY <1>4, <1>d DEF DecideWrite, TypeOK
  <2>3. Standing'[d] = IF to = "APPROVED" THEN "cleared" ELSE "out"
    BY <1>d, <2>1, <2>2 DEF Standing
  <2>4. Standing' = [Standing EXCEPT ![d] = IF to = "APPROVED" THEN "cleared" ELSE "out"]
    BY <1>d, <1>2, <2>3, StandingExcept
  <2>. QED
    BY <1>d, <1>1, <2>1, <2>4 DEF Ledger!LedgerNext, Ledger!Clear, Ledger!Leave, Ledger!Stand
<1>5. CASE SignNdaWrite(h)
  <2>1. Standing[d] = "cleared"
    BY <1>5, <1>c, <1>s DEF SignNdaWrite, Fresh
  <2>2. access'[d] = "APPROVED" /\ signed'[d]
    BY <1>5, <1>c, <1>d DEF SignNdaWrite, Fresh, TypeOK
  <2>3. Standing' = [Standing EXCEPT ![d] = "in"]
    BY <1>d, <1>2, <2>2, StandingExcept DEF Standing
  <2>. QED
    BY <1>d, <1>1, <2>1, <2>3 DEF Ledger!LedgerNext, Ledger!Enter, Ledger!Stand
<1>6. CASE RevokeWrite(h)
  <2>1. access'[d] = "REVOKED"
    BY <1>6, <1>d DEF RevokeWrite, TypeOK
  <2>2. Standing' = [Standing EXCEPT ![d] = "out"]
    BY <1>d, <1>2, <2>1, StandingExcept DEF Standing
  <2>3. CASE Standing[d] = "out"
    BY <1>d, <1>1, <2>2, <2>3 DEF Standing
  <2>4. CASE Standing[d] # "out"
    <3>1. Standing[d] \in {"asked", "cleared", "in"}
      BY <1>s, <2>4
    <3>. QED
      BY <1>d, <1>1, <2>2, <3>1 DEF Ledger!LedgerNext, Ledger!Leave, Ledger!Stand
  <2>. QED
    BY <2>3, <2>4
<1>. QED
  BY <1>3, <1>4, <1>5, <1>6

\* Reveals are learning, and a new offer is made by whoever is let in.
LEMMA OfferLedger ==
  ASSUME TypeOK, Serial, ~overlapped, NEW h \in Handlers,
         \/ ViewReply(h) \/ InsertOffer(h) \/ WithdrawOfferWrite(h) \/ SetOfferStatusWrite(h)
  PROVE  Ledger!LedgerNext \/ UNCHANGED <<Market, Standing, shown, Offered>>
<1> DEFINE d == call[h].dev
<1>c. call[h] \in Calls /\ Fresh(call[h])
  BY DEF Serial, TypeOK
<1>d. d \in Developers
  BY <1>c, CallFields DEF ViewReply, InsertOffer, WithdrawOfferWrite, SetOfferStatusWrite,
       AccessOps, OfferOps
<1>1. UNCHANGED <<Market, Standing>>
  BY StandingSame DEF ViewReply, InsertOffer, WithdrawOfferWrite, SetOfferStatusWrite, Market,
       Gone, OnMarket, listing, grants
<1>s. Granted(d) => Standing[d] = "in"
  BY <1>d DEF Standing, Granted
<1>2. CASE ViewReply(h)
  <2>1. UNCHANGED Offered
    BY <1>2 DEF ViewReply, Offered
  <2>2. CASE Granted(d)
    <3>1. shown' = shown \cup {d}
      BY <1>2, <2>2 DEF ViewReply
    <3>. QED
      BY <1>d, <1>s, <1>1, <2>1, <2>2, <3>1 DEF Ledger!LedgerNext, Ledger!Learn
  <2>3. CASE ~Granted(d)
    BY <1>2, <1>1, <2>1, <2>3 DEF ViewReply
  <2>. QED
    BY <2>2, <2>3
<1>3. CASE InsertOffer(h)
  <2>1. Market = "on" /\ Standing[d] = "in" /\ UNCHANGED shown
    BY <1>3, <1>c, <1>s DEF InsertOffer, Fresh, Market, Gone, OnMarket, history, words
  <2>2. Offered' = Offered \cup {d}
    BY <1>3, <1>d DEF InsertOffer, Offered, TypeOK
  <2>. QED
    BY <1>d, <1>1, <2>1, <2>2 DEF Ledger!LedgerNext, Ledger!Offer
<1>4. CASE WithdrawOfferWrite(h) \/ SetOfferStatusWrite(h)
  <2>1. UNCHANGED shown
    BY <1>4 DEF WithdrawOfferWrite, SetOfferStatusWrite, history, words
  <2>2. offer[d] # "ABSENT" /\ offer'[d] # "ABSENT"
    BY <1>4, <1>c, <1>d, CallFields
       DEF WithdrawOfferWrite, SetOfferStatusWrite, Fresh, TypeOK, OwnerSettable
  <2>3. \A e \in Developers : e # d => offer'[e] = offer[e]
    BY <1>4 DEF WithdrawOfferWrite, SetOfferStatusWrite, TypeOK
  <2>4. UNCHANGED Offered
    BY <1>d, <2>2, <2>3 DEF Offered
  <2>. QED
    BY <1>1, <2>1, <2>4
<1>. QED
  BY <1>2, <1>3, <1>4

\* Every other step leaves the ledger as it is.
LEMMA LedgerStep ==
  ASSUME TypeOK, Serial, [Next]_vars
  PROVE  overlapped' \/ Ledger!LedgerNext \/ UNCHANGED <<Market, Standing, shown, Offered>>
<1>1. ASSUME NEW h \in Handlers, Request(h)
      PROVE  UNCHANGED <<Market, Standing, shown, Offered>>
  <2>1. PICK c \in Calls : Await(h, c)
    BY <1>1, RequestCalls
  <2>. QED
    BY <2>1, StandingSame DEF Await, Market, Gone, OnMarket, Offered, listing, grants, history, words
<1>2. ASSUME NEW h \in Handlers, RequestReadRow(h) \/ SubmitOfferCheckAccess(h) \/ AmendOfferWrite(h)
      PROVE  UNCHANGED <<Market, Standing, shown, Offered>>
  BY <1>2, StandingSame
     DEF RequestReadRow, SubmitOfferCheckAccess, AmendOfferWrite, GoOn, Market, Gone, OnMarket,
         Offered, listing, grants, history, words
<1>3. CASE UNCHANGED vars
  BY <1>3, StandingSame DEF vars, Market, Gone, OnMarket, Offered, listing, grants, history, words
<1>4. ASSUME NEW h \in Handlers, Resume(h), overlapped PROVE overlapped'
  BY <1>4 DEF Resume, PublishWrite, RemoveWrite, UnpublishWrite, ArchiveWrite, RestoreWrite,
         ListingWrite, ViewReply, RequestReadRow, CreateRequestWrite, ResetRequestWrite,
         DecideWrite, SignNdaWrite, RevokeWrite, SubmitOfferCheckAccess, InsertOffer,
         AmendOfferWrite, WithdrawOfferWrite, SetOfferStatusWrite, GoOn, Answer
<1>5. ASSUME NEW h \in Handlers, Resume(h)
      PROVE  overlapped' \/ Ledger!LedgerNext \/ UNCHANGED <<Market, Standing, shown, Offered>>
  BY <1>2, <1>4, <1>5, ListingLedger, GrantLedger, OfferLedger DEF Resume
<1>. QED
  BY <1>1, <1>3, <1>5 DEF Next

\* The services implement AccessLedger while requests do not overlap.
THEOREM KeepsTheAccessLedger == Spec => KeepsTheLedger
<1>1. Init => Ledger!LedgerInit
  <2>1. Init => Market = "draft" /\ Standing = [d \in Developers |-> "out"] /\ Offered = {}
    BY DEF Init, Market, Gone, OnMarket, Standing, Offered
  <2>. QED
    BY <2>1 DEF Init, Ledger!LedgerInit
<1>2. TypeOK /\ Inductive /\ [Next]_vars =>
        [overlapped' \/ Ledger!LedgerNext]_(Ledger!ledger)
  BY LedgerStep DEF Inductive, Ledger!ledger
<1>. QED
  BY <1>1, <1>2, TypeCorrect, InductiveHolds, PTL DEF Spec, KeepsTheLedger
=============================================================================
