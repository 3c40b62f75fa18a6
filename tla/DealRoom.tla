----------------------------- MODULE DealRoom -----------------------------
(***************************************************************************)
(* One listing, the requests for access to its confidential side and the   *)
(* offers on it: OpportunitiesService, the content half of the             *)
(* administration, AccessService and OffersService.                        *)
(*                                                                         *)
(* The services share rows, not code: offers and reveals ask AccessService *)
(* whether a grant is in force, requests and offers read the listing's     *)
(* status.  Handlers are split at their awaits as in TenderRoom.  Each has *)
(* a single write, so one that fails is one that never resumes.            *)
(*                                                                         *)
(* Administrators act for the owner everywhere and need no grant, so the   *)
(* developers here are users who are neither.                              *)
(*                                                                         *)
(* An operator marked "Variant" is a plausible bug in the operator after   *)
(* it, kept to show which property would find it.                          *)
(***************************************************************************)
CONSTANTS
  Developers,  \* users who may ask for access and make offers
  Handlers     \* slots for requests in flight

VARIABLES
  \* the opportunity row
  listed, deleted,
  \* the access request rows, one per developer (unique)
  access, signed,
  \* the offer rows, one per developer (unique)
  offer,
  \* requests in flight
  call,
  \* history: did two requests ever overlap?
  overlapped,
  \* history: developers who ever held a grant; whose signature was given
  \* under the approval of their present request; who were shown the
  \* confidential side
  vetted, sound, shown,
  \* history: developers whose offer the owner last took out of editing; who
  \* were revoked and have not asked again; the handlers whose amendment or
  \* approval was under way when the owner did so
  closed, revoked, late

listing == <<listed, deleted>>
grants == <<access, signed>>
words == <<closed, revoked, late>>
history == <<vetted, sound, shown, words>>
vars == <<listing, grants, offer, call, overlapped, history>>
-----------------------------------------------------------------------------
\* OpportunityStatus; nothing ever writes MATCHED, IN_DEAL or CLOSED.
Listed == {"DRAFT", "PUBLISHED", "ARCHIVED"}

\* AccessStatus and OfferStatus; ABSENT is no row.
AccessStatus == {"ABSENT", "PENDING", "APPROVED", "REJECTED", "REVOKED"}
OfferStatus == {"ABSENT", "SUBMITTED", "UNDER_REVIEW", "SHORTLISTED", "ACCEPTED",
                "REJECTED", "WITHDRAWN"}

Editable == {"SUBMITTED", "UNDER_REVIEW"}
OwnerSettable == {"UNDER_REVIEW", "SHORTLISTED", "ACCEPTED", "REJECTED"}

\* Variant: the signature is not asked for.
HasApproval(d) == access[d] = "APPROVED"

\* hasGrant: approved and signed.
Granted(d) == access[d] = "APPROVED" /\ signed[d]

Idle == [op |-> "idle"]

ListingOps == {"publish", "remove", "unpublish", "archive", "restore"}
AccessOps == {"request", "reset", "create", "approve", "reject", "sign", "revoke", "view"}
OfferOps == {"offer", "insert", "amend", "withdraw"}

Calls ==
  {Idle}
    \cup [op : ListingOps]
    \cup [op : AccessOps \cup OfferOps, dev : Developers]
    \cup [op : {"judge"}, dev : Developers, to : OwnerSettable]

TypeOK ==
  /\ listed \in Listed
  /\ deleted \in BOOLEAN
  /\ access \in [Developers -> AccessStatus]
  /\ signed \in [Developers -> BOOLEAN]
  /\ offer \in [Developers -> OfferStatus]
  /\ call \in [Handlers -> Calls]
  /\ overlapped \in BOOLEAN
  /\ vetted \subseteq Developers
  /\ sound \subseteq Developers
  /\ shown \subseteq Developers
  /\ closed \subseteq Developers
  /\ revoked \subseteq Developers
  /\ late \subseteq Handlers

\* OpportunitiesService.create: a draft.
Init ==
  /\ listed = "DRAFT"
  /\ deleted = FALSE
  /\ access = [d \in Developers |-> "ABSENT"]
  /\ signed = [d \in Developers |-> FALSE]
  /\ offer = [d \in Developers |-> "ABSENT"]
  /\ call = [h \in Handlers |-> Idle]
  /\ overlapped = FALSE
  /\ vetted = {}
  /\ sound = {}
  /\ shown = {}
  /\ closed = {}
  /\ revoked = {}
  /\ late = {}
-----------------------------------------------------------------------------
Await(h, c) ==
  /\ call[h] = Idle
  /\ call' = [call EXCEPT ![h] = c]
  /\ overlapped' = (overlapped \/ \E g \in Handlers : call[g] # Idle)
  /\ UNCHANGED <<listing, grants, offer, history>>

\* A handler goes on to another await, or answers.
GoOn(h, c) ==
  /\ call' = [call EXCEPT ![h] = c]
  /\ UNCHANGED <<listing, grants, offer, overlapped, history>>

Answer(h) == call' = [call EXCEPT ![h] = Idle] /\ UNCHANGED overlapped

\* The handlers that have checked what the owner is about to withdraw.
UnderWay(op, d) == {g \in Handlers : call[g].op = op /\ call[g].dev = d}
-----------------------------------------------------------------------------
(* OpportunitiesService for the owner, AdminContentService for an          *)
(* administrator.  The owner does not find a deleted listing; the          *)
(* administrator does.                                                     *)

Publish(h) ==
  /\ ~deleted
  /\ listed = "DRAFT"
  /\ Await(h, [op |-> "publish"])

Remove(h) == ~deleted /\ Await(h, [op |-> "remove"])

Unpublish(h) == listed = "PUBLISHED" /\ Await(h, [op |-> "unpublish"])

Archive(h) == listed # "ARCHIVED" /\ Await(h, [op |-> "archive"])

Restore(h) == (listed = "ARCHIVED" \/ deleted) /\ Await(h, [op |-> "restore"])

ListingWrite(h, op, status, gone) ==
  /\ call[h].op = op
  /\ listed' = status
  /\ deleted' = gone
  /\ Answer(h)
  /\ UNCHANGED <<grants, offer, history>>

PublishWrite(h) == ListingWrite(h, "publish", "PUBLISHED", deleted)
UnpublishWrite(h) == ListingWrite(h, "unpublish", "DRAFT", deleted)
ArchiveWrite(h) == ListingWrite(h, "archive", "ARCHIVED", deleted)

\* Variant: deletion is written as a status.
RemoveAsStatus(h) == ListingWrite(h, "remove", "DELETED", deleted)

RemoveWrite(h) == ListingWrite(h, "remove", listed, TRUE)

RestoreWrite(h) == ListingWrite(h, "restore", "DRAFT", FALSE)

\* getOne: the listing, then the grant; the answer follows with no await.
\* Without a grant it shows the public side or nothing.
View(h, d) == ~deleted /\ Await(h, [op |-> "view", dev |-> d])

ViewReply(h) ==
  /\ call[h].op = "view"
  /\ shown' = IF Granted(call[h].dev) THEN shown \cup {call[h].dev} ELSE shown
  /\ Answer(h)
  /\ UNCHANGED <<listing, grants, offer, vetted, sound, words>>
-----------------------------------------------------------------------------
(* AccessService *)

RequestAccess(h, d) ==
  /\ ~deleted
  /\ listed = "PUBLISHED"
  /\ Await(h, [op |-> "request", dev |-> d])

\* The developer's own row: none, one that still stands, or one to reopen.
RequestReadRow(h) ==
  /\ call[h].op = "request"
  /\ LET d == call[h].dev IN
     \/ access[d] = "ABSENT" /\ GoOn(h, [op |-> "create", dev |-> d])
     \/ access[d] \in {"PENDING", "APPROVED"} /\ GoOn(h, Idle)
     \/ access[d] \in {"REJECTED", "REVOKED"} /\ GoOn(h, [op |-> "reset", dev |-> d])

Pending(d) ==
  /\ access' = [access EXCEPT ![d] = "PENDING"]
  /\ signed' = [signed EXCEPT ![d] = FALSE]
  /\ sound' = sound \ {d}
  /\ revoked' = revoked \ {d}

\* The insertion, or the unique constraint's refusal.
CreateRequestWrite(h) ==
  /\ call[h].op = "create"
  /\ IF access[call[h].dev] = "ABSENT"
       THEN Pending(call[h].dev)
       ELSE UNCHANGED <<grants, sound, revoked>>
  /\ Answer(h)
  /\ UNCHANGED <<listing, offer, vetted, shown, closed, late>>

\* Variant: the old signature is left on the reopened request.
ResetKeepingNda(h) ==
  /\ call[h].op = "reset"
  /\ access' = [access EXCEPT ![call[h].dev] = "PENDING"]
  /\ sound' = sound \ {call[h].dev}
  /\ revoked' = revoked \ {call[h].dev}
  /\ Answer(h)
  /\ UNCHANGED <<listing, signed, offer, vetted, shown, closed, late>>

ResetRequestWrite(h) ==
  /\ call[h].op = "reset"
  /\ Pending(call[h].dev)
  /\ Answer(h)
  /\ UNCHANGED <<listing, offer, vetted, shown, closed, late>>

\* Variant: a request is decided again, whatever became of it.
DecideAny(h, d) ==
  /\ access[d] # "ABSENT"
  /\ \E op \in {"approve", "reject"} : Await(h, [op |-> op, dev |-> d])

Decide(h, d) ==
  /\ access[d] = "PENDING"
  /\ \E op \in {"approve", "reject"} : Await(h, [op |-> op, dev |-> d])

\* Who holds a grant after this step has held one.
Vet == vetted' = vetted \cup {d \in Developers : access'[d] = "APPROVED" /\ signed'[d]}

DecideWrite(h) ==
  /\ call[h].op \in {"approve", "reject"}
  /\ access' = [access EXCEPT ![call[h].dev] =
                  IF call[h].op = "approve" THEN "APPROVED" ELSE "REJECTED"]
  /\ late' = late \ {h}
  /\ Answer(h)
  /\ UNCHANGED <<listing, signed, offer, sound, shown, closed, revoked>>
  /\ Vet
-----------------------------------------------------------------------------
SignNda(h, d) ==
  /\ access[d] = "APPROVED"
  /\ ~signed[d]
  /\ Await(h, [op |-> "sign", dev |-> d])

\* Variant: the row is written back as it was read.
SignNdaWholeRow(h) ==
  /\ call[h].op = "sign"
  /\ access' = [access EXCEPT ![call[h].dev] = "APPROVED"]
  /\ signed' = [signed EXCEPT ![call[h].dev] = TRUE]
  /\ sound' = sound \cup {call[h].dev}
  /\ Answer(h)
  /\ UNCHANGED <<listing, offer, shown, words>>
  /\ Vet

SignNdaWrite(h) ==
  /\ call[h].op = "sign"
  /\ signed' = [signed EXCEPT ![call[h].dev] = TRUE]
  /\ sound' = IF access[call[h].dev] = "APPROVED" THEN sound \cup {call[h].dev} ELSE sound
  /\ Answer(h)
  /\ UNCHANGED <<listing, access, offer, shown, words>>
  /\ Vet

\* revoke: whatever the status; the signature stays on the row.
Revoke(h, d) == access[d] # "ABSENT" /\ Await(h, [op |-> "revoke", dev |-> d])

RevokeWrite(h) ==
  /\ call[h].op = "revoke"
  /\ access' = [access EXCEPT ![call[h].dev] = "REVOKED"]
  /\ revoked' = revoked \cup {call[h].dev}
  /\ late' = late \cup UnderWay("approve", call[h].dev)
  /\ Answer(h)
  /\ UNCHANGED <<listing, signed, offer, vetted, sound, shown, closed>>
-----------------------------------------------------------------------------
(* OffersService *)

SubmitOffer(h, d) ==
  /\ ~deleted
  /\ listed = "PUBLISHED"
  /\ Await(h, [op |-> "offer", dev |-> d])

\* Variant: the grant is not asked for.
SubmitOfferUnchecked(h) ==
  /\ call[h].op = "offer"
  /\ GoOn(h, [op |-> "insert", dev |-> call[h].dev])

\* The grant is asked for once the listing is read.  Offers are never
\* deleted, so the look for an existing one refuses what the insertion does.
SubmitOfferCheckAccess(h) ==
  /\ call[h].op = "offer"
  /\ GoOn(h, IF Granted(call[h].dev) THEN [op |-> "insert", dev |-> call[h].dev] ELSE Idle)

\* Variant: a withdrawn offer is made again.
InsertOfferAgain(h) ==
  /\ call[h].op = "insert"
  /\ offer' = IF offer[call[h].dev] \in {"ABSENT", "WITHDRAWN"}
                THEN [offer EXCEPT ![call[h].dev] = "SUBMITTED"]
                ELSE offer
  /\ Answer(h)
  /\ UNCHANGED <<listing, grants, history>>

InsertOffer(h) ==
  /\ call[h].op = "insert"
  /\ offer' = IF offer[call[h].dev] = "ABSENT"
                THEN [offer EXCEPT ![call[h].dev] = "SUBMITTED"]
                ELSE offer
  /\ Answer(h)
  /\ UNCHANGED <<listing, grants, history>>

\* update: new terms while the offer is editable; neither the listing nor
\* the grant is looked at again.
AmendOffer(h, d) == offer[d] \in Editable /\ Await(h, [op |-> "amend", dev |-> d])

AmendOfferWrite(h) ==
  /\ call[h].op = "amend"
  /\ late' = late \ {h}
  /\ Answer(h)
  /\ UNCHANGED <<listing, grants, offer, vetted, sound, shown, closed, revoked>>

\* withdraw: whatever the status.
WithdrawOffer(h, d) == offer[d] # "ABSENT" /\ Await(h, [op |-> "withdraw", dev |-> d])

WithdrawOfferWrite(h) ==
  /\ call[h].op = "withdraw"
  /\ offer' = [offer EXCEPT ![call[h].dev] = "WITHDRAWN"]
  /\ Answer(h)
  /\ UNCHANGED <<listing, grants, history>>

\* setStatus: whatever the status, a withdrawn offer's too.  The owner takes
\* the offer out of editing, or puts it back under review.
SetOfferStatus(h, d) ==
  /\ offer[d] # "ABSENT"
  /\ \E s \in OwnerSettable : Await(h, [op |-> "judge", dev |-> d, to |-> s])

SetOfferStatusWrite(h) ==
  /\ call[h].op = "judge"
  /\ offer' = [offer EXCEPT ![call[h].dev] = call[h].to]
  /\ IF call[h].to \in Editable
       THEN closed' = closed \ {call[h].dev} /\ UNCHANGED late
       ELSE /\ closed' = closed \cup {call[h].dev}
            /\ late' = late \cup UnderWay("amend", call[h].dev)
  /\ Answer(h)
  /\ UNCHANGED <<listing, grants, vetted, sound, shown, revoked>>
-----------------------------------------------------------------------------
Request(h) ==
  \/ Publish(h) \/ Remove(h) \/ Unpublish(h) \/ Archive(h) \/ Restore(h)
  \/ \E d \in Developers :
       \/ View(h, d) \/ RequestAccess(h, d) \/ Decide(h, d) \/ SignNda(h, d) \/ Revoke(h, d)
       \/ SubmitOffer(h, d) \/ AmendOffer(h, d) \/ WithdrawOffer(h, d) \/ SetOfferStatus(h, d)

Resume(h) ==
  \/ PublishWrite(h) \/ RemoveWrite(h) \/ UnpublishWrite(h) \/ ArchiveWrite(h)
  \/ RestoreWrite(h) \/ ViewReply(h)
  \/ RequestReadRow(h) \/ CreateRequestWrite(h) \/ ResetRequestWrite(h)
  \/ DecideWrite(h) \/ SignNdaWrite(h) \/ RevokeWrite(h)
  \/ SubmitOfferCheckAccess(h) \/ InsertOffer(h) \/ AmendOfferWrite(h)
  \/ WithdrawOfferWrite(h) \/ SetOfferStatusWrite(h)

Next == \E h \in Handlers : Request(h) \/ Resume(h)

Spec == Init /\ [][Next]_vars
-----------------------------------------------------------------------------
(* What holds however requests interleave *)

Offered == {d \in Developers : offer[d] # "ABSENT"}

\* Whoever was shown the confidential side or made an offer has held a
\* grant, approved and signed, at some time (OpportunitiesService.getOne,
\* OffersService.submit): no race of requests, decisions, signatures and
\* revocations lets in somebody the owner never approved or who never signed.
NobodyUnvetted == shown \cup Offered \subseteq vetted

\* An offer about to be written is a vetted developer's, and so is a grant.
Vetting ==
  /\ NobodyUnvetted
  /\ \A h \in Handlers : call[h].op \in {"insert", "withdraw", "judge"} => call[h].dev \in vetted
  /\ \A d \in Developers : Granted(d) => d \in vetted

Finishes(h, op) == call[h].op = op /\ call'[h] = Idle

\* Once the owner has shortlisted, accepted or rejected an offer its terms
\* change only after the owner has put it back under review, whatever the
\* developer does (amend, withdraw, submit again) and whatever overlaps, but
\* by an amendment that had found the offer editable and not yet written when
\* the owner decided (OffersService.update, EDITABLE, and setStatus).
DecidedTermsStand ==
  [][\A h \in Handlers : Finishes(h, "amend") => call[h].dev \notin closed \/ h \in late]_vars

\* A developer who was revoked is approved again only after a new request of
\* theirs, whatever the order of requests, decisions and revocations and
\* whatever overlaps, but by an approval that had found the request pending
\* and not yet written when the revocation landed (AccessService.decide,
\* revoke and request).
RevocationStands ==
  [][\A d \in Developers :
       access'[d] = "APPROVED" /\ access[d] # "APPROVED" =>
         d \notin revoked \/ \E h \in late : Finishes(h, "approve") /\ call[h].dev = d]_vars

\* What makes the two inductive: an offer taken out of editing stays out of
\* it, a pending request is a new one, and whoever goes on over the owner's
\* word had checked before it was given.
OwnersWord ==
  /\ \A d \in closed : offer[d] \notin Editable \cup {"ABSENT"}
  /\ \A d \in Developers : access[d] = "PENDING" => d \notin revoked
  /\ \A h \in Handlers : call[h].op = "amend" => call[h].dev \notin closed \/ h \in late
  /\ \A h \in Handlers : call[h].op = "approve" => call[h].dev \notin revoked \/ h \in late
-----------------------------------------------------------------------------
(* What holds as long as no two requests overlap *)

\* A grant in force rests on a signature given under the approval of the
\* present request: a revoked developer who asks again signs again
\* (AccessService.request, the reset).
GrantRestsOnItsOwnNda == ~overlapped => \A d \in Developers : Granted(d) => d \in sound

Gone == deleted \/ listed = "ARCHIVED"
OnMarket == listed = "PUBLISHED" /\ ~deleted

\* What a handler read is still so when it goes on.
Fresh(c) ==
  /\ c.op = "publish" => listed = "DRAFT"
  /\ c.op \in {"publish", "remove", "view"} => ~deleted
  /\ c.op = "unpublish" => listed = "PUBLISHED"
  /\ c.op = "restore" => Gone
  /\ c.op \in {"request", "reset", "create", "offer", "insert"} => OnMarket
  /\ c.op = "reset" => access[c.dev] \in {"REJECTED", "REVOKED"}
  /\ c.op = "create" => access[c.dev] = "ABSENT"
  /\ c.op \in {"approve", "reject"} => access[c.dev] = "PENDING"
  /\ c.op = "sign" => access[c.dev] = "APPROVED" /\ ~signed[c.dev]
  /\ c.op = "revoke" => access[c.dev] # "ABSENT"
  /\ c.op = "insert" => Granted(c.dev)
  /\ c.op = "amend" => offer[c.dev] \in Editable
  /\ c.op \in {"withdraw", "judge"} => offer[c.dev] # "ABSENT"

\* Of requests that never overlapped one at most is in flight, what it read
\* is fresh, and a request yet to be decided is unsigned.
Serial ==
  ~overlapped =>
    /\ \A g, h \in Handlers : g # h => call[g] = Idle \/ call[h] = Idle
    /\ \A h \in Handlers : Fresh(call[h])
    /\ \A d \in Developers : access[d] \in {"ABSENT", "PENDING"} => ~signed[d]
    /\ \A d \in Developers : Granted(d) => d \in sound

\* The inductive invariant, checked by TLC before it is proved.
Inductive == Vetting /\ OwnersWord /\ Serial

Market == IF Gone THEN "gone" ELSE IF OnMarket THEN "on" ELSE "draft"

Standing ==
  [d \in Developers |->
     CASE access[d] = "APPROVED" -> IF signed[d] THEN "in" ELSE "cleared"
       [] access[d] = "PENDING"  -> "asked"
       [] OTHER                  -> "out"]

Ledger == INSTANCE AccessLedger
            WITH market <- Market, standing <- Standing, knows <- shown, offered <- Offered

\* The four services keep the promises of AccessLedger: in particular a
\* revocation ends in a new request, and an offer is made by whoever is let
\* in while the listing is on the market.
KeepsTheLedger == Ledger!LedgerInit /\ [][overlapped' \/ Ledger!LedgerNext]_(Ledger!ledger)
=============================================================================
