# Verification of the PPP tender platform

This directory holds TLA+ models of the backend (`src/backend`, NestJS on
Prisma and PostgreSQL) and of the session its web frontend keeps
(`src/frontend`, Next.js), the TLC configurations that check them on small
instances, and theorems about them that TLAPS proves for every instance.

The backend is one Node process. Handlers are `async`: they run without
interruption up to an `await` of a query, and any other request may run while
the query is under way. There is hardly a transaction in the services, writes
are `update ... where id`, and what protects a rule is nearly always a read
some queries earlier. The models are therefore built around the awaits: **a
handler is one action that reads and checks and parks what it is going to
write, and one action for every write.** How many requests are in flight is a
constant (`Handlers`), so the same module gives the serial service (one
handler) and the concurrent one (two or more).

## 1. Inventory

| Component | State | Operations | What is hard | What makes it correct | Module |
|---|---|---|---|---|---|
| **Tenders** `tenders/` | stage, deadline, criteria, publishedAt, deletedAt | create, update, setStage, remove | the stage is written long after it was judged; award and financial close write it too; deadlines move | the stage follows the table; nothing happens on an unpublished or deleted tender | `TenderRoom` |
| **Bids** `bids/` | one bid per tender and bidder: status, submittedAt, security and checklist | create, update, submit, withdraw, listForTender, disqualify, evaluate, award, financialClose | award is four queries without a transaction; submission races the deadline; the seal is judged on a stale read | sealed until the deadline; who loses, loses to somebody; who left stays out | `TenderRoom`, `AwardBook` |
| **Access** `access/` | one request per opportunity and user: status, ndaSignedAt | request, decide, signNda, revoke, hasAccess | all read-then-write on one row; revoke and decide race; reset races the signature | no reveal without an approval and an NDA of the same request; a revocation stands but for an approval already under way | `DealRoom`, `AccessLedger` |
| **Opportunities, content admin** `opportunities/`, `admin/admin-content` | status, deletedAt, owner | create, update, publish, archive, restore, remove, getOne | other services read the status and write afterwards | nothing new on an unpublished listing; what is taken down waits for its owner | `DealRoom` |
| **Offers** `offers/` | one row per opportunity and user: status | submit, withdraw, setStatus, list, compare | gate on access and listing, read before the insertion; terms edited while they are decided | no offer without access; decided terms stand but for an amendment already under way | `DealRoom`; the comparison in `Merit` |
| **Clarifications** `clarifications/` | questions, addenda, one challenge per tender | ask, answer, issueAddendum, openChallenge, decideChallenge | numbers by read-then-insert; addendum stored before the deadline it announces; two answers to one question | one public answer; addenda 1..n, append-only; deadline as announced; no winner inside the window; no papers after the close but from who was admitted before | `TenderPapers` |
| **Accounts** `auth/`, `users/`, `admin/admin-users` | role, status, deletedAt, roleConfirmed, tokenVersion | login, Google callback and redemption, refresh, confirmRole, setRole, suspend, reinstate, forceSignOut, softDelete | check-then-write on the number of administrators; tokens signed over a revocation | revocation ends every session but a sign-in already past its check; an administrator remains | `Accounts` |
| **Browser session** `frontend/src/middleware.ts`, `lib/session.ts`, `app/api/auth/` | two cookies, shared by all tabs | navigate (renew), page, sign-in, sign-out | cookies are written when an answer arrives; tokens age under way; the API may fail | no half session; nobody signed in is taken for a stranger; signed out stays out | `WebSession` |
| **Consortiums** `consortiums/` | status, members | create, invite, respond, removeMember, disband | removal races the answer; a removed member meets the unique row when invited again | only the invited decide; memberships only move on | `Consortium` |
| **Data room, due diligence, verification** | folders, documents and versions, checklist, tier and record | initialise, createFolder, upload, delete, seed, create, remove, set | several writes per handler; count-then-create | a listed document opens; the tier is the one on record | `Dossier` |
| **Rankings** `bids/bid-evaluation.ts`, `offers/offer-comparison.ts`, `matching/fit-score.ts` | none | evaluateBids, compareOffers, scoreFit | every share depends on the whole field; gaps, weights, clamps and marks | the better never scores less; bettering one's terms costs no rank while the range remains | `Merit` |
| **Recommender** `recommender/` | none | recommendStructures | 18 rounded sums of up to nine weights | the first choice respects title and term | `Recommender` |
| **Feasibility, residual valuation** | none | computeFeasibility, computeResidual | one cost stack each, and the break-even price a third | the three agree | `Appraisal` |
| Other valuations, estimate, indicators, statistics | none | pure formulas, reads | floating point | section 6 | |
| Mandates `mandates/` | one owner's rows | create, update, remove | | section 6 | |
| Audit log `access/audit.service` | append-only rows | record | errors swallowed | changes nothing the others read | |
| Storage, explainer | files | I/O | | an upload's step in `Dossier` | |

How they interact: Bids read the tender row with the bid and write the tender's
stage (award, financialClose); Clarifications write the tender's deadline and
read its stage; Offers ask Access, and both ask Opportunities for a status; the
data room asks Access for a level; verification writes the opportunity's tier;
every request passes `JwtStrategy` and `RolesGuard`, which read the account's
row and compare its token version. All of it is shared rows: there are no
messages between services, and no timers (deadlines are compared when a request
comes in). The frontend is a thin proxy whose one piece of state is the pair of
cookies; its middleware calls `/auth/refresh` before a page renders.

`PROJECT.json` lists the hazards these behaviours carry, each at its line.

## 2. Modules

| Module | Stands for |
|---|---|
| `TenderRoom` | `TendersService` and `BidsService` on one tender: the concrete state machine, its properties, and named variants of operations that show which property would find which bug |
| `AwardBook` | the abstract promise of a tender to its bidders |
| `TenderPapers` | `ClarificationsService` on one tender: questions, addenda, Swiss challenge |
| `DealRoom` | one listing with its requests for access and its offers, four services together |
| `AccessLedger` | the abstract promise of a listing to its owner |
| `Accounts` | sign-in, refresh, revocation and administration of accounts |
| `WebSession` | the cookies of a browser with several tabs |
| `Consortium`, `Dossier` | a consortium's memberships; what an owner files about an opportunity |
| `Merit`, `Recommender`, `Appraisal` | the deterministic engines |
| `MC...` | instances: symmetry, constraints, starting states |
| `TenderRoomProofs`, `AwardBookProofs`, `TenderPapersProofs`, `DealRoomProofs`, `AccountsProofs`, `WebSessionProofs`, `EnginesProofs`, `SideRoomsProofs` | theorems (section 4) |

All concurrent modules are cut alike: an action that reads and checks and parks
the call, an action per write, `Fail` or a call that never resumes for a
rejected query, and a history flag (`overlapped`, `disturbed`, `crossed`,
`tangled`, `troubled`) that says whether two requests were ever in flight
together or one failed. **Properties without the flag hold in every
interleaving; properties with it say what the code keeps only as long as
requests do not overlap, and TLC finds each of the latter violated without its flag.** Where the code
lets just one kind of request through, one that was past its check when the rule
began to apply, the property names those requests instead (`underWay`, `late`,
`torn`) and holds in every interleaving.

### TenderRoom

State: the tender row (`stage`, `deadline`, `published` for `publishedAt`,
`deleted` for `deletedAt`, `criteria`), the bid rows (`status`, with `ABSENT` for
no row, `submittedAt`, `ready` for `bidSecurityProvided` and
`checklistComplete` together), the requests in flight (`call`), the clock
(`now`), and two history variables: `named`, the bids ever named preferred, and
`early`, the bids whose envelope the authority was shown while the deadline was
ahead.

| Code | Reads and checks | Writes |
|---|---|---|
| `TendersService.create` | `Init`: any deadline and criteria | |
| `update` | `UpdateTender` | `UpdateTenderWrite` |
| `setStage` | `SetStage` | `SetStageWrite` |
| `remove` | `Remove` | `RemoveWrite` |
| `BidsService.create` | `CreateBid` | `CreateBidWrite` (or the unique constraint's refusal) |
| `update`, `submit`, `withdraw` | `UpdateBid`, `Submit`, `Withdraw` | `UpdateBidWrite`, `SubmitWrite`, `WithdrawWrite` |
| `listForTender` | `ListBids` | `ListBidsReply`: the bids are read second, the seal judged last |
| `disqualify` | `Disqualify` | `DisqualifyWrite`, which answers with the envelope |
| `evaluate` | `Evaluate` | `EvaluateReply` |
| `award` | `Award`, then `AwardReadBid` | `NamePreferred`, `MarkOthersUnsuccessful`, `SetPreferredStage` |
| `financialClose` | `FinancialClose` | `FinancialCloseWrite` |
| a rejected query, a restart | | `Fail`: what was written stays, the rest is lost |

Simplifications, each one that the properties cannot tell apart: handlers that
only read and refuse are stutters; `create`'s own look for an existing bid is
merged with the unique constraint (bids are never deleted); the ownership check
is the split of requests between bidders and authority; the consortium named in
`create` only refuses; `getOne` (`bids.service.ts:163-175`) reads bid and tender in
one query and judges the seal with no further await, so it is `listForTender`
without the gap between its reads; an addendum's write of the deadline is one of the writes
`UpdateTender` allows; audit records are best effort and read by nobody here;
prices, scores and texts are dropped, and `criteria` is a model value.

### AwardBook

Each bidder has a standing: none, private, live, closed, won, lost. Nobody
enters before publication, an offer is made once, who leaves stays out, and
offers are turned down only while a winner stands, all at once. The mapping is
`open <- published` and `Standing(status[b])`. **The refinement needs requests
that do not overlap** (with two in flight a submission parked before a
withdrawal brings the bid back); it does not need them to succeed.

### Accounts

State: the rows (`role`, with MEMBER for the four roles other than ADMIN,
`status`, `deleted`, `confirmed`, `version` for `tokenVersion`), `tokens`, the
versions of the unexpired tokens each user holds, and `call`. Access and
refresh tokens carry the same version and are one. History: `since`, who signed
in after the last revocation of their sessions, the check of the row included;
`underWay`, of whom a sign-in was between its check and its write when the last
revocation landed; `overlapped`, whether two
requests that take an administrator away were in flight at once; `steppedDown`,
whether an administrator took another role in onboarding.

| Code | Actions |
|---|---|
| `JwtStrategy.validate`, `RolesGuard` | the guards `Heard(a)` and `role[a] = "ADMIN"` of a request |
| `login`; `googleCallback` with `resolveUser` on a known account | `SignIn` (the row checked; its version is parked for the history), `SignInWrite` (the write of `lastLoginAt`, whose returned row gives the version), `Deliver` |
| `refresh` | `Refresh` (row and version checked), `Deliver` |
| `buildResult` and the answer; `redeemGoogleGrant` | `Deliver`; a handle not yet redeemed is a delivery that has not happened, and `Fail` loses it |
| expiry of a token | `Expire` |
| `setRole`, `suspend`, `reinstate`, `forceSignOut`, `softDelete` | `Order`, `ReadTarget`, `CountAdmins` where the code counts, and the write of each |
| `confirmRole` | `ConfirmRole`, `ReadTarget`, `ConfirmRoleWrite` |

Left out: `register` and the creation or linking of a Google account, which add
a user or a name and touch no other row, and `setAccessLevel`.

### DealRoom

State: the opportunity row (`listed`, `deleted`), each developer's request row
(`access`, `signed` for `ndaSignedAt`) and offer row (`offer`), the calls in
flight. History: `vetted`, who ever held a grant; `sound`, whose signature was
given under the approval of their present request; `shown`, who saw the
confidential side; `closed`, whose offer the owner last took out of editing;
`revoked`, who was revoked and has not asked again; `late`, the handlers whose
amendment or approval was past its check when the owner did so.
Developers are users who neither own the listing nor administer, since those
need no grant.

| Code | Reads and checks | Writes |
|---|---|---|
| `OpportunitiesService.publish`, `remove` | `Publish`, `Remove` | `PublishWrite`, `RemoveWrite` |
| `AdminContentService.unpublish`, `archive`, `restore` | `Unpublish`, `Archive`, `Restore` | `UnpublishWrite`, `ArchiveWrite`, `RestoreWrite` |
| `getOne` with `hasAccess` | `View` | `ViewReply`: the grant is read second |
| `AccessService.request` | `RequestAccess`, `RequestReadRow` | `CreateRequestWrite` (or the unique constraint's refusal), `ResetRequestWrite` |
| `decide`, `signNda`, `revoke` | `Decide`, `SignNda`, `Revoke` | `DecideWrite`, `SignNdaWrite`, `RevokeWrite` |
| `OffersService.submit` | `SubmitOffer`, `SubmitOfferCheckAccess` | `InsertOffer` |
| `update`, `withdraw`, `setStatus` | `AmendOffer`, `WithdrawOffer`, `SetOfferStatus` | `AmendOfferWrite`, `WithdrawOfferWrite`, `SetOfferStatusWrite` |

`AccessLedger` is what the owner is promised: a developer is out, asked, cleared
to sign or in; only who is in learns or offers; revocation puts them out; a
listing taken off returns as a draft. The mapping is `market` from
`listed` and `deleted`, `standing` from `access` and `signed`, `knows <- shown`
and `offered` from the offer rows. `KeepsTheLedger` is the refinement for
behaviours whose requests have not overlapped so far.

### TenderPapers

State: the tender row as this service sees it (`stage`, `deadline`,
`clarifyBy` for `clarificationDeadline`), `question` (absent, open or its
answer), `addenda`, `challenge` and `windowEnd`, calls and clock. History:
`disturbed`; `promise`, the deadline the bidders were told last; `late`, the handlers
admitted before submissions closed that have neither answered nor failed since. `CLOSED`
stands for every stage after CLARIFICATION, which this service does not tell
apart. The tender's own moves, `SetStage` and `UpdateTender`, are single steps of
an environment here: their races are `TenderRoom`'s.

| Code | Reads and checks | Writes |
|---|---|---|
| `ask`, `answer` | `Ask`, `AnswerQuestion` | `AskWrite`, `AnswerQuestionWrite` |
| `issueAddendum` | `IssueAddendum`, `NextAddendumNumber` | `InsertAddendum` (or the unique constraint's refusal), `MoveDeadline` |
| `openChallenge` | `OpenChallenge` | `OpenChallengeWrite` (unique per tender) |
| `decideChallenge` | `DecideChallenge` | `DecideChallengeWrite` |
| a rejected query, a restart | | `Fail` |

### WebSession

State: the jar (`access` with the age of its token, `refresh`), `version`, the
`tokenVersion` the API honours, and each tab's `trip`. A trip reads the cookies
when it leaves and writes them when its answer arrives. History: `meant`, the
visitor's last word; `crossed`; `bounced`, whether a page took somebody for a
stranger whose session was honoured from departure to arrival.

| Code | Actions |
|---|---|
| `middleware` | `Navigate` (renew or go on), `Renewed`, `Refused` (any answer that is not a success), `Unreachable` |
| page with `getCurrentUser`, and the cookies of its answer | `Arrive` |
| login, registration, Google callback | `LogIn`, `LogInArrives`, `LogInFails` |
| logout | `LogOut`, `LogOutArrives` |
| the API's revocations; cookie lifetimes | `Revoked`; `TimePasses`, `RefreshLapses` |

The API is external and may answer a renewal any way; what it honours is
`Accounts`' business. One request is answered within the renewal window: time
passes it once at most.

### Consortium and Dossier

`Consortium`: the group's status and each guest's row; `Invite`,
`InviteFindMembership`, `AddMember` (or the unique row's refusal), `RemoveMember`,
`Respond`, `Disband` and their writes. `Dossier`: how many copies of the standard
folders and the standard checklist there are, whether the owner has rows of
their own, each document's file, row and version, the tier and the record that
justifies it; in the history, the documents whose upload failed between their row and
their version (`torn`). `InitDataRoom`, `CreateFolder`, `SeedChecklist`, `CreateItem`,
`RemoveItems`, `Upload` with `SaveFile`, `CreateDocument` and `CreateVersion`,
`DeleteDocument`, `SetVerification` with `SetTier` and `UpsertRecord`; `JobFails`
may come between any two. `RemoveItems` counts as removing them all: nothing here
depends on which are left.

### Merit, Recommender, Appraisal

`Merit` computes places afresh in every state of a field of rivals, as the
services do on every request; a step enters, revises, marks or excludes a rival.
Each scorer is represented by two criteria, one of each kind it has: less is
better and more is better for bids and offers (with the authority's marks on
one of them), proportional and tapered for the fit. A share of 1 is `Unit`: shares are exact
where every range, bound and target divides it, as in the instance, and cut
off below the unit elsewhere (the theorems are for every `Unit`); rounding is the
engine's `Math.round`. Sorting is stable, so the order of the list breaks ties.

`Recommender` has the whole table of structures, the wishes and the weights;
`profile` is the owner's set of answers. `Appraisal` has the money of the
feasibility study and of the residual valuation; the two read the same terms
here, as a developer who compares them would enter them. What is divided in the
break-even price is multiplied out. 100 % is `Whole`, in the unit percentages are
entered in, and areas and money are counted so finely that what the studies
have in common comes out even (`EvenTerms`): the rounding of what is shown is
no part of the model.

## 3. Runs

| Run | Instance | Question |
|---|---|---|
| `tender_serial` | 2 bidders, 1 handler, clock 1..3 | types; what a handler read is still so when it writes (`Serial`); no bid on a deleted tender; the seal is opened early only by disqualifying; who left stays out; submissions in good order; the stage moves by rule; `AwardBook` is implemented. Requests may fail between writes |
| `tender_concurrent` | 2 bidders, 2 handlers, clock stopped | what survives every race and failure: bids follow publication, who loses had submitted and lost to somebody; the inductive invariant |
| `tender_live` | 2 bidders, 2 handlers, no failures | an award that has named its bid decides the others and sets the stage |
| `accounts_concurrent` | 2 users, 2 handlers, versions 0..1 | whoever is heard signed in after their last revocation, or was past the check when it landed; an administrator remains; the inductive invariant |
| `deal_room` | 1 developer, 2 handlers | in every interleaving nobody unvetted is shown or offers anything, and decided terms and revocations stand, but for an amendment or approval already under way; without overlap grants rest on their own NDA and `AccessLedger` is implemented |
| `tender_papers` | 1 question, 2 answers, 2 handlers, clock 1..2, 2 addenda, window 1 | addenda append-only, no winner inside the window, and nothing after the close but from requests admitted before, in every interleaving and with failures; the announced deadline holds and decisions stand, undisturbed |
| `side_rooms` | see below | whole sessions; pages know who is signed in; signed out stays out; memberships move on; documents open, whatever overlaps and fails; tiers on record; the better never scores less and never falls behind by bettering, but by drawing level on what a rival is silent on; advice fits title and term; the studies agree |
| `award_two_winners`, `close_without_winner`, `sealed_disqualify`, `accounts_last_admin`, `session_cleared` | as above; `session_cleared` with 2 tabs | five sentences of the sources that the code does not keep (section 5) |

Why the bounds are enough.

* Two bidders are the winner and a loser; no rule compares three. The clock of
  `tender_serial` has a time before, at and after each of several deadlines, and
  the deadline may also be null or beyond the end, so it can pass between the
  check and the write of every handler. In `tender_concurrent` the clock stands
  still because there amendments move the deadline across it in both
  directions; its view drops the variables its invariants do not read, which no
  guard reads either, or which no longer matter to a guard. `tender_live` starts
  where submitted bids are being judged, with the deadline passed or none at
  all: before that no award gets past the seal.
* Two handlers show every race of a pair of requests, and more than two only
  repeat them on independent rows: the theorems, which hold for any number, are
  the answer for more.
* In `accounts_concurrent` two users are the least that can remove each other,
  and one revocation of each account is enough to outdate a token, a pending
  refresh and an unredeemed handle, and to cross a pending sign-in; `MaxVersion`
  bounds the counter in the guard of `Revoke`. A second revocation, after which a
  crossed sign-in counts no more, is left to the theorem, which is for any bound:
  the run with it exceeds five minutes.
* In `deal_room` no handler touches the rows of two developers, so one is
  enough; the theorems are for any number.
* In `tender_papers` two answers and two addenda are what can be confused;
  deadlines lie in 1..3, so before, at and after every instant. The constraint
  `AtMostTwoDesks` keeps states where at most two of questions, addenda and
  challenge have begun: they share only the tender row and the flags, so two at
  a time meet in every way there is. `MaxAddenda` bounds the guard of
  `NextAddendumNumber`.
* `side_rooms` puts six components that share no state into one run: `focus` says
  which one a behaviour is of. Two tabs and one revocation; two guests and two
  requests; one document, two clerks, two tiers, and `MaxSeeds` 2, since two
  requests can list the standard folders at most twice; three rivals with two or three values
  each, gaps, marks of 50 and of 130 (which is clamped), weights of the owner that
  are negative or come to nothing. `ThreeWhereTheyMeet` keeps fields of two
  for the fit, where rivals do not meet, and once bids are marked. All 1728
  sets of answers of the recommender occur (a term counts as none or some), and
  2592 sets of terms: land for nothing or dear, sales of which 100 % and
  more is lost, debt above the cost.

Symmetry is over bidders, users, handlers, answers, tabs, guests, desks and
clerks, in runs without liveness only. `CHECK_DEADLOCK FALSE` is set in the
tender and account runs because a deleted or closed tender without requests, at
the end of its clock, really has nothing left to do, and accounts that are all
suspended or revoked up to the bound likewise. The four runs of the other
modules check for deadlock and find none.

Fairness. Only `tender_live` assumes any: weak fairness of `Resume(h)` for each
handler, that is, a query that was answered resumes its handler. The event loop
gives that to every pending promise. No fairness is assumed of requests, of the
clock or of failures, and there are no failures in that run: with one, an award
may rightly stop half-way, which the safety properties cover. The handlers of
the other modules have no loop and no wait but their own queries, so that the
same argument would end each of them and say nothing of the code.

## 4. Proofs

`tlapm` checks every leaf. The assumptions are those of the modules
(`TenderRoomAssumption`: a positive last time, and the two null values are no
dates; `AccountsAssumption`: `MaxVersion` is a natural number;
`TenderPapersAssumption`: times, bounds and window are positive, null is no date
and no answer reads like a status; `WebSessionAssumption`: no cookie is no token;
`DossierAssumption`: no record is no tier; `MeritAssumption`: values, weights and
marks are integers, the mandate's ticket has natural bounds, rivals are numbered
as they are listed, and silence is no value; `AppraisalAssumption`: what the
feasibility study's DTO demands, nothing negative and something to sell, and
`EvenTerms`; the valuation's DTO bounds nothing, and is read the same terms) and, in the
second half of `TenderRoomProofs` only, `OneAtATime`: there is one handler. The
sets of bidders, users, developers, tabs, guests, handlers, criteria, rivals,
values, weights and terms are arbitrary, finite or not.

* `TenderRoomProofs`. Types, then `Inductive`: neither `BidsFollowPublication` nor
  `LosersHaveAWinner` is inductive, because a parked write may undo them. What is
  needed is that every parked write is *founded*: the row it will touch exists,
  the publication it follows has happened, the bid for which it rejects the
  others was named. Founded calls stay so since nothing ever unpublishes,
  deletes a bid row or forgets a name. From it follow both invariants, for any
  number of requests in flight. The second half is the serial service: with one
  handler nothing comes between a read and its write but the clock and a
  failure, so a parked write is *fresh* (`Serial`): the stage is still legal, the
  bid still a draft. `Serial` gives the deletion and seal
  invariants; the action properties follow from `Fresh` at each write; the
  refinement of `AwardBook` maps every step to a step of the book or a stutter.
* `AwardBookProofs`. From the abstract specification alone: whoever lost, lost to
  somebody. With the refinement it holds of the serial service.
* `DealRoomProofs`. `Vetting` strengthens `NobodyUnvetted` by the calls: an insertion
  that is parked is a vetted developer's, and a grant in force makes its
  developer vetted. `OwnersWord` carries the owner's decisions and revocations: an
  offer taken out of editing stays out of it, a pending request is a new one, and
  an amendment or approval still parked against the owner's word is one of `late`.
  Neither needs a flag. `Serial` says, as long as nothing has overlapped, that one
  call at most is parked and finds what its handler read. The three together are
  inductive; from the second follow `DecidedTermsStand` and `RevocationStands`, from
  the third the serial invariant and, step by step, the refinement of
  `AccessLedger`.
* `TenderPapersProofs`. `WinsInTime` carries the window through the parked decision
  and needs no flag, since windows never move. `AddendaAppendOnly` needs only the
  guard of the unique number, and `LatePapersWereUnderWay` only that whoever is about
  to write after the close was admitted before it (`AdmittedInTime`). The rest follows from `Serial`, which is stated
  here under `disturbed`: failures end it too.
* `WebSessionProofs`. `NoHalfSession` is not inductive: an answer that arrives late sets
  or clears both cookies, so what must be known is that each trip holds a pair
  (`RenewalsLeftWithAPair`) and that a page of a session still honoured holds a
  token that outlives it, which is where the renewal window is used
  (`GoodPagesHoldGoodTokens`). `Uncrossed` gives the sign-out.
* `EnginesProofs`, rankings. `MeritInvariant` is the types, that the field is finite and
  that only bids are marked; from it every range has its ends (a finite set has
  extremes: the smallest subset without one would have them). That the better
  never score less follows criterion by criterion: each share is monotone in the
  value, a silent rival counts as the worst value, and a mean of shares with
  weights that are not negative, clamped and rounded, keeps their order. That
  bettering costs no rank compares two states. Bettering moves either end of the
  range only in the better direction, and then whoever stays where they are falls
  or stays (`RiseOfOthers`) while whoever moved does not fall (`RiseOfOne`). If that
  takes the range away, all have one half, and the silent, who count as the
  worst, had nothing: the exception in the property.
* `EnginesProofs`, studies. A percentage of an even amount is exact, so costs add up,
  and profit is the margin on sales less the outlay: it is positive exactly above
  the break-even price. Scenarios move price, cost and duration each in the
  direction that the monotone stack of costs passes on. For the residual value
  what is left to show is that interest on land and build is the sum of the two.
* `EnginesProofs`, recommender. The weight of a set of wishes is a fold of the library's
  over the set; that it is a sum is shown by a smallest counterexample
  (`WeightUnfolds`), which needs no induction theorem. Then it is counted
  (`Outweighed`): where the title is to be kept, each structure that gives it away,
  and for a long term each short contract, weighs no more than one listed before
  it or at least three points less than another, of at most 112, which
  no rounding to percent makes up for; and the first of the best is taken.
* `SideRoomsProofs`. `Untangled` for the consortium; `Stored` and `Orderly` for the
  dossier: a version's file exists and who has listed a document owes its version,
  whatever fails; and undisturbed the one job at work knows which of its writes to
  the passport are done. The composition that `side_rooms` checks implements
  each of its six components (`EachOnItsOwn`: a step of one is a stutter of the
  others), so that everything proved of them holds of it: its types and all its
  ten other properties.
* `AccountsProofs`. The invariant has two halves. Sessions: a token, or one on its
  way, carries an outdated version, or the present one and then there was a sign-in
  since the last revocation or one that crossed it. A sign-in whose parked version
  is not the present one is such a crossing. So a refresh parked before a suspension delivers a token that
  is outdated on arrival. Administrators: whoever sends the one removing request
  in flight is an active administrator other than its target. That, the refusal
  of one's own account, and not the count of administrators, is what keeps the
  seat filled as long as requests do not overlap; the count cannot help when
  they do.

Every invariant and every action property of the passing runs is the statement of
a theorem. Only model-checked are the two liveness properties of `tender_live`
(liveness under fairness is out of TLAPS's reach here) and that the five
documented sentences are violated, which takes a run and not a proof.

## 5. Where the code and its documents disagree

Each is a run that TLC finds violated; `PROJECT.json` quotes the line.

* `award` looks at no other bid, and `markOthersUnsuccessful` passes over a bid that is
  already preferred: two awards leave two preferred bidders (`OnePreferredBidder`).
* `setStage` reaches PREFERRED_BIDDER and `financialClose` looks at the stage only: a
  tender closes without a winner (`FinancialCloseHasAWinner`).
* `disqualify` answers with the whole envelope before the deadline (`SealedUntilDeadline`).
* Two administrators who act on each other at once leave none (`LastAdminKept`).
* `middleware.ts:67-68` calls a refused renewal "spent or revoked" and clears both
  cookies; it does so for every answer that is not a success, so a failing API
  signs out a visitor whose refresh token is honoured (`ClearsOnlyTheRevoked`).

Seen on the way and not given a run of its own:

* Tenders and bids: an award moves a cancelled or closed tender back to
  PREFERRED_BIDDER although `tenders.service.ts:21-23` says the stage cannot jump
  backwards; a draft can be awarded; a submitted bid can be made unready by an
  update; the criteria can change after publication.
* Accounts: a suspension or forced sign-out between the check of a sign-in and its
  write of `lastLoginAt` (`auth.service.ts:110-135`, `google.service.ts:149-158`) does not
  end it: the write returns the raised version, the tokens carry it, and the
  session is heard, after a suspension once the account is reinstated. This is the
  exception `RevocationHolds` names (`underWay`) and the only one.
* Accounts: `confirmRole` lets a promoted Google account give up the last seat (the
  history variable `steppedDown` stands for it).
* Consortiums: `findMembership` lets a removed member be invited again, and the
  insertion always meets their unique row: they never come back.
* Data room, due diligence: two initialisations, or two seedings, that overlap both
  count nothing and both create the standard list
  (`dataroom.service.ts:118-128`, `duediligence.service.ts:72-74`); no constraint keeps the
  second copy out, and no property is stated of it.
* Access: an approval that read the request pending is written over a revocation
  that landed in between (`access.service.ts:106-109`).
* Offers: an amendment is written over a decision that landed after its check
  (`offers.service.ts:137-153`).
* Offers: `withdraw` and `setStatus` look at no status, so a withdrawn offer can be
  shortlisted and an accepted one withdrawn.
* Clarifications: an addendum is judged by the tender's stage alone; one that is
  issued after the deadline but before the stage changes moves a deadline that
  has passed.
* Valuation: the band of a residual below zero has its low end above its high end
  (`valuation.engine.ts:64-65`); the high end of an income valuation divides by the
  capitalisation rate less one half, which is zero or negative for rates up to
  0.5 (`:131`); comparables that are all zero or negative pass the check and
  give no number.
* Feasibility: nothing bounds marketing and selling costs, and from 100 % of sales
  the break-even price is infinite or negative; `paybackMonths` is the length of
  the development also when the money never comes back. `EnginesAgree` states the
  break-even price and the scenarios for sales that leave something.
* Rankings: bettering one's terms can cost a rank. Where all who state a criterion
  state the same, it counts one half for everyone, the silent included
  (`bid-evaluation.ts:115-123`, and alike in `offer-comparison.ts`). With weights 1 on
  delivery and 20 on experience, let the bids be (2, 1000), (3, 1) and (none, 4).
  If the second delivers in 2 as well, the third rises on delivery from nothing
  to one half, and by rounding past the second. `OwnGainNeverCostsRank` leaves out
  that step and no other.
* Mandates: with a largest ticket of zero the taper has no width, and any larger
  ticket counts nothing (`fit-score.ts`).
* Recommender: the first choice fits title and term (`AdviceFitsTitleAndTerm`), but
  for some answers it is a structure of the other sector, one without reversion
  where reversion is required, one without finance where finance is, or one
  of high risk for a low appetite: those weights are outvoted.

## 6. Not modelled

* **Audit log**: rows are added, errors swallowed, and nothing but a list reads them.
* **Mandates**: rows of one owner without states; their fit is in `Merit`.
* **Statistics, reference data, lists**: reads.
* **The other formulas**: rates of return and present values (roots and powers of
  reals), the comparable, income and cash-flow valuations, the cost estimate,
  the indicators. They are products and sums that are shown as they are: a model
  would repeat them, with nothing in the code to hold them against.
* **Data-room access levels** (view, download, per user and per folder): reads on top
  of the grant `DealRoom` models. `updateMember`, equity shares and roles of
  consortium members: numbers no rule of the service reads.
* **Storage and explainer**: input and output; saving a file is a step of an upload.
* **Frontend**: pages, forms and a proxy that forwards requests; only the session is
  decided there. Pages, forms, seeds, DTOs, modules and controllers are by far
  the larger part of the repository's lines, and hold no state the services do
  not: that is why the modelled share of lines is small although every service
  that changes shared state is modelled. DTO validation and controllers appear
  as the sets of values a request may carry.
* Within modelled services: `register`, the linking of Google accounts and
  `setAccessLevel` (they add a user or touch a column no rule reads), texts, prices
  and names, and the order of audit records.

## 7. What is left

In order of what it would add:

1. Data-room levels and downloads composed with `DealRoom`: a revocation between the
   reading of a level and the stream.
2. `TenderPapers` composed with `TenderRoom` in place of its environment, so that an
   addendum races a submission for the deadline; the instance is the obstacle.
3. All criteria of `Merit`'s scorers instead of one of each kind.
