----------------------------- MODULE AwardBook -----------------------------
(***************************************************************************)
(* What a tender promises its bidders, without stages, deadlines, readers  *)
(* or requests: nobody enters before publication, an offer is made once,   *)
(* whoever leaves or is put out stays out, a bid that left never wins, and *)
(* offers are turned down only when a winner stands.                       *)
(***************************************************************************)
CONSTANT Bidders

VARIABLES
  open,   \* has the tender been published?
  book    \* the standing of each bidder

Standings == {"none", "private", "live", "closed", "won", "lost"}

BookTypeOK ==
  /\ open \in BOOLEAN
  /\ book \in [Bidders -> Standings]

BookInit ==
  /\ open = FALSE
  /\ book = [b \in Bidders |-> "none"]

Stand(b, from, to) ==
  /\ book[b] \in from
  /\ book' = [book EXCEPT ![b] = to]
  /\ UNCHANGED open

Publish == open' = TRUE /\ UNCHANGED book

Enter(b) == open /\ Stand(b, {"none"}, "private")

Offer(b) == Stand(b, {"private"}, "live")

\* The bidder withdraws or the authority disqualifies the bid.
Leave(b) == Stand(b, Standings \ {"none"}, "closed")

\* A winner may be named among drafts and losers too, and more than once.
Win(b) == Stand(b, {"private", "live", "won", "lost"}, "won")

\* Every offer still standing is turned down at once.
TurnDown ==
  /\ \E w \in Bidders : book[w] = "won"
  /\ book' = [b \in Bidders |-> IF book[b] = "live" THEN "lost" ELSE book[b]]
  /\ UNCHANGED open

BookNext ==
  \/ Publish
  \/ TurnDown
  \/ \E b \in Bidders : Enter(b) \/ Offer(b) \/ Leave(b) \/ Win(b)

BookSpec == BookInit /\ [][BookNext]_<<open, book>>

\* Whoever lost, lost to somebody: a bid that won, or that has left since.
LostToSomebody ==
  (\E b \in Bidders : book[b] = "lost")
    => \E w \in Bidders : book[w] \in {"won", "closed"}
=============================================================================
