------------------------- MODULE AwardBookProofs -------------------------
(* What follows from AwardBook for any set of bidders. *)
EXTENDS AwardBook, TLAPS

LEMMA BookType == BookSpec => []BookTypeOK
<1>1. BookInit => BookTypeOK
  BY DEF BookInit, BookTypeOK, Standings
<1>2. BookTypeOK /\ [BookNext]_<<open, book>> => BookTypeOK'
  BY DEF BookTypeOK, BookNext, Publish, TurnDown, Enter, Offer, Leave, Win, Stand, Standings
<1>. QED
  BY <1>1, <1>2, PTL DEF BookSpec

\* Whoever lost, lost to somebody: the winner an offer was turned down for
\* stays a winner or leaves, and never goes back into the field.
THEOREM LostToSomebodyHolds == BookSpec => []LostToSomebody
<1>1. BookInit => LostToSomebody
  BY DEF BookInit, LostToSomebody
<1>2. ASSUME BookTypeOK, LostToSomebody, [BookNext]_<<open, book>>
      PROVE  LostToSomebody'
  <2>1. ASSUME NEW w \in Bidders, book[w] \in {"won", "closed"}
        PROVE  book'[w] \in {"won", "closed"}
    BY <1>2, <2>1
       DEF BookTypeOK, BookNext, Publish, TurnDown, Enter, Offer, Leave, Win, Stand
  <2>2. CASE \E w \in Bidders : book[w] \in {"won", "closed"}
    BY <2>1, <2>2 DEF LostToSomebody
  <2>3. CASE ~\E w \in Bidders : book[w] \in {"won", "closed"}
    BY <1>2, <2>3
       DEF BookTypeOK, BookNext, Publish, TurnDown, Enter, Offer, Leave, Win, Stand, LostToSomebody
  <2>. QED
    BY <2>2, <2>3
<1>. QED
  BY <1>1, <1>2, BookType, PTL DEF BookSpec
=============================================================================
