--------------------------- MODULE AccessLedger ---------------------------
(***************************************************************************)
(* What a listing promises its owner, without requests in flight: whoever  *)
(* learns its confidential side or makes an offer was let in by approval   *)
(* and then by a signature, revocation ends that, and a listing taken off  *)
(* the market comes back as a draft.                                       *)
(***************************************************************************)
CONSTANT Developers

VARIABLES
  market,    \* "draft", "on" the market, or "gone" from it
  standing,  \* of each developer: "out", "asked", "cleared" to sign, or "in"
  knows,     \* developers who were shown the confidential side
  offered    \* developers who made an offer

ledger == <<market, standing, knows, offered>>

LedgerInit ==
  /\ market = "draft"
  /\ standing = [d \in Developers |-> "out"]
  /\ knows = {}
  /\ offered = {}

Market(from, to) ==
  /\ market \in from
  /\ market' = to
  /\ UNCHANGED <<standing, knows, offered>>

Launch == Market({"draft"}, "on")
TakeDown == Market({"on"}, "draft")
Retire == Market({"draft", "on"}, "gone")
Return == Market({"gone"}, "draft")

Stand(d, from, to) ==
  /\ standing[d] \in from
  /\ standing' = [standing EXCEPT ![d] = to]
  /\ UNCHANGED <<market, knows, offered>>

Ask(d) == market = "on" /\ Stand(d, {"out"}, "asked")
Clear(d) == Stand(d, {"asked"}, "cleared")
Enter(d) == Stand(d, {"cleared"}, "in")
Leave(d) == Stand(d, {"asked", "cleared", "in"}, "out")

Learn(d) ==
  /\ standing[d] = "in"
  /\ knows' = knows \cup {d}
  /\ UNCHANGED <<market, standing, offered>>

Offer(d) ==
  /\ market = "on"
  /\ standing[d] = "in"
  /\ offered' = offered \cup {d}
  /\ UNCHANGED <<market, standing, knows>>

LedgerNext ==
  \/ Launch \/ TakeDown \/ Retire \/ Return
  \/ \E d \in Developers : Ask(d) \/ Clear(d) \/ Enter(d) \/ Leave(d) \/ Learn(d) \/ Offer(d)

LedgerSpec == LedgerInit /\ [][LedgerNext]_ledger
=============================================================================
