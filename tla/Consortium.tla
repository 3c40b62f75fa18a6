---------------------------- MODULE Consortium ----------------------------
(***************************************************************************)
(* A consortium and its membership rows (ConsortiumsService), which its    *)
(* lead and the people invited change at the same time.  Handlers are      *)
(* split at their awaits; who leads never changes, so what mustLead reads  *)
(* of it is read with the row after it.  Roles and equity shares are not   *)
(* modelled, and the lead, who is never removed, is not among the Guests.  *)
(*                                                                         *)
(* An operator marked "Variant" is a plausible bug in the operator after   *)
(* it, kept to show which property would find it.                          *)
(***************************************************************************)
CONSTANTS
  Guests,   \* users the lead may invite
  Desks     \* slots for requests in flight

VARIABLES
  group,    \* ConsortiumStatus; nothing ever writes ACTIVE
  member,   \* MemberStatus of each guest's row, or ABSENT
  errand,   \* requests in flight
  tangled   \* history: did two requests ever overlap?

consortiumVars == <<group, member, errand, tangled>>
-----------------------------------------------------------------------------
MemberStatus == {"INVITED", "ACCEPTED", "DECLINED", "REMOVED"}

NoErrand == [op |-> "none"]

Errands ==
  {NoErrand}
    \cup [op : {"invite", "add", "remove"}, guest : Guests]
    \cup [op : {"respond"}, guest : Guests, to : {"ACCEPTED", "DECLINED"}]
    \cup [op : {"disband"}]

ConsortiumTypeOK ==
  /\ group \in {"FORMING", "DISBANDED"}
  /\ member \in [Guests -> MemberStatus \cup {"ABSENT"}]
  /\ errand \in [Desks -> Errands]
  /\ tangled \in BOOLEAN

\* create, with the lead's own row
ConsortiumInit ==
  /\ group = "FORMING"
  /\ member = [g \in Guests |-> "ABSENT"]
  /\ errand = [k \in Desks |-> NoErrand]
  /\ tangled = FALSE
-----------------------------------------------------------------------------
Start(k, e) ==
  /\ errand[k] = NoErrand
  /\ errand' = [errand EXCEPT ![k] = e]
  /\ tangled' = (tangled \/ \E j \in Desks : errand[j] # NoErrand)
  /\ UNCHANGED <<group, member>>

Finish(k) == errand' = [errand EXCEPT ![k] = NoErrand] /\ UNCHANGED tangled

\* The membership row of the errand's guest.
WriteRow(k, status) ==
  /\ member' = [member EXCEPT ![errand[k].guest] = status]
  /\ Finish(k)
  /\ UNCHANGED group
-----------------------------------------------------------------------------
\* mustLead reads the consortium
Invite(k, g) == group # "DISBANDED" /\ Start(k, [op |-> "invite", guest |-> g])

\* findMembership: someone removed may be invited again
InviteFindMembership(k) ==
  /\ errand[k].op = "invite"
  /\ errand' = [errand EXCEPT ![k] =
       IF member[errand[k].guest] \in {"ABSENT", "REMOVED"}
         THEN [op |-> "add", guest |-> errand[k].guest]
         ELSE NoErrand]
  /\ UNCHANGED <<group, member, tangled>>

\* addMember: but their row is still there, and a second one is refused by
\* the unique constraint on consortium and user.
AddMember(k) ==
  /\ errand[k].op = "add"
  /\ IF member[errand[k].guest] = "ABSENT"
       THEN WriteRow(k, "INVITED")
       ELSE Finish(k) /\ UNCHANGED <<group, member>>

RemoveMember(k, g) == member[g] # "ABSENT" /\ Start(k, [op |-> "remove", guest |-> g])

RemoveMemberWrite(k) == errand[k].op = "remove" /\ WriteRow(k, "REMOVED")

\* Variant: whoever has a row may answer.
RespondAnytime(k, g) ==
  /\ member[g] # "ABSENT"
  /\ \E to \in {"ACCEPTED", "DECLINED"} : Start(k, [op |-> "respond", guest |-> g, to |-> to])

\* respond: only what is still an invitation, also of a disbanded consortium
Respond(k, g) ==
  /\ member[g] = "INVITED"
  /\ \E to \in {"ACCEPTED", "DECLINED"} : Start(k, [op |-> "respond", guest |-> g, to |-> to])

RespondWrite(k) == errand[k].op = "respond" /\ WriteRow(k, errand[k].to)

Disband(k) == Start(k, [op |-> "disband"])

DisbandWrite(k) ==
  /\ errand[k].op = "disband"
  /\ group' = "DISBANDED"
  /\ Finish(k)
  /\ UNCHANGED member

ConsortiumNext ==
  \E k \in Desks :
    \/ \E g \in Guests : Invite(k, g) \/ RemoveMember(k, g) \/ Respond(k, g)
    \/ Disband(k) \/ InviteFindMembership(k) \/ AddMember(k)
    \/ RemoveMemberWrite(k) \/ RespondWrite(k) \/ DisbandWrite(k)

ConsortiumSpec == ConsortiumInit /\ [][ConsortiumNext]_consortiumVars
-----------------------------------------------------------------------------
\* Where a membership may go from here.
Onward ==
  [ABSENT   |-> {"INVITED"},
   INVITED  |-> {"ACCEPTED", "DECLINED", "REMOVED"},
   ACCEPTED |-> {"REMOVED"},
   DECLINED |-> {"REMOVED"},
   REMOVED  |-> {}]

\* Nobody becomes a member but by an invitation and their own answer to it,
\* given once, and whoever was removed never comes back, as long as no two
\* requests overlap (ConsortiumsService.invite, respond, removeMember).
MembershipMovesOn ==
  [][~tangled' => \A g \in Guests : member'[g] = member[g] \/ member'[g] \in Onward[member[g]]]_member

\* Of requests that never overlapped one at most is under way, and what it
\* found is so: an answer is to an invitation, a removal of a member.
Untangled ==
  ~tangled =>
    /\ \A j, k \in Desks : j # k => errand[j] = NoErrand \/ errand[k] = NoErrand
    /\ \A k \in Desks :
         /\ errand[k].op = "respond" => member[errand[k].guest] = "INVITED"
         /\ errand[k].op = "remove" => member[errand[k].guest] # "ABSENT"
=============================================================================
