----------------------------- MODULE Accounts -----------------------------
(***************************************************************************)
(* User accounts: sign-in and sessions (AuthService, GoogleAuthService,    *)
(* JwtStrategy) and their administration (AdminUsersService).              *)
(*                                                                         *)
(* A session is a token that carries the version the account had when it   *)
(* was issued; raising the version revokes every token issued before.      *)
(* Every request is first admitted by JwtStrategy and RolesGuard, which    *)
(* read the caller's row, and only then reads the row it will change.      *)
(* Handlers are split at their awaits, as in TenderRoom.                   *)
(***************************************************************************)
EXTENDS Naturals

CONSTANTS
  Users,        \* accounts, all of which exist from the start
  Handlers,     \* slots for requests in flight
  MaxVersion    \* token versions are counted up to here

ASSUME AccountsAssumption == MaxVersion \in Nat

VARIABLES
  \* the rows: Role, UserStatus, deletedAt, roleConfirmed and tokenVersion
  role, status, deleted, confirmed, version,
  \* the versions of the unexpired tokens each user holds
  tokens,
  call,
  \* history: who signed in, check and write, after the last revocation of
  \* their sessions; whose sign-in had been checked and not written when that
  \* revocation landed; whether two requests to demote, suspend or delete were
  \* in flight at once; whether an administrator took another role in onboarding
  since, underWay, overlapped, steppedDown

rows == <<role, status, deleted, confirmed, version>>
history == <<since, underWay, overlapped, steppedDown>>
vars == <<rows, tokens, call, history>>
-----------------------------------------------------------------------------
\* MEMBER stands for OWNER, DEVELOPER, INVESTOR and GOVERNMENT.
Roles == {"ADMIN", "MEMBER"}
Versions == 0..MaxVersion

Idle == [op |-> "idle"]

\* An administrator's orders, one route of AdminController each, and those
\* whose target may not be the caller (mutableTarget).
Orders == {"setRole", "suspend", "reinstate", "forceSignOut", "softDelete"}
OnOthers == {"setRole", "suspend", "softDelete"}

\* A request on an account waits for the row of its target, for the count of
\* administrators, or for its write; a sign-in waits for its write, with the
\* version the row had when it was checked; tokens wait to be delivered,
\* Google's behind a handle.
Calls ==
  {Idle}
    \cup [op : Orders \cup {"confirmRole"}, actor : Users, target : Users, to : Roles,
          at : {"target", "count", "write"}]
    \cup [op : {"signIn", "deliver"}, user : Users, version : Versions]

TypeOK ==
  /\ role \in [Users -> Roles]
  /\ status \in [Users -> {"ACTIVE", "SUSPENDED"}]
  /\ deleted \in [Users -> BOOLEAN]
  /\ confirmed \in [Users -> BOOLEAN]
  /\ version \in [Users -> Versions]
  /\ tokens \in [Users -> SUBSET Versions]
  /\ call \in [Handlers -> Calls]
  /\ since \in [Users -> BOOLEAN]
  /\ underWay \subseteq Users
  /\ overlapped \in BOOLEAN
  /\ steppedDown \in BOOLEAN

\* May this account sign in or be heard at all?
Usable(u) == ~deleted[u] /\ status[u] = "ACTIVE"

\* countOtherActiveAdmins counts these.
ActiveAdmins == {u \in Users : role[u] = "ADMIN" /\ Usable(u)}

\* JwtStrategy.validate: the caller has a token of the current version.
Heard(u) == Usable(u) /\ version[u] \in tokens[u]

\* Accounts are seeded, registered or opened through Google; only the last
\* leave the role to be confirmed, and with it some other role than ADMIN.
Init ==
  /\ role \in [Users -> Roles]
  /\ status = [u \in Users |-> "ACTIVE"]
  /\ deleted = [u \in Users |-> FALSE]
  /\ confirmed \in [Users -> BOOLEAN]
  /\ \A u \in Users : role[u] = "ADMIN" => confirmed[u]
  /\ ActiveAdmins # {}
  /\ version = [u \in Users |-> 0]
  /\ tokens = [u \in Users |-> {}]
  /\ call = [h \in Handlers |-> Idle]
  /\ since = [u \in Users |-> FALSE]
  /\ underWay = {}
  /\ overlapped = FALSE
  /\ steppedDown = FALSE
-----------------------------------------------------------------------------
Await(h, c) == call[h] = Idle /\ call' = [call EXCEPT ![h] = c]
GoTo(h, at) == call' = [call EXCEPT ![h].at = at]
Answer(h) == call' = [call EXCEPT ![h] = Idle]

SigningIn(u) == \E g \in Handlers : call[g].op = "signIn" /\ call[g].user = u

\* Raising a version, which ends every session of the account.
Revoke(u) ==
  /\ version[u] < MaxVersion
  /\ version' = [version EXCEPT ![u] = @ + 1]
  /\ since' = [since EXCEPT ![u] = FALSE]
  /\ underWay' = IF SigningIn(u) THEN underWay \cup {u} ELSE underWay \ {u}
-----------------------------------------------------------------------------
(* Sessions: AuthService.login, googleCallback with resolveUser, refresh *)

\* login and resolveUser check the row they have read; the password is
\* verified between the read and the check.
SignIn(h, u) ==
  /\ Usable(u)
  /\ Await(h, [op |-> "signIn", user |-> u, version |-> version[u]])
  /\ UNCHANGED <<rows, tokens, history>>

\* The write of lastLoginAt returns the row as it then is, and the tokens
\* carry its version, whatever has become of the account since the check. It
\* is a sign-in after the last revocation if the check was made after it too.
SignInWrite(h) ==
  /\ call[h].op = "signIn"
  /\ LET u == call[h].user IN
     /\ call' = [call EXCEPT ![h] = [op |-> "deliver", user |-> u, version |-> version[u]]]
     /\ since' = [since EXCEPT ![u] = @ \/ call[h].version = version[u]]
  /\ UNCHANGED <<rows, tokens, underWay, overlapped, steppedDown>>

\* Variant: the version of the token is not compared.
RefreshAnyVersion(h, u) ==
  /\ tokens[u] # {}
  /\ Usable(u)
  /\ Await(h, [op |-> "deliver", user |-> u, version |-> version[u]])
  /\ UNCHANGED <<rows, tokens, history>>

\* refresh: the new tokens carry the version of the row that was read.
Refresh(h, u) ==
  /\ version[u] \in tokens[u]
  /\ Usable(u)
  /\ Await(h, [op |-> "deliver", user |-> u, version |-> version[u]])
  /\ UNCHANGED <<rows, tokens, history>>

\* The tokens are signed and answered, or redeemed against the handle.
Deliver(h) ==
  /\ call[h].op = "deliver"
  /\ tokens' = [tokens EXCEPT ![call[h].user] = @ \cup {call[h].version}]
  /\ Answer(h)
  /\ UNCHANGED <<rows, history>>

Expire(u, v) ==
  /\ v \in tokens[u]
  /\ tokens' = [tokens EXCEPT ![u] = @ \ {v}]
  /\ UNCHANGED <<rows, call, history>>
-----------------------------------------------------------------------------
(* Requests on accounts *)

\* A request that takes an administrator away, if its target is one.
Removing(c) ==
  c.op \in {"suspend", "softDelete"} \/ (c.op = "setRole" /\ c.to # "ADMIN")

\* Variant: administrators may name themselves.
OrderAnybody(h, a, u) ==
  /\ Heard(a)
  /\ role[a] = "ADMIN"
  /\ \E op \in Orders, to \in Roles :
       LET c == [op |-> op, actor |-> a, target |-> u, to |-> to, at |-> "target"] IN
       /\ op # "setRole" => to = "MEMBER"
       /\ Await(h, c)
       /\ overlapped' = (overlapped \/ (Removing(c) /\ \E g \in Handlers : Removing(call[g])))
  /\ UNCHANGED <<rows, tokens, since, underWay, steppedDown>>

\* JwtStrategy and RolesGuard admit an administrator; mutableTarget refuses
\* the administrator's own account before it reads anything.
Order(h, a, u) ==
  /\ Heard(a)
  /\ role[a] = "ADMIN"
  /\ \E op \in Orders, to \in Roles :
       LET c == [op |-> op, actor |-> a, target |-> u, to |-> to, at |-> "target"] IN
       /\ op \in OnOthers => a # u
       /\ op # "setRole" => to = "MEMBER"
       /\ Await(h, c)
       /\ overlapped' = (overlapped \/ (Removing(c) /\ \E g \in Handlers : Removing(call[g])))
  /\ UNCHANGED <<rows, tokens, since, underWay, steppedDown>>

\* AuthService.confirmRole, which any user may call for themselves.
ConfirmRole(h, u) ==
  /\ Heard(u)
  /\ Await(h, [op |-> "confirmRole", actor |-> u, target |-> u, to |-> "MEMBER", at |-> "target"])
  /\ UNCHANGED <<rows, tokens, history>>

\* The target as it is read, and the reasons not to go on.
Refused(c) ==
  \/ deleted[c.target]
  \/ c.op = "setRole" /\ role[c.target] = c.to
  \/ c.op = "suspend" /\ status[c.target] = "SUSPENDED"
  \/ c.op = "reinstate" /\ status[c.target] # "SUSPENDED"
  \/ c.op = "confirmRole" /\ confirmed[c.target]

ReadTarget(h) ==
  /\ call[h].op \in Orders \cup {"confirmRole"}
  /\ call[h].at = "target"
  /\ IF Refused(call[h])
       THEN Answer(h)
       ELSE GoTo(h, IF Removing(call[h]) /\ role[call[h].target] = "ADMIN"
                      THEN "count"
                      ELSE "write")
  /\ UNCHANGED <<rows, tokens, history>>

\* assertNotLastAdmin.
CountAdmins(h) ==
  /\ call[h].op \in Orders
  /\ call[h].at = "count"
  /\ IF ActiveAdmins \ {call[h].target} = {} THEN Answer(h) ELSE GoTo(h, "write")
  /\ UNCHANGED <<rows, tokens, history>>

Writes(h, op) == call[h].op = op /\ call[h].at = "write" /\ Answer(h)

SetRoleWrite(h) ==
  /\ Writes(h, "setRole")
  /\ role' = [role EXCEPT ![call[h].target] = call[h].to]
  /\ UNCHANGED <<status, deleted, confirmed, version, tokens, history>>

\* Variant: the row of the caller is written.
SuspendCaller(h) ==
  /\ Writes(h, "suspend")
  /\ status' = [status EXCEPT ![call[h].actor] = "SUSPENDED"]
  /\ Revoke(call[h].actor)
  /\ UNCHANGED <<role, deleted, confirmed, tokens, overlapped, steppedDown>>

SuspendWrite(h) ==
  /\ Writes(h, "suspend")
  /\ status' = [status EXCEPT ![call[h].target] = "SUSPENDED"]
  /\ Revoke(call[h].target)
  /\ UNCHANGED <<role, deleted, confirmed, tokens, overlapped, steppedDown>>

ReinstateWrite(h) ==
  /\ Writes(h, "reinstate")
  /\ status' = [status EXCEPT ![call[h].target] = "ACTIVE"]
  /\ UNCHANGED <<role, deleted, confirmed, version, tokens, history>>

ForceSignOutWrite(h) ==
  /\ Writes(h, "forceSignOut")
  /\ Revoke(call[h].target)
  /\ UNCHANGED <<role, status, deleted, confirmed, tokens, overlapped, steppedDown>>

\* Variant: deletion has a status of its own.
SoftDeleteAsStatus(h) ==
  /\ Writes(h, "softDelete")
  /\ status' = [status EXCEPT ![call[h].target] = "DELETED"]
  /\ Revoke(call[h].target)
  /\ UNCHANGED <<role, deleted, confirmed, tokens, overlapped, steppedDown>>

SoftDeleteWrite(h) ==
  /\ Writes(h, "softDelete")
  /\ deleted' = [deleted EXCEPT ![call[h].target] = TRUE]
  /\ status' = [status EXCEPT ![call[h].target] = "SUSPENDED"]
  /\ Revoke(call[h].target)
  /\ UNCHANGED <<role, confirmed, tokens, overlapped, steppedDown>>

ConfirmRoleWrite(h) ==
  /\ Writes(h, "confirmRole")
  /\ role' = [role EXCEPT ![call[h].target] = call[h].to]
  /\ confirmed' = [confirmed EXCEPT ![call[h].target] = TRUE]
  /\ steppedDown' = (steppedDown \/ role[call[h].target] = "ADMIN")
  /\ UNCHANGED <<status, deleted, version, tokens, since, underWay, overlapped>>
-----------------------------------------------------------------------------
\* A query is rejected or the process restarts; handles not yet redeemed
\* live in memory and go with it.
Fail(h) ==
  /\ call[h] # Idle
  /\ Answer(h)
  /\ UNCHANGED <<rows, tokens, history>>

Next ==
  \/ \E u \in Users, v \in Versions : Expire(u, v)
  \/ \E h \in Handlers :
       \/ \E u \in Users : SignIn(h, u) \/ Refresh(h, u) \/ ConfirmRole(h, u)
       \/ \E a, u \in Users : Order(h, a, u)
       \/ SignInWrite(h) \/ Deliver(h) \/ ReadTarget(h) \/ CountAdmins(h)
       \/ SetRoleWrite(h) \/ SuspendWrite(h) \/ ReinstateWrite(h)
       \/ ForceSignOutWrite(h) \/ SoftDeleteWrite(h) \/ ConfirmRoleWrite(h)
       \/ Fail(h)

Spec == Init /\ [][Next]_vars
-----------------------------------------------------------------------------
\* A forced sign-out, a suspension and a deletion end every session for
\* good: whoever is heard has signed in since, from the check on, however the
\* revocation raced with a refresh, with a handle not yet redeemed or with
\* other orders. One session survives: that of a sign-in already past its
\* check when the revocation landed, whose tokens carry the raised version
\* (AdminUsersService.suspend, AuthService.login and refresh,
\* JwtStrategy.validate).
RevocationHolds == \A u \in Users : Heard(u) => since[u] \/ u \in underWay

\* An administrator who is acting stays one until the act is done, so one
\* is always left, unless two such acts overlapped or the administrator gave
\* the role up in onboarding (AdminUsersService.assertNotLastAdmin and
\* mutableTarget, AuthService.confirmRole).
AnAdminRemains == ActiveAdmins # {} \/ overlapped \/ steppedDown

\* Tokens carry versions the account has had, and one of its present version
\* comes from a sign-in after the last revocation, or from one it crossed.
Current(u, v) == v < version[u] \/ (v = version[u] /\ (since[u] \/ u \in underWay))

\* A sign-in carries on over a revocation only if it was under way at it.
Crossed(u, v) == v = version[u] \/ (v < version[u] /\ u \in underWay)

\* What makes the two above inductive.
Inductive ==
  /\ \A u \in Users : \A v \in tokens[u] : Current(u, v)
  /\ \A h \in Handlers : call[h].op = "deliver" => Current(call[h].user, call[h].version)
  /\ \A h \in Handlers : call[h].op = "signIn" => Crossed(call[h].user, call[h].version)
  /\ overlapped \/ steppedDown \/
       /\ ActiveAdmins # {}
       /\ \A g, h \in Handlers : Removing(call[g]) /\ Removing(call[h]) => g = h
       /\ \A h \in Handlers : Removing(call[h]) =>
            call[h].actor \in ActiveAdmins \ {call[h].target}

\* "cannot remove the last remaining administrator"
\* (admin-users.service.ts:18).
LastAdminKept == ActiveAdmins # {}
=============================================================================
