-------------------------- MODULE AccountsProofs --------------------------
(***************************************************************************)
(* Accounts for any number of users, requests in flight and versions:      *)
(* types, the inductive invariant, and from it that revocation is final    *)
(* and that an administrator remains.                                      *)
(***************************************************************************)
EXTENDS Accounts, TLAPS

\* What the operation of a parked call says about its other fields.
LEMMA CallFields ==
  ASSUME NEW c \in Calls
  PROVE  /\ c.op \in Orders \cup {"confirmRole"} =>
              /\ c.actor \in Users /\ c.target \in Users /\ c.to \in Roles
              /\ c \in [op : Orders \cup {"confirmRole"}, actor : Users, target : Users,
                        to : Roles, at : {"target", "count", "write"}]
         /\ c.op \in {"signIn", "deliver"} => c.user \in Users /\ c.version \in Versions
BY DEF Calls, Idle, Orders

LEMMA AnswerType ==
  ASSUME TypeOK, NEW h \in Handlers, Answer(h)
  PROVE  call' \in [Handlers -> Calls]
BY DEF TypeOK, Answer, Calls

LEMMA GoToType ==
  ASSUME TypeOK, NEW h \in Handlers, call[h].op \in Orders \cup {"confirmRole"},
         NEW at \in {"count", "write"}, GoTo(h, at)
  PROVE  call' \in [Handlers -> Calls]
<1>1. call[h] \in [op : Orders \cup {"confirmRole"}, actor : Users, target : Users,
                   to : Roles, at : {"target", "count", "write"}]
  BY CallFields DEF TypeOK
<1>2. [call[h] EXCEPT !.at = at] \in Calls
  BY <1>1 DEF Calls
<1>. QED
  BY <1>2 DEF TypeOK, GoTo

LEMMA RevokeType ==
  ASSUME TypeOK, NEW u \in Users, Revoke(u)
  PROVE  version' \in [Users -> Versions] /\ since' \in [Users -> BOOLEAN]
         /\ underWay' \subseteq Users
BY AccountsAssumption DEF TypeOK, Revoke, Versions

LEMMA InitType == Init => TypeOK
<1>1. 0 \in Versions
  BY AccountsAssumption DEF Versions
<1>2. Idle \in Calls
  BY DEF Calls
<1>. QED
  BY <1>1, <1>2 DEF Init, TypeOK

\* The requests: what a free handler takes on.
LEMMA RequestType ==
  ASSUME TypeOK, NEW h \in Handlers, NEW a \in Users, NEW u \in Users,
         \/ SignIn(h, u) \/ Refresh(h, u) \/ ConfirmRole(h, u) \/ Order(h, a, u)
  PROVE  TypeOK'
<1>1. CASE SignIn(h, u)
  <2>1. [op |-> "signIn", user |-> u, version |-> version[u]] \in Calls
    BY DEF Calls, TypeOK
  <2>. QED
    BY <1>1, <2>1 DEF SignIn, Await, TypeOK, rows, history
<1>2. CASE Refresh(h, u)
  <2>1. [op |-> "deliver", user |-> u, version |-> version[u]] \in Calls
    BY DEF Calls, TypeOK
  <2>. QED
    BY <1>2, <2>1 DEF Refresh, Await, TypeOK, rows, history
<1>3. CASE ConfirmRole(h, u)
  <2>1. [op |-> "confirmRole", actor |-> u, target |-> u, to |-> "MEMBER", at |-> "target"] \in Calls
    BY DEF Calls, Roles
  <2>. QED
    BY <1>3, <2>1 DEF ConfirmRole, Await, TypeOK, rows, history
<1>4. CASE Order(h, a, u)
  <2>1. PICK op \in Orders, to \in Roles :
          /\ Await(h, [op |-> op, actor |-> a, target |-> u, to |-> to, at |-> "target"])
          /\ overlapped' \in BOOLEAN
    BY <1>4 DEF Order, TypeOK, Removing
  <2>2. [op |-> op, actor |-> a, target |-> u, to |-> to, at |-> "target"] \in Calls
    BY DEF Calls
  <2>. QED
    BY <1>4, <2>1, <2>2 DEF Order, Await, TypeOK, rows
<1>. QED
  BY <1>1, <1>2, <1>3, <1>4

Resume(h) ==
  \/ SignInWrite(h) \/ Deliver(h) \/ ReadTarget(h) \/ CountAdmins(h)
  \/ SetRoleWrite(h) \/ SuspendWrite(h) \/ ReinstateWrite(h)
  \/ ForceSignOutWrite(h) \/ SoftDeleteWrite(h) \/ ConfirmRoleWrite(h)

LEMMA ResumeType ==
  ASSUME TypeOK, NEW h \in Handlers, Resume(h)
  PROVE  TypeOK'
<1>c. call[h] \in Calls
  BY DEF TypeOK
<1>1. CASE SignInWrite(h)
  <2>1. call[h].user \in Users
    BY <1>1, <1>c, CallFields DEF SignInWrite
  <2>2. [op |-> "deliver", user |-> call[h].user, version |-> version[call[h].user]] \in Calls
    BY <2>1 DEF Calls, TypeOK
  <2>. QED
    BY <1>1, <2>1, <2>2 DEF SignInWrite, TypeOK, rows
<1>2. CASE Deliver(h)
  <2>1. call[h].user \in Users /\ call[h].version \in Versions
    BY <1>2, <1>c, CallFields DEF Deliver
  <2>. QED
    BY <1>2, <2>1, AnswerType DEF Deliver, TypeOK, rows, history
<1>3. CASE ReadTarget(h) \/ CountAdmins(h)
  <2>1. call' \in [Handlers -> Calls]
    BY <1>3, AnswerType, GoToType DEF ReadTarget, CountAdmins
  <2>. QED
    BY <1>3, <2>1 DEF ReadTarget, CountAdmins, TypeOK, rows, history
<1>4. CASE SuspendWrite(h) \/ ForceSignOutWrite(h) \/ SoftDeleteWrite(h)
  <2>1. call[h].target \in Users /\ Answer(h)
    BY <1>4, <1>c, CallFields DEF SuspendWrite, ForceSignOutWrite, SoftDeleteWrite, Writes, Orders
  <2>. QED
    BY <1>4, <2>1, AnswerType, RevokeType
       DEF SuspendWrite, ForceSignOutWrite, SoftDeleteWrite, TypeOK
<1>5. CASE SetRoleWrite(h) \/ ReinstateWrite(h) \/ ConfirmRoleWrite(h)
  <2>1. call[h].target \in Users /\ call[h].to \in Roles /\ Answer(h)
    BY <1>5, <1>c, CallFields DEF SetRoleWrite, ReinstateWrite, ConfirmRoleWrite, Writes, Orders
  <2>. QED
    BY <1>5, <2>1, AnswerType
       DEF SetRoleWrite, ReinstateWrite, ConfirmRoleWrite, TypeOK, history
<1>. QED
  BY <1>1, <1>2, <1>3, <1>4, <1>5 DEF Resume

LEMMA NextType ==
  ASSUME TypeOK, [Next]_vars
  PROVE  TypeOK'
<1>1. ASSUME NEW u \in Users, NEW v \in Versions, Expire(u, v) PROVE TypeOK'
  BY <1>1 DEF Expire, TypeOK, rows, history
<1>2. ASSUME NEW h \in Handlers, Fail(h) PROVE TypeOK'
  BY <1>2, AnswerType DEF Fail, TypeOK, rows, history
<1>3. CASE UNCHANGED vars
  BY <1>3 DEF vars, TypeOK, rows, history
<1>. QED
  BY <1>1, <1>2, <1>3, RequestType, ResumeType DEF Next, Resume

\* Accounts, sessions and parked requests are well typed.
THEOREM TypeCorrect == Spec => []TypeOK
BY InitType, NextType, PTL DEF Spec
-----------------------------------------------------------------------------
(* The inductive invariant, in its two halves: sessions, administrators *)

Sessions ==
  /\ \A u \in Users : \A v \in tokens[u] : Current(u, v)
  /\ \A h \in Handlers : call[h].op = "deliver" => Current(call[h].user, call[h].version)
  /\ \A h \in Handlers : call[h].op = "signIn" => Crossed(call[h].user, call[h].version)

Guarded ==
  overlapped \/ steppedDown \/
    /\ ActiveAdmins # {}
    /\ \A g, h \in Handlers : Removing(call[g]) /\ Removing(call[h]) => g = h
    /\ \A h \in Handlers : Removing(call[h]) =>
         call[h].actor \in ActiveAdmins \ {call[h].target}

LEMMA Halves == Inductive <=> Sessions /\ Guarded
BY DEF Inductive, Sessions, Guarded

LEMMA InitInductive == Init => Inductive
BY DEF Init, Inductive, Removing, Idle

\* The sessions of the account are not revoked.
Stands(u) ==
  /\ version'[u] = version[u]
  /\ since[u] => since'[u]
  /\ u \in underWay => u \in underWay'

\* Versions only grow, and a version reached without a sign-in is in no
\* token yet.
LEMMA CurrentKept ==
  ASSUME TypeOK, NEW u \in Users, NEW v \in Versions, Current(u, v),
         \/ Stands(u) \/ version'[u] = version[u] + 1
  PROVE  Current(u, v)'
BY AccountsAssumption DEF Current, Stands, TypeOK, Versions

\* Only a revocation takes the mark of a sign-in away, and it raises the
\* version and marks the account if a sign-in is under way.
LEMMA VersionSteps ==
  ASSUME TypeOK, [Next]_vars, NEW u \in Users
  PROVE  \/ Stands(u)
         \/ version'[u] = version[u] + 1 /\ (SigningIn(u) => u \in underWay')
<1>1. ASSUME NEW w \in Users, Revoke(w)
      PROVE  \/ Stands(u)
             \/ version'[u] = version[u] + 1 /\ (SigningIn(u) => u \in underWay')
  BY <1>1 DEF Revoke, Stands, TypeOK
<1>2. ASSUME NEW h \in Handlers, SuspendWrite(h) \/ ForceSignOutWrite(h) \/ SoftDeleteWrite(h)
      PROVE  \E w \in Users : Revoke(w)
  <2>1. call[h].target \in Users
    BY <1>2, CallFields
       DEF SuspendWrite, ForceSignOutWrite, SoftDeleteWrite, Writes, Orders, TypeOK
  <2>. QED
    BY <1>2, <2>1 DEF SuspendWrite, ForceSignOutWrite, SoftDeleteWrite
<1>3. ASSUME NEW h \in Handlers, SignInWrite(h)
      PROVE  Stands(u)
  BY <1>3 DEF SignInWrite, Stands, TypeOK, rows
<1>4. CASE UNCHANGED <<version, since, underWay>>
  BY <1>4 DEF Stands
<1>. QED
  BY <1>1, <1>2, <1>3, <1>4
     DEF Next, vars, rows, history, Expire, SignIn, Refresh, ConfirmRole, Order, Deliver,
         ReadTarget, CountAdmins, SetRoleWrite, ReinstateWrite, ConfirmRoleWrite, Fail

\* Where tokens may come from.
LEMMA TokenSteps ==
  ASSUME TypeOK, [Next]_vars, NEW u \in Users, NEW v \in tokens'[u], v \notin tokens[u]
  PROVE  \E h \in Handlers : call[h].op = "deliver" /\ call[h].user = u /\ call[h].version = v
<1>1. ASSUME NEW h \in Handlers, Deliver(h)
      PROVE  call[h].op = "deliver" /\ call[h].user = u /\ call[h].version = v
  <2>1. call[h].op = "deliver" /\ call[h].user \in Users
    BY <1>1, CallFields DEF Deliver, TypeOK
  <2>. QED
    BY <1>1, <2>1 DEF Deliver, TypeOK
<1>2. ASSUME NEW w \in Users, NEW x \in Versions, Expire(w, x) PROVE FALSE
  BY <1>2 DEF Expire, TypeOK
<1>3. ~ UNCHANGED tokens
  OBVIOUS
<1>. QED
  BY <1>1, <1>2, <1>3
     DEF Next, vars, rows, history, SignIn, Refresh, ConfirmRole, Order, SignInWrite,
         ReadTarget, CountAdmins, SetRoleWrite, SuspendWrite, ReinstateWrite,
         ForceSignOutWrite, SoftDeleteWrite, ConfirmRoleWrite, Fail

\* Where parked sign-ins and deliveries come from: a sign-in is parked with
\* the version its check read, and what is signed carries the version of a
\* sign-in's write or of a refreshed token.
LEMMA SessionSteps ==
  ASSUME TypeOK, [Next]_vars, NEW h \in Handlers,
         call'[h].op \in {"signIn", "deliver"}, call'[h] # call[h]
  PROVE  /\ UNCHANGED <<version, underWay>>
         /\ \E u \in Users :
              /\ call'[h] = [op |-> call'[h].op, user |-> u, version |-> version[u]]
              /\ call'[h].op = "deliver" =>
                   \/ UNCHANGED since /\ version[u] \in tokens[u]
                   \/ /\ call[h].op = "signIn" /\ call[h].user = u
                      /\ since'[u] = (since[u] \/ call[h].version = version[u])
<1>1. PICK g \in Handlers :
        \/ \E u \in Users : SignIn(g, u) \/ Refresh(g, u) \/ ConfirmRole(g, u)
        \/ \E a, u \in Users : Order(g, a, u)
        \/ Resume(g) \/ Fail(g)
  BY DEF Next, Resume, vars, Expire
<1>2. CASE SignInWrite(g)
  <2>1. call[g].user \in Users /\ UNCHANGED <<version, underWay>>
    BY <1>2, CallFields DEF SignInWrite, TypeOK, rows
  <2>2. h = g
    BY <1>2 DEF SignInWrite, TypeOK
  <2>. QED
    BY <1>2, <2>1, <2>2 DEF SignInWrite, TypeOK
<1>3. CASE \E u \in Users : Refresh(g, u) \/ SignIn(g, u)
  BY <1>3 DEF Refresh, SignIn, Await, TypeOK, rows, history
<1>4. CASE ReadTarget(g) \/ CountAdmins(g)
  <2>1. call[g] \in Calls /\ call[g].op \notin {"signIn", "deliver"}
    BY <1>4 DEF ReadTarget, CountAdmins, TypeOK, Orders
  <2>2. ASSUME NEW at, GoTo(g, at) PROVE call'[g].op = call[g].op
    BY <2>1, <2>2 DEF GoTo, TypeOK, Calls, Idle
  <2>3. h = g
    BY <1>4 DEF ReadTarget, CountAdmins, GoTo, Answer, TypeOK
  <2>. QED
    BY <1>4, <2>1, <2>2, <2>3 DEF ReadTarget, CountAdmins, Answer, Idle, TypeOK
<1>5. CASE Answer(g)
  BY <1>5 DEF Answer, Idle, TypeOK
<1>6. CASE \E u \in Users : ConfirmRole(g, u)
  BY <1>6 DEF ConfirmRole, Await, TypeOK
<1>7. CASE \E a, u \in Users : Order(g, a, u)
  BY <1>7 DEF Order, Await, Orders, TypeOK
<1>. QED
  BY <1>1, <1>2, <1>3, <1>4, <1>5, <1>6, <1>7
     DEF Resume, Deliver, SetRoleWrite, SuspendWrite, ReinstateWrite, ForceSignOutWrite,
         SoftDeleteWrite, ConfirmRoleWrite, Writes, Fail

\* No step lets a token of the present version come from before a
\* revocation, but by a sign-in that was under way at it.
LEMMA NextSessions ==
  ASSUME TypeOK, Sessions, [Next]_vars
  PROVE  Sessions'
<1>1. ASSUME NEW u \in Users, NEW v \in tokens'[u] PROVE Current(u, v)'
  <2>1. v \in Versions
    BY <1>1, NextType DEF TypeOK
  <2>2. Current(u, v)
    BY <1>1, TokenSteps DEF Sessions
  <2>. QED
    BY <2>1, <2>2, VersionSteps, CurrentKept
<1>2. ASSUME NEW h \in Handlers, call'[h].op = "deliver"
      PROVE  Current(call[h].user, call[h].version)'
  <2>1. CASE call'[h] = call[h]
    <3>1. call[h].user \in Users /\ call[h].version \in Versions
      BY <1>2, <2>1, CallFields DEF TypeOK
    <3>2. Current(call[h].user, call[h].version)
      BY <1>2, <2>1 DEF Sessions
    <3>3. \A u \in Users, v \in Versions : Current(u, v) => Current(u, v)'
      BY VersionSteps, CurrentKept
    <3>. QED
      BY <2>1, <3>1, <3>2, <3>3 DEF Current
  <2>2. CASE call'[h] # call[h]
    <3>1. PICK u \in Users :
            /\ call'[h] = [op |-> call'[h].op, user |-> u, version |-> version[u]]
            /\ \/ UNCHANGED since /\ version[u] \in tokens[u]
               \/ /\ call[h].op = "signIn" /\ call[h].user = u
                  /\ since'[u] = (since[u] \/ call[h].version = version[u])
      BY <1>2, <2>2, SessionSteps
    <3>2. UNCHANGED <<version, underWay>>
      BY <1>2, <2>2, SessionSteps
    <3>3. CASE UNCHANGED since /\ version[u] \in tokens[u]
      <4>1. since[u] \/ u \in underWay
        BY <3>3 DEF Sessions, Current, TypeOK, Versions
      <4>. QED
        BY <3>1, <3>2, <3>3, <4>1 DEF Current
    <3>4. CASE /\ call[h].op = "signIn" /\ call[h].user = u
               /\ since'[u] = (since[u] \/ call[h].version = version[u])
      <4>1. since'[u] \/ u \in underWay
        BY <3>4 DEF Sessions, Crossed
      <4>. QED
        BY <3>1, <3>2, <4>1 DEF Current
    <3>. QED
      BY <3>1, <3>3, <3>4
  <2>. QED
    BY <2>1, <2>2
<1>3. ASSUME NEW h \in Handlers, call'[h].op = "signIn"
      PROVE  Crossed(call[h].user, call[h].version)'
  <2>1. CASE call'[h] = call[h]
    <3>1. call[h].user \in Users /\ call[h].version \in Versions /\ SigningIn(call[h].user)
      BY <1>3, <2>1, CallFields DEF TypeOK, SigningIn
    <3>2. Crossed(call[h].user, call[h].version)
      BY <1>3, <2>1 DEF Sessions
    <3>. QED
      BY <2>1, <3>1, <3>2, VersionSteps DEF Crossed, Stands, TypeOK, Versions
  <2>2. CASE call'[h] # call[h]
    <3>1. PICK u \in Users : call'[h] = [op |-> call'[h].op, user |-> u, version |-> version[u]]
      BY <1>3, <2>2, SessionSteps
    <3>2. UNCHANGED version
      BY <1>3, <2>2, SessionSteps
    <3>. QED
      BY <3>1, <3>2 DEF Crossed
  <2>. QED
    BY <2>1, <2>2
<1>. QED
  BY <1>1, <1>2, <1>3 DEF Sessions
-----------------------------------------------------------------------------
(* The administrators *)

\* The requests in flight that may take an administrator away.
Removals == {h \in Handlers : Removing(call[h])}

\* Answering a request or moving it on leaves no more removals than before.
LEMMA RemovalsKept ==
  ASSUME TypeOK, NEW h \in Handlers,
         Answer(h) \/ \E at \in {"count", "write"} :
                        call[h].op \in Orders \cup {"confirmRole"} /\ GoTo(h, at)
  PROVE  \A g \in Handlers : Removing(call[g])' =>
            Removing(call[g]) /\ call'[g].actor = call[g].actor /\ call'[g].target = call[g].target
<1>1. ASSUME Answer(h)
      PROVE  \A g \in Handlers : Removing(call[g])' => call'[g] = call[g]
  BY <1>1 DEF Answer, Removing, Idle, TypeOK
<1>2. ASSUME NEW at, call[h].op \in Orders \cup {"confirmRole"}, GoTo(h, at)
      PROVE  /\ call'[h].op = call[h].op /\ call'[h].actor = call[h].actor
             /\ call'[h].target = call[h].target /\ call'[h].to = call[h].to
             /\ \A g \in Handlers \ {h} : call'[g] = call[g]
  <2>1. call[h] \in [op : Orders \cup {"confirmRole"}, actor : Users, target : Users,
                     to : Roles, at : {"target", "count", "write"}]
    BY <1>2, CallFields DEF TypeOK
  <2>2. call'[h] = [call[h] EXCEPT !.at = at] /\ \A g \in Handlers \ {h} : call'[g] = call[g]
    BY <1>2 DEF GoTo, TypeOK
  <2>. QED
    BY <2>1, <2>2
<1>. QED
  BY <1>1, <1>2 DEF Removing

\* A step that takes on no removal and takes away no administrator who is
\* removing another, nor the last one.
LEMMA GuardedKept ==
  ASSUME Guarded, overlapped => overlapped', steppedDown => steppedDown',
         \A g \in Handlers : Removing(call[g])' =>
            Removing(call[g]) /\ call'[g].actor = call[g].actor /\ call'[g].target = call[g].target,
         ActiveAdmins \subseteq ActiveAdmins'
  PROVE  Guarded'
BY DEF Guarded

LEMMA OrderGuarded ==
  ASSUME TypeOK, Guarded, NEW h \in Handlers, NEW a \in Users, NEW u \in Users, Order(h, a, u)
  PROVE  Guarded'
<1>1. PICK op \in Orders, to \in Roles :
        LET c == [op |-> op, actor |-> a, target |-> u, to |-> to, at |-> "target"] IN
        /\ op \in OnOthers => a # u
        /\ Await(h, c)
        /\ overlapped' = (overlapped \/ (Removing(c) /\ \E g \in Handlers : Removing(call[g])))
  BY DEF Order
<1> DEFINE c == [op |-> op, actor |-> a, target |-> u, to |-> to, at |-> "target"]
<1>2. /\ c.op = op /\ c.actor = a /\ c.target = u
      /\ call'[h] = c
      /\ \A g \in Handlers \ {h} : call'[g] = call[g]
  BY <1>1 DEF Await, TypeOK
<1>3. ActiveAdmins' = ActiveAdmins /\ a \in ActiveAdmins /\ UNCHANGED steppedDown
  BY DEF Order, ActiveAdmins, Usable, Heard, rows
<1>4. CASE ~Removing(c)
  <2>1. \A g \in Handlers : Removing(call[g])' =>
            Removing(call[g]) /\ call'[g].actor = call[g].actor /\ call'[g].target = call[g].target
    BY <1>2, <1>4 DEF Removing
  <2>2. overlapped => overlapped'
    BY <1>1
  <2>. QED
    BY <1>3, <2>1, <2>2, GuardedKept
<1>5. CASE Removing(c) /\ \E g \in Handlers : Removing(call[g])
  BY <1>1, <1>5 DEF Guarded
<1>6. CASE Removing(c) /\ ~ \E g \in Handlers : Removing(call[g])
  <2>1. \A g \in Handlers : Removing(call[g])' => g = h
    BY <1>2, <1>6 DEF Removing
  <2>2. a # u
    BY <1>1, <1>6 DEF Removing, OnOthers
  <2>3. \A g \in Handlers : Removing(call[g])' => call'[g].actor \in ActiveAdmins' \ {call'[g].target}
    BY <1>2, <1>3, <2>1, <2>2
  <2>4. \A g, k \in Handlers : Removing(call[g])' /\ Removing(call[k])' => g = k
    BY <2>1
  <2>. QED
    BY <1>1, <1>3, <2>3, <2>4 DEF Guarded
<1>. QED
  BY <1>4, <1>5, <1>6

LEMMA RequestGuarded ==
  ASSUME TypeOK, Guarded, NEW h \in Handlers, NEW u \in Users,
         SignIn(h, u) \/ Refresh(h, u) \/ ConfirmRole(h, u)
  PROVE  Guarded'
<1>1. \A g \in Handlers : Removing(call[g])' => call'[g] = call[g]
  BY DEF SignIn, Refresh, ConfirmRole, Await, Removing, TypeOK
<1>2. ActiveAdmins' = ActiveAdmins /\ UNCHANGED <<overlapped, steppedDown>>
  BY DEF SignIn, Refresh, ConfirmRole, ActiveAdmins, Usable, rows, history
<1>. QED
  BY <1>1, <1>2, GuardedKept DEF Removing

\* Taking an administrator away: the one request in flight that may do so
\* leaves the administrator who made it.
LEMMA RemovalGuarded ==
  ASSUME TypeOK, Guarded, NEW h \in Handlers, Removing(call[h]),
         SetRoleWrite(h) \/ SuspendWrite(h) \/ SoftDeleteWrite(h)
  PROVE  Guarded'
<1>1. Answer(h) /\ call[h].target \in Users /\ UNCHANGED <<overlapped, steppedDown>>
  BY CallFields DEF SetRoleWrite, SuspendWrite, SoftDeleteWrite, Writes, Orders, TypeOK, history
<1>2. CASE overlapped \/ steppedDown
  BY <1>1, <1>2 DEF Guarded
<1>3. CASE ~(overlapped \/ steppedDown)
  <2>1. \A g \in Handlers : ~Removing(call[g])'
    BY <1>1, <1>3, RemovalsKept DEF Guarded, Answer, Removing, Idle, TypeOK
  <2>2. ActiveAdmins \ {call[h].target} \subseteq ActiveAdmins'
    BY <1>1 DEF SetRoleWrite, SuspendWrite, SoftDeleteWrite, ActiveAdmins, Usable, TypeOK
  <2>3. ActiveAdmins \ {call[h].target} # {}
    BY <1>3 DEF Guarded
  <2>. QED
    BY <2>1, <2>2, <2>3 DEF Guarded
<1>. QED
  BY <1>2, <1>3

LEMMA ResumeGuarded ==
  ASSUME TypeOK, Guarded, NEW h \in Handlers, Resume(h) \/ Fail(h)
  PROVE  Guarded'
<1>1. CASE SignInWrite(h)
  <2>1. \A g \in Handlers : Removing(call[g])' => call'[g] = call[g]
    BY <1>1 DEF SignInWrite, Removing, TypeOK
  <2>2. ActiveAdmins' = ActiveAdmins /\ UNCHANGED <<overlapped, steppedDown>>
    BY <1>1 DEF SignInWrite, ActiveAdmins, Usable, rows
  <2>. QED
    BY <2>1, <2>2, GuardedKept DEF Removing
<1>2. CASE \/ Deliver(h) \/ ReadTarget(h) \/ CountAdmins(h) \/ Fail(h)
           \/ ReinstateWrite(h) \/ ForceSignOutWrite(h)
  <2>1. \A g \in Handlers : Removing(call[g])' =>
            Removing(call[g]) /\ call'[g].actor = call[g].actor /\ call'[g].target = call[g].target
    BY <1>2, RemovalsKept
       DEF Deliver, ReadTarget, CountAdmins, Fail, ReinstateWrite, ForceSignOutWrite, Writes
  <2>2. ActiveAdmins \subseteq ActiveAdmins' /\ UNCHANGED <<overlapped, steppedDown>>
    BY <1>2 DEF Deliver, ReadTarget, CountAdmins, Fail, ReinstateWrite, ForceSignOutWrite,
                ActiveAdmins, Usable, rows, history, TypeOK
  <2>. QED
    BY <2>1, <2>2, GuardedKept
<1>3. CASE Removing(call[h]) /\ (SetRoleWrite(h) \/ SuspendWrite(h) \/ SoftDeleteWrite(h))
  BY <1>3, RemovalGuarded
<1>4. CASE ~Removing(call[h]) /\ SetRoleWrite(h)
  <2>1. Answer(h) /\ call[h].to = "ADMIN" /\ UNCHANGED <<overlapped, steppedDown>>
    BY <1>4 DEF SetRoleWrite, Writes, Removing, history
  <2>2. ActiveAdmins \subseteq ActiveAdmins'
    BY <1>4, <2>1 DEF SetRoleWrite, ActiveAdmins, Usable, TypeOK
  <2>. QED
    BY <2>1, <2>2, RemovalsKept, GuardedKept
<1>5. CASE ConfirmRoleWrite(h)
  <2>1. Answer(h) /\ UNCHANGED overlapped
    BY <1>5 DEF ConfirmRoleWrite, Writes
  <2>2. CASE role[call[h].target] = "ADMIN"
    BY <1>5, <2>2 DEF ConfirmRoleWrite, Guarded
  <2>3. CASE role[call[h].target] # "ADMIN"
    <3>1. ActiveAdmins \subseteq ActiveAdmins' /\ UNCHANGED steppedDown
      BY <1>5, <2>3 DEF ConfirmRoleWrite, ActiveAdmins, Usable, TypeOK
    <3>. QED
      BY <2>1, <3>1, RemovalsKept, GuardedKept
  <2>. QED
    BY <2>2, <2>3
<1>. QED
  BY <1>1, <1>2, <1>3, <1>4, <1>5 DEF Resume, Removing, SuspendWrite, SoftDeleteWrite, Writes

LEMMA NextGuarded ==
  ASSUME TypeOK, Guarded, [Next]_vars
  PROVE  Guarded'
<1>1. CASE UNCHANGED <<rows, call, history>>
  <2>1. ActiveAdmins' = ActiveAdmins /\ UNCHANGED <<call, overlapped, steppedDown>>
    BY <1>1 DEF ActiveAdmins, Usable, rows, history
  <2>. QED
    BY <2>1, GuardedKept DEF Removing
<1>. QED
  BY <1>1, OrderGuarded, RequestGuarded, ResumeGuarded DEF Next, Resume, vars, Expire
-----------------------------------------------------------------------------
LEMMA NextInductive ==
  ASSUME TypeOK, Inductive, [Next]_vars
  PROVE  Inductive'
<1>1. Sessions /\ Guarded
  BY Halves
<1>2. Sessions' /\ Guarded'
  BY <1>1, NextSessions, NextGuarded
<1>. QED
  BY <1>2 DEF Inductive, Sessions, Guarded

\* Sessions and administrators are kept by every step of every instance.
THEOREM InductiveHolds == Spec => []Inductive
BY InitInductive, NextInductive, TypeCorrect, PTL DEF Spec

\* Whoever is heard has signed in, from the check on, since the last
\* revocation of their sessions, whatever a suspension, a deletion or a forced
\* sign-out raced with, unless a sign-in of theirs was under way when it landed.
THEOREM RevocationIsFinal == Spec => []RevocationHolds
<1>1. TypeOK /\ Inductive => RevocationHolds
  BY AccountsAssumption DEF Inductive, RevocationHolds, Heard, Current, TypeOK, Versions
<1>. QED
  BY <1>1, TypeCorrect, InductiveHolds, PTL

\* An administrator always remains unless two requests that take one away
\* overlapped or one gave the role up in onboarding.
THEOREM AnAdminStays == Spec => []AnAdminRemains
<1>1. Inductive => AnAdminRemains
  BY DEF Inductive, AnAdminRemains
<1>. QED
  BY <1>1, InductiveHolds, PTL
=============================================================================
