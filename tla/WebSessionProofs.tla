------------------------- MODULE WebSessionProofs -------------------------
(***************************************************************************)
(* WebSession for any number of requests on their way and any number of    *)
(* revocations: types, that the cookies are a pair, that whoever may renew *)
(* is signed in when the page renders, and that, as long as no two         *)
(* requests overlap, signed out is signed out.                             *)
(***************************************************************************)
EXTENDS WebSession, TLAPS

\* What the operation of a trip says about its other fields.
LEMMA TripFields ==
  ASSUME NEW c \in Trips
  PROVE  /\ c.op \in {"renew", "page"} =>
              /\ c.token \in Tokens \cup {None}
              /\ c.good \in BOOLEAN
              /\ c.aged \in BOOLEAN
         /\ c.op \in {"renew", "page", "login"} => c.v \in Versions
         /\ c.op = "page" => c.reply \in Replies
BY DEF Trips, Parked

LEMMA NoneIsNoToken == None \notin Tokens /\ None \notin Versions
BY WebSessionAssumption

LEMMA Ageing ==
  ASSUME NEW token \in Tokens
  PROVE  /\ Older(token) \in Tokens
         /\ Older(token).v = token.v
         /\ Older(token).age = IF token.age = "live" THEN "near" ELSE "dead"
BY DEF Older, Tokens

LEMMA LeaveType ==
  ASSUME WebTypeOK, NEW t \in Tabs, NEW c \in Trips, Leave(t, c) \/ GoOnTo(t, c)
  PROVE  WebTypeOK'
BY DEF WebTypeOK, Leave, GoOnTo, jar

\* An answer that arrives.
LEMMA ArriveType ==
  ASSUME WebTypeOK, NEW t \in Tabs, NEW v \in Versions,
         SetCookies(v) \/ ClearCookies \/ UNCHANGED jar,
         trip' = [trip EXCEPT ![t] = Parked],
         meant' \in {"in", "out"}, bounced' \in BOOLEAN, UNCHANGED <<version, crossed>>
  PROVE  WebTypeOK'
<1>1. [age |-> "live", v |-> v] \in Tokens
  BY DEF Tokens
<1>2. Parked \in Trips
  BY DEF Trips
<1>. QED
  BY <1>1, <1>2 DEF WebTypeOK, SetCookies, ClearCookies, jar

\* What a visitor may leave with.
LEMMA NavigateLeaves ==
  ASSUME WebTypeOK, NEW t \in Tabs, Navigate(t)
  PROVE  \E c \in Trips :
           /\ Leave(t, c)
           /\ \/ /\ c = [op |-> "page", token |-> access, good |-> (refresh = version),
                         aged |-> FALSE, reply |-> "keep", v |-> version]
                 /\ refresh = None \/ Fresh(access)
              \/ /\ c = [op |-> "renew", token |-> access, v |-> refresh,
                         good |-> (refresh = version), aged |-> FALSE]
                 /\ refresh # None
<1>1. CASE refresh = None \/ Fresh(access)
  <2>1. [op |-> "page", token |-> access, good |-> (refresh = version), aged |-> FALSE,
         reply |-> "keep", v |-> version] \in Trips
    BY DEF Trips, WebTypeOK, Replies
  <2>. QED
    BY <1>1, <2>1 DEF Navigate
<1>2. CASE ~(refresh = None \/ Fresh(access))
  <2>1. [op |-> "renew", token |-> access, v |-> refresh, good |-> (refresh = version),
         aged |-> FALSE] \in Trips
    BY <1>2 DEF Trips, WebTypeOK
  <2>. QED
    BY <1>2, <2>1 DEF Navigate
<1>. QED
  BY <1>1, <1>2

\* The page a renewal goes on to.
LEMMA RenewalGoesOn ==
  ASSUME WebTypeOK, NEW t \in Tabs, Renewed(t) \/ Refused(t) \/ Unreachable(t)
  PROVE  /\ trip[t].op = "renew"
         /\ \E c \in Trips :
              /\ GoOnTo(t, c)
              /\ c.op = "page" /\ c.v = trip[t].v /\ c.aged = trip[t].aged
              /\ \/ /\ c.token = [age |-> "live", v |-> version]
                    /\ c.v = version
                    /\ c.reply = "set"
                 \/ ~c.good /\ c.reply \in {"clear", "keep"}
<1>1. trip[t] \in Trips /\ trip[t].op = "renew"
  BY DEF WebTypeOK, Renewed, Refused, Unreachable
<1>2. /\ trip[t].token \in Tokens \cup {None} /\ trip[t].v \in Versions
      /\ trip[t].good \in BOOLEAN /\ trip[t].aged \in BOOLEAN
  BY <1>1, TripFields
<1>3. CASE Renewed(t)
  <2>1. [age |-> "live", v |-> version] \in Tokens
    BY DEF Tokens, WebTypeOK
  <2>2. [op |-> "page", token |-> [age |-> "live", v |-> version], good |-> trip[t].good,
         aged |-> trip[t].aged, reply |-> "set", v |-> trip[t].v] \in Trips
    BY <1>2, <2>1 DEF Trips, Replies
  <2>. QED
    BY <1>1, <1>3, <2>2 DEF Renewed, Page
<1>4. ASSUME NEW reply \in {"clear", "keep"}, Page(t, trip[t].token, FALSE, reply)
      PROVE  \E c \in Trips :
               /\ GoOnTo(t, c)
               /\ c.op = "page" /\ c.v = trip[t].v /\ c.aged = trip[t].aged
               /\ ~c.good /\ c.reply \in {"clear", "keep"}
  <2>1. [op |-> "page", token |-> trip[t].token, good |-> FALSE, aged |-> trip[t].aged,
         reply |-> reply, v |-> trip[t].v] \in Trips
    BY <1>2 DEF Trips, Replies
  <2>. QED
    BY <1>4, <2>1 DEF Page
<1>. QED
  BY <1>1, <1>3, <1>4 DEF Refused, Unreachable
-----------------------------------------------------------------------------
(* Time *)

Delayed(c) == [c EXCEPT !.aged = TRUE, !.token = IF @ = None THEN None ELSE Older(@)]

LEMMA DelayedTrip ==
  ASSUME NEW c \in Trips, c.op \in {"renew", "page"}
  PROVE  /\ Delayed(c) \in Trips
         /\ Delayed(c).op = c.op /\ Delayed(c).v = c.v /\ Delayed(c).good = c.good
         /\ Delayed(c).aged
         /\ c.op = "page" => Delayed(c).reply = c.reply
         /\ c.token = None => Delayed(c).token = None
         /\ c.token # None => Delayed(c).token = Older(c.token)
<1>1. c.token \in Tokens \cup {None}
  BY TripFields
<1>2. PICK token \in Tokens \cup {None} :
        token = IF c.token = None THEN None ELSE Older(c.token)
  BY <1>1, Ageing
<1>3. Delayed(c) = [c EXCEPT !.aged = TRUE, !.token = token]
  BY <1>2 DEF Delayed
<1>4. CASE c.op = "renew"
  <2>1. c \in [op : {"renew"}, token : Tokens \cup {None}, v : Versions, good : BOOLEAN,
               aged : BOOLEAN]
    BY <1>4 DEF Trips, Parked
  <2>2. /\ [c EXCEPT !.aged = TRUE, !.token = token] \in
              [op : {"renew"}, token : Tokens \cup {None}, v : Versions, good : BOOLEAN,
               aged : BOOLEAN]
        /\ [c EXCEPT !.aged = TRUE, !.token = token].v = c.v
        /\ [c EXCEPT !.aged = TRUE, !.token = token].good = c.good
        /\ [c EXCEPT !.aged = TRUE, !.token = token].aged
        /\ [c EXCEPT !.aged = TRUE, !.token = token].token = token
    BY <2>1
  <2>3. Delayed(c) \in Trips /\ Delayed(c).op = "renew"
    BY <1>3, <2>2 DEF Trips
  <2>. QED
    BY <1>2, <1>3, <1>4, <2>2, <2>3
<1>5. CASE c.op = "page"
  <2>1. c \in [op : {"page"}, token : Tokens \cup {None}, good : BOOLEAN, aged : BOOLEAN,
               reply : Replies, v : Versions]
    BY <1>5 DEF Trips, Parked
  <2>2. /\ [c EXCEPT !.aged = TRUE, !.token = token] \in
              [op : {"page"}, token : Tokens \cup {None}, good : BOOLEAN, aged : BOOLEAN,
               reply : Replies, v : Versions]
        /\ [c EXCEPT !.aged = TRUE, !.token = token].v = c.v
        /\ [c EXCEPT !.aged = TRUE, !.token = token].good = c.good
        /\ [c EXCEPT !.aged = TRUE, !.token = token].aged
        /\ [c EXCEPT !.aged = TRUE, !.token = token].token = token
        /\ [c EXCEPT !.aged = TRUE, !.token = token].reply = c.reply
    BY <2>1
  <2>3. Delayed(c) \in Trips /\ Delayed(c).op = "page"
    BY <1>3, <2>2 DEF Trips
  <2>. QED
    BY <1>2, <1>3, <1>5, <2>2, <2>3
<1>. QED
  BY <1>4, <1>5

LEMMA TimeOnTrips ==
  ASSUME WebTypeOK, TimePasses, NEW t \in Tabs
  PROVE  /\ trip'[t] = IF trip[t].op \in {"renew", "page"} THEN Delayed(trip[t]) ELSE trip[t]
         /\ trip'[t] \in Trips
         /\ trip'[t].op = trip[t].op
<1>1. trip[t] \in Trips
  BY DEF WebTypeOK
<1>2. trip'[t] = IF trip[t].op \in {"renew", "page"} THEN Delayed(trip[t]) ELSE trip[t]
  BY DEF TimePasses, Delayed
<1>. QED
  BY <1>1, <1>2, DelayedTrip

LEMMA TimeType ==
  ASSUME WebTypeOK, TimePasses
  PROVE  WebTypeOK'
<1>1. access' \in Tokens \cup {None}
  BY Ageing DEF WebTypeOK, TimePasses, Fresh
<1>2. trip' \in [Tabs -> Trips]
  BY TimeOnTrips DEF TimePasses
<1>. QED
  BY <1>1, <1>2 DEF WebTypeOK, TimePasses
-----------------------------------------------------------------------------
LEMMA InitType == WebInit => WebTypeOK
<1>1. Parked \in Trips /\ 0 \in Versions
  BY WebSessionAssumption DEF Trips, Versions
<1>. QED
  BY <1>1 DEF WebInit, WebTypeOK

LEMMA NextType == WebTypeOK /\ [WebNext]_webVars => WebTypeOK'
<1>. SUFFICES ASSUME WebTypeOK, [WebNext]_webVars
             PROVE  WebTypeOK'
  OBVIOUS
<1>0. Parked \in Trips /\ \A v \in Versions : [op |-> "login", v |-> v] \in Trips
  BY DEF Trips
<1>1. CASE Revoked
  BY <1>1, WebSessionAssumption DEF Revoked, WebTypeOK, Versions, jar
<1>2. CASE TimePasses
  BY <1>2, TimeType
<1>3. CASE RefreshLapses
  BY <1>3 DEF RefreshLapses, ClearCookies, WebTypeOK
<1>4. ASSUME NEW t \in Tabs, Navigate(t)
      PROVE  WebTypeOK'
  BY <1>4, NavigateLeaves, LeaveType
<1>5. ASSUME NEW t \in Tabs, Renewed(t) \/ Refused(t) \/ Unreachable(t)
      PROVE  WebTypeOK'
  BY <1>5, RenewalGoesOn, LeaveType
<1>6. ASSUME NEW t \in Tabs, Arrive(t)
      PROVE  WebTypeOK'
  <2>1. trip[t] \in Trips /\ trip[t].op = "page"
    BY <1>6 DEF Arrive, WebTypeOK
  <2>2. trip[t].v \in Versions /\ trip[t].reply \in Replies
    BY <2>1, TripFields
  <2>3. SetCookies(trip[t].v) \/ ClearCookies \/ UNCHANGED jar
    BY <1>6, <2>2 DEF Arrive, Replies
  <2>4. bounced' \in BOOLEAN
    BY <1>6 DEF Arrive, WebTypeOK
  <2>. QED
    BY <1>6, <2>2, <2>3, <2>4, ArriveType DEF Arrive, WebTypeOK
<1>7. ASSUME NEW t \in Tabs, LogInArrives(t)
      PROVE  WebTypeOK'
  <2>1. trip[t].v \in Versions
    BY <1>7, TripFields DEF LogInArrives, WebTypeOK
  <2>. QED
    BY <1>7, <2>1, ArriveType DEF LogInArrives, WebTypeOK
<1>8. ASSUME NEW t \in Tabs, LogOutArrives(t)
      PROVE  WebTypeOK'
  <2>1. 0 \in Versions
    BY WebSessionAssumption DEF Versions
  <2>. QED
    BY <1>8, <2>1, ArriveType DEF LogOutArrives, WebTypeOK
<1>9. ASSUME NEW t \in Tabs, LogIn(t) \/ LogInFails(t) \/ LogOut(t)
      PROVE  WebTypeOK'
  <2>1. [op |-> "logout"] \in Trips /\ version \in Versions
    BY DEF Trips, WebTypeOK
  <2>. QED
    BY <1>0, <1>9, <2>1, LeaveType DEF LogIn, LogInFails, LogOut
<1>10. CASE UNCHANGED webVars
  BY <1>10 DEF webVars, jar, WebTypeOK
<1>. QED
  BY <1>1, <1>2, <1>3, <1>4, <1>5, <1>6, <1>7, <1>8, <1>9, <1>10 DEF WebNext

\* The cookies, the requests on their way and the versions are what WebTypeOK
\* says (the middleware and the route handlers).
THEOREM WebTypeCorrect == WebSpec => []WebTypeOK
BY InitType, NextType, PTL DEF WebSpec
-----------------------------------------------------------------------------
(* The invariant *)

\* What WebInvariant says of one trip.
Sound(c) ==
  /\ c.op \in {"renew", "page", "login"} => c.v <= version
  /\ c.op = "renew" /\ c.token # None => c.token.v = c.v
  /\ c.op = "page" /\ c.good /\ c.v = version =>
       /\ Honoured(c.token)
       /\ ~c.aged => Fresh(c.token)

LEMMA SoundTrips ==
  (\A t \in Tabs : Sound(trip[t])) <=> TripsAreIssued /\ RenewalsLeftWithAPair /\ GoodPagesHoldGoodTokens
BY DEF Sound, TripsAreIssued, RenewalsLeftWithAPair, GoodPagesHoldGoodTokens

LEMMA ParkedIsSound == Sound(Parked)
BY DEF Sound, Parked

\* One trip goes on, with the versions and the page's fate unchanged.
LEMMA TripGoesOn ==
  ASSUME WebTypeOK, WebInvariant, NEW t \in Tabs, NEW c \in Trips, Sound(c),
         trip' = [trip EXCEPT ![t] = c], version' = version, ~bounced',
         NoHalfSession', (refresh # None => refresh <= version)'
  PROVE  WebInvariant'
<1>1. \A s \in Tabs : Sound(trip[s])
  BY SoundTrips DEF WebInvariant
<1>2. \A s \in Tabs : trip'[s] = IF s = t THEN c ELSE trip[s]
  BY DEF WebTypeOK
<1>3. \A s \in Tabs : Sound(trip'[s])
  BY <1>1, <1>2
<1>4. (\A s \in Tabs : Sound(trip[s]))'
  BY <1>3 DEF Sound, Honoured
<1>5. (TripsAreIssued /\ RenewalsLeftWithAPair /\ GoodPagesHoldGoodTokens)'
  BY <1>4 DEF Sound, TripsAreIssued, RenewalsLeftWithAPair, GoodPagesHoldGoodTokens
<1>. QED
  BY <1>5 DEF WebInvariant, SignedInPagesStaySignedIn

LEMMA LeaveHolds ==
  ASSUME WebTypeOK, WebInvariant, NEW t \in Tabs, NEW c \in Trips, Sound(c),
         Leave(t, c) \/ GoOnTo(t, c)
  PROVE  WebInvariant'
<1>1. /\ trip' = [trip EXCEPT ![t] = c]
      /\ version' = version /\ access' = access /\ refresh' = refresh /\ bounced' = bounced
  BY DEF Leave, GoOnTo, jar
<1>2. NoHalfSession' /\ (refresh # None => refresh <= version)' /\ ~bounced'
  BY <1>1 DEF WebInvariant, NoHalfSession, SignedInPagesStaySignedIn
<1>. QED
  BY <1>1, <1>2, TripGoesOn

\* What leaves is sound: the cookies are a pair of the account's, and a live
\* one is honoured if the refresh token is.
LEMMA NavigationIsSound ==
  ASSUME WebTypeOK, WebInvariant, NEW t \in Tabs, Navigate(t)
  PROVE  WebInvariant'
<1>1. PICK c \in Trips :
        /\ Leave(t, c)
        /\ \/ /\ c = [op |-> "page", token |-> access, good |-> (refresh = version),
                      aged |-> FALSE, reply |-> "keep", v |-> version]
              /\ refresh = None \/ Fresh(access)
           \/ /\ c = [op |-> "renew", token |-> access, v |-> refresh,
                      good |-> (refresh = version), aged |-> FALSE]
              /\ refresh # None
  BY NavigateLeaves
<1>2. version \in Nat /\ version # None
  BY NoneIsNoToken, WebSessionAssumption DEF WebTypeOK, Versions
<1>3. CASE /\ c = [op |-> "page", token |-> access, good |-> (refresh = version),
                   aged |-> FALSE, reply |-> "keep", v |-> version]
           /\ refresh = None \/ Fresh(access)
  <2>1. refresh = version => Honoured(access) /\ Fresh(access)
    BY <1>2, <1>3 DEF Fresh, Honoured, WebInvariant, NoHalfSession
  <2>2. c.op = "page" /\ c.v = version /\ c.token = access /\ (c.good <=> refresh = version)
    BY <1>3
  <2>3. Sound(c)
    BY <1>2, <2>1, <2>2 DEF Sound
  <2>. QED
    BY <1>1, <2>3, LeaveHolds
<1>4. CASE /\ c = [op |-> "renew", token |-> access, v |-> refresh,
                   good |-> (refresh = version), aged |-> FALSE]
           /\ refresh # None
  <2>1. Sound(c)
    BY <1>4 DEF Sound, WebInvariant, NoHalfSession
  <2>. QED
    BY <1>1, <2>1, LeaveHolds
<1>. QED
  BY <1>1, <1>3, <1>4

LEMMA RenewalIsSound ==
  ASSUME WebTypeOK, WebInvariant, NEW t \in Tabs, Renewed(t) \/ Refused(t) \/ Unreachable(t)
  PROVE  WebInvariant'
<1>1. PICK c \in Trips :
        /\ GoOnTo(t, c)
        /\ c.op = "page" /\ c.v = trip[t].v /\ c.aged = trip[t].aged
        /\ \/ /\ c.token = [age |-> "live", v |-> version]
              /\ c.v = version
              /\ c.reply = "set"
           \/ ~c.good /\ c.reply \in {"clear", "keep"}
  BY RenewalGoesOn
<1>2. trip[t].op = "renew" /\ trip[t].v <= version
  BY RenewalGoesOn DEF WebInvariant, TripsAreIssued
<1>3. [age |-> "live", v |-> version] # None
  BY NoneIsNoToken DEF Tokens, WebTypeOK
<1>4. Sound(c)
  BY <1>1, <1>2, <1>3 DEF Sound, Honoured, Fresh
<1>. QED
  BY <1>1, <1>4, LeaveHolds

\* An answer arrives: the page was no stranger's, and the cookies are a pair.
LEMMA ArrivalIsSound ==
  ASSUME WebTypeOK, WebInvariant, NEW t \in Tabs, NEW v \in Versions, v <= version,
         SetCookies(v) \/ ClearCookies \/ UNCHANGED jar,
         trip' = [trip EXCEPT ![t] = Parked], version' = version, ~bounced'
  PROVE  WebInvariant'
<1>1. NoHalfSession' /\ (refresh # None => refresh <= version)'
  BY DEF SetCookies, ClearCookies, jar, NoHalfSession, WebInvariant
<1>2. Parked \in Trips
  BY DEF Trips
<1>. QED
  BY <1>1, <1>2, ParkedIsSound, TripGoesOn

LEMMA InitHolds == WebInit => WebInvariant
BY WebSessionAssumption
DEF WebInit, WebInvariant, NoHalfSession, SignedInPagesStaySignedIn, TripsAreIssued,
    RenewalsLeftWithAPair, GoodPagesHoldGoodTokens, Parked

\* A revocation leaves no page good of a version still to come.
LEMMA RevocationIsSound ==
  ASSUME WebTypeOK, WebInvariant, Revoked
  PROVE  WebInvariant'
<1>1. version \in Nat /\ version' = version + 1 /\ UNCHANGED <<access, refresh, trip, bounced>>
  BY WebSessionAssumption DEF Revoked, WebTypeOK, Versions, jar
<1>2. NoHalfSession' /\ SignedInPagesStaySignedIn' /\ RenewalsLeftWithAPair'
  BY <1>1 DEF WebInvariant, NoHalfSession, SignedInPagesStaySignedIn, RenewalsLeftWithAPair
<1>3. (refresh # None => refresh <= version)'
  BY <1>1, WebSessionAssumption DEF WebInvariant, WebTypeOK, Versions
<1>4. \A t \in Tabs : trip[t].op \in {"renew", "page", "login"} =>
        trip[t].v \in Nat /\ trip[t].v <= version
  BY TripFields, WebSessionAssumption DEF WebInvariant, TripsAreIssued, WebTypeOK, Versions
<1>5. TripsAreIssued'
  BY <1>1, <1>4 DEF TripsAreIssued
<1>6. GoodPagesHoldGoodTokens'
  BY <1>1, <1>4 DEF GoodPagesHoldGoodTokens
<1>. QED
  BY <1>2, <1>3, <1>5, <1>6 DEF WebInvariant

\* Time passes a page once, and a live token outlives that.
LEMMA TimeIsSound ==
  ASSUME WebTypeOK, WebInvariant, TimePasses
  PROVE  WebInvariant'
<1>1. UNCHANGED <<refresh, version, bounced>>
  BY DEF TimePasses
<1>2. NoHalfSession'
  BY <1>1, Ageing DEF TimePasses, WebTypeOK, WebInvariant, NoHalfSession, Fresh
<1>3. ASSUME NEW t \in Tabs
      PROVE  Sound(trip[t])'
  <2>1. trip[t] \in Trips /\ Sound(trip[t])
    BY SoundTrips DEF WebTypeOK, WebInvariant
  <2>2. CASE trip[t].op = "renew"
    <3>1. trip'[t] = Delayed(trip[t])
      BY <2>2, TimeOnTrips
    <3>2. /\ trip'[t].op = "renew" /\ trip'[t].v = trip[t].v
          /\ trip[t].token = None => trip'[t].token = None
          /\ trip[t].token # None => trip'[t].token = Older(trip[t].token)
      BY <2>1, <2>2, <3>1, DelayedTrip
    <3>3. trip[t].token # None => Older(trip[t].token).v = trip[t].token.v
      BY <2>1, <2>2, TripFields, Ageing
    <3>. QED
      BY <1>1, <2>1, <2>2, <3>2, <3>3 DEF Sound
  <2>3. CASE trip[t].op = "page"
    <3>1. trip'[t] = Delayed(trip[t])
      BY <2>3, TimeOnTrips
    <3>2. /\ trip'[t].op = "page" /\ trip'[t].v = trip[t].v /\ trip'[t].good = trip[t].good
          /\ trip'[t].aged
          /\ trip[t].token # None => trip'[t].token = Older(trip[t].token)
      BY <2>1, <2>3, <3>1, DelayedTrip
    <3>3. ~trip[t].aged
      <4>1. trip[t] # Parked
        BY <2>3 DEF Parked
      <4>2. t \in OnTheWay
        BY <4>1 DEF OnTheWay
      <4>. QED
        BY <2>3, <4>2 DEF TimePasses
    <3>4. ASSUME trip[t].good, trip[t].v = version
          PROVE  Honoured(trip'[t].token)
      <4>1. Honoured(trip[t].token) /\ Fresh(trip[t].token)
        BY <2>1, <2>3, <3>3, <3>4 DEF Sound
      <4>2. trip[t].token \in Tokens /\ trip'[t].token = Older(trip[t].token)
        BY <2>1, <2>3, <3>2, <4>1, TripFields DEF Fresh
      <4>3. Older(trip[t].token).age = "near" /\ Older(trip[t].token).v = version
        BY <4>1, <4>2, Ageing DEF Fresh, Honoured
      <4>. QED
        BY <4>2, <4>3, Ageing, NoneIsNoToken DEF Honoured
    <3>5. (trip[t].good /\ trip[t].v = version => Honoured(trip[t].token))'
      BY <1>1, <3>2, <3>4 DEF Honoured
    <3>. QED
      BY <1>1, <2>1, <2>3, <3>2, <3>5 DEF Sound
  <2>4. CASE trip[t].op \notin {"renew", "page"}
    <3>1. trip'[t] = trip[t]
      BY <2>4, TimeOnTrips
    <3>. QED
      BY <1>1, <2>1, <2>4, <3>1 DEF Sound
  <2>. QED
    BY <2>2, <2>3, <2>4
<1>4. (TripsAreIssued /\ RenewalsLeftWithAPair /\ GoodPagesHoldGoodTokens)'
  BY <1>3 DEF Sound, TripsAreIssued, RenewalsLeftWithAPair, GoodPagesHoldGoodTokens
<1>. QED
  BY <1>1, <1>2, <1>4 DEF WebInvariant, SignedInPagesStaySignedIn

LEMMA NextHolds == WebTypeOK /\ WebInvariant /\ [WebNext]_webVars => WebInvariant'
<1>. SUFFICES ASSUME WebTypeOK, WebInvariant, [WebNext]_webVars
             PROVE  WebInvariant'
  OBVIOUS
<1>1. CASE Revoked
  BY <1>1, RevocationIsSound
<1>2. CASE TimePasses
  BY <1>2, TimeIsSound
<1>3. CASE RefreshLapses
  BY <1>3 DEF RefreshLapses, ClearCookies, WebInvariant, NoHalfSession, TripsAreIssued,
       SignedInPagesStaySignedIn, RenewalsLeftWithAPair, GoodPagesHoldGoodTokens, Honoured
<1>4. ASSUME NEW t \in Tabs, Navigate(t)
      PROVE  WebInvariant'
  BY <1>4, NavigationIsSound
<1>5. ASSUME NEW t \in Tabs, Renewed(t) \/ Refused(t) \/ Unreachable(t)
      PROVE  WebInvariant'
  BY <1>5, RenewalIsSound
<1>6. ASSUME NEW t \in Tabs, Arrive(t)
      PROVE  WebInvariant'
  <2>1. trip[t] \in Trips /\ trip[t].op = "page" /\ trip[t].v <= version
    BY <1>6 DEF Arrive, WebTypeOK, WebInvariant, TripsAreIssued
  <2>2. trip[t].v \in Versions /\ trip[t].reply \in Replies
    BY <2>1, TripFields
  <2>3. SetCookies(trip[t].v) \/ ClearCookies \/ UNCHANGED jar
    BY <1>6, <2>2 DEF Arrive, Replies
  <2>4. ~bounced'
    BY <1>6 DEF Arrive, Bounces, WebInvariant, SignedInPagesStaySignedIn, GoodPagesHoldGoodTokens
  <2>. QED
    BY <1>6, <2>1, <2>2, <2>3, <2>4, ArrivalIsSound DEF Arrive
<1>7. ASSUME NEW t \in Tabs, LogInArrives(t)
      PROVE  WebInvariant'
  <2>1. trip[t].v \in Versions /\ trip[t].v <= version
    BY <1>7, TripFields DEF LogInArrives, WebTypeOK, WebInvariant, TripsAreIssued
  <2>. QED
    BY <1>7, <2>1, ArrivalIsSound DEF LogInArrives, WebInvariant, SignedInPagesStaySignedIn
<1>8. ASSUME NEW t \in Tabs, LogOutArrives(t)
      PROVE  WebInvariant'
  <2>1. version \in Versions /\ version <= version
    BY WebSessionAssumption DEF WebTypeOK, Versions
  <2>. QED
    BY <1>8, <2>1, ArrivalIsSound DEF LogOutArrives, WebInvariant, SignedInPagesStaySignedIn
<1>9. ASSUME NEW t \in Tabs, LogIn(t) \/ LogInFails(t) \/ LogOut(t)
      PROVE  WebInvariant'
  <2>1. PICK c \in {Parked, [op |-> "login", v |-> version], [op |-> "logout"]} :
          Leave(t, c) \/ GoOnTo(t, c)
    BY <1>9 DEF LogIn, LogInFails, LogOut
  <2>2. c \in Trips /\ version <= version
    BY WebSessionAssumption DEF Trips, WebTypeOK, Versions
  <2>3. Sound(c)
    BY <2>2 DEF Sound, Parked
  <2>. QED
    BY <2>1, <2>2, <2>3, LeaveHolds
<1>10. CASE UNCHANGED webVars
  BY <1>10 DEF webVars, jar, WebInvariant, NoHalfSession, TripsAreIssued,
       SignedInPagesStaySignedIn, RenewalsLeftWithAPair, GoodPagesHoldGoodTokens, Honoured
<1>. QED
  BY <1>1, <1>2, <1>3, <1>4, <1>5, <1>6, <1>7, <1>8, <1>9, <1>10 DEF WebNext

\* The cookies are a pair, trips know what was issued, and a page handed a
\* token by a session that is honoured gets in with it (middleware).
THEOREM WebInvariantHolds == WebSpec => []WebInvariant
BY WebTypeCorrect, InitHolds, NextHolds, PTL DEF WebSpec

\* There is never an access token without its refresh token (middleware,
\* auth-cookies).
THEOREM SessionsAreWhole == WebSpec => []NoHalfSession
<1>1. WebInvariant => NoHalfSession
  BY DEF WebInvariant
<1>. QED
  BY <1>1, WebInvariantHolds, PTL

\* Whoever may renew when a page is asked for is signed in when it renders
\* (middleware, getCurrentUser).
THEOREM NobodyIsBounced == WebSpec => []SignedInPagesStaySignedIn
<1>1. WebInvariant => SignedInPagesStaySignedIn
  BY DEF WebInvariant
<1>. QED
  BY <1>1, WebInvariantHolds, PTL
-----------------------------------------------------------------------------
(* One request at a time *)

\* What Uncrossed says of one trip of a visitor who has signed out.
BringsNothing(c) == c.op # "renew" /\ (c.op = "page" => c.reply # "set")

LEMMA LeaveUncrossed ==
  ASSUME WebTypeOK, Uncrossed, NEW t \in Tabs, NEW c \in Trips, Leave(t, c),
         meant = "out" /\ access = None /\ refresh = None => BringsNothing(c)
  PROVE  Uncrossed'
<1>. SUFFICES ASSUME ~crossed'
             PROVE  Uncrossed'
  BY DEF Uncrossed
<1>1. ~crossed /\ \A s \in Tabs : trip[s] = Parked
  BY DEF Leave, OnTheWay, WebTypeOK
<1>2. \A s \in Tabs : trip'[s] = IF s = t THEN c ELSE Parked
  BY <1>1 DEF Leave, WebTypeOK
<1>3. UNCHANGED <<access, refresh, meant>>
  BY DEF Leave, jar
<1>4. BringsNothing(Parked)
  BY DEF BringsNothing, Parked
<1>5. meant = "out" => access = None /\ refresh = None /\ BringsNothing(c)
  BY <1>1 DEF Uncrossed
<1>. QED
  BY <1>2, <1>3, <1>4, <1>5 DEF Uncrossed, BringsNothing

\* A request on its way goes on or is answered.
LEMMA TurnUncrossed ==
  ASSUME WebTypeOK, Uncrossed, NEW t \in Tabs, NEW c, trip[t] # Parked,
         trip' = [trip EXCEPT ![t] = c], crossed' = crossed,
         ~crossed /\ meant' = "out" => access' = None /\ refresh' = None /\ BringsNothing(c)
  PROVE  Uncrossed'
<1>. SUFFICES ASSUME ~crossed
             PROVE  Uncrossed'
  BY DEF Uncrossed
<1>1. \A s \in Tabs \ {t} : trip[s] = Parked
  BY DEF Uncrossed
<1>2. \A s \in Tabs : trip'[s] = IF s = t THEN c ELSE Parked
  BY <1>1 DEF WebTypeOK
<1>3. BringsNothing(Parked)
  BY DEF BringsNothing, Parked
<1>. QED
  BY <1>2, <1>3 DEF Uncrossed, BringsNothing

LEMMA TimeUncrossed ==
  ASSUME WebTypeOK, Uncrossed, TimePasses
  PROVE  Uncrossed'
<1>. SUFFICES ASSUME ~crossed
             PROVE  Uncrossed'
  BY DEF Uncrossed, TimePasses
<1>1. \A t \in Tabs : trip[t] = Parked => trip'[t] = Parked
  BY TimeOnTrips DEF Parked
<1>2. \A t \in Tabs : BringsNothing(trip[t]) => BringsNothing(trip'[t])
  <2>. SUFFICES ASSUME NEW t \in Tabs, BringsNothing(trip[t])
               PROVE  BringsNothing(trip'[t])
    OBVIOUS
  <2>1. trip[t] \in Trips /\ trip'[t].op = trip[t].op
    BY TimeOnTrips DEF WebTypeOK
  <2>2. CASE trip[t].op = "page"
    <3>1. trip'[t] = Delayed(trip[t])
      BY <2>2, TimeOnTrips
    <3>2. trip'[t].reply = trip[t].reply
      BY <2>1, <2>2, <3>1, DelayedTrip
    <3>. QED
      BY <2>1, <3>2 DEF BringsNothing
  <2>. QED
    BY <2>1, <2>2 DEF BringsNothing
<1>3. meant = "out" => access' = None /\ refresh' = None
  BY DEF Uncrossed, TimePasses, Fresh
<1>4. meant' = meant
  BY DEF TimePasses
<1>5. \A s, t \in Tabs : s # t => trip'[s] = Parked \/ trip'[t] = Parked
  BY <1>1 DEF Uncrossed
<1>6. meant = "out" => \A t \in Tabs : BringsNothing(trip'[t])
  BY <1>2 DEF Uncrossed, BringsNothing
<1>. QED
  BY <1>3, <1>4, <1>5, <1>6 DEF Uncrossed, BringsNothing

LEMMA InitUncrossed == WebInit => Uncrossed
BY DEF WebInit, Uncrossed, Parked

LEMMA NextUncrossed == WebTypeOK /\ Uncrossed /\ [WebNext]_webVars => Uncrossed'
<1>. SUFFICES ASSUME WebTypeOK, Uncrossed, [WebNext]_webVars
             PROVE  Uncrossed'
  OBVIOUS
<1>0. BringsNothing(Parked)
  BY DEF BringsNothing, Parked
<1>1. CASE Revoked
  BY <1>1 DEF Revoked, jar, Uncrossed
<1>2. CASE TimePasses
  BY <1>2, TimeUncrossed
<1>3. CASE RefreshLapses
  BY <1>3 DEF RefreshLapses, ClearCookies, Uncrossed
<1>4. ASSUME NEW t \in Tabs, Navigate(t)
      PROVE  Uncrossed'
  <2>1. PICK c \in Trips : Leave(t, c) /\ (refresh = None => BringsNothing(c))
    <3>1. PICK c \in Trips :
            /\ Leave(t, c)
            /\ \/ /\ c = [op |-> "page", token |-> access, good |-> (refresh = version),
                          aged |-> FALSE, reply |-> "keep", v |-> version]
                  /\ refresh = None \/ Fresh(access)
               \/ /\ c = [op |-> "renew", token |-> access, v |-> refresh,
                          good |-> (refresh = version), aged |-> FALSE]
                  /\ refresh # None
      BY <1>4, NavigateLeaves
    <3>2. refresh = None => c.op = "page" /\ c.reply = "keep"
      BY <3>1
    <3>. QED
      BY <3>1, <3>2 DEF BringsNothing
  <2>. QED
    BY <2>1, LeaveUncrossed
<1>5. ASSUME NEW t \in Tabs, Renewed(t) \/ Refused(t) \/ Unreachable(t)
      PROVE  Uncrossed'
  <2>1. trip[t].op = "renew" /\ trip[t] # Parked
    BY <1>5, RenewalGoesOn DEF Parked
  <2>2. PICK c \in Trips : GoOnTo(t, c)
    BY <1>5, RenewalGoesOn
  <2>3. ~crossed => meant # "out"
    BY <2>1 DEF Uncrossed
  <2>. QED
    BY <2>1, <2>2, <2>3, TurnUncrossed DEF GoOnTo
<1>6. ASSUME NEW t \in Tabs, Arrive(t)
      PROVE  Uncrossed'
  <2>1. trip[t] \in Trips /\ trip[t].op = "page" /\ trip[t] # Parked
    BY <1>6 DEF Arrive, WebTypeOK, Parked
  <2>2. trip[t].reply \in Replies
    BY <2>1, TripFields
  <2>3. CASE ~crossed /\ meant = "out"
    <3>1. access = None /\ refresh = None /\ trip[t].reply # "set"
      BY <2>1, <2>3 DEF Uncrossed
    <3>2. ClearCookies \/ UNCHANGED jar
      BY <1>6, <2>2, <3>1 DEF Arrive, Replies
    <3>3. access' = None /\ refresh' = None
      BY <3>1, <3>2 DEF ClearCookies, jar
    <3>. QED
      BY <1>0, <1>6, <2>1, <3>3, TurnUncrossed DEF Arrive
  <2>4. CASE ~(~crossed /\ meant = "out")
    BY <1>0, <1>6, <2>1, <2>4, TurnUncrossed DEF Arrive
  <2>. QED
    BY <2>3, <2>4
<1>7. ASSUME NEW t \in Tabs, LogInArrives(t) \/ LogOutArrives(t) \/ LogInFails(t)
      PROVE  Uncrossed'
  <2>1. trip[t] # Parked
    BY <1>7 DEF LogInArrives, LogOutArrives, LogInFails, Parked
  <2>2. /\ trip' = [trip EXCEPT ![t] = Parked]
        /\ crossed' = crossed
        /\ ~crossed /\ meant' = "out" => access' = None /\ refresh' = None
    BY <1>7 DEF LogInArrives, LogOutArrives, LogInFails, GoOnTo, jar, ClearCookies, Uncrossed
  <2>. QED
    BY <1>0, <2>1, <2>2, TurnUncrossed
<1>8. ASSUME NEW t \in Tabs, LogIn(t) \/ LogOut(t)
      PROVE  Uncrossed'
  <2>1. PICK c \in {[op |-> "login", v |-> version], [op |-> "logout"]} : Leave(t, c)
    BY <1>8 DEF LogIn, LogOut
  <2>2. c \in Trips /\ BringsNothing(c)
    BY DEF Trips, BringsNothing, WebTypeOK
  <2>. QED
    BY <2>1, <2>2, LeaveUncrossed
<1>9. CASE UNCHANGED webVars
  BY <1>9 DEF webVars, jar, Uncrossed
<1>. QED
  BY <1>1, <1>2, <1>3, <1>4, <1>5, <1>6, <1>7, <1>8, <1>9 DEF WebNext

\* Once signed out, signed out, as long as no two requests overlap (the
\* logout route, middleware).
THEOREM SignedOutForGood == WebSpec => []SignedOutStaysOut
<1>1. Uncrossed => SignedOutStaysOut
  BY DEF Uncrossed, SignedOutStaysOut
<1>. QED
  BY <1>1, WebTypeCorrect, InitUncrossed, NextUncrossed, PTL DEF WebSpec
=============================================================================
