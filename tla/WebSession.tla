---------------------------- MODULE WebSession ----------------------------
(***************************************************************************)
(* The session a browser keeps in two cookies: the middleware that renews  *)
(* it, the sign-in and sign-out route handlers and the pages that read it. *)
(*                                                                         *)
(* The tabs share the cookies, and each may have one request on its way:   *)
(* the cookies are read when it leaves and written when its answer         *)
(* arrives.  The API is external: it honours a token of the account's      *)
(* current version (see Accounts) and may fail or not be reached.          *)
(*                                                                         *)
(* An operator marked "Variant" is a plausible bug in the operator after   *)
(* it, kept to show which property would find it.                          *)
(***************************************************************************)
EXTENDS Naturals

CONSTANTS
  Tabs,        \* requests a browser has on their way at once
  MaxVersion,  \* revocations are counted up to here
  None         \* no cookie

VARIABLES
  \* the cookie jar
  access, refresh,
  \* the version of the tokens the API honours
  version,
  \* requests on their way
  trip,
  \* history: the visitor's last word; did two requests overlap; did a page
  \* take a signed-in visitor for a stranger
  meant, crossed, bounced

jar == <<access, refresh>>
webVars == <<jar, version, trip, meant, crossed, bounced>>
-----------------------------------------------------------------------------
Versions == 0..MaxVersion

\* An access token has more than RENEW_WINDOW to live, less, or nothing; its
\* cookie lapses with it.
Tokens == [age : {"live", "near", "dead"}, v : Versions]

ASSUME WebSessionAssumption ==
  /\ MaxVersion \in Nat
  /\ None \notin Versions \cup Tokens

Older(token) == [token EXCEPT !.age = IF @ = "live" THEN "near" ELSE "dead"]

\* What an answer does to the cookies.
Replies == {"keep", "set", "clear"}

Parked == [op |-> "parked"]

\* A navigation waits for its renewal and then for its page; it knows the
\* cookies it left with.  "good": its refresh token was honoured when it left
\* and the API did not fail it.  "aged": time has passed since it left.
Trips ==
  {Parked}
    \cup [op : {"renew"}, token : Tokens \cup {None}, v : Versions, good : BOOLEAN, aged : BOOLEAN]
    \cup [op : {"page"}, token : Tokens \cup {None}, good : BOOLEAN, aged : BOOLEAN,
          reply : Replies, v : Versions]
    \cup [op : {"login"}, v : Versions]
    \cup [op : {"logout"}]

WebTypeOK ==
  /\ access \in Tokens \cup {None}
  /\ refresh \in Versions \cup {None}
  /\ version \in Versions
  /\ trip \in [Tabs -> Trips]
  /\ meant \in {"in", "out"}
  /\ crossed \in BOOLEAN
  /\ bounced \in BOOLEAN

WebInit ==
  /\ access = None
  /\ refresh = None
  /\ version = 0
  /\ trip = [t \in Tabs |-> Parked]
  /\ meant = "out"
  /\ crossed = FALSE
  /\ bounced = FALSE
-----------------------------------------------------------------------------
OnTheWay == {t \in Tabs : trip[t] # Parked}

Leave(t, c) ==
  /\ trip[t] = Parked
  /\ trip' = [trip EXCEPT ![t] = c]
  /\ crossed' = (crossed \/ OnTheWay # {})
  /\ UNCHANGED <<jar, version, meant, bounced>>

GoOnTo(t, c) ==
  /\ trip' = [trip EXCEPT ![t] = c]
  /\ UNCHANGED <<jar, version, meant, crossed, bounced>>

SetCookies(v) == access' = [age |-> "live", v |-> v] /\ refresh' = v

ClearCookies == access' = None /\ refresh' = None

Fresh(token) == token # None /\ token.age = "live"

\* The API's answer to the token a page presents.
Honoured(token) == token # None /\ token.age # "dead" /\ token.v = version
-----------------------------------------------------------------------------
(* middleware *)

\* Variant: renew only what has lapsed.
NavigateLate(t) ==
  LET good == refresh = version
      page == [op |-> "page", token |-> access, good |-> good, aged |-> FALSE,
               reply |-> "keep", v |-> version]
  IN  IF refresh = None \/ access # None
        THEN Leave(t, page)
        ELSE Leave(t, [op |-> "renew", token |-> access, v |-> refresh, good |-> good,
                       aged |-> FALSE])

\* Nothing to renew from, or a token with life in it: go on to the page.
Navigate(t) ==
  LET good == refresh = version
      page == [op |-> "page", token |-> access, good |-> good, aged |-> FALSE,
               reply |-> "keep", v |-> version]
  IN  IF refresh = None \/ Fresh(access)
        THEN Leave(t, page)
        ELSE Leave(t, [op |-> "renew", token |-> access, v |-> refresh, good |-> good,
                       aged |-> FALSE])

\* The page renders with the token it is handed.
Page(t, token, good, reply) ==
  GoOnTo(t, [op |-> "page", token |-> token, good |-> good, aged |-> trip[t].aged,
             reply |-> reply, v |-> trip[t].v])

\* AuthService.refresh honours the token; the fresh one goes into this very
\* request, and both into the answer's cookies.
Renewed(t) ==
  /\ trip[t].op = "renew"
  /\ trip[t].v = version
  /\ Page(t, [age |-> "live", v |-> version], trip[t].good, "set")

\* Any answer but a success, the failure of the API itself included, clears
\* both cookies; the page renders with those the request came with.
Refused(t) ==
  /\ trip[t].op = "renew"
  /\ Page(t, trip[t].token, FALSE, "clear")

Unreachable(t) ==
  /\ trip[t].op = "renew"
  /\ Page(t, trip[t].token, FALSE, "keep")

\* A page that takes a visitor whose session is still honoured for a stranger.
Bounces(page) == page.good /\ page.v = version /\ ~Honoured(page.token)

\* Variant: a refused renewal leaves the access cookie to lapse.
ArriveKeepingAccess(t) ==
  /\ trip[t].op = "page"
  /\ bounced' = (bounced \/ Bounces(trip[t]))
  /\ CASE trip[t].reply = "set"   -> SetCookies(trip[t].v)
       [] trip[t].reply = "clear" -> refresh' = None /\ UNCHANGED access
       [] trip[t].reply = "keep"  -> UNCHANGED jar
  /\ trip' = [trip EXCEPT ![t] = Parked]
  /\ UNCHANGED <<version, meant, crossed>>

\* The page asks the API who is there (getCurrentUser), and the answer
\* arrives with its cookies.
Arrive(t) ==
  /\ trip[t].op = "page"
  /\ bounced' = (bounced \/ Bounces(trip[t]))
  /\ CASE trip[t].reply = "set"   -> SetCookies(trip[t].v)
       [] trip[t].reply = "clear" -> ClearCookies
       [] trip[t].reply = "keep"  -> UNCHANGED jar
  /\ trip' = [trip EXCEPT ![t] = Parked]
  /\ UNCHANGED <<version, meant, crossed>>
-----------------------------------------------------------------------------
(* The route handlers for signing in and out *)

\* Login, registration and Google's callback: the API issues both tokens.
LogIn(t) == Leave(t, [op |-> "login", v |-> version])

LogInArrives(t) ==
  /\ trip[t].op = "login"
  /\ SetCookies(trip[t].v)
  /\ meant' = "in"
  /\ trip' = [trip EXCEPT ![t] = Parked]
  /\ UNCHANGED <<version, crossed, bounced>>

\* Wrong credentials, a cancelled consent or a failure of the API.
LogInFails(t) ==
  /\ trip[t].op = "login"
  /\ GoOnTo(t, Parked)

\* Logout: the API is not told, the cookies are deleted.
LogOut(t) == Leave(t, [op |-> "logout"])

\* Variant: only the access cookie is deleted.
LogOutKeepsRefresh(t) ==
  /\ trip[t].op = "logout"
  /\ access' = None
  /\ meant' = "out"
  /\ trip' = [trip EXCEPT ![t] = Parked]
  /\ UNCHANGED <<refresh, version, crossed, bounced>>

LogOutArrives(t) ==
  /\ trip[t].op = "logout"
  /\ ClearCookies
  /\ meant' = "out"
  /\ trip' = [trip EXCEPT ![t] = Parked]
  /\ UNCHANGED <<version, crossed, bounced>>
-----------------------------------------------------------------------------
(* The API and time *)

\* A forced sign-out, a suspension or a role change raises tokenVersion.
Revoked ==
  /\ version < MaxVersion
  /\ version' = version + 1
  /\ UNCHANGED <<jar, trip, meant, crossed, bounced>>

\* A request is answered within RENEW_WINDOW: time passes it once at most.
TimePasses ==
  /\ \A t \in OnTheWay : trip[t].op \in {"renew", "page"} => ~trip[t].aged
  /\ access' = IF Fresh(access) THEN Older(access) ELSE None
  /\ trip' = [t \in Tabs |->
       IF trip[t].op \in {"renew", "page"}
         THEN [trip[t] EXCEPT !.aged = TRUE,
                              !.token = IF @ = None THEN None ELSE Older(@)]
         ELSE trip[t]]
  /\ UNCHANGED <<refresh, version, meant, crossed, bounced>>

\* A week without a visit.
RefreshLapses ==
  /\ OnTheWay = {}
  /\ ClearCookies
  /\ UNCHANGED <<version, trip, meant, crossed, bounced>>

WebNext ==
  \/ Revoked \/ TimePasses \/ RefreshLapses
  \/ \E t \in Tabs :
       \/ Navigate(t) \/ Renewed(t) \/ Refused(t) \/ Unreachable(t) \/ Arrive(t)
       \/ LogIn(t) \/ LogInArrives(t) \/ LogInFails(t) \/ LogOut(t) \/ LogOutArrives(t)

WebSpec == WebInit /\ [][WebNext]_webVars
-----------------------------------------------------------------------------
(* What holds however the tabs' requests overlap *)

\* There is never half a session: no access token without the refresh token
\* it was issued with (middleware, "a session that half works").
NoHalfSession == access # None => refresh = access.v

\* Whoever may renew when a page is asked for is signed in when it renders,
\* however old the access token was: "a signed-in user simply appeared logged
\* out" is what the middleware is there to prevent.
SignedInPagesStaySignedIn == ~bounced
-----------------------------------------------------------------------------
(* What holds as long as no two requests overlap *)

\* Once signed out, signed out: no later page or renewal brings the session
\* back (the logout route).
SignedOutStaysOut == ~crossed /\ meant = "out" => access = None /\ refresh = None
-----------------------------------------------------------------------------
(* Invariants the proofs rest on *)

\* What a trip knows was issued by the time.
TripsAreIssued ==
  \A t \in Tabs : trip[t].op \in {"renew", "page", "login"} => trip[t].v <= version

\* Who left with both cookies left with a pair.
RenewalsLeftWithAPair ==
  \A t \in Tabs :
    trip[t].op = "renew" /\ trip[t].token # None => trip[t].token.v = trip[t].v

\* A token handed to a page whose session is honoured outlives the page.
GoodPagesHoldGoodTokens ==
  \A t \in Tabs :
    trip[t].op = "page" /\ trip[t].good /\ trip[t].v = version =>
      /\ Honoured(trip[t].token)
      /\ ~trip[t].aged => Fresh(trip[t].token)

WebInvariant ==
  /\ NoHalfSession
  /\ SignedInPagesStaySignedIn
  /\ refresh # None => refresh <= version
  /\ TripsAreIssued
  /\ RenewalsLeftWithAPair
  /\ GoodPagesHoldGoodTokens

\* Of requests that never overlapped one at most is on its way, and once
\* signed out none brings a session.
Uncrossed ==
  ~crossed =>
    /\ \A s, t \in Tabs : s # t => trip[s] = Parked \/ trip[t] = Parked
    /\ meant = "out" =>
         /\ access = None /\ refresh = None
         /\ \A t \in Tabs : trip[t].op # "renew" /\ (trip[t].op = "page" => trip[t].reply # "set")
-----------------------------------------------------------------------------
(* What the code does not do *)

\* "The refresh token is spent or revoked - clear both" (middleware): a
\* session that is still honoured is not cleared, if no other tab interferes.
ClearsOnlyTheRevoked ==
  [][\A t \in Tabs :
       ~crossed /\ trip[t].op = "page" /\ trip'[t] = Parked /\ refresh # None /\ refresh' = None
         => refresh # version]_jar
=============================================================================
