----------------------------- MODULE WebSession -----------------------------
(***************************************************************************)
(* The web application's session: the two cookies its proxy keeps, the     *)
(* middleware and the layout that send a tab to the login form or to the   *)
(* application, composed with the sessions of the core service.  Requests  *)
(* without a tab are those of other clients of the API.                    *)
(*                                                                         *)
(* A browser that loads a page gives up, with an error, after so many      *)
(* redirects; the application's router, whose navigations start with a     *)
(* link or a push, is told by the page itself where to go, and does not    *)
(* count.                                                                  *)
(***************************************************************************)
EXTENDS Sessions

CONSTANTS
  Tabs,         \* the tabs of one browser
  NoTab,        \* "another client"
  AccessTtl,    \* expiresIn, which is also the max-age of the access cookie
  RefreshAge,   \* the max-age of the refresh cookie: seven days
  MaxRedirects  \* redirects that the browser follows to load a page

ASSUME WebAssumption ==
  /\ NoTab \notin Tabs
  /\ AccessTtl \in Nat \ {0}
  /\ RefreshAge \in Nat \ {0}
  /\ MaxRedirects \in Nat

VARIABLES
  cookie,       \* the session the cookies are of and how long each one lives
  page,         \* what each tab shows, or where it is being sent
  hops,         \* redirects that each tab has followed
  tab,          \* the tab that waits for each request
  signedOut     \* history: sessions whose logout the browser was told of

web == <<cookie, page, hops, tab, signedOut>>
webVars == <<vars, web>>

Routed == -1
NoCookie == [s |-> NoSession, access |-> 0, refresh |-> 0]

WebInit ==
  /\ Init
  /\ cookie = NoCookie
  /\ page = [t \in Tabs |-> "goto-app"]
  /\ hops = [t \in Tabs |-> 0]
  /\ tab = [r \in Requests |-> NoTab]
  /\ signedOut = {}

Navigate(t, where, n) == page' = [page EXCEPT ![t] = where] /\ hops' = [hops EXCEPT ![t] = n]
Show(t, where) == Navigate(t, where, 0)
Push(t, where) == Navigate(t, where, Routed)
Redirect(t, where) ==
  IF hops[t] = MaxRedirects THEN Show(t, "error")
  ELSE Navigate(t, where, IF hops[t] = Routed THEN Routed ELSE hops[t] + 1)

-----------------------------------------------------------------------------
(* Navigation.                                                             *)

\* The user loads a page, or follows a link in the application.
Visit(t) ==
  /\ page[t] \in {"login", "app", "error"}
  /\ \/ \E where \in {"goto-login", "goto-app"} : Show(t, where)
     \/ page[t] = "app" /\ Push(t, "goto-app")
  /\ UNCHANGED <<vars, cookie, tab, signedOut>>

\* "/" goes where the cookies say, which is a redirect too.
VisitRoot(t) ==
  /\ page[t] \in {"login", "app", "error"}
  /\ Redirect(t, IF cookie.access > 0 /\ cookie.refresh > 0
                 THEN "goto-app" ELSE "goto-login")
  /\ UNCHANGED <<vars, cookie, tab, signedOut>>

\* The middleware sends a tab that has an access cookie away from the form.
AtLogin(t) ==
  /\ page[t] = "goto-login"
  /\ IF cookie.access > 0 THEN Redirect(t, "goto-app") ELSE Show(t, "login")
  /\ UNCHANGED <<vars, cookie, tab, signedOut>>

\* The middleware and the layout send it back without the cookies, without
\* the session, and whenever reading the user or the organisation fails.
AtApp(t) ==
  /\ page[t] = "goto-app"
  /\ \/ /\ cookie.access > 0 /\ cookie.refresh > 0 /\ Live(cookie.s)
        /\ Show(t, "app")
     \/ Redirect(t, "goto-login")
  /\ UNCHANGED <<vars, cookie, tab, signedOut>>

-----------------------------------------------------------------------------
(* Calls through the proxy.                                                *)

\* The form waits for its answer; the button is disabled meanwhile.
SubmitLogin(t, r, u, s) ==
  /\ page[t] = "login"
  /\ Login(r, u, s)
  /\ tab' = [tab EXCEPT ![r] = t]
  /\ Show(t, "wait")
  /\ UNCHANGED <<cookie, signedOut>>

\* The proxy turns the tokens into cookies; the form opens the application.
LoginAnswered(r) ==
  /\ tab[r] # NoTab
  /\ Answer(r)
  /\ cookie' = [s |-> request[r].s, access |-> AccessTtl, refresh |-> RefreshAge]
  /\ Push(tab[r], "goto-app")
  /\ tab' = [tab EXCEPT ![r] = NoTab]
  /\ UNCHANGED signedOut

SignOut(t, r) ==
  /\ page[t] = "app"
  /\ cookie.access > 0
  /\ Logout(r, cookie.s)
  /\ tab' = [tab EXCEPT ![r] = t]
  /\ Show(t, "wait")
  /\ UNCHANGED <<cookie, signedOut>>

\* The guard refuses a call without a live session: the cookies stay, and the
\* tab goes to the login form all the same.
SignOutRefused(t) ==
  /\ page[t] = "app"
  /\ ~(cookie.access > 0 /\ Live(cookie.s))
  /\ Push(t, "goto-login")
  /\ UNCHANGED <<vars, cookie, tab, signedOut>>

\* Mutant: the proxy leaves the cookies.
SignOutAnswered_KeepsCookies(r) ==
  /\ tab[r] # NoTab
  /\ Revoked(r)
  /\ signedOut' = signedOut \cup {request[r].s}
  /\ Push(tab[r], "goto-login")
  /\ tab' = [tab EXCEPT ![r] = NoTab]
  /\ UNCHANGED cookie

SignOutAnswered(r) ==
  /\ tab[r] # NoTab
  /\ Revoked(r)
  /\ cookie' = NoCookie
  /\ signedOut' = signedOut \cup {request[r].s}
  /\ Push(tab[r], "goto-login")
  /\ tab' = [tab EXCEPT ![r] = NoTab]

-----------------------------------------------------------------------------
(* The other clients, the clock, and a stop of the core service.           *)

OtherClient(r) ==
  /\ \/ Start(r)
     \/ /\ tab[r] = NoTab
        /\ Answer(r) \/ Revoked(r)
  /\ UNCHANGED web

Server(r) == Work(r) /\ UNCHANGED web

\* Mutant: a cookie without a max-age.
WebTick_SessionCookie ==
  /\ Tick
  /\ UNCHANGED web

WebTick ==
  /\ Tick
  /\ cookie' = IF cookie.access <= 1 /\ cookie.refresh <= 1 THEN NoCookie
               ELSE [cookie EXCEPT !.access = IF @ > 0 THEN @ - 1 ELSE 0,
                                   !.refresh = IF @ > 0 THEN @ - 1 ELSE 0]
  /\ UNCHANGED <<page, hops, tab, signedOut>>

\* A tab that waits gets an error: the form stays, the topbar moves on.
WebCrash ==
  /\ Crash
  /\ \E error \in [{t \in Tabs : page[t] = "wait"} -> {"login", "goto-login"}] :
       /\ page' = [t \in Tabs |-> IF page[t] = "wait" THEN error[t] ELSE page[t]]
       /\ hops' = [t \in Tabs |-> IF page'[t] = "goto-login" /\ page[t] = "wait" THEN Routed
                                ELSE hops[t]]
  /\ tab' = [r \in Requests |-> NoTab]
  /\ UNCHANGED <<cookie, signedOut>>

Follow(t) == AtLogin(t) \/ AtApp(t)

WebNext ==
  \/ \E t \in Tabs : Visit(t) \/ VisitRoot(t) \/ Follow(t) \/ SignOutRefused(t)
  \/ \E t \in Tabs, r \in Requests :
       \/ SignOut(t, r)
       \/ \E u \in Users, s \in Session : SubmitLogin(t, r, u, s)
  \/ \E r \in Requests :
       LoginAnswered(r) \/ SignOutAnswered(r) \/ OtherClient(r) \/ Server(r)
  \/ WebTick
  \/ WebCrash

\* Requests go on, the browser follows redirects up to its limit, the router
\* those of the pages, and time passes.  Users and other clients need not act.
WebSpec ==
  /\ WebInit
  /\ [][WebNext]_webVars
  /\ \A r \in Requests :
       WF_webVars(Server(r) \/ LoginAnswered(r) \/ SignOutAnswered(r))
  /\ \A t \in Tabs : WF_webVars(Follow(t))
  /\ SF_webVars(WebTick)

-----------------------------------------------------------------------------
(* Properties.                                                             *)

\* Once the browser was told that it is signed out, the server has ended that
\* session and no cookie is of it, whatever the other tabs had under way
\* (proxy: only a successful logout deletes the cookies).
SignedOutForGood ==
  \A s \in signedOut : s \in ended /\ cookie.s # s

\* The middleware and the layout may send a tab to and fro while the access
\* cookie outlives its session, but not for ever: the tab ends up at the login
\* form or in the application, or, when it loaded the page, at the browser's
\* error for too many redirects (middleware, AppLayout).
RedirectsEnd ==
  \A t \in Tabs : (page[t] \in {"goto-login", "goto-app"}) ~>
                  (page[t] \in {"login", "app", "wait", "error"})
=============================================================================
