------------------------------ MODULE WebSession ------------------------------
(***************************************************************************)
(* Who the web panel believes is signed in: the store of auth-store.ts,    *)
(* the components that read it (AuthProvider, AuthBoundary, AppShell), the *)
(* login page, and the proxy in front of the pages.                        *)
(*                                                                         *)
(* The module follows one tab of a browser.  Other tabs have stores of     *)
(* their own, and reach this one through the cookie they share.  A request *)
(* carries the cookie of the moment it is sent, is served at some later    *)
(* moment, and its answer, with the cookie it sets or clears, arrives      *)
(* later still or never.                                                   *)
(*                                                                         *)
(* Of the API only the sessions are kept: issued by a login, over by a     *)
(* logout, a revocation or their age.                                      *)
(***************************************************************************)
EXTENDS Naturals

CONSTANTS Session,   \* bound: the sessions that the logins may issue
          None

ASSUME WebSessionAssumption == None \notin Session

VARIABLES
  sessions,  \* the sessions table
  cookie,    \* nr_session of the browser
  tab        \* what the tab shows, and the requests it waits for

webVars == <<sessions, cookie, tab>>

------------------------------------------------------------------------------
Maybe == Session \cup {None}
AuthStatus == {"loading", "authenticated", "unauthenticated", "error"}

\* A call of /auth/me, with the cookie it carries.
Ask == [carries : Maybe, answer : {"none", "user", "401"}]

\* A login or a logout that the tab waits for.  A login that was served
\* holds the session it was given.
Post == [kind : {"none", "login", "logout"}, session : Maybe, answer : {"none", "ok", "refused"}]
NoPost == [kind |-> "none", session |-> None, answer |-> "none"]

\* `active' is activeRequest, `asks' the calls of /auth/me in flight,
\* `awaiting' a login that waits for refreshAuth.  `same' and `joined' are for
\* a property: the cookie has not changed since the panel was mounted, which
\* found a call already in flight.
TabState == [page : {"login", "panel"}, status : AuthStatus, user : Maybe,
             active : BOOLEAN, asks : SUBSET Ask, post : Post, awaiting : BOOLEAN, same : BOOLEAN, joined : BOOLEAN]

\* The store of a page that was just loaded.
Loaded == [page |-> "login", status |-> "loading", user |-> None, active |-> FALSE, asks |-> {},
           post |-> NoPost, awaiting |-> FALSE, same |-> FALSE, joined |-> FALSE]

Emit(w, status, user) == [w EXCEPT !.status = status, !.user = user]
Become(w) == tab' = w

\* The browser stores a cookie or drops it.
SetCookie(value, w) ==
  /\ cookie' = value
  /\ tab' = [w EXCEPT !.same = @ /\ value = cookie]

\* Mutant: without the test of activeRequest.
RefreshedAgain(w, c) ==
  [Emit(w, "loading", None) EXCEPT !.active = TRUE, !.asks = @ \cup {[carries |-> c, answer |-> "none"]}]

\* refreshAuth with the cookie c: a call that is in flight is joined.
Refreshed(w, c) ==
  IF w.active THEN w
  ELSE [Emit(w, "loading", None) EXCEPT !.active = TRUE, !.asks = @ \cup {[carries |-> c, answer |-> "none"]}]

\* The effects at the mount of the panel: AuthBoundary's, of the state that the
\* store is in, and then AuthProvider's.
Mounted(w) ==
  Refreshed([w EXCEPT !.page = IF w.status = "unauthenticated" THEN "login" ELSE "panel",
                      !.same = TRUE, !.joined = w.active], cookie)

\* The proxy sends a browser without the cookie to /login.
Proxied(w) == IF cookie = None THEN [w EXCEPT !.page = "login"] ELSE Mounted(w)

------------------------------------------------------------------------------
(* Navigation *)

\* A page is loaded; the calls of the one before are given up.
Load ==
  /\ tab.post = NoPost
  /\ \E page \in {"login", "panel"} : Become(IF page = "login" THEN Loaded ELSE Proxied(Loaded))
  /\ UNCHANGED <<sessions, cookie>>

\* A step in the browser's history, inside the application: the router keeps
\* the pages it has shown, and does not ask the proxy for them again.
Return ==
  /\ Become(IF tab.page = "panel" THEN [tab EXCEPT !.page = "login"] ELSE Mounted(tab))
  /\ UNCHANGED <<sessions, cookie>>

\* Mutant: the cookie stands for the session.
BoundaryOnCookie ==
  /\ tab.page = "panel" /\ tab.status = "unauthenticated" /\ cookie = None
  /\ Become([tab EXCEPT !.page = "login"])
  /\ UNCHANGED <<sessions, cookie>>

\* AuthBoundary's effect
Boundary ==
  /\ tab.page = "panel" /\ tab.status = "unauthenticated"
  /\ Become([tab EXCEPT !.page = "login"])
  /\ UNCHANGED <<sessions, cookie>>

\* The button of the error page, and what follows a change of the user name.
Retry ==
  /\ tab.page = "panel" /\ tab.status \in {"error", "authenticated"}
  /\ Become(Refreshed(tab, cookie))
  /\ UNCHANGED <<sessions, cookie>>

------------------------------------------------------------------------------
(* The calls of /auth/me *)

Serve ==
  /\ \E a \in tab.asks :
       /\ a.answer = "none"
       /\ LET alive == a.carries # None /\ sessions[a.carries] = "alive" IN
          Become([tab EXCEPT !.asks = (@ \ {a}) \cup
                       {[a EXCEPT !.answer = IF alive THEN "user" ELSE "401"]}])
  /\ UNCHANGED <<sessions, cookie>>

\* Mutant: activeRequest is never reset.
OverKept(a) == [tab EXCEPT !.asks = @ \ {a}]

\* The `finally' of refreshAuth
Over(a) == [tab EXCEPT !.active = FALSE, !.asks = @ \ {a}]

\* `then', and `catch' for a 401
Answer ==
  /\ \E a \in tab.asks :
       \/ a.answer = "user" /\ Become(Emit(Over(a), "authenticated", a.carries))
       \/ a.answer = "401" /\ Become(Emit(Over(a), "unauthenticated", None))
  /\ UNCHANGED <<sessions, cookie>>

\* `catch' for anything else: no connection, or another status
Fail ==
  /\ \E a \in tab.asks : Become(Emit(Over(a), "error", None))
  /\ UNCHANGED <<sessions, cookie>>

------------------------------------------------------------------------------
(* Login *)

Submit ==
  /\ tab.page = "login" /\ tab.post = NoPost /\ ~tab.awaiting
  /\ Become([tab EXCEPT !.post = [kind |-> "login", session |-> None, answer |-> "none"]])
  /\ UNCHANGED <<sessions, cookie>>

Posted(kind, answer) == tab.post.kind = kind /\ tab.post.answer = answer

ServeLogin ==
  /\ Posted("login", "none")
  /\ \/ \E s \in Session :
          /\ sessions[s] = "new"
          /\ sessions' = [sessions EXCEPT ![s] = "alive"]
          /\ Become([tab EXCEPT !.post.session = s, !.post.answer = "ok"])
     \/ Become([tab EXCEPT !.post.answer = "refused"]) /\ UNCHANGED sessions
  /\ UNCHANGED cookie

LoggedIn ==
  /\ Posted("login", "ok")
  /\ LET s == tab.post.session IN
     SetCookie(s, Refreshed([tab EXCEPT !.post = NoPost, !.awaiting = TRUE], s))
  /\ UNCHANGED sessions

\* Refused, or no answer: the form shows an error.  A login whose answer is
\* lost has left a session.
NotLoggedIn ==
  /\ tab.post.kind = "login"
  /\ Become([tab EXCEPT !.post = NoPost])
  /\ UNCHANGED <<sessions, cookie>>

\* The promise of refreshAuth never fails, so whatever it found the login page
\* goes on to the dashboard; who went back to the panel meanwhile stays in it,
\* and nothing is mounted again.
Land ==
  /\ tab.awaiting /\ ~tab.active
  /\ LET w == [tab EXCEPT !.awaiting = FALSE] IN
     Become(IF cookie # None /\ tab.page = "panel" THEN w ELSE Proxied(w))
  /\ UNCHANGED <<sessions, cookie>>

------------------------------------------------------------------------------
(* Logout *)

\* AppShell shows its button to a signed-in user only.
Logout ==
  /\ tab.page = "panel" /\ tab.status = "authenticated" /\ tab.post = NoPost
  /\ Become([tab EXCEPT !.post = [kind |-> "logout", session |-> cookie, answer |-> "none"]])
  /\ UNCHANGED <<sessions, cookie>>

ServeLogout ==
  /\ Posted("logout", "none")
  /\ LET s == tab.post.session IN
     IF s # None /\ sessions[s] = "alive"
     THEN /\ sessions' = [sessions EXCEPT ![s] = "over"]
          /\ Become([tab EXCEPT !.post.answer = "ok"])
     ELSE Become([tab EXCEPT !.post.answer = "refused"]) /\ UNCHANGED sessions
  /\ UNCHANGED cookie

\* The `finally' of logout: clearAuth, and to the login page.
Left == [Emit(tab, "unauthenticated", None) EXCEPT !.post = NoPost, !.page = "login"]

\* The answer clears the cookie, whichever it is by now.
LoggedOut ==
  /\ Posted("logout", "ok")
  /\ SetCookie(None, Left)
  /\ UNCHANGED sessions

\* Mutant: the tab leaves only when the API agreed.
NotLoggedOutStays ==
  /\ tab.post.kind = "logout"
  /\ Become([tab EXCEPT !.post = NoPost])
  /\ UNCHANGED <<sessions, cookie>>

\* Refused, or no answer: the tab leaves as well.
NotLoggedOut ==
  /\ tab.post.kind = "logout"
  /\ Become(Left)
  /\ UNCHANGED <<sessions, cookie>>

\* By an administrator, another login of the account, or its age.
Revoke(s) ==
  /\ sessions[s] = "alive"
  /\ sessions' = [sessions EXCEPT ![s] = "over"]
  /\ UNCHANGED <<cookie, tab>>

\* Another tab logs in, or out: of the session the cookie was when it asked.
LoginElsewhere(s) ==
  /\ sessions[s] = "new"
  /\ sessions' = [sessions EXCEPT ![s] = "alive"]
  /\ SetCookie(s, tab)

LogoutElsewhere ==
  /\ cookie # None
  /\ \E s \in Session :
       /\ sessions[s] = "alive"
       /\ sessions' = [sessions EXCEPT ![s] = "over"]
  /\ SetCookie(None, tab)

------------------------------------------------------------------------------
WebInit ==
  /\ sessions = [s \in Session |-> "new"]
  /\ cookie = None
  /\ tab = Loaded

Arrives == Answer \/ Fail
PostEnds == LoggedIn \/ NotLoggedIn \/ LoggedOut \/ NotLoggedOut

WebNext ==
  \/ Load \/ Return \/ Boundary \/ Retry
  \/ Serve \/ Arrives
  \/ Submit \/ ServeLogin \/ Land
  \/ Logout \/ ServeLogout \/ PostEnds
  \/ LogoutElsewhere
  \/ \E s \in Session : Revoke(s) \/ LoginElsewhere(s)

\* A call ends, with its answer or, when the browser gives it up, without.  React
\* runs its effects: nobody reloads the page for ever just before it turns.
Fairness ==
  /\ WF_webVars(Arrives) /\ WF_webVars(PostEnds)
  /\ SF_webVars(Boundary)

WebSpec == WebInit /\ [][WebNext]_webVars
FairSpec == WebSpec /\ Fairness

------------------------------------------------------------------------------
(* Properties *)

\* The types, and what the store never is: signed in without a user, or with
\* a call in flight that activeRequest does not know.
WebTypeOK ==
  /\ sessions \in [Session -> {"new", "alive", "over"}]
  /\ cookie \in Maybe
  /\ tab \in TabState
  /\ tab.status = "authenticated" <=> tab.user # None
  /\ tab.asks # {} <=> tab.active

\* A panel at rest that shows another user than the one the API would act for
\* is one whose cookie was changed under it, or that was mounted by a step in
\* the history over a call in flight: after a login in the same tab, whatever
\* older calls it overlapped, the panel shows who logged in.
StaleIsExplained ==
  LET w == tab IN
  w.page = "panel" /\ w.status = "authenticated" /\ ~w.active /\ w.same /\ ~w.joined => w.user = cookie

AsksWith(s) == \E a \in tab.asks : a.carries = s /\ a.answer = "none"

\* A panel that asks with a cookie whose session is over, as the proxy lets it,
\* comes to the login page, to the error page with its button, or to another
\* user who logged in from another tab: whatever is reloaded, lost or answered
\* late on the way.
DeadSessionLeaves ==
  \A s \in Session :
    (tab.page = "panel" /\ sessions[s] = "over" /\ AsksWith(s))
      ~> (tab.page = "login" \/ tab.status = "error" \/ tab.user \notin {None, s})

\* Who logs out comes to the login page, whether or not the API answers.
LogoutLeaves == tab.post.kind = "logout" ~> tab.page = "login"
===============================================================================
