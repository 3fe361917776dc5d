--------------------------- MODULE ClientSession ---------------------------
(***************************************************************************)
(* The signed-in user in the tabs of one browser: where the guards send a  *)
(* tab, and how the tabs share the one rotating refresh cookie.            *)
(*                                                                         *)
(* Code: api/client.ts, lib/session.ts, stores/auth.ts, features/shell/    *)
(* guards.tsx, features/onboarding/.                                       *)
(*                                                                         *)
(* The server is AuthSessions without its transactions: a sign-in is a     *)
(* number, and a cookie names the sign-in and how often it was rotated.    *)
(* The browser has Web Locks.  Languages, passwords and the reason of a    *)
(* sign-out are left out.                                                  *)
(***************************************************************************)
EXTENDS Naturals, FiniteSets, Sequences

CONSTANTS
  Tab, NoTab,    \* tabs of the browser, and the owner of a free lock
  MaxSignIns,    \* bound: sign-ins
  MaxRotations,  \* bound: how often a sign-in is refreshed
  MaxCalls       \* bound: requests under way at once

VARIABLES
  tabs,    \* for every tab what useAuth, the router and the promises hold
  cookie,  \* the browser's iv_refresh
  lock,    \* the Web Lock iv-refresh
  calls,   \* requests under way
  server,  \* the user's forced steps, and for every sign-in its newest row and its end
  lost     \* whether an answer to a refresh never reached its tab

vars == <<tabs, cookie, lock, calls, server, lost>>

Steps    == {"password", "onboarding"}
NoCookie == <<0, 0>>

Loaded(at) == [at |-> at, status |-> "unknown", session |-> 0, todo |-> {}, busy |-> FALSE,
               refresh |-> "none", attempt |-> 0, call |-> "none"]
Closed == [Loaded("closed") EXCEPT !.status = "anonymous"]

Init ==
  /\ tabs = [t \in Tab |-> Closed]
  /\ cookie = NoCookie /\ lock = NoTab /\ calls = {} /\ lost = FALSE
  /\ \E todo \in SUBSET Steps : server = [todo |-> todo, signIns |-> <<>>]

(***************************************************************************)
(* Where a tab is                                                          *)
(***************************************************************************)
nextStep(todo) ==
  IF "password" \in todo THEN "password" ELSE IF "onboarding" \in todo THEN "language" ELSE "app"

(* RequireAuth, RequireSession and the first lines of SignIn.  Nothing is  *)
(* rendered before the session is restored.                                *)
Routed(x) ==
  LET signedIn == x.status = "authenticated"
      to(at)   == IF at = x.at THEN x ELSE [x EXCEPT !.at = at, !.busy = FALSE]
  IN  IF x.status = "unknown" \/ x.at \in {"closed", "splash"} THEN x
      ELSE IF ~signedIn THEN to("signin")
      ELSE IF x.at = "app" \/ (x.at = "signin" /\ ~x.busy) THEN to(nextStep(x.todo)) ELSE x

Put(t, x) == tabs' = [tabs EXCEPT ![t] = Routed(x)]

(* The tab's access token names its sign-in. *)
setSession(x, f, todo) == [x EXCEPT !.status = "authenticated", !.session = f, !.todo = todo]
signedOut(x)           == [x EXCEPT !.status = "anonymous", !.session = 0, !.todo = {}]

(* Splash: it ends by itself, or is skipped. *)
finish(t) ==
  /\ tabs[t].at = "splash" /\ tabs[t].status # "unknown"
  /\ Put(t, [tabs[t] EXCEPT !.at = IF tabs[t].status = "authenticated"
                                   THEN nextStep(tabs[t].todo) ELSE "signin"])
  /\ UNCHANGED <<cookie, lock, calls, server, lost>>

(***************************************************************************)
(* Refreshing                                                              *)
(***************************************************************************)
Send(t, op) == Cardinality(calls) < MaxCalls
               /\ calls' = calls \cup {[tab |-> t, op |-> op, with |-> cookie, answer |-> "none"]}

(* refreshSession: a refresh of the tab that is under way is joined. *)
refreshing(x) == IF x.refresh = "none" THEN [x EXCEPT !.refresh = "queued", !.attempt = 0] ELSE x

(* bootstrapSession: a tab is opened at the start or at some page. *)
OpenTab(t) ==
  /\ tabs[t].at = "closed"
  /\ \E at \in {"splash", "app"} : Put(t, refreshing(Loaded(at)))
  /\ UNCHANGED <<cookie, lock, calls, server, lost>>

(* Mutant: a tab does not wait for the other tabs. *)
Mutant_LockFree(t) == TRUE

LockFree(t) == lock = NoTab

(* doRefresh, its first attempt and the one after the pause. *)
doRefresh(t) ==
  /\ \/ tabs[t].refresh = "queued" /\ LockFree(t)
     \/ tabs[t].refresh = "pausing"
  /\ lock' = t
  /\ Put(t, [tabs[t] EXCEPT !.refresh = "asking"])
  /\ Send(t, "refresh") /\ UNCHANGED <<cookie, server, lost>>

(* What the refresh ends with; a request that waited for it is sent again, *)
(* or fails.                                                               *)
Refreshed(x, ok) ==
  LET y == [x EXCEPT !.refresh = "none", !.attempt = 0,
                     !.call = IF @ = "waiting" THEN (IF ok THEN "replayed" ELSE "none") ELSE @]
  IN  IF ~ok /\ y.status = "unknown" THEN signedOut(y) ELSE y

RefreshAnswered(c) ==
  LET x    == tabs[c.tab]
      race == c.answer = "race" /\ x.attempt = 0
  IN  /\ c \in calls /\ c.op = "refresh" /\ c.answer # "none"
      /\ calls' = calls \ {c}
      /\ CASE c.answer = "ok" ->
                /\ cookie' = <<c.with[1], c.with[2] + 1>>
                /\ Put(c.tab, Refreshed(setSession(x, c.with[1], server.todo), TRUE))
           [] race -> Put(c.tab, [x EXCEPT !.refresh = "pausing", !.attempt = 1]) /\ UNCHANGED cookie
           [] c.answer # "ok" /\ ~race ->
                Put(c.tab, Refreshed(signedOut(x), FALSE)) /\ UNCHANGED cookie
      /\ lock' = IF race THEN lock ELSE NoTab
      /\ UNCHANGED <<server, lost>>

(* The request or its answer is lost: who was signed in still is. *)
RefreshLost(c) ==
  /\ c \in calls /\ c.op = "refresh" /\ calls' = calls \ {c}
  /\ Put(c.tab, Refreshed(tabs[c.tab], FALSE))
  /\ lock' = NoTab /\ lost' = TRUE
  /\ UNCHANGED <<cookie, server>>

(* A tab is closed, and what it waits for never arrives. *)
CloseTab(t) ==
  /\ tabs[t].at # "closed" /\ Put(t, Closed)
  /\ lock' = IF lock = t THEN NoTab ELSE lock
  /\ lost' = (lost \/ \E c \in calls : c.tab = t /\ c.op = "refresh")
  /\ calls' = {c \in calls : c.tab # t}
  /\ UNCHANGED <<cookie, server>>

(***************************************************************************)
(* Other requests                                                          *)
(***************************************************************************)
(* authFetch, for a request of a page, and those of the forced steps. *)
Request(t, op) ==
  LET x == tabs[t] IN
  /\ x.status = "authenticated" /\ x.call = "none" /\ ~x.busy
  /\ x.at = (CASE op = "use" -> "app" [] op = "onboarding" -> "onboarding" [] op = "password" -> "password")
  /\ Put(t, [x EXCEPT !.call = "sent", !.busy = (op # "use")])
  /\ UNCHANGED <<cookie, lock, calls, server, lost>>

(* The access token has expired: once, the tab refreshes and sends again. *)
Expired(t) ==
  LET x == tabs[t] IN
  /\ x.call = "sent" \/ x.call = "replayed"
  /\ Put(t, IF x.call = "sent" /\ x.status = "authenticated"
            THEN [refreshing(x) EXCEPT !.call = "waiting"]
            ELSE [x EXCEPT !.call = "none", !.busy = FALSE])
  /\ UNCHANGED <<cookie, lock, calls, server, lost>>

(* A new password ends the other sign-ins of the user. *)
OthersEnded(keep) ==
  [f \in DOMAIN server.signIns |->
     [server.signIns[f] EXCEPT !.ended = IF @ = "no" /\ f # keep THEN "password changed" ELSE @]]

(* A request is answered, or fails (with a password that does not fit, or  *)
(* without an answer).  Onboarding goes home either way, where the guard   *)
(* decides; ChangePassword edits its own copy of the user.                 *)
Done(t, ok) ==
  LET x    == tabs[t]
      step == IF x.at = "onboarding" /\ x.busy THEN {"onboarding"}
              ELSE IF x.at = "password" /\ x.busy THEN {"password"} ELSE {}
      y    == [x EXCEPT !.call = "none", !.busy = FALSE]
  IN  /\ x.call \in {"sent", "replayed"}
      /\ server' = IF ~ok THEN server
                   ELSE [todo    |-> server.todo \ step,
                         signIns |-> IF step = {"password"} THEN OthersEnded(x.session)
                                     ELSE server.signIns]
      /\ Put(t, CASE step = {"onboarding"} -> [y EXCEPT !.at = "app", !.todo = IF ok THEN server'.todo ELSE @]
                  [] step = {"password"} /\ ok -> [y EXCEPT !.at = nextStep(x.todo \ step), !.todo = @ \ step]
                  [] OTHER -> y)
      /\ UNCHANGED <<cookie, lock, calls, lost>>

(* Language: the choice is kept whether or not the profile gets it. *)
choose(t) ==
  /\ tabs[t].at = "language" /\ tabs[t].status = "authenticated"
  /\ Put(t, [tabs[t] EXCEPT !.at = "onboarding"])
  /\ UNCHANGED <<cookie, lock, calls, server, lost>>

(***************************************************************************)
(* Sign-in and sign-out                                                    *)
(***************************************************************************)
signIn(t) ==
  /\ tabs[t].at = "signin" /\ ~tabs[t].busy
  /\ Send(t, "login") /\ Put(t, [tabs[t] EXCEPT !.busy = TRUE])
  /\ UNCHANGED <<cookie, lock, server, lost>>

SignInAnswered(c) ==
  /\ c \in calls /\ c.op = "login" /\ calls' = calls \ {c}
  /\ IF c.answer = "ok"
     THEN /\ cookie' = <<c.with[1], 0>>
          /\ Put(c.tab, [setSession(tabs[c.tab], c.with[1], server.todo) EXCEPT !.busy = FALSE])
     ELSE Put(c.tab, [tabs[c.tab] EXCEPT !.busy = FALSE]) /\ UNCHANGED cookie
  /\ UNCHANGED <<lock, server, lost>>

(* By the button of the Sidebar, or by the idle timer. *)
signOut(t) ==
  /\ tabs[t].at = "app" /\ tabs[t].status = "authenticated"
  /\ ~\E c \in calls : c.tab = t /\ c.op = "logout"
  /\ Send(t, "logout") /\ UNCHANGED <<tabs, cookie, lock, server, lost>>

(* Whatever the answer, the tab forgets the session. *)
SignOutAnswered(c) ==
  /\ c \in calls /\ c.op = "logout" /\ calls' = calls \ {c}
  /\ cookie' = IF c.answer = "ok" THEN NoCookie ELSE cookie
  /\ Put(c.tab, signedOut(tabs[c.tab]))
  /\ UNCHANGED <<lock, server, lost>>

(***************************************************************************)
(* The server                                                              *)
(***************************************************************************)
Answer(c, a, w, s) ==
  /\ server' = [server EXCEPT !.signIns = s]
  /\ calls' = (calls \ {c}) \cup {[c EXCEPT !.answer = a, !.with = w]}
  /\ UNCHANGED <<tabs, cookie, lock, lost>>

ServeSignIn(c) ==
  /\ c \in calls /\ c.op = "login" /\ c.answer = "none" /\ Len(server.signIns) < MaxSignIns
  /\ Answer(c, "ok", <<Len(server.signIns) + 1, 0>>,
            Append(server.signIns, [row |-> 0, ended |-> "no"]))

(* The first end of a sign-in is the one that counts. *)
Ended(f, why) ==
  [server.signIns EXCEPT ![f].ended = IF @ = "no" THEN why ELSE @]

ServeSignOut(c) ==
  /\ c \in calls /\ c.op = "logout" /\ c.answer = "none"
  /\ IF c.with = NoCookie THEN Answer(c, "out", c.with, server.signIns)
     ELSE Answer(c, "ok", c.with, Ended(c.with[1], "signed out"))

(* rotate.  An end of a refresh does not clear the cookie: the header is   *)
(* set on a response that the error replaces.                              *)
ServeRefresh(c) ==
  LET f == c.with[1]
      s == server.signIns[f]
  IN  /\ c \in calls /\ c.op = "refresh" /\ c.answer = "none"
      /\ \/ c.with = NoCookie /\ Answer(c, "out", c.with, server.signIns)
         \/ /\ c.with # NoCookie /\ s.ended = "no" /\ s.row = c.with[2]
            /\ \/ /\ s.row < MaxRotations
                  /\ Answer(c, "ok", c.with, [server.signIns EXCEPT ![f].row = @ + 1])
               \/ Answer(c, "out", c.with, Ended(f, "idle"))
         \/ /\ c.with # NoCookie /\ s.row > c.with[2]
            /\ Answer(c, "race", c.with, server.signIns)
         \/ /\ c.with # NoCookie /\ (s.row > c.with[2] \/ s.ended # "no")
            /\ Answer(c, "out", c.with, Ended(f, "reused"))

Next ==
  \/ \E t \in Tab : \/ OpenTab(t) \/ CloseTab(t) \/ finish(t) \/ choose(t) \/ doRefresh(t)
                    \/ Expired(t) \/ signIn(t) \/ signOut(t)
                    \/ \E ok \in BOOLEAN : Done(t, ok)
                    \/ \E op \in Steps \cup {"use"} : Request(t, op)
  \/ \E c \in calls : \/ ServeSignIn(c) \/ ServeSignOut(c) \/ ServeRefresh(c)
                      \/ SignInAnswered(c) \/ SignOutAnswered(c)
                      \/ RefreshAnswered(c) \/ RefreshLost(c)

Spec == Init /\ [][Next]_vars

(***************************************************************************)
(* Properties                                                              *)
(***************************************************************************)
(* A session that works is never taken for a stolen one: however the tabs  *)
(* are opened, closed, signed in and out, only an answer to a refresh that *)
(* was lost makes the browser present a token that it has replaced.        *)
HonestIsNoThief ==
  \A f \in DOMAIN server.signIns : server.signIns[f].ended = "reused" => lost
=============================================================================
