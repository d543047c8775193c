------------------------------- MODULE Browser -------------------------------
(***************************************************************************)
(* The session of a browser: AuthService, the guard of the application,    *)
(* the login page and the page Google's login comes back to.  The tabs of  *)
(* the browser share localStorage and its cookies; everything else is each *)
(* tab's own, and lost when the tab loads a document.                      *)
(*                                                                         *)
(* What follows an `await` runs when the answer comes, wherever the tab    *)
(* has gone by then.  A call fails for any reason: a token that is not     *)
(* good any more, the server, the network.  The refresh token is stored    *)
(* and removed with the access token and never used: one stands for both.  *)
(***************************************************************************)
EXTENDS Naturals, FiniteSets

CONSTANTS
  Tabs,
  Users,
  Calls,      \* calls unanswered at the same time (bound)
  MaxTokens,  \* logins that succeed, in all (bound)
  MaxClicks,  \* what the people at the browser do, in all (bound)
  None        \* null

ASSUME BrowserAssumption == None \notin Tabs \cup Users \cup Calls
ASSUME BoundAssumption == MaxTokens \in Nat \ {0} /\ MaxClicks \in Nat

VARIABLES
  store,    \* localStorage: the token
  cookie,   \* the tab the cookie oauth_state is that of
  owner,    \* the server's tokens, in the order it gave them out: whose
  tab,      \* each tab, see TabStates
  call,     \* each call: its tab, what it is for, with which token or user
  clicks,
  crossed   \* history: tabs where something came between a call and its
            \* answer, or between their user and the token in the store

vars == <<store, cookie, owner, tab, call, clicks, crossed>>

Tokens  == 1..MaxTokens
NoToken == 0

\* The page it shows; AuthService's user; meLoaded; the call its navigation
\* waits for; the token in the address of the callback in its history, and
\* whether that, and whether the login page, is a page of this document.
TabStates ==
  [place : {"closed", "blank", "login", "callback", "app", "google", "refused"},
   user : Users \cup {None}, me : BOOLEAN, nav : Calls \cup {None},
   url : Tokens \cup {NoToken}, here : BOOLEAN, login : BOOLEAN]

Closed == [place |-> "closed", user |-> None, me |-> FALSE, nav |-> None,
           url |-> NoToken, here |-> FALSE, login |-> FALSE]
Idle   == [tab |-> None, op |-> "none", tok |-> NoToken, user |-> None]

\* A fault: the state of the application outlives its document.
Restored(b) == [tab[b] EXCEPT !.place = "blank"]

\* A new document: the state of the application is new, the history stays.
Fresh(b) == [Closed EXCEPT !.place = "blank", !.url = tab[b].url]

Busy(b) == \E c \in Calls : call[c].tab = b

\* The calls of a document are dropped with it.
Dropped(b) == [c \in Calls |-> IF call[c].tab = b THEN Idle ELSE call[c]]

-----------------------------------------------------------------------------
(* What tells a tab from one that was used alone                           *)

\* The other tabs do not hear of what b stores.
Overlooked(b) ==
  IF store' = store THEN {} ELSE {q \in Tabs \ {b} : tab[q].place # "closed"}

\* Something is done in tab b: while one of its calls is under way, or not.
Disturbs(b) == crossed' = crossed \cup Overlooked(b) \cup (IF Busy(b) THEN {b} ELSE {})

\* Tab b starts again.
Settles(b) == crossed' = (crossed \cup Overlooked(b)) \ {b}

-----------------------------------------------------------------------------
(* The guard                                                               *)

LoadMe(k, c, b, op, t) == [k EXCEPT ![c] = [tab |-> b, op |-> op, tok |-> t, user |-> None]]

\* Tab b, otherwise as in new, goes to '/', the store being s and the calls k.
\* Inside the application the guard does not run again.
Guard(b, c, new, k, s) ==
  \/ /\ new.place = "app" \/ (s # NoToken /\ new.me)
     /\ tab' = [tab EXCEPT ![b] = [new EXCEPT !.place = "app", !.nav = None]]
     /\ call' = k
  \/ /\ new.place # "app" /\ s = NoToken
     /\ tab' = [tab EXCEPT ![b] = [new EXCEPT !.place = "login", !.nav = None, !.login = TRUE]]
     /\ call' = k
  \/ /\ new.place # "app" /\ s # NoToken /\ ~new.me
     /\ tab' = [tab EXCEPT ![b] = [new EXCEPT !.nav = c]]
     /\ call' = LoadMe(k, c, b, "guard", s)

\* ngOnInit of the callback page: the tokens of its address, whoever's they are
\* by now, are stored.
Callback(b, c, new, k) ==
  /\ store' = new.url
  /\ tab' = [tab EXCEPT ![b] = [new EXCEPT !.place = "callback", !.nav = None, !.here = TRUE]]
  /\ call' = LoadMe(k, c, b, "callback", new.url)

-----------------------------------------------------------------------------
(* The people at the browser                                               *)

\* A tab is opened, or loads a page again: the application, or the login page.
Open(b, c) ==
  /\ Dropped(b)[c] = Idle
  /\ Guard(b, c, Fresh(b), Dropped(b), store)
  /\ UNCHANGED <<store, cookie, owner>>
  /\ Settles(b)

OpenLogin(b) ==
  /\ tab' = [tab EXCEPT ![b] = [Fresh(b) EXCEPT !.place = "login", !.login = TRUE]]
  /\ call' = Dropped(b)
  /\ UNCHANGED <<store, cookie, owner>>
  /\ Settles(b)

\* Back, or forward: to the application, in the document that has been there.
BackToApp(b, c) ==
  /\ tab[b].place \in {"login", "callback"} /\ tab[b].me /\ call[c] = Idle
  /\ Guard(b, c, tab[b], call, store)
  /\ UNCHANGED <<store, cookie, owner>>
  /\ Disturbs(b)

\* To the login page, which has no guard: user, meLoaded and token stay.
BackToLogin(b) ==
  /\ tab[b].place \in {"callback", "app"} /\ tab[b].login
  /\ tab' = [tab EXCEPT ![b].place = "login", ![b].nav = None]
  /\ UNCHANGED <<store, cookie, owner, call>>
  /\ Disturbs(b)

\* To the callback, in this document, or loaded again.
BackToCallback(b, c) ==
  /\ tab[b].place \in {"login", "app"} /\ tab[b].here /\ call[c] = Idle
  /\ Callback(b, c, tab[b], call)
  /\ Disturbs(b)
  /\ UNCHANGED <<cookie, owner>>

ReloadCallback(b, c) ==
  /\ tab[b].url # NoToken /\ Dropped(b)[c] = Idle
  /\ Callback(b, c, Fresh(b), Dropped(b))
  /\ Settles(b)
  /\ UNCHANGED <<cookie, owner>>

Loading(b) == \E c \in Calls : call[c].tab = b /\ call[c].op = "login"

Submit(b, c, u) ==
  /\ tab[b].place = "login" /\ ~Loading(b) /\ call[c] = Idle
  /\ call' = [call EXCEPT ![c] = [tab |-> b, op |-> "login", tok |-> NoToken, user |-> u]]
  /\ UNCHANGED <<store, cookie, owner, tab>>
  /\ Disturbs(b)

\* loginWithGoogle leaves the document; GoogleRedirect sets the cookie.
Google(b) ==
  /\ tab[b].place = "login"
  /\ tab' = [tab EXCEPT ![b] = [Fresh(b) EXCEPT !.place = "google"]]
  /\ call' = Dropped(b)
  /\ cookie' = b
  /\ UNCHANGED <<store, owner>>
  /\ Settles(b)

\* logout: meLoaded stays.
Logout(b) ==
  /\ tab[b].place = "app"
  /\ store' = NoToken
  /\ tab' = [tab EXCEPT ![b].place = "login", ![b].nav = None, ![b].user = None,
                         ![b].login = TRUE]
  /\ Disturbs(b)
  /\ UNCHANGED <<cookie, owner, call>>

-----------------------------------------------------------------------------
(* The answers                                                             *)

Token == Cardinality({t \in Tokens : owner[t] # None}) + 1

\* GoogleCallback: the state must be that of the last flow begun, in any tab.
GoogleReturns(b, c, u) ==
  /\ tab[b].place = "google" /\ cookie = b
  /\ call[c] = Idle /\ Token \in Tokens
  /\ owner' = [owner EXCEPT ![Token] = u]
  /\ Callback(b, c, [Fresh(b) EXCEPT !.url = Token], call)
  /\ Settles(b)
  /\ UNCHANGED cookie

GoogleRefuses(b) ==
  /\ tab[b].place = "google"
  /\ tab' = [tab EXCEPT ![b].place = "refused"]
  /\ UNCHANGED <<store, cookie, owner, call, crossed>>

\* A fault: the user is left to the guard.
LoggedInTokenOnly(new, u) == new

LoggedInUser(new, u) == [new EXCEPT !.user = u]

\* A fault: onSubmit does not wait for login.
StoredLate(b, c, new, k) == store' = Token /\ Guard(b, c, new, k, store)

\* setTokens, then onSubmit goes to '/', wherever the tab is.
Stored(b, c, new, k) == store' = Token /\ Guard(b, c, new, k, Token)

LoggedIn(c) ==
  LET b == call[c].tab
      u == call[c].user
      k == [call EXCEPT ![c] = Idle]
  IN
  /\ call[c].op = "login" /\ Token \in Tokens
  /\ owner' = [owner EXCEPT ![Token] = u]
  /\ Stored(b, c, LoggedInUser(tab[b], u), k)
  /\ crossed' = IF \A d \in Calls \ {c} : call[d].tab # b
                THEN (crossed \cup Overlooked(b)) \ {b} ELSE crossed \cup Overlooked(b)
  /\ UNCHANGED cookie

LoginRefused(c) ==
  /\ call[c].op = "login"
  /\ call' = [call EXCEPT ![c] = Idle]
  /\ UNCHANGED <<store, cookie, owner, tab, crossed>>

\* loadMe sets the user; the answer is what the token says.
SetUser(new, c) == [new EXCEPT !.user = owner[call[c].tok]]

\* The guard notes it, and lets the tab in if it still waits for this call.
GuardAnswered(c) ==
  LET b   == call[c].tab
      new == [SetUser(tab[b], c) EXCEPT !.me = TRUE]
  IN
  /\ call[c].op = "guard"
  /\ tab' = [tab EXCEPT ![b] = IF tab[b].nav = c THEN [new EXCEPT !.place = "app", !.nav = None]
                               ELSE new]
  /\ call' = [call EXCEPT ![c] = Idle]
  /\ UNCHANGED <<store, cookie, owner, crossed>>

\* The callback page goes to '/', and there the guard asks again.
CallbackAnswered(c) ==
  LET b == call[c].tab IN
  /\ call[c].op = "callback"
  /\ Guard(b, c, SetUser(tab[b], c), [call EXCEPT ![c] = Idle], store)
  /\ UNCHANGED <<store, cookie, owner, crossed>>

\* logout(false): whatever token is there is removed.
NoUser(new) == [new EXCEPT !.user = None]

\* A fault: the guard answers false, and the tab stays where it is.
ToNowhere(new) == [new EXCEPT !.nav = None]

\* createUrlTree(['/login'])
ToLogin(new) == [new EXCEPT !.place = "login", !.nav = None, !.login = TRUE]

GuardFails(c) ==
  LET b == call[c].tab IN
  /\ call[c].op = "guard"
  /\ store' = NoToken
  /\ tab' = [tab EXCEPT ![b] = IF tab[b].nav = c THEN ToLogin(NoUser(tab[b])) ELSE NoUser(tab[b])]
  /\ call' = [call EXCEPT ![c] = Idle]
  /\ crossed' = crossed \cup Overlooked(b)
  /\ UNCHANGED <<cookie, owner>>

CallbackFails(c) ==
  LET b == call[c].tab IN
  /\ call[c].op = "callback"
  /\ store' = NoToken
  /\ Guard(b, c, NoUser(tab[b]), [call EXCEPT ![c] = Idle], NoToken)
  /\ crossed' = crossed \cup Overlooked(b)
  /\ UNCHANGED <<cookie, owner>>

-----------------------------------------------------------------------------
\* A browser nobody used, or with the token of an earlier visit.
Init ==
  /\ \E u \in Users \cup {None} :
       /\ owner = [t \in Tokens |-> IF t = 1 THEN u ELSE None]
       /\ store = IF u = None THEN NoToken ELSE 1
  /\ cookie = None
  /\ tab = [b \in Tabs |-> Closed]
  /\ call = [c \in Calls |-> Idle]
  /\ clicks = 0 /\ crossed = {}

Click ==
  \E b \in Tabs :
    \/ OpenLogin(b) \/ BackToLogin(b) \/ Google(b) \/ Logout(b)
    \/ \E c \in Calls :
         \/ Open(b, c) \/ BackToApp(b, c) \/ BackToCallback(b, c) \/ ReloadCallback(b, c)
         \/ \E u \in Users : Submit(b, c, u)

Returns == \E b \in Tabs : GoogleRefuses(b) \/ \E c \in Calls, u \in Users : GoogleReturns(b, c, u)

Answer(c) ==
  \/ LoggedIn(c) \/ LoginRefused(c)
  \/ GuardAnswered(c) \/ GuardFails(c) \/ CallbackAnswered(c) \/ CallbackFails(c)

Next ==
  \/ clicks < MaxClicks /\ clicks' = clicks + 1 /\ Click
  \/ (Returns \/ \E c \in Calls : Answer(c)) /\ UNCHANGED clicks

Spec == Init /\ [][Next]_vars

\* Every call ends: HttpClient answers or fails.
FairSpec == Spec /\ \A c \in Calls : WF_vars(Answer(c) /\ UNCHANGED clicks)

-----------------------------------------------------------------------------
(* Properties                                                              *)

\* Every variable has its type; a navigation waits for a call of its tab's
\* guard.
TypeOK ==
  /\ store \in Tokens \cup {NoToken}
  /\ cookie \in Tabs \cup {None}
  /\ owner \in [Tokens -> Users \cup {None}]
  /\ tab \in [Tabs -> TabStates]
  /\ call \in [Calls -> [tab : Tabs \cup {None}, op : {"none", "login", "guard", "callback"},
                         tok : Tokens \cup {NoToken}, user : Users \cup {None}]]
  /\ clicks \in 0..MaxClicks /\ crossed \subseteq Tabs
  /\ \A b \in Tabs : tab[b].nav # None => call[tab[b].nav].tab = b /\ call[tab[b].nav].op = "guard"

\* The application shows the user its calls are made as, through logins,
\* logouts, reloads and returns to an old callback page, although meLoaded
\* outlives them: unless another tab changed the token, or something was done
\* while a call was under way (auth.guard.ts:15, auth.service.ts:67-86).
AppHonest ==
  \A b \in Tabs \ crossed : tab[b].place = "app" /\ ~Busy(b) =>
    store # NoToken /\ tab[b].user = owner[store]

\* A loadMe that fails takes away the token it was sent with and no other, but
\* in such a tab (auth.service.ts:86).
RemovesOwn ==
  [][\A c \in Calls : call[c].op \in {"guard", "callback"} /\ store # NoToken /\ store' = NoToken
       /\ call'[c] = Idle => store = call[c].tok \/ call[c].tab \in crossed]_vars

\* Whatever was clicked, once the clicking stops every tab ends on a page, and
\* none waits for ever on a blank or an authenticating one
\* (auth.guard.ts:7, auth-callback.component.ts:15).
Arrives ==
  <>[](\A b \in Tabs : ~Busy(b) /\ tab[b].place \notin {"blank", "callback"})

\* What makes AppHonest inductive.  Tokens are given out one after the other, and
\* what is kept of them was given out.
Given(t) == t = NoToken \/ owner[t] # None

TokensFit ==
  /\ \E n \in 0..MaxTokens : \A t \in Tokens : owner[t] # None <=> t <= n
  /\ Given(store)

\* A call is what its handler made it.
CallFits(c) ==
  /\ call[c].op = "none" => call[c] = Idle
  /\ call[c].op # "none" => call[c].tab \in Tabs
  /\ call[c].op = "login" => call[c].user \in Users
  /\ call[c].op \in {"guard", "callback"} => call[c].tok \in Tokens

\* The one call of a tab that is not crossed is that of the page it shows, with
\* the token in the store.
Alone(b, c) ==
  /\ \A d \in Calls : call[d].tab = b => d = c
  /\ call[c].op = "login" => tab[b].place = "login"
  /\ call[c].op = "guard" => tab[b].nav = c /\ tab[b].place # "app" /\ call[c].tok = store
  /\ call[c].op = "callback" => tab[b].place = "callback" /\ call[c].tok = store

\* No answer will set the user of b.
Known(b) == \A c \in Calls : call[c].tab = b => call[c].op = "login"

\* The user of b is that of the token, where the application is, or would be let
\* in without asking.
Honest(b) ==
  /\ tab[b].place = "app" => store # NoToken
  /\ tab[b].place = "app" \/ (tab[b].me /\ store # NoToken) => tab[b].user = owner[store]

TabFits(b) ==
  /\ tab[b].place = "closed" => tab[b] = Closed
  /\ tab[b].place \in {"closed", "google", "refused"} => ~Busy(b)
  /\ Given(tab[b].url) /\ (tab[b].here => tab[b].url # NoToken)
  /\ b \notin crossed => /\ \A c \in Calls : call[c].tab = b => Alone(b, c)
                         /\ Known(b) => Honest(b)

SessionInv ==
  /\ TypeOK /\ TokensFit
  /\ \A c \in Calls : CallFits(c)
  /\ \A b \in Tabs : TabFits(b)
=============================================================================
