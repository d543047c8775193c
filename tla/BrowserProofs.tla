---------------------------- MODULE BrowserProofs ----------------------------
(***************************************************************************)
(* For any tabs, users and calls of a browser: the application shows the   *)
(* user its calls are made as, and a failed loadMe removes its own token.  *)
(***************************************************************************)
EXTENDS Browser, FiniteSetTheorems, TLAPS

CallType == [tab : Tabs \cup {None}, op : {"none", "login", "guard", "callback"},
             tok : Tokens \cup {NoToken}, user : Users \cup {None}]

\* TypeOK, without what it says of the calls navigations wait for.
Typed ==
  /\ store \in Tokens \cup {NoToken}
  /\ cookie \in Tabs \cup {None}
  /\ owner \in [Tokens -> Users \cup {None}]
  /\ tab \in [Tabs -> TabStates]
  /\ call \in [Calls -> CallType]
  /\ clicks \in 0..MaxClicks /\ crossed \subseteq Tabs

\* A navigation waits for a call of its tab's guard.
Waits(b) == tab[b].nav # None => call[tab[b].nav].tab = b /\ call[tab[b].nav].op = "guard"

LEMMA TypeParts == TypeOK <=> Typed /\ \A b \in Tabs : Waits(b)
  BY DEF TypeOK, Typed, Waits, CallType

LEMMA NoTokenNot == NoToken \notin Tokens /\ \A t \in Tokens : t \in Nat /\ t # NoToken
  BY BoundAssumption DEF NoToken, Tokens

LEMMA IdleTyped == Idle \in CallType /\ Idle.tab = None /\ Idle.op = "none"
  BY DEF Idle, CallType

-----------------------------------------------------------------------------
(* Tokens                                                                  *)

\* Token is the next one: nobody has it, and all before it are given out.
LEMMA TokenNext ==
  ASSUME Typed, TokensFit
  PROVE  /\ Token \in Nat \ {0}
         /\ \A t \in Tokens : owner[t] # None <=> t < Token
  <1>1. PICK n \in 0..MaxTokens : \A t \in Tokens : owner[t] # None <=> t <= n
    BY DEF TokensFit
  <1>2. n \in Nat /\ MaxTokens \in Nat
    BY BoundAssumption
  <1>3. {t \in Tokens : owner[t] # None} = 1..n
    BY <1>1, <1>2 DEF Tokens
  <1>4. Cardinality(1..n) = n
    <2>1. 1 \in Int /\ n \in Int /\ 1 <= n + 1
      BY <1>2
    <2> QED BY <2>1, <1>2, FS_Interval
  <1>5. Token = n + 1
    BY <1>3, <1>4 DEF Token
  <1> QED BY <1>1, <1>2, <1>5 DEF Tokens

\* A token is given to u.
LEMMA GiveFits ==
  ASSUME Typed, TokensFit, Token \in Tokens, NEW u \in Users,
         owner' = [owner EXCEPT ![Token] = u]
  PROVE  /\ owner' \in [Tokens -> Users \cup {None}] /\ owner'[Token] = u
         /\ \E n \in 0..MaxTokens : \A t \in Tokens : owner'[t] # None <=> t <= n
         /\ \A t \in Tokens : owner[t] # None => t # Token /\ owner'[t] = owner[t]
         /\ \A t \in Tokens \cup {NoToken} : Given(t) => t = NoToken \/ owner'[t] # None
  <1>1. PICK n : n = Token OBVIOUS
  <1>2. n \in 1..MaxTokens /\ n \in Tokens /\ \A t \in Tokens : owner[t] # None <=> t < n
    BY <1>1, TokenNext DEF Tokens
  <1>3. owner' = [owner EXCEPT ![n] = u] /\ u # None
    BY <1>1, BrowserAssumption
  <1>4. \A t \in Tokens : owner'[t] = IF t = n THEN u ELSE owner[t]
    BY <1>2, <1>3 DEF Typed
  <1>5. \A t \in Tokens : owner'[t] # None <=> t <= n
    BY <1>2, <1>3, <1>4, BoundAssumption DEF Tokens
  <1>6. \A t \in Tokens : owner[t] # None => t # n
    BY <1>2, BoundAssumption DEF Tokens
  <1>7. n \in 0..MaxTokens
    BY <1>2, BoundAssumption
  <1>8. owner' \in [Tokens -> Users \cup {None}]
    BY <1>3 DEF Typed
  <1> QED BY <1>1, <1>2, <1>4, <1>5, <1>6, <1>7, <1>8 DEF Given

-----------------------------------------------------------------------------
(* What a step of one tab leaves to the others                             *)

\* The tab changes its own state and calls; it tells of what it stores, and
\* stores what it is given.
Acts(b) ==
  /\ \A q \in Tabs \ {b} : tab'[q] = tab[q]
  /\ \A c \in Calls : call'[c] = call[c] \/ (call[c].tab \in {b, None} /\ call'[c].tab \in {b, None})
  /\ \A q \in Tabs \ {b} : q \in crossed => q \in crossed'
  /\ store' = store \/ \A q \in Tabs \ {b} : tab[q].place # "closed" => q \in crossed'
  /\ owner' = owner \/ (store' = Token /\ \E u \in Users : owner' = [owner EXCEPT ![Token] = u])

\* Given tokens stay given, and keep their user.
LEMMA GivenKept ==
  ASSUME SessionInv, Typed', NEW b \in Tabs, Acts(b)
  PROVE  /\ \A t \in Tokens : owner[t] # None => owner'[t] = owner[t]
         /\ \A t \in Tokens \cup {NoToken} : Given(t) => t = NoToken \/ owner'[t] # None
         /\ owner' = owner \/ store' # store
  <1>1. Typed /\ TokensFit
    BY TypeParts DEF SessionInv
  <1>2. CASE owner' = owner
    BY <1>2 DEF Given
  <1>3. CASE owner' # owner
    <2>1. PICK u \in Users : owner' = [owner EXCEPT ![Token] = u]
      BY <1>3 DEF Acts
    <2>2. store' = Token /\ Token \in Tokens
      <3>1. store' = Token
        BY <1>3 DEF Acts
      <3> QED BY <3>1, <1>1, TokenNext DEF Typed, NoToken
    <2>3. store # Token
      BY <1>1, <2>2, TokenNext, NoTokenNot DEF TokensFit, Given, Typed
    <2> QED BY <1>1, <2>1, <2>2, <2>3, GiveFits
  <1> QED BY <1>2, <1>3

LEMMA OthersFit ==
  ASSUME SessionInv, Typed', NEW b \in Tabs, Acts(b), NEW q \in Tabs, q # b
  PROVE  TabFits(q)' /\ Waits(q)'
  <1>1. /\ Typed /\ Typed' /\ TabFits(q) /\ Waits(q) /\ q # None
        /\ tab'[q] = tab[q]
    BY TypeParts, BrowserAssumption DEF SessionInv, Acts
  <1>2. \A c \in Calls : /\ call'[c].tab = q <=> call[c].tab = q
                         /\ call[c].tab = q => call'[c] = call[c]
    BY <1>1 DEF Acts
  <1>3. Waits(q)'
    BY <1>1, <1>2 DEF Waits, Typed, TabStates
  <1>4. Busy(q)' <=> Busy(q)
    BY <1>2 DEF Busy
  <1>5. Given(tab[q].url)'
    <2>1. tab[q].url \in Tokens \cup {NoToken} /\ Given(tab[q].url)
      BY <1>1 DEF Typed, TabStates, TabFits
    <2>2. PICK t : t = tab[q].url OBVIOUS
    <2> QED BY <2>1, <2>2, <1>1, GivenKept DEF Given
  <1>6. ASSUME q \notin crossed'
        PROVE  /\ \A c \in Calls : call'[c].tab = q => Alone(q, c)'
               /\ Known(q)' => Honest(q)'
    <2>1. q \notin crossed /\ q \in Tabs \ {b}
      BY <1>6 DEF Acts
    <2>2. CASE tab[q].place = "closed"
      <3>1. tab'[q] = Closed /\ ~Busy(q)'
        BY <2>2, <1>1, <1>4 DEF TabFits
      <3> QED BY <3>1 DEF Closed, Honest, Busy
    <2>3. CASE tab[q].place # "closed"
      <3>1. store' = store /\ owner' = owner
        BY <2>1, <2>3, <1>6, GivenKept DEF Acts
      <3>2. Known(q)' => Known(q)
        BY <1>2 DEF Known
      <3>3. Honest(q) => Honest(q)'
        BY <3>1, <1>1 DEF Honest
      <3>4. \A c \in Calls : call[c].tab = q /\ Alone(q, c) => Alone(q, c)'
        BY <3>1, <1>1, <1>2 DEF Alone
      <3> QED BY <3>2, <3>3, <3>4, <2>1, <1>1, <1>2 DEF TabFits
    <2> QED BY <2>2, <2>3
  <1> QED BY <1>1, <1>3, <1>4, <1>5, <1>6 DEF TabFits

\* A step of tab b that leaves b itself in order.
LEMMA StepFits ==
  ASSUME SessionInv, Typed', TokensFit', NEW b \in Tabs, Acts(b),
         \A c \in Calls : CallFits(c)', TabFits(b)', Waits(b)'
  PROVE  SessionInv'
  <1>1. \A q \in Tabs : TabFits(q)' /\ Waits(q)'
    BY OthersFit
  <1>2. TypeOK'
    BY <1>1 DEF TypeOK, Typed, Waits, CallType
  <1> QED BY <1>1, <1>2 DEF SessionInv

-----------------------------------------------------------------------------
(* The guard and the callback page                                         *)

\* The calls k are those there were, without some of b's.
Leaves(b, k) ==
  /\ k \in [Calls -> CallType]
  /\ \A d \in Calls : k[d] = call[d] \/ (k[d] = Idle /\ call[d].tab \in {b, None})

LEMMA LeavesFits ==
  ASSUME SessionInv, NEW b \in Tabs, NEW k, Leaves(b, k), NEW d \in Calls, call'[d] = k[d]
  PROVE  /\ CallFits(d)'
         /\ call'[d] = call[d] \/ (call[d].tab \in {b, None} /\ call'[d].tab \in {b, None})
  <1>1. CallFits(d)
    BY DEF SessionInv
  <1> QED BY <1>1 DEF Leaves, CallFits, Idle

LEMMA GuardFits ==
  ASSUME SessionInv, NEW b \in Tabs, NEW c \in Calls, NEW new \in TabStates, NEW k,
         NEW s \in Tokens \cup {NoToken},
         Guard(b, c, new, k, s), store' = s, Leaves(b, k), k[c] = Idle,
         new.place \notin {"closed", "google", "refused"},
         new.url = NoToken \/ owner'[new.url] # None, new.here => new.url # NoToken,
         b \notin crossed' =>
           /\ \A d \in Calls : k[d].tab # b
           /\ new.place = "app" => s # NoToken
           /\ new.place = "app" \/ (new.me /\ s # NoToken) => new.user = owner'[s]
  PROVE  /\ tab' \in [Tabs -> TabStates] /\ call' \in [Calls -> CallType]
         /\ \A q \in Tabs \ {b} : tab'[q] = tab[q]
         /\ \A d \in Calls :
              call'[d] = call[d] \/ (call[d].tab \in {b, None} /\ call'[d].tab \in {b, None})
         /\ \A d \in Calls : CallFits(d)'
         /\ TabFits(b)' /\ Waits(b)'
  <1>1. /\ Typed /\ b # None /\ c # None
        /\ k \in [Calls -> CallType] /\ Idle.tab = None
    BY TypeParts, IdleTyped, BrowserAssumption DEF SessionInv, Leaves
  <1>2. PICK z \in TabStates :
          /\ tab' = [tab EXCEPT ![b] = z]
          /\ z.url = new.url /\ z.here = new.here /\ z.me = new.me /\ z.user = new.user
          /\ \/ /\ call' = k /\ z.nav = None
                /\ \/ z.place = "app" /\ (new.place = "app" \/ (s # NoToken /\ new.me))
                   \/ z.place = "login" /\ s = NoToken
             \/ /\ call' = LoadMe(k, c, b, "guard", s) /\ z.nav = c
                /\ z.place = new.place /\ z.place # "app" /\ s # NoToken
    <2>1. CASE /\ new.place = "app" \/ (s # NoToken /\ new.me)
               /\ tab' = [tab EXCEPT ![b] = [new EXCEPT !.place = "app", !.nav = None]]
               /\ call' = k
      <3>1. [new EXCEPT !.place = "app", !.nav = None] \in TabStates
        BY DEF TabStates
      <3> QED BY <2>1, <3>1 DEF TabStates
    <2>2. CASE /\ new.place # "app" /\ s = NoToken
               /\ tab' = [tab EXCEPT ![b] = [new EXCEPT !.place = "login", !.nav = None, !.login = TRUE]]
               /\ call' = k
      <3>1. [new EXCEPT !.place = "login", !.nav = None, !.login = TRUE] \in TabStates
        BY DEF TabStates
      <3> QED BY <2>2, <3>1 DEF TabStates
    <2>3. CASE /\ new.place # "app" /\ s # NoToken /\ ~new.me
               /\ tab' = [tab EXCEPT ![b] = [new EXCEPT !.nav = c]]
               /\ call' = LoadMe(k, c, b, "guard", s)
      <3>1. [new EXCEPT !.nav = c] \in TabStates
        BY DEF TabStates
      <3> QED BY <2>3, <3>1 DEF TabStates
    <2> QED BY <2>1, <2>2, <2>3 DEF Guard
  <1>3. /\ tab' \in [Tabs -> TabStates] /\ tab'[b] = z
        /\ \A q \in Tabs \ {b} : tab'[q] = tab[q]
    BY <1>1, <1>2 DEF Typed
  <1>4. z.place \notin {"closed", "google", "refused"}
    BY <1>2
  <1>5. Given(z.url)' /\ (z.here => z.url # NoToken)
    BY <1>2 DEF Given
  <1>6. CASE call' = k /\ z.nav = None
    <2>1. Waits(b)'
      BY <1>3, <1>6 DEF Waits
    <2>2. b \notin crossed' => Honest(b)'
      BY <1>2, <1>3, <1>6 DEF Honest, LoadMe
    <2>3. b \notin crossed' => \A d \in Calls : call'[d].tab # b
      BY <1>6
    <2>4. TabFits(b)'
      BY <1>3, <1>4, <1>5, <2>2, <2>3 DEF TabFits
    <2> QED BY <1>1, <1>3, <1>6, <2>1, <2>4, LeavesFits
  <1>7. CASE /\ call' = LoadMe(k, c, b, "guard", s) /\ z.nav = c
             /\ z.place # "app" /\ s # NoToken
    <2>1. /\ call' \in [Calls -> CallType]
          /\ call'[c].tab = b /\ call'[c].op = "guard" /\ call'[c].tok = s
          /\ \A d \in Calls \ {c} : call'[d] = k[d]
      BY <1>1, <1>7 DEF LoadMe, CallType
    <2>2. Waits(b)'
      BY <1>3, <1>7, <2>1 DEF Waits
    <2>3. b \notin crossed' => /\ \A d \in Calls : call'[d].tab = b => d = c
                               /\ Alone(b, c)'
      BY <1>3, <1>7, <2>1 DEF Alone
    <2>4. ~Known(b)'
      BY <2>1 DEF Known
    <2>5. TabFits(b)'
      BY <1>3, <1>4, <1>5, <2>3, <2>4 DEF TabFits
    <2>6. CallFits(c)'
      BY <2>1, <1>7 DEF CallFits
    <2>7. call[c].tab \in {b, None}
      BY <1>1 DEF Leaves
    <2> QED BY <1>1, <1>3, <2>1, <2>2, <2>5, <2>6, <2>7, LeavesFits
  <1> QED BY <1>2, <1>6, <1>7

LEMMA CallbackFits ==
  ASSUME SessionInv, NEW b \in Tabs, NEW c \in Calls, NEW new \in TabStates, NEW k,
         Callback(b, c, new, k), Leaves(b, k), k[c] = Idle,
         new.url \in Tokens, owner'[new.url] # None,
         b \notin crossed' => \A d \in Calls : k[d].tab # b
  PROVE  /\ tab' \in [Tabs -> TabStates] /\ call' \in [Calls -> CallType]
         /\ store' = new.url
         /\ \A q \in Tabs \ {b} : tab'[q] = tab[q]
         /\ \A d \in Calls :
              call'[d] = call[d] \/ (call[d].tab \in {b, None} /\ call'[d].tab \in {b, None})
         /\ \A d \in Calls : CallFits(d)'
         /\ TabFits(b)' /\ Waits(b)'
  <1>1. /\ Typed /\ b # None /\ c # None
        /\ k \in [Calls -> CallType] /\ Idle.tab = None
    BY TypeParts, IdleTyped, BrowserAssumption DEF SessionInv, Leaves
  <1> DEFINE z == [new EXCEPT !.place = "callback", !.nav = None, !.here = TRUE]
  <1>2. z \in TabStates /\ z.place = "callback" /\ z.nav = None /\ z.url = new.url /\ z.here
    BY DEF TabStates
  <1>3. /\ tab' \in [Tabs -> TabStates] /\ tab'[b] = z /\ store' = new.url
        /\ \A q \in Tabs \ {b} : tab'[q] = tab[q]
    BY <1>1, <1>2 DEF Typed, Callback
  <1>4. /\ call' \in [Calls -> CallType]
        /\ call'[c].tab = b /\ call'[c].op = "callback" /\ call'[c].tok = new.url
        /\ \A d \in Calls \ {c} : call'[d] = k[d]
    BY <1>1 DEF LoadMe, CallType, Callback
  <1>5. Waits(b)' /\ ~Known(b)'
    BY <1>2, <1>3, <1>4 DEF Waits, Known
  <1>6. b \notin crossed' => /\ \A d \in Calls : call'[d].tab = b => d = c
                             /\ Alone(b, c)'
    BY <1>2, <1>3, <1>4 DEF Alone
  <1>7. TabFits(b)'
    BY <1>2, <1>3, <1>5, <1>6, NoTokenNot DEF TabFits, Given
  <1>8. CallFits(c)'
    BY <1>4 DEF CallFits
  <1>9. call[c].tab \in {b, None}
    BY <1>1 DEF Leaves
  <1> QED BY <1>1, <1>3, <1>4, <1>5, <1>7, <1>8, <1>9, LeavesFits

-----------------------------------------------------------------------------
(* What the steps are made of                                              *)

\* Tabs are crossed by what is stored in b, and only b settles.
LEMMA Crosses ==
  ASSUME NEW b \in Tabs, crossed \cup Overlooked(b) \subseteq crossed' \cup {b}
  PROVE  /\ \A q \in Tabs \ {b} : q \in crossed => q \in crossed'
         /\ store' = store \/ \A q \in Tabs \ {b} : tab[q].place # "closed" => q \in crossed'
  BY DEF Overlooked

LEMMA DisturbsCrosses ==
  ASSUME Typed, NEW b \in Tabs, Disturbs(b)
  PROVE  /\ crossed' \subseteq Tabs /\ crossed \cup Overlooked(b) \subseteq crossed' \cup {b}
         /\ b \notin crossed' => b \notin crossed /\ \A d \in Calls : call[d].tab # b
  BY DEF Typed, Disturbs, Overlooked, Busy

LEMMA SettlesCrosses ==
  ASSUME Typed, NEW b \in Tabs, Settles(b)
  PROVE  crossed' \subseteq Tabs /\ crossed \cup Overlooked(b) \subseteq crossed' \cup {b}
  BY DEF Typed, Settles, Overlooked

\* Nothing is given out.
LEMMA TokensStay ==
  ASSUME TokensFit, owner' = owner, store' = NoToken \/ owner[store'] # None
  PROVE  TokensFit'
  BY DEF TokensFit, Given

LEMMA FreshFits ==
  ASSUME SessionInv, NEW b \in Tabs
  PROVE  /\ Fresh(b) \in TabStates /\ Fresh(b).place = "blank" /\ Fresh(b).url = tab[b].url
         /\ Fresh(b).me = FALSE /\ Fresh(b).here = FALSE /\ Fresh(b).nav = None
         /\ tab[b].url = NoToken \/ owner[tab[b].url] # None
  <1>1. Typed /\ TabFits(b)
    BY TypeParts DEF SessionInv
  <1> QED BY <1>1 DEF Typed, TabFits, TabStates, Fresh, Closed, Given

LEMMA DroppedLeaves ==
  ASSUME SessionInv, NEW b \in Tabs
  PROVE  Leaves(b, Dropped(b)) /\ \A d \in Calls : Dropped(b)[d].tab # b
  <1>1. Typed /\ b # None
    BY TypeParts, BrowserAssumption DEF SessionInv
  <1> QED BY <1>1, IdleTyped DEF Typed, Leaves, Dropped

\* The calls without c.
LEMMA DoneLeaves ==
  ASSUME SessionInv, NEW c \in Calls
  PROVE  /\ Leaves(call[c].tab, [call EXCEPT ![c] = Idle])
         /\ [call EXCEPT ![c] = Idle][c] = Idle
         /\ \A d \in Calls \ {c} : [call EXCEPT ![c] = Idle][d] = call[d]
  <1>1. Typed
    BY TypeParts DEF SessionInv
  <1> QED BY <1>1, IdleTyped DEF Typed, Leaves

LEMMA NoneLeaves ==
  ASSUME SessionInv, NEW b
  PROVE  Leaves(b, call)
  BY TypeParts DEF SessionInv, Typed, Leaves

-----------------------------------------------------------------------------
(* The steps                                                               *)

LEMMA OpenStep ==
  ASSUME SessionInv, clicks' \in 0..MaxClicks, NEW b \in Tabs, NEW c \in Calls, Open(b, c)
  PROVE  SessionInv'
  <1>1. /\ Typed /\ TokensFit /\ store \in Tokens \cup {NoToken}
        /\ Given(store)
    BY TypeParts DEF SessionInv, Typed, TokensFit
  <1>2. /\ store' = store /\ cookie' = cookie /\ owner' = owner
        /\ Dropped(b)[c] = Idle /\ Settles(b)
    BY DEF Open
  <1>3. PICK new : new = Fresh(b) OBVIOUS
  <1>4. PICK k : k = Dropped(b) OBVIOUS
  <1>5. PICK s : s = store OBVIOUS
  <1>6. Guard(b, c, new, k, s)
    BY <1>3, <1>4, <1>5 DEF Open
  <1>7. /\ new \in TabStates /\ new.place = "blank" /\ ~new.me /\ ~new.here
        /\ new.url = NoToken \/ owner'[new.url] # None
    BY <1>2, <1>3, FreshFits
  <1>8. Leaves(b, k) /\ k[c] = Idle /\ \A d \in Calls : k[d].tab # b
    BY <1>2, <1>4, DroppedLeaves
  <1>9. /\ tab' \in [Tabs -> TabStates] /\ call' \in [Calls -> CallType]
        /\ \A q \in Tabs \ {b} : tab'[q] = tab[q]
        /\ \A d \in Calls :
             call'[d] = call[d] \/ (call[d].tab \in {b, None} /\ call'[d].tab \in {b, None})
        /\ \A d \in Calls : CallFits(d)'
        /\ TabFits(b)' /\ Waits(b)'
    BY <1>1, <1>2, <1>5, <1>6, <1>7, <1>8, GuardFits
  <1>10. Typed' /\ Acts(b)
    BY <1>1, <1>2, <1>9, SettlesCrosses, Crosses DEF Typed, Acts
  <1>11. TokensFit'
    BY <1>1, <1>2, TokensStay DEF Given
  <1> QED BY <1>9, <1>10, <1>11, StepFits

LEMMA BackToAppStep ==
  ASSUME SessionInv, clicks' \in 0..MaxClicks, NEW b \in Tabs, NEW c \in Calls, BackToApp(b, c)
  PROVE  SessionInv'
  <1>1. /\ Typed /\ TokensFit /\ TabFits(b) /\ store \in Tokens \cup {NoToken}
        /\ Given(store)
    BY TypeParts DEF SessionInv, Typed, TokensFit
  <1>2. /\ store' = store /\ cookie' = cookie /\ owner' = owner
        /\ call[c] = Idle /\ Disturbs(b)
        /\ tab[b].place \in {"login", "callback"} /\ tab[b].me
    BY DEF BackToApp
  <1>3. PICK new : new = tab[b] OBVIOUS
  <1>4. PICK k : k = call OBVIOUS
  <1>5. PICK s : s = store OBVIOUS
  <1>6. Guard(b, c, new, k, s)
    BY <1>3, <1>4, <1>5 DEF BackToApp
  <1>7. /\ new \in TabStates /\ new.place \in {"login", "callback"}
        /\ new.url = NoToken \/ owner'[new.url] # None
        /\ new.here => new.url # NoToken
    BY <1>1, <1>2, <1>3 DEF Typed, TabFits, Given
  <1>8. Leaves(b, k) /\ k[c] = Idle
    BY <1>2, <1>4, NoneLeaves
  <1>9. ASSUME b \notin crossed'
        PROVE  /\ \A d \in Calls : k[d].tab # b
               /\ s # NoToken => new.user = owner'[s]
    <2>1. b \notin crossed /\ \A d \in Calls : call[d].tab # b
      BY <1>1, <1>2, <1>9, DisturbsCrosses
    <2>2. Honest(b)
      BY <2>1, <1>1 DEF TabFits, Known
    <2> QED BY <2>1, <2>2, <1>2, <1>3, <1>4, <1>5 DEF Honest
  <1>10. /\ tab' \in [Tabs -> TabStates] /\ call' \in [Calls -> CallType]
         /\ \A q \in Tabs \ {b} : tab'[q] = tab[q]
         /\ \A d \in Calls :
              call'[d] = call[d] \/ (call[d].tab \in {b, None} /\ call'[d].tab \in {b, None})
         /\ \A d \in Calls : CallFits(d)'
         /\ TabFits(b)' /\ Waits(b)'
    BY <1>1, <1>2, <1>5, <1>6, <1>7, <1>8, <1>9, GuardFits
  <1>11. Typed' /\ Acts(b)
    BY <1>1, <1>2, <1>10, DisturbsCrosses, Crosses DEF Typed, Acts
  <1>12. TokensFit'
    BY <1>1, <1>2, TokensStay DEF Given
  <1> QED BY <1>10, <1>11, <1>12, StepFits

LEMMA BackToCallbackStep ==
  ASSUME SessionInv, clicks' \in 0..MaxClicks, NEW b \in Tabs, NEW c \in Calls,
         BackToCallback(b, c)
  PROVE  SessionInv'
  <1>1. Typed /\ TokensFit /\ TabFits(b)
    BY TypeParts DEF SessionInv
  <1>2. /\ cookie' = cookie /\ owner' = owner
        /\ call[c] = Idle /\ Disturbs(b) /\ tab[b].here
    BY DEF BackToCallback
  <1>3. PICK new : new = tab[b] OBVIOUS
  <1>4. PICK k : k = call OBVIOUS
  <1>5. Callback(b, c, new, k)
    BY <1>3, <1>4 DEF BackToCallback
  <1>6. new \in TabStates /\ new.url \in Tokens /\ owner'[new.url] # None
    BY <1>1, <1>2, <1>3 DEF Typed, TabFits, Given, TabStates
  <1>7. Leaves(b, k) /\ k[c] = Idle
    BY <1>2, <1>4, NoneLeaves
  <1>8. b \notin crossed' => \A d \in Calls : k[d].tab # b
    BY <1>1, <1>2, <1>4, DisturbsCrosses
  <1>9. /\ tab' \in [Tabs -> TabStates] /\ call' \in [Calls -> CallType]
        /\ store' = new.url
        /\ \A q \in Tabs \ {b} : tab'[q] = tab[q]
        /\ \A d \in Calls :
             call'[d] = call[d] \/ (call[d].tab \in {b, None} /\ call'[d].tab \in {b, None})
        /\ \A d \in Calls : CallFits(d)'
        /\ TabFits(b)' /\ Waits(b)'
    BY <1>5, <1>6, <1>7, <1>8, CallbackFits
  <1>10. Typed' /\ Acts(b)
    BY <1>1, <1>2, <1>6, <1>9, DisturbsCrosses, Crosses DEF Typed, Acts
  <1>11. TokensFit'
    BY <1>1, <1>2, <1>6, <1>9, TokensStay
  <1> QED BY <1>9, <1>10, <1>11, StepFits

LEMMA ReloadCallbackStep ==
  ASSUME SessionInv, clicks' \in 0..MaxClicks, NEW b \in Tabs, NEW c \in Calls,
         ReloadCallback(b, c)
  PROVE  SessionInv'
  <1>1. Typed /\ TokensFit
    BY TypeParts DEF SessionInv
  <1>2. /\ cookie' = cookie /\ owner' = owner
        /\ Dropped(b)[c] = Idle /\ Settles(b) /\ tab[b].url # NoToken
    BY DEF ReloadCallback
  <1>3. PICK new : new = Fresh(b) OBVIOUS
  <1>4. PICK k : k = Dropped(b) OBVIOUS
  <1>5. Callback(b, c, new, k)
    BY <1>3, <1>4 DEF ReloadCallback
  <1>6. new \in TabStates /\ new.url \in Tokens /\ owner'[new.url] # None
    BY <1>2, <1>3, FreshFits DEF TabStates
  <1>7. Leaves(b, k) /\ k[c] = Idle /\ \A d \in Calls : k[d].tab # b
    BY <1>2, <1>4, DroppedLeaves
  <1>8. /\ tab' \in [Tabs -> TabStates] /\ call' \in [Calls -> CallType]
        /\ store' = new.url
        /\ \A q \in Tabs \ {b} : tab'[q] = tab[q]
        /\ \A d \in Calls :
             call'[d] = call[d] \/ (call[d].tab \in {b, None} /\ call'[d].tab \in {b, None})
        /\ \A d \in Calls : CallFits(d)'
        /\ TabFits(b)' /\ Waits(b)'
    BY <1>5, <1>6, <1>7, CallbackFits
  <1>9. Typed' /\ Acts(b)
    BY <1>1, <1>2, <1>6, <1>8, SettlesCrosses, Crosses DEF Typed, Acts
  <1>10. TokensFit'
    BY <1>1, <1>2, <1>6, <1>8, TokensStay
  <1> QED BY <1>8, <1>9, <1>10, StepFits

LEMMA GoogleReturnsStep ==
  ASSUME SessionInv, clicks' \in 0..MaxClicks, NEW b \in Tabs, NEW c \in Calls, NEW u \in Users,
         GoogleReturns(b, c, u)
  PROVE  SessionInv'
  <1>1. Typed /\ TokensFit /\ TabFits(b)
    BY TypeParts DEF SessionInv
  <1>2. /\ cookie' = cookie /\ owner' = [owner EXCEPT ![Token] = u] /\ Token \in Tokens
        /\ call[c] = Idle /\ Settles(b) /\ tab[b].place = "google"
    BY DEF GoogleReturns
  <1>3. PICK t \in Tokens : t = Token
    BY <1>2
  <1>4. /\ owner' \in [Tokens -> Users \cup {None}] /\ owner'[t] # None
        /\ \E n \in 0..MaxTokens : \A x \in Tokens : owner'[x] # None <=> x <= n
    BY <1>1, <1>2, <1>3, GiveFits, BrowserAssumption
  <1>5. PICK f : f = Fresh(b) OBVIOUS
  <1>6. PICK new : new = [f EXCEPT !.url = t] OBVIOUS
  <1>7. PICK k : k = call OBVIOUS
  <1>8. Callback(b, c, new, k)
    BY <1>3, <1>5, <1>6, <1>7 DEF GoogleReturns
  <1>9. new \in TabStates /\ new.url = t
    <2>1. f \in TabStates
      BY <1>5, FreshFits
    <2> QED BY <2>1, <1>6 DEF TabStates
  <1>10. Leaves(b, k) /\ k[c] = Idle
    BY <1>2, <1>7, NoneLeaves
  <1>11. \A d \in Calls : k[d].tab # b
    BY <1>1, <1>2, <1>7 DEF TabFits, Busy
  <1>12. /\ tab' \in [Tabs -> TabStates] /\ call' \in [Calls -> CallType]
         /\ store' = new.url
         /\ \A q \in Tabs \ {b} : tab'[q] = tab[q]
         /\ \A d \in Calls :
              call'[d] = call[d] \/ (call[d].tab \in {b, None} /\ call'[d].tab \in {b, None})
         /\ \A d \in Calls : CallFits(d)'
         /\ TabFits(b)' /\ Waits(b)'
    BY <1>4, <1>8, <1>9, <1>10, <1>11, CallbackFits
  <1>13. Typed' /\ Acts(b)
    <2>1. \E v \in Users : owner' = [owner EXCEPT ![Token] = v]
      BY <1>2
    <2> QED BY <2>1, <1>1, <1>2, <1>3, <1>4, <1>9, <1>12, SettlesCrosses, Crosses DEF Typed, Acts
  <1>14. TokensFit'
    BY <1>4, <1>9, <1>12 DEF TokensFit, Given
  <1> QED BY <1>12, <1>13, <1>14, StepFits

\* A tab with a call under way has a page, and nothing in its address to fear.
LEMMA CallerFits ==
  ASSUME SessionInv, NEW c \in Calls, call[c].op # "none"
  PROVE  /\ call[c].tab \in Tabs /\ TabFits(call[c].tab) /\ Waits(call[c].tab) /\ CallFits(c)
         /\ tab[call[c].tab] \in TabStates
         /\ tab[call[c].tab].place \notin {"closed", "google", "refused"}
         /\ tab[call[c].tab].url = NoToken \/ owner[tab[call[c].tab].url] # None
         /\ tab[call[c].tab].here => tab[call[c].tab].url # NoToken
         /\ call[c].tab \notin crossed =>
              Alone(call[c].tab, c) /\ \A d \in Calls \ {c} : call[d].tab # call[c].tab
  <1>1. PICK b : b = call[c].tab OBVIOUS
  <1>2. Typed /\ CallFits(c) /\ \A q \in Tabs : TabFits(q) /\ Waits(q)
    BY TypeParts DEF SessionInv
  <1>3. b \in Tabs
    BY <1>1, <1>2 DEF CallFits
  <1>4. tab[b] \in TabStates /\ TabFits(b) /\ Waits(b)
    BY <1>2, <1>3 DEF Typed
  <1>5. Busy(b)
    BY <1>1 DEF Busy
  <1>6. /\ tab[b].place \notin {"closed", "google", "refused"}
        /\ tab[b].url = NoToken \/ owner[tab[b].url] # None
        /\ tab[b].here => tab[b].url # NoToken
        /\ b \notin crossed => Alone(b, c)
    BY <1>1, <1>4, <1>5 DEF TabFits, Given
  <1>7. b \notin crossed => \A d \in Calls \ {c} : call[d].tab # b
    BY <1>6 DEF Alone
  <1> QED BY <1>1, <1>2, <1>3, <1>4, <1>6, <1>7

LEMMA LoggedInStep ==
  ASSUME SessionInv, clicks' \in 0..MaxClicks, NEW c \in Calls, LoggedIn(c)
  PROVE  SessionInv'
  <1>1. Typed /\ TokensFit
    BY TypeParts DEF SessionInv
  <1>2. PICK b : b = call[c].tab OBVIOUS
  <1>3. PICK u : u = call[c].user OBVIOUS
  <1>4. PICK k : k = [call EXCEPT ![c] = Idle] OBVIOUS
  <1>5. PICK new : new = [tab[b] EXCEPT !.user = u] OBVIOUS
  <1>6. /\ cookie' = cookie /\ owner' = [owner EXCEPT ![Token] = u] /\ Token \in Tokens
        /\ call[c].op = "login"
        /\ store' = Token /\ Guard(b, c, new, k, Token)
        /\ crossed' = IF \A d \in Calls \ {c} : call[d].tab # b
                      THEN (crossed \cup Overlooked(b)) \ {b} ELSE crossed \cup Overlooked(b)
    BY <1>2, <1>3, <1>4, <1>5 DEF LoggedIn, Stored, LoggedInUser
  <1>7. PICK t \in Tokens : t = Token
    BY <1>6
  <1>8. /\ b \in Tabs /\ u \in Users /\ tab[b] \in TabStates
        /\ tab[b].place \notin {"closed", "google", "refused"}
        /\ tab[b].url = NoToken \/ owner[tab[b].url] # None
        /\ tab[b].here => tab[b].url # NoToken
        /\ b \notin crossed => \A d \in Calls \ {c} : call[d].tab # b
    BY <1>2, <1>3, <1>6, CallerFits DEF CallFits
  <1>9. /\ owner' \in [Tokens -> Users \cup {None}] /\ owner'[t] = u /\ owner'[t] # None
        /\ \E n \in 0..MaxTokens : \A x \in Tokens : owner'[x] # None <=> x <= n
        /\ \A x \in Tokens \cup {NoToken} : Given(x) => x = NoToken \/ owner'[x] # None
    BY <1>1, <1>6, <1>7, <1>8, GiveFits, BrowserAssumption
  <1>10. /\ new \in TabStates /\ new.place = tab[b].place /\ new.user = u
         /\ new.url = tab[b].url /\ new.here = tab[b].here
    BY <1>5, <1>8 DEF TabStates
  <1>11. new.url = NoToken \/ owner'[new.url] # None
    <2>1. PICK x \in Tokens \cup {NoToken} : x = new.url
      BY <1>10 DEF TabStates
    <2>2. Given(x)
      BY <2>1, <1>8, <1>10 DEF Given
    <2> QED BY <2>1, <2>2, <1>9
  <1>12. Leaves(b, k) /\ k[c] = Idle /\ \A d \in Calls \ {c} : k[d] = call[d]
    BY <1>2, <1>4, DoneLeaves
  <1>13. b \notin crossed' => \A d \in Calls : k[d].tab # b
    BY <1>6, <1>8, <1>12, IdleTyped, BrowserAssumption
  <1>14. Guard(b, c, new, k, t) /\ store' = t /\ t # NoToken
    BY <1>6, <1>7, NoTokenNot
  <1>15. /\ tab' \in [Tabs -> TabStates] /\ call' \in [Calls -> CallType]
         /\ \A q \in Tabs \ {b} : tab'[q] = tab[q]
         /\ \A d \in Calls :
              call'[d] = call[d] \/ (call[d].tab \in {b, None} /\ call'[d].tab \in {b, None})
         /\ \A d \in Calls : CallFits(d)'
         /\ TabFits(b)' /\ Waits(b)'
    BY <1>7, <1>8, <1>9, <1>10, <1>11, <1>12, <1>13, <1>14, GuardFits
  <1>16. crossed' \subseteq Tabs /\ crossed \cup Overlooked(b) \subseteq crossed' \cup {b}
    BY <1>1, <1>6 DEF Typed, Overlooked
  <1>17. Typed' /\ Acts(b)
    <2>1. \E v \in Users : owner' = [owner EXCEPT ![Token] = v]
      BY <1>6, <1>8
    <2> QED BY <2>1, <1>1, <1>6, <1>8, <1>9, <1>15, <1>16, Crosses DEF Typed, Acts
  <1>18. TokensFit'
    BY <1>9, <1>14 DEF TokensFit, Given
  <1> QED BY <1>8, <1>15, <1>17, <1>18, StepFits

LEMMA CallbackAnsweredStep ==
  ASSUME SessionInv, clicks' \in 0..MaxClicks, NEW c \in Calls, CallbackAnswered(c)
  PROVE  SessionInv'
  <1>1. /\ Typed /\ TokensFit /\ store \in Tokens \cup {NoToken}
        /\ Given(store)
    BY TypeParts DEF SessionInv, Typed, TokensFit
  <1>2. PICK b : b = call[c].tab OBVIOUS
  <1>3. PICK k : k = [call EXCEPT ![c] = Idle] OBVIOUS
  <1>4. PICK s \in Tokens \cup {NoToken} : s = store
    BY <1>1
  <1>5. PICK new : new = [tab[b] EXCEPT !.user = owner[call[c].tok]] OBVIOUS
  <1>6. /\ store' = store /\ cookie' = cookie /\ owner' = owner /\ crossed' = crossed
        /\ call[c].op = "callback" /\ Guard(b, c, new, k, s)
    BY <1>2, <1>3, <1>4, <1>5 DEF CallbackAnswered, SetUser
  <1>7. /\ b \in Tabs /\ tab[b] \in TabStates /\ call[c].tok \in Tokens
        /\ tab[b].place \notin {"closed", "google", "refused"}
        /\ tab[b].url = NoToken \/ owner[tab[b].url] # None
        /\ tab[b].here => tab[b].url # NoToken
        /\ b \notin crossed => /\ tab[b].place = "callback" /\ call[c].tok = store
                               /\ \A d \in Calls \ {c} : call[d].tab # b
    BY <1>2, <1>6, CallerFits DEF CallFits, Alone
  <1>8. /\ new \in TabStates /\ new.place = tab[b].place /\ new.user = owner[call[c].tok]
        /\ new.url = tab[b].url /\ new.here = tab[b].here
    <2>1. owner[call[c].tok] \in Users \cup {None}
      BY <1>1, <1>7 DEF Typed
    <2> QED BY <2>1, <1>5, <1>7 DEF TabStates
  <1>9. Leaves(b, k) /\ k[c] = Idle /\ \A d \in Calls \ {c} : k[d] = call[d]
    BY <1>2, <1>3, DoneLeaves
  <1>10. b \notin crossed' => /\ \A d \in Calls : k[d].tab # b
                              /\ new.place = "callback" /\ s # NoToken /\ new.user = owner'[s]
    BY <1>4, <1>6, <1>7, <1>8, <1>9, IdleTyped, NoTokenNot, BrowserAssumption
  <1>11. /\ tab' \in [Tabs -> TabStates] /\ call' \in [Calls -> CallType]
         /\ \A q \in Tabs \ {b} : tab'[q] = tab[q]
         /\ \A d \in Calls :
              call'[d] = call[d] \/ (call[d].tab \in {b, None} /\ call'[d].tab \in {b, None})
         /\ \A d \in Calls : CallFits(d)'
         /\ TabFits(b)' /\ Waits(b)'
    BY <1>4, <1>6, <1>7, <1>8, <1>9, <1>10, GuardFits
  <1>12. Typed' /\ Acts(b)
    BY <1>1, <1>6, <1>11 DEF Typed, Acts
  <1>13. TokensFit'
    BY <1>1, <1>6, TokensStay DEF Given
  <1> QED BY <1>7, <1>11, <1>12, <1>13, StepFits

LEMMA CallbackFailsStep ==
  ASSUME SessionInv, clicks' \in 0..MaxClicks, NEW c \in Calls, CallbackFails(c)
  PROVE  SessionInv'
  <1>1. Typed /\ TokensFit
    BY TypeParts DEF SessionInv
  <1>2. PICK b : b = call[c].tab OBVIOUS
  <1>3. PICK k : k = [call EXCEPT ![c] = Idle] OBVIOUS
  <1>4. PICK new : new = [tab[b] EXCEPT !.user = None] OBVIOUS
  <1>5. /\ store' = NoToken /\ cookie' = cookie /\ owner' = owner
        /\ crossed' = crossed \cup Overlooked(b)
        /\ call[c].op = "callback" /\ Guard(b, c, new, k, NoToken)
    BY <1>2, <1>3, <1>4 DEF CallbackFails, NoUser
  <1>6. /\ b \in Tabs /\ tab[b] \in TabStates
        /\ tab[b].place \notin {"closed", "google", "refused"}
        /\ tab[b].url = NoToken \/ owner[tab[b].url] # None
        /\ tab[b].here => tab[b].url # NoToken
        /\ b \notin crossed => /\ tab[b].place = "callback"
                               /\ \A d \in Calls \ {c} : call[d].tab # b
    BY <1>2, <1>5, CallerFits DEF CallFits, Alone
  <1>7. /\ new \in TabStates /\ new.place = tab[b].place
        /\ new.url = tab[b].url /\ new.here = tab[b].here
    BY <1>4, <1>6 DEF TabStates
  <1>8. Leaves(b, k) /\ k[c] = Idle /\ \A d \in Calls \ {c} : k[d] = call[d]
    BY <1>2, <1>3, DoneLeaves
  <1>9. b \notin crossed' => new.place = "callback" /\ \A d \in Calls : k[d].tab # b
    BY <1>5, <1>6, <1>7, <1>8, IdleTyped, BrowserAssumption
  <1>10. /\ tab' \in [Tabs -> TabStates] /\ call' \in [Calls -> CallType]
         /\ \A q \in Tabs \ {b} : tab'[q] = tab[q]
         /\ \A d \in Calls :
              call'[d] = call[d] \/ (call[d].tab \in {b, None} /\ call'[d].tab \in {b, None})
         /\ \A d \in Calls : CallFits(d)'
         /\ TabFits(b)' /\ Waits(b)'
    BY <1>5, <1>6, <1>7, <1>8, <1>9, GuardFits
  <1>11. crossed' \subseteq Tabs /\ crossed \cup Overlooked(b) \subseteq crossed' \cup {b}
    BY <1>1, <1>5 DEF Typed, Overlooked
  <1>12. Typed' /\ Acts(b)
    BY <1>1, <1>5, <1>6, <1>10, <1>11, Crosses DEF Typed, Acts
  <1>13. TokensFit'
    BY <1>1, <1>5, TokensStay
  <1> QED BY <1>6, <1>10, <1>12, <1>13, StepFits

\* Tab b goes on as z, with no call that matters, and gives or stores nothing.
LEMMA MoveStep ==
  ASSUME SessionInv, clicks' \in 0..MaxClicks, cookie' \in Tabs \cup {None},
         NEW b \in Tabs, NEW z \in TabStates, NEW k, Leaves(b, k),
         tab' = [tab EXCEPT ![b] = z], call' = k,
         owner' = owner, store' = store \/ store' = NoToken,
         crossed' \subseteq Tabs, crossed \cup Overlooked(b) \subseteq crossed' \cup {b},
         z.place # "closed",
         z.place \in {"google", "refused"} => \A d \in Calls : k[d].tab # b,
         z.nav # None => k[z.nav].tab = b /\ k[z.nav].op = "guard",
         z.url = NoToken \/ owner[z.url] # None, z.here => z.url # NoToken,
         b \notin crossed' =>
           /\ \A d \in Calls : k[d].tab # b
           /\ z.place = "app" => store' # NoToken
           /\ z.place = "app" \/ (z.me /\ store' # NoToken) => z.user = owner[store']
  PROVE  SessionInv'
  <1>1. /\ Typed /\ TokensFit /\ store \in Tokens \cup {NoToken}
        /\ store = NoToken \/ owner[store] # None
    BY TypeParts DEF SessionInv, Typed, TokensFit, Given
  <1>2. tab' \in [Tabs -> TabStates] /\ tab'[b] = z /\ \A q \in Tabs \ {b} : tab'[q] = tab[q]
    BY <1>1 DEF Typed
  <1>3. Waits(b)'
    BY <1>2 DEF Waits
  <1>4. b \notin crossed' => Honest(b)'
    BY <1>2 DEF Honest
  <1>5. z.place \in {"google", "refused"} => ~Busy(b)'
    BY DEF Busy
  <1>6. TabFits(b)'
    BY <1>2, <1>4, <1>5 DEF TabFits, Given
  <1>7. /\ call' \in [Calls -> CallType]
        /\ \A d \in Calls : /\ CallFits(d)'
                            /\ \/ call'[d] = call[d]
                               \/ call[d].tab \in {b, None} /\ call'[d].tab \in {b, None}
    BY LeavesFits DEF Leaves
  <1>8. Typed' /\ Acts(b)
    BY <1>1, <1>2, <1>7, Crosses DEF Typed, Acts
  <1>9. TokensFit'
    BY <1>1, TokensStay
  <1> QED BY <1>3, <1>6, <1>7, <1>8, <1>9, StepFits

LEMMA OpenLoginStep ==
  ASSUME SessionInv, clicks' \in 0..MaxClicks, NEW b \in Tabs, OpenLogin(b)
  PROVE  SessionInv'
  <1>1. Typed
    BY TypeParts DEF SessionInv
  <1>2. PICK z : z = [Fresh(b) EXCEPT !.place = "login", !.login = TRUE] OBVIOUS
  <1>3. PICK k : k = Dropped(b) OBVIOUS
  <1>4. /\ tab' = [tab EXCEPT ![b] = z] /\ call' = k /\ Settles(b)
        /\ store' = store /\ cookie' = cookie /\ owner' = owner
    BY <1>2, <1>3 DEF OpenLogin
  <1>5. /\ z \in TabStates /\ z.place = "login" /\ ~z.me /\ ~z.here /\ z.nav = None
        /\ z.url = NoToken \/ owner[z.url] # None
    BY <1>2, FreshFits DEF TabStates
  <1>6. Leaves(b, k) /\ \A d \in Calls : k[d].tab # b
    BY <1>3, DroppedLeaves
  <1>7. cookie' \in Tabs \cup {None}
    BY <1>1, <1>4 DEF Typed
  <1> QED BY <1>1, <1>4, <1>5, <1>6, <1>7, SettlesCrosses, MoveStep

LEMMA GoogleStep ==
  ASSUME SessionInv, clicks' \in 0..MaxClicks, NEW b \in Tabs, Google(b)
  PROVE  SessionInv'
  <1>1. Typed
    BY TypeParts DEF SessionInv
  <1>2. PICK z : z = [Fresh(b) EXCEPT !.place = "google"] OBVIOUS
  <1>3. PICK k : k = Dropped(b) OBVIOUS
  <1>4. /\ tab' = [tab EXCEPT ![b] = z] /\ call' = k /\ Settles(b)
        /\ store' = store /\ cookie' = b /\ owner' = owner
    BY <1>2, <1>3 DEF Google
  <1>5. /\ z \in TabStates /\ z.place = "google" /\ ~z.me /\ ~z.here /\ z.nav = None
        /\ z.url = NoToken \/ owner[z.url] # None
    BY <1>2, FreshFits DEF TabStates
  <1>6. Leaves(b, k) /\ \A d \in Calls : k[d].tab # b
    BY <1>3, DroppedLeaves
  <1> QED BY <1>1, <1>4, <1>5, <1>6, SettlesCrosses, MoveStep

LEMMA LogoutStep ==
  ASSUME SessionInv, clicks' \in 0..MaxClicks, NEW b \in Tabs, Logout(b)
  PROVE  SessionInv'
  <1>1. Typed /\ TabFits(b) /\ tab[b] \in TabStates
    BY TypeParts DEF SessionInv, Typed
  <1>2. PICK z : z = [tab[b] EXCEPT !.place = "login", !.nav = None, !.user = None, !.login = TRUE] OBVIOUS
  <1>3. PICK k : k = call OBVIOUS
  <1>4. tab[b].place = "app" /\ call' = k /\ Disturbs(b)
        /\ store' = NoToken /\ cookie' = cookie /\ owner' = owner
    BY <1>3 DEF Logout
  <1>5. tab' = [tab EXCEPT ![b] = z]
    BY <1>1, <1>2 DEF Logout, Typed
  <1>6. /\ z \in TabStates /\ z.place = "login" /\ z.nav = None
        /\ z.url = tab[b].url /\ z.here = tab[b].here
    BY <1>1, <1>2 DEF TabStates
  <1>7. (z.url = NoToken \/ owner[z.url] # None) /\ (z.here => z.url # NoToken)
    BY <1>1, <1>6 DEF TabFits, Given
  <1>8. Leaves(b, k)
    BY <1>3, NoneLeaves
  <1>9. cookie' \in Tabs \cup {None}
    BY <1>1, <1>4 DEF Typed
  <1> QED BY <1>1, <1>3, <1>4, <1>5, <1>6, <1>7, <1>8, <1>9, DisturbsCrosses, MoveStep

LEMMA BackToLoginStep ==
  ASSUME SessionInv, clicks' \in 0..MaxClicks, NEW b \in Tabs, BackToLogin(b)
  PROVE  SessionInv'
  <1>1. /\ Typed /\ TabFits(b) /\ tab[b] \in TabStates
        /\ store = NoToken \/ owner[store] # None
    BY TypeParts DEF SessionInv, Typed, TokensFit, Given
  <1>2. PICK z : z = [tab[b] EXCEPT !.place = "login", !.nav = None] OBVIOUS
  <1>3. PICK k : k = call OBVIOUS
  <1>4. tab[b].place \in {"callback", "app"} /\ call' = k /\ Disturbs(b)
        /\ store' = store /\ cookie' = cookie /\ owner' = owner
    BY <1>3 DEF BackToLogin
  <1>5. tab' = [tab EXCEPT ![b] = z]
    BY <1>1, <1>2 DEF BackToLogin, Typed
  <1>6. /\ z \in TabStates /\ z.place = "login" /\ z.nav = None /\ z.me = tab[b].me
        /\ z.url = tab[b].url /\ z.here = tab[b].here /\ z.user = tab[b].user
    BY <1>1, <1>2 DEF TabStates
  <1>7. (z.url = NoToken \/ owner[z.url] # None) /\ (z.here => z.url # NoToken)
    BY <1>1, <1>6 DEF TabFits, Given
  <1>8. Leaves(b, k)
    BY <1>3, NoneLeaves
  <1>9. b \notin crossed' =>
          /\ \A d \in Calls : k[d].tab # b
          /\ z.me /\ store # NoToken => z.user = owner[store]
    <2>1. b \notin crossed' => b \notin crossed /\ \A d \in Calls : call[d].tab # b
      BY <1>1, <1>4, DisturbsCrosses
    <2> QED BY <2>1, <1>1, <1>3, <1>6 DEF TabFits, Known, Honest
  <1>10. cookie' \in Tabs \cup {None} /\ crossed' \subseteq Tabs
         /\ crossed \cup Overlooked(b) \subseteq crossed' \cup {b}
    BY <1>1, <1>4, DisturbsCrosses DEF Typed
  <1> QED BY <1>1, <1>4, <1>5, <1>6, <1>7, <1>8, <1>9, <1>10, MoveStep

LEMMA GoogleRefusesStep ==
  ASSUME SessionInv, clicks' \in 0..MaxClicks, NEW b \in Tabs, GoogleRefuses(b)
  PROVE  SessionInv'
  <1>1. Typed /\ TabFits(b) /\ Waits(b) /\ tab[b] \in TabStates
    BY TypeParts DEF SessionInv, Typed
  <1>2. PICK z : z = [tab[b] EXCEPT !.place = "refused"] OBVIOUS
  <1>3. PICK k : k = call OBVIOUS
  <1>4. /\ tab[b].place = "google" /\ call' = k /\ crossed' = crossed
        /\ store' = store /\ cookie' = cookie /\ owner' = owner
    BY <1>3 DEF GoogleRefuses
  <1>5. tab' = [tab EXCEPT ![b] = z]
    BY <1>1, <1>2 DEF GoogleRefuses, Typed
  <1>6. /\ z \in TabStates /\ z.place = "refused" /\ z.nav = tab[b].nav /\ z.me = tab[b].me
        /\ z.url = tab[b].url /\ z.here = tab[b].here /\ z.user = tab[b].user
    BY <1>1, <1>2 DEF TabStates
  <1>7. (z.url = NoToken \/ owner[z.url] # None) /\ (z.here => z.url # NoToken)
    BY <1>1, <1>6 DEF TabFits, Given
  <1>8. Leaves(b, k) /\ \A d \in Calls : k[d].tab # b
    BY <1>1, <1>3, <1>4, NoneLeaves DEF TabFits, Busy
  <1>9. z.nav # None => k[z.nav].tab = b /\ k[z.nav].op = "guard"
    BY <1>1, <1>3, <1>6 DEF Waits
  <1>10. b \notin crossed => (z.me /\ store # NoToken => z.user = owner[store])
    BY <1>1, <1>3, <1>6, <1>8 DEF TabFits, Known, Honest
  <1>11. cookie' \in Tabs \cup {None} /\ crossed' \subseteq Tabs
         /\ crossed \cup Overlooked(b) \subseteq crossed' \cup {b}
    BY <1>1, <1>4 DEF Typed, Overlooked
  <1> QED BY <1>4, <1>5, <1>6, <1>7, <1>8, <1>9, <1>10, <1>11, MoveStep

LEMMA LoginRefusedStep ==
  ASSUME SessionInv, clicks' \in 0..MaxClicks, NEW c \in Calls, LoginRefused(c)
  PROVE  SessionInv'
  <1>1. Typed
    BY TypeParts DEF SessionInv
  <1>2. PICK b : b = call[c].tab OBVIOUS
  <1>3. PICK k : k = [call EXCEPT ![c] = Idle] OBVIOUS
  <1>4. PICK z : z = tab[b] OBVIOUS
  <1>5. /\ call[c].op = "login" /\ call' = k /\ crossed' = crossed
        /\ store' = store /\ cookie' = cookie /\ owner' = owner /\ tab' = tab
    BY <1>3 DEF LoginRefused
  <1>6. /\ b \in Tabs /\ z \in TabStates /\ TabFits(b) /\ Waits(b)
        /\ z.place \notin {"closed", "google", "refused"}
        /\ z.url = NoToken \/ owner[z.url] # None
        /\ z.here => z.url # NoToken
        /\ b \notin crossed => Alone(b, c) /\ \A d \in Calls \ {c} : call[d].tab # b
    BY <1>2, <1>4, <1>5, CallerFits
  <1>7. tab' = [tab EXCEPT ![b] = z]
    BY <1>1, <1>4, <1>5, <1>6 DEF Typed
  <1>8. /\ Leaves(b, k) /\ k[c] = Idle /\ \A d \in Calls \ {c} : k[d] = call[d]
    BY <1>2, <1>3, DoneLeaves
  <1>9. z.nav # None => k[z.nav].tab = b /\ k[z.nav].op = "guard"
    <2>1. ASSUME z.nav # None PROVE z.nav \in Calls \ {c} /\ call[z.nav].tab = b /\ call[z.nav].op = "guard"
      BY <2>1, <1>4, <1>5, <1>6 DEF Waits, TabStates
    <2> QED BY <2>1, <1>8
  <1>10. b \notin crossed =>
           /\ \A d \in Calls : k[d].tab # b
           /\ z.place = "app" => store # NoToken
           /\ z.place = "app" \/ (z.me /\ store # NoToken) => z.user = owner[store]
    BY <1>2, <1>4, <1>5, <1>6, <1>8, IdleTyped, BrowserAssumption DEF TabFits, Known, Honest
  <1>11. cookie' \in Tabs \cup {None} /\ crossed' \subseteq Tabs
         /\ crossed \cup Overlooked(b) \subseteq crossed' \cup {b}
    BY <1>1, <1>5 DEF Typed, Overlooked
  <1> QED BY <1>5, <1>6, <1>7, <1>8, <1>9, <1>10, <1>11, MoveStep

LEMMA GuardAnsweredStep ==
  ASSUME SessionInv, clicks' \in 0..MaxClicks, NEW c \in Calls, GuardAnswered(c)
  PROVE  SessionInv'
  <1>1. Typed
    BY TypeParts DEF SessionInv
  <1>2. PICK b : b = call[c].tab OBVIOUS
  <1>3. PICK k : k = [call EXCEPT ![c] = Idle] OBVIOUS
  <1>4. PICK u : u = owner[call[c].tok] OBVIOUS
  <1>5. PICK z : z = IF tab[b].nav = c
                     THEN [tab[b] EXCEPT !.user = u, !.me = TRUE, !.place = "app", !.nav = None]
                     ELSE [tab[b] EXCEPT !.user = u, !.me = TRUE]
    OBVIOUS
  <1>6. /\ call[c].op = "guard" /\ call' = k /\ crossed' = crossed
        /\ store' = store /\ cookie' = cookie /\ owner' = owner
    BY <1>3 DEF GuardAnswered
  <1>7. /\ b \in Tabs /\ tab[b] \in TabStates /\ Waits(b) /\ call[c].tok \in Tokens
        /\ tab[b].place \notin {"closed", "google", "refused"}
        /\ tab[b].url = NoToken \/ owner[tab[b].url] # None
        /\ tab[b].here => tab[b].url # NoToken
        /\ b \notin crossed => /\ tab[b].nav = c /\ call[c].tok = store
                               /\ \A d \in Calls \ {c} : call[d].tab # b
    BY <1>2, <1>6, CallerFits DEF CallFits, Alone
  <1>8. tab' = [tab EXCEPT ![b] = z]
    <2>1. tab' = [tab EXCEPT ![b] =
                    IF tab[b].nav = c
                    THEN [[[tab[b] EXCEPT !.user = u] EXCEPT !.me = TRUE]
                            EXCEPT !.place = "app", !.nav = None]
                    ELSE [[tab[b] EXCEPT !.user = u] EXCEPT !.me = TRUE]]
      BY <1>2, <1>4 DEF GuardAnswered, SetUser
    <2> QED BY <2>1, <1>5, <1>7 DEF TabStates
  <1>9. u \in Users \cup {None}
    BY <1>1, <1>4, <1>7 DEF Typed
  <1>10. /\ z \in TabStates /\ z.user = u /\ z.url = tab[b].url /\ z.here = tab[b].here
         /\ z.place \notin {"closed", "google", "refused"}
         /\ z.nav # None => z.nav = tab[b].nav /\ z.nav # c
    BY <1>5, <1>7, <1>9 DEF TabStates
  <1>11. Leaves(b, k) /\ k[c] = Idle /\ \A d \in Calls \ {c} : k[d] = call[d]
    BY <1>2, <1>3, DoneLeaves
  <1>12. z.nav # None => k[z.nav].tab = b /\ k[z.nav].op = "guard"
    <2>1. ASSUME z.nav # None PROVE z.nav \in Calls \ {c} /\ call[z.nav].tab = b /\ call[z.nav].op = "guard"
      BY <2>1, <1>7, <1>10 DEF Waits, TabStates
    <2> QED BY <2>1, <1>11
  <1>13. b \notin crossed =>
           /\ \A d \in Calls : k[d].tab # b
           /\ store # NoToken /\ z.user = owner[store]
    BY <1>4, <1>7, <1>10, <1>11, IdleTyped, NoTokenNot, BrowserAssumption
  <1>14. cookie' \in Tabs \cup {None} /\ crossed' \subseteq Tabs
         /\ crossed \cup Overlooked(b) \subseteq crossed' \cup {b}
    BY <1>1, <1>6 DEF Typed, Overlooked
  <1> QED BY <1>6, <1>7, <1>8, <1>10, <1>11, <1>12, <1>13, <1>14, MoveStep

LEMMA GuardFailsStep ==
  ASSUME SessionInv, clicks' \in 0..MaxClicks, NEW c \in Calls, GuardFails(c)
  PROVE  SessionInv'
  <1>1. Typed
    BY TypeParts DEF SessionInv
  <1>2. PICK b : b = call[c].tab OBVIOUS
  <1>3. PICK k : k = [call EXCEPT ![c] = Idle] OBVIOUS
  <1>4. PICK z : z = IF tab[b].nav = c
                     THEN [tab[b] EXCEPT !.user = None, !.place = "login", !.nav = None, !.login = TRUE]
                     ELSE [tab[b] EXCEPT !.user = None]
    OBVIOUS
  <1>5. /\ call[c].op = "guard" /\ call' = k /\ crossed' = crossed \cup Overlooked(b)
        /\ store' = NoToken /\ cookie' = cookie /\ owner' = owner
    BY <1>2, <1>3 DEF GuardFails
  <1>6. /\ b \in Tabs /\ tab[b] \in TabStates /\ Waits(b)
        /\ tab[b].place \notin {"closed", "google", "refused"}
        /\ tab[b].url = NoToken \/ owner[tab[b].url] # None
        /\ tab[b].here => tab[b].url # NoToken
        /\ b \notin crossed => /\ tab[b].nav = c
                               /\ \A d \in Calls \ {c} : call[d].tab # b
    BY <1>2, <1>5, CallerFits DEF CallFits, Alone
  <1>7. tab' = [tab EXCEPT ![b] = z]
    <2>1. tab' = [tab EXCEPT ![b] =
                    IF tab[b].nav = c
                    THEN [[tab[b] EXCEPT !.user = None]
                            EXCEPT !.place = "login", !.nav = None, !.login = TRUE]
                    ELSE [tab[b] EXCEPT !.user = None]]
      BY <1>2 DEF GuardFails, ToLogin, NoUser
    <2> QED BY <2>1, <1>4, <1>6 DEF TabStates
  <1>8. /\ z \in TabStates /\ z.url = tab[b].url /\ z.here = tab[b].here
        /\ z.place \notin {"closed", "google", "refused"}
        /\ tab[b].nav = c => z.place = "login"
        /\ z.nav # None => z.nav = tab[b].nav /\ z.nav # c
    BY <1>4, <1>6 DEF TabStates
  <1>9. Leaves(b, k) /\ k[c] = Idle /\ \A d \in Calls \ {c} : k[d] = call[d]
    BY <1>2, <1>3, DoneLeaves
  <1>10. z.nav # None => k[z.nav].tab = b /\ k[z.nav].op = "guard"
    <2>1. ASSUME z.nav # None PROVE z.nav \in Calls \ {c} /\ call[z.nav].tab = b /\ call[z.nav].op = "guard"
      BY <2>1, <1>6, <1>8 DEF Waits, TabStates
    <2> QED BY <2>1, <1>9
  <1>11. b \notin crossed' => z.place = "login" /\ \A d \in Calls : k[d].tab # b
    BY <1>5, <1>6, <1>8, <1>9, IdleTyped, BrowserAssumption
  <1>12. cookie' \in Tabs \cup {None} /\ crossed' \subseteq Tabs
         /\ crossed \cup Overlooked(b) \subseteq crossed' \cup {b}
    BY <1>1, <1>5 DEF Typed, Overlooked
  <1> QED BY <1>5, <1>6, <1>7, <1>8, <1>9, <1>10, <1>11, <1>12, MoveStep

LEMMA SubmitStep ==
  ASSUME SessionInv, clicks' \in 0..MaxClicks, NEW b \in Tabs, NEW c \in Calls, NEW u \in Users,
         Submit(b, c, u)
  PROVE  SessionInv'
  <1>1. /\ Typed /\ TokensFit /\ TabFits(b) /\ Waits(b) /\ b # None
        /\ store = NoToken \/ owner[store] # None
    BY TypeParts, BrowserAssumption DEF SessionInv, TokensFit, Given
  <1>2. /\ tab[b].place = "login" /\ call[c] = Idle /\ Disturbs(b)
        /\ store' = store /\ cookie' = cookie /\ owner' = owner /\ tab' = tab
        /\ call' = [call EXCEPT ![c] = [tab |-> b, op |-> "login", tok |-> NoToken, user |-> u]]
    BY DEF Submit
  <1>3. /\ call' \in [Calls -> CallType]
        /\ call'[c].tab = b /\ call'[c].op = "login" /\ call'[c].user = u
        /\ \A d \in Calls \ {c} : call'[d] = call[d]
    BY <1>1, <1>2 DEF Typed, CallType
  <1>4. Waits(b)'
    <2>1. tab[b].nav # None => tab[b].nav \in Calls \ {c}
      BY <1>1, <1>2, IdleTyped DEF Waits, Typed, TabStates
    <2> QED BY <2>1, <1>1, <1>2, <1>3 DEF Waits
  <1>5. ASSUME b \notin crossed'
        PROVE  /\ \A d \in Calls : call'[d].tab = b => d = c
               /\ Honest(b)
    <2>1. b \notin crossed /\ \A d \in Calls : call[d].tab # b
      BY <1>1, <1>2, <1>5, DisturbsCrosses
    <2> QED BY <2>1, <1>1, <1>3 DEF TabFits, Known
  <1>6. b \notin crossed' => Alone(b, c)' /\ Honest(b)'
    BY <1>2, <1>3, <1>5 DEF Alone, Honest
  <1>7. TabFits(b)'
    BY <1>1, <1>2, <1>5, <1>6 DEF TabFits, Given
  <1>8. \A d \in Calls : CallFits(d)'
    <2>1. CallFits(c)'
      BY <1>3 DEF CallFits
    <2>2. \A d \in Calls \ {c} : CallFits(d)'
      BY <1>3 DEF SessionInv, CallFits
    <2> QED BY <2>1, <2>2
  <1>9. Typed' /\ Acts(b)
    BY <1>1, <1>2, <1>3, IdleTyped, DisturbsCrosses, Crosses DEF Typed, Acts
  <1>10. TokensFit'
    BY <1>1, <1>2, TokensStay
  <1> QED BY <1>4, <1>7, <1>8, <1>9, <1>10, StepFits

-----------------------------------------------------------------------------
(* The theorems                                                            *)

LEMMA SessionInit == Init => SessionInv
  <1> SUFFICES ASSUME Init PROVE SessionInv
    OBVIOUS
  <1>1. PICK u \in Users \cup {None} :
          /\ owner = [t \in Tokens |-> IF t = 1 THEN u ELSE None]
          /\ store = IF u = None THEN NoToken ELSE 1
    BY DEF Init
  <1>2. 1 \in Tokens /\ MaxTokens \in Nat /\ 1 <= MaxTokens /\ MaxClicks \in Nat
    BY BoundAssumption DEF Tokens
  <1>3. /\ cookie = None /\ clicks = 0 /\ crossed = {}
        /\ tab = [b \in Tabs |-> Closed] /\ call = [c \in Calls |-> Idle]
    BY DEF Init
  <1>4. Closed \in TabStates /\ Closed.nav = None /\ Closed.url = NoToken
        /\ ~Closed.here /\ Closed.place = "closed" /\ ~Closed.me
    BY DEF Closed, TabStates
  <1>5. Typed
    BY <1>1, <1>2, <1>3, <1>4, IdleTyped DEF Typed
  <1>6. TokensFit
    <2>1. CASE u = None
      <3>1. 0 \in 0..MaxTokens /\ \A t \in Tokens : owner[t] # None <=> t <= 0
        BY <2>1, <1>1, <1>2 DEF Tokens
      <3> QED BY <3>1, <2>1, <1>1 DEF TokensFit, Given
    <2>2. CASE u # None
      <3>1. 1 \in 0..MaxTokens /\ \A t \in Tokens : owner[t] # None <=> t <= 1
        BY <2>2, <1>1, <1>2 DEF Tokens
      <3> QED BY <3>1, <2>2, <1>1, <1>2 DEF TokensFit, Given
    <2> QED BY <2>1, <2>2
  <1>7. \A c \in Calls : CallFits(c)
    BY <1>3, IdleTyped DEF CallFits
  <1>8. \A b \in Tabs : TabFits(b) /\ Waits(b)
    <2>1. \A c \in Calls : call[c].tab \notin Tabs
      BY <1>3, IdleTyped, BrowserAssumption
    <2>2. \A b \in Tabs : Honest(b) /\ ~Busy(b)
      BY <2>1, <1>3, <1>4 DEF Honest, Busy
    <2> QED BY <2>1, <2>2, <1>3, <1>4 DEF TabFits, Waits, Given
  <1> QED BY <1>5, <1>6, <1>7, <1>8, TypeParts DEF SessionInv

LEMMA SessionNext ==
  ASSUME SessionInv, [Next]_vars
  PROVE  SessionInv'
  <1>1. clicks \in 0..MaxClicks
    BY TypeParts DEF SessionInv, Typed
  <1>2. ASSUME clicks < MaxClicks, clicks' = clicks + 1, Click
        PROVE  SessionInv'
    <2>1. clicks' \in 0..MaxClicks
      BY <1>1, <1>2, BoundAssumption
    <2> QED BY <2>1, <1>2, OpenLoginStep, BackToLoginStep, GoogleStep, LogoutStep, OpenStep,
               BackToAppStep, BackToCallbackStep, ReloadCallbackStep, SubmitStep DEF Click
  <1>3. ASSUME Returns, UNCHANGED clicks
        PROVE  SessionInv'
    <2>1. clicks' \in 0..MaxClicks
      BY <1>1, <1>3
    <2> QED BY <2>1, <1>3, GoogleReturnsStep, GoogleRefusesStep DEF Returns
  <1>4. ASSUME NEW c \in Calls, Answer(c), UNCHANGED clicks
        PROVE  SessionInv'
    <2>1. clicks' \in 0..MaxClicks
      BY <1>1, <1>4
    <2> QED BY <2>1, <1>4, LoggedInStep, LoginRefusedStep, GuardAnsweredStep, GuardFailsStep,
               CallbackAnsweredStep, CallbackFailsStep DEF Answer
  <1>5. CASE UNCHANGED vars
    BY <1>5 DEF vars, SessionInv, TypeOK, TokensFit, CallFits, TabFits, Given, Alone, Known,
                Honest, Busy
  <1> QED BY <1>2, <1>3, <1>4, <1>5 DEF Next

\* SessionInv is an invariant: an uncrossed tab has at most one call, that of the
\* page it shows and with the token in the store (auth.guard.ts:7-20,
\* auth-callback.component.ts:15-35, login.component.ts:30-45).
THEOREM SessionInvariance == Spec => []SessionInv
  <1>1. SessionInv /\ [Next]_vars => SessionInv'
    BY SessionNext
  <1> QED BY SessionInit, <1>1, PTL DEF Spec

\* Every variable has its type, and a navigation waits for a call of its own
\* tab's guard (auth.guard.ts:15).
THEOREM TypeCorrect == Spec => []TypeOK
  <1>1. SessionInv => TypeOK
    BY DEF SessionInv
  <1> QED BY SessionInvariance, <1>1, PTL

\* Where nothing crossed a call, the application shows the user the token is of
\* (auth.guard.ts:15, auth.service.ts:67-86).
THEOREM HonestyHolds == Spec => []AppHonest
  <1>1. SessionInv => AppHonest
    <2> SUFFICES ASSUME SessionInv, NEW b \in Tabs \ crossed, tab[b].place = "app", ~Busy(b)
                 PROVE  store # NoToken /\ tab[b].user = owner[store]
      BY DEF AppHonest
    <2>1. Known(b)
      BY DEF Known, Busy
    <2> QED BY <2>1 DEF SessionInv, TabFits, Honest
  <1> QED BY SessionInvariance, <1>1, PTL

\* A loadMe that fails removes the token it was sent with, unless its tab was
\* crossed (auth.service.ts:86).
THEOREM OwnTokenRemoved == Spec => RemovesOwn
  <1> DEFINE Own == \A c \in Calls : call[c].op \in {"guard", "callback"} /\ store # NoToken
                       /\ store' = NoToken /\ call'[c] = Idle
                       => store = call[c].tok \/ call[c].tab \in crossed
  <1>1. ASSUME SessionInv, [Next]_vars
        PROVE  [Own]_vars
    <2> SUFFICES ASSUME NEW c \in Calls, call[c].op \in {"guard", "callback"},
                        call[c].tab \notin crossed
                 PROVE  store = call[c].tok
      OBVIOUS
    <2> QED BY <1>1, CallerFits DEF Alone
  <1>2. SessionInv /\ [Next]_vars => [Own]_vars
    BY <1>1
  <1> QED BY SessionInvariance, <1>2, PTL DEF Spec, RemovesOwn
=============================================================================
