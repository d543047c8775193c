------------------------- MODULE AuthSessionsProofs -------------------------
(***************************************************************************)
(* For any number of requests, users and tokens: the rotation of refresh   *)
(* tokens neither forks a session nor loses it, except where two refreshes *)
(* of one token overlapped or a failure cut one short; a Google login      *)
(* answers with a user of its own; and where there are users there is an   *)
(* admin, or a teacher who was provisioned.                                *)
(***************************************************************************)
EXTENDS AuthSessions, FiniteSetTheorems, TLAPS

tokenVars == <<owner, revoked, family, delivered, contended, broken>>

\* Every row the code inserts is a row of users.
LEMMA NewUserTyped ==
  ASSUME NEW s \in Subs \cup {NoSub}, NEW p \in BOOLEAN,
         NEW role \in {"admin", "teacher", "student"}
  PROVE  NewUser(s, p, role) \in UserRows /\ NewUser(s, p, role) # Absent
  BY DEF NewUser, UserRows, Absent

LEMMA IdleTyped == Idle \in Locals
  BY DEF Idle, Locals

LEMMA InitInv == Init => Inv
<1> SUFFICES ASSUME Init PROVE Inv
  OBVIOUS
<1>1. TypeOK
  BY IdleTyped DEF Init, TypeOK
<1>2. Rooted /\ Redeems
  BY DEF Init, Rooted, Redeems, Redeeming, Idle
<1>3. OneSession /\ SessionHeld
  BY DEF Init, OneSession, SessionHeld, Families, Live
<1>4. \A r \in Requests : LocalsFit(req[r])
  BY DEF Init, LocalsFit, Idle
<1> QED
  BY <1>1, <1>2, <1>3, <1>4 DEF Inv

\* A step of a request that holds no refresh token, before and after, leaves
\* the tokens and their families as they are.
LEMMA NoTokenStep ==
  ASSUME Inv, NEW r \in Requests, NEW q \in Locals, req[r].tok = NoToken,
         q.tok = NoToken, q.pc # "revoke", req' = [req EXCEPT ![r] = q], UNCHANGED tokenVars
  PROVE  Rooted' /\ Redeems' /\ OneSession' /\ SessionHeld'
<1>1. \A p \in Requests : p # r => req'[p] = req[p]
  BY DEF Inv, TypeOK
<1>2. req'[r] = q
  BY DEF Inv, TypeOK
<1>3. \A h, f : Carries(h, f)' <=> Carries(h, f)
  BY <1>1, <1>2 DEF Carries, Live, tokenVars
<1>4. Rooted' /\ SessionHeld'
  BY DEF Inv, Rooted, SessionHeld, Families, Live, tokenVars
<1>5. OneSession'
  BY <1>3 DEF Inv, OneSession, Families, tokenVars
<1>6. \A p \in Requests, t \in Tokens : Redeeming(p, t)' => Redeeming(p, t)
  BY <1>1, <1>2 DEF Redeeming
<1>7. Redeems'
  BY <1>6 DEF Inv, Redeems, Live, tokenVars
<1> QED
  BY <1>4, <1>5, <1>7

\* So does a step that leaves the requests alone.
LEMMA NoRequestStep ==
  ASSUME Inv, UNCHANGED <<req, tokenVars>>
  PROVE  Rooted' /\ Redeems' /\ OneSession' /\ SessionHeld'
  BY DEF Inv, Rooted, Redeems, OneSession, SessionHeld, Families, Carries, Live, Redeeming, tokenVars

\* The locals of the other requests still fit when one takes a step, tokens
\* are only added and users are only added or changed.
LEMMA OthersFit ==
  ASSUME Inv, NEW r \in Requests, NEW q, req' = [req EXCEPT ![r] = q], LocalsFit(q)',
         \A t \in Tokens : owner[t] # NoEmail => owner'[t] # NoEmail,
         \A e \in Emails : users[e] # Absent => users'[e] # Absent
  PROVE  \A p \in Requests : LocalsFit(req[p])'
<1> TAKE p \in Requests
<1>1. CASE p = r
  BY <1>1 DEF Inv, TypeOK
<1>2. CASE p # r
  <2>1. req'[p] = req[p] /\ req[p] \in Locals /\ LocalsFit(req[p])
    BY <1>2 DEF Inv, TypeOK
  <2> QED
    BY <2>1 DEF LocalsFit, Locals
<1> QED
  BY <1>1, <1>2

\* A request that holds no refresh token, given its locals after the step: what
\* is left to show is that the new locals and the new users are well formed.
LEMMA TokenlessStep ==
  ASSUME Inv, NEW r \in Requests, NEW q \in Locals,
         req[r].pc \in {"idle", "count", "insert", "link", "create"},
         q.tok = NoToken, q.pc # "revoke", req' = [req EXCEPT ![r] = q], LocalsFit(q)',
         UNCHANGED <<expired, tokenVars>>, users' \in [Emails -> UserRows \cup {Absent}],
         \A e \in Emails : users[e] # Absent => users'[e] # Absent
  PROVE  Inv'
<1>1. req[r].tok = NoToken
  BY DEF Inv, LocalsFit
<1>2. Rooted' /\ Redeems' /\ OneSession' /\ SessionHeld'
  BY <1>1, NoTokenStep
<1>3. \A p \in Requests : LocalsFit(req[p])'
  BY OthersFit DEF tokenVars
<1>4. TypeOK'
  BY DEF Inv, TypeOK, tokenVars
<1> QED
  BY <1>2, <1>3, <1>4 DEF Inv

\* Those statements, one by one.
LEMMA LoginSelectInv ==
  ASSUME Inv, NEW r \in Requests, NEW e \in Emails, LoginSelect(r, e) PROVE Inv'
<1> DEFINE q == [Idle EXCEPT !.pc = "issue", !.email = e, !.user = e]
<1>1. /\ q \in Locals /\ q.tok = NoToken /\ q.pc = "issue" /\ q.user = e
      /\ req' = [req EXCEPT ![r] = q] /\ req[r].pc = "idle"
  BY DEF LoginSelect, Begin, Idle, Locals
<1>2. UNCHANGED <<users, expired, tokenVars>>
  BY DEF LoginSelect, history, tokenVars
<1>3. LocalsFit(q)'
  BY <1>1 DEF LocalsFit
<1> HIDE DEF q
<1> QED
  BY <1>1, <1>2, <1>3, TokenlessStep DEF Inv, TypeOK

LEMMA FindByEmailInv ==
  ASSUME Inv, NEW r \in Requests, NEW e \in Emails, FindByEmail(r, e) PROVE Inv'
<1> DEFINE q == [Idle EXCEPT !.pc = "create", !.email = e]
<1>1. /\ q \in Locals /\ q.tok = NoToken /\ q.pc = "create" /\ q.email = e
      /\ req' = [req EXCEPT ![r] = q] /\ req[r].pc = "idle"
  BY DEF FindByEmail, Begin, Idle, Locals
<1>2. UNCHANGED <<users, expired, tokenVars>>
  BY DEF FindByEmail, history, tokenVars
<1>3. LocalsFit(q)'
  BY <1>1 DEF LocalsFit
<1> HIDE DEF q
<1> QED
  BY <1>1, <1>2, <1>3, TokenlessStep DEF Inv, TypeOK

LEMMA GoogleSelectInv ==
  ASSUME Inv, NEW r \in Requests, NEW e \in Emails, NEW s \in Subs, GoogleSelect(r, e, s)
  PROVE  Inv'
<1>1. UNCHANGED <<users, expired, tokenVars>>
  BY DEF GoogleSelect, history, tokenVars
<1>2. PICK q \in Locals :
        /\ q.tok = NoToken /\ req' = [req EXCEPT ![r] = q] /\ req[r].pc = "idle"
        /\ \/ q.pc = "count" /\ q.email = e
           \/ q.pc = "link" /\ q.user \in Matches(e, s)
  <2> DEFINE came == [Idle EXCEPT !.email = e, !.sub = s, !.there = Present]
  <2>1. CASE Begin(r, [came EXCEPT !.pc = "count"])
    <3>1. [came EXCEPT !.pc = "count"] \in Locals
      BY DEF Idle, Locals, Present
    <3> QED
      BY <2>1, <3>1 DEF Begin, Idle
  <2>2. ASSUME NEW u \in Matches(e, s), Begin(r, [came EXCEPT !.pc = "link", !.user = u])
        PROVE  \E q \in Locals :
                 /\ q.tok = NoToken /\ req' = [req EXCEPT ![r] = q] /\ req[r].pc = "idle"
                 /\ q.pc = "link" /\ q.user \in Matches(e, s)
    <3>1. [came EXCEPT !.pc = "link", !.user = u] \in Locals
      BY DEF Idle, Locals, Present, Matches, Active
    <3> QED
      BY <2>2, <3>1 DEF Begin, Idle
  <2> QED
    BY <2>1, <2>2 DEF GoogleSelect
<1>3. Matches(e, s) \subseteq {u \in Emails : users[u] # Absent}
  BY DEF Matches, Active, Present
<1>4. LocalsFit(q)'
  BY <1>1, <1>2, <1>3 DEF LocalsFit
<1> QED
  BY <1>1, <1>2, <1>4, TokenlessStep DEF Inv, TypeOK

LEMMA GoogleCountInv ==
  ASSUME Inv, NEW r \in Requests, GoogleCount(r) PROVE Inv'
<1>1. UNCHANGED <<users, expired, tokenVars>>
  BY DEF GoogleCount, history, tokenVars
<1>2. req[r] \in Locals /\ req[r].tok = NoToken /\ req[r].email \in Emails /\ req[r].pc = "count"
  BY DEF GoogleCount, Inv, TypeOK, LocalsFit
<1>3. PICK q : /\ q \in Locals /\ q.tok = NoToken /\ q.pc = "insert" /\ q.email \in Emails
               /\ req' = [req EXCEPT ![r] = q]
  <2>1. PICK how \in {"counted", "no", "error"} :
          req' = [req EXCEPT ![r].pc = "insert", ![r].zero = how]
    BY DEF GoogleCount
  <2>2. [req[r] EXCEPT !.pc = "insert", !.zero = how] \in Locals
    BY <1>2 DEF Locals
  <2>3. req' = [req EXCEPT ![r] = [req[r] EXCEPT !.pc = "insert", !.zero = how]]
    BY <2>1
  <2> QED
    BY <1>2, <2>2, <2>3 DEF Locals
<1>4. LocalsFit(q)'
  BY <1>3 DEF LocalsFit
<1> QED
  BY <1>1, <1>2, <1>3, <1>4, TokenlessStep DEF Inv, TypeOK

LEMMA EndFits == LocalsFit(Idle)' /\ Idle.tok = NoToken /\ Idle.pc = "idle"
  BY DEF LocalsFit, Idle

LEMMA GoogleInsertInv ==
  ASSUME Inv, NEW r \in Requests, GoogleInsert(r) PROVE Inv'
<1>1. UNCHANGED <<expired, tokenVars>>
  BY DEF GoogleInsert, history, tokenVars
<1>2. /\ req[r] \in Locals /\ req[r].tok = NoToken /\ req[r].email \in Emails
      /\ req[r].pc = "insert" /\ req[r].sub \in Subs \cup {NoSub}
  BY DEF GoogleInsert, Inv, TypeOK, LocalsFit, Locals
<1>3. PICK u \in UserRows : u # Absent /\ users' = [users EXCEPT ![req[r].email] = u]
  BY <1>2, NewUserTyped DEF GoogleInsert
<1>4. /\ users' \in [Emails -> UserRows \cup {Absent}]
      /\ \A e \in Emails : users[e] # Absent => users'[e] # Absent
  BY <1>2, <1>3 DEF Inv, TypeOK
<1>5. CASE End(r)
  BY <1>1, <1>2, <1>4, <1>5, EndFits, IdleTyped, TokenlessStep DEF End
<1>6. CASE req' = [req EXCEPT ![r].pc = "issue", ![r].user = req[r].email]
  <2>1. PICK q : /\ q \in Locals /\ q.tok = NoToken /\ q.pc = "issue" /\ q.user \in Emails
                 /\ req' = [req EXCEPT ![r] = q]
    <3> DEFINE i == [req[r] EXCEPT !.pc = "issue", !.user = req[r].email]
    <3>1. i \in Locals /\ i.tok = NoToken /\ i.pc = "issue" /\ i.user \in Emails
      BY <1>2 DEF Locals
    <3> QED
      BY <1>6, <3>1
  <2>2. LocalsFit(q)'
    BY <2>1 DEF LocalsFit
  <2> QED
    BY <1>1, <1>2, <1>4, <2>1, <2>2, TokenlessStep
<1> QED
  BY <1>5, <1>6 DEF GoogleInsert

LEMMA GoogleLinkInv ==
  ASSUME Inv, NEW r \in Requests, GoogleLink(r) PROVE Inv'
<1>1. UNCHANGED <<expired, tokenVars>>
  BY DEF GoogleLink, history, tokenVars
<1>2. /\ req[r] \in Locals /\ req[r].tok = NoToken /\ req[r].user \in Emails
      /\ req[r].pc = "link" /\ req[r].sub \in Subs \cup {NoSub} /\ users[req[r].user] # Absent
  BY DEF GoogleLink, Inv, TypeOK, LocalsFit, Locals
<1>3. /\ users' \in [Emails -> UserRows \cup {Absent}]
      /\ \A e \in Emails : users[e] # Absent => users'[e] # Absent
  <2>1. CASE UNCHANGED users
    BY <2>1 DEF Inv, TypeOK
  <2>2. CASE users' = [users EXCEPT ![req[r].user].sub = req[r].sub]
    <3>1. users[req[r].user] \in UserRows
      BY <1>2 DEF Inv, TypeOK
    <3>2. PICK u : u \in UserRows /\ u # Absent /\ users' = [users EXCEPT ![req[r].user] = u]
      <4> DEFINE u == [users[req[r].user] EXCEPT !.sub = req[r].sub]
      <4>1. u \in UserRows /\ u # Absent
        BY <1>2, <3>1 DEF UserRows, Absent
      <4>2. users' = [users EXCEPT ![req[r].user] = u]
        BY <2>2
      <4> QED
        BY <4>1, <4>2
    <3> QED
      BY <1>2, <3>2 DEF Inv, TypeOK
  <2> QED
    BY <2>1, <2>2 DEF GoogleLink
<1>4. PICK q : /\ q \in Locals /\ q.tok = NoToken /\ q.pc = "issue" /\ q.user \in Emails
               /\ req' = [req EXCEPT ![r] = q]
  <2> DEFINE i == [req[r] EXCEPT !.pc = "issue"]
  <2>1. i \in Locals /\ i.tok = NoToken /\ i.pc = "issue" /\ i.user \in Emails
    BY <1>2 DEF Locals
  <2> QED
    BY <2>1 DEF GoogleLink, Step
<1>5. LocalsFit(q)'
  BY <1>4 DEF LocalsFit
<1> QED
  BY <1>1, <1>2, <1>3, <1>4, <1>5, TokenlessStep

LEMMA FailInv ==
  ASSUME Inv, NEW r \in Requests, Fail(r) PROVE Inv'
<1>1. UNCHANGED <<users, expired, tokenVars>> /\ req' = [req EXCEPT ![r] = Idle]
  BY DEF Fail, End, history, tokenVars
<1>2. req[r].pc \in {"count", "insert", "create"}
  BY DEF Fail
<1> QED
  BY <1>1, <1>2, EndFits, IdleTyped, TokenlessStep DEF Inv, TypeOK

LEMMA CreateAdminInv ==
  ASSUME Inv, NEW r \in Requests, CreateAdmin(r) PROVE Inv'
<1>1. UNCHANGED <<expired, tokenVars>> /\ req' = [req EXCEPT ![r] = Idle] /\ req[r].pc = "create"
  BY DEF CreateAdmin, End, history, tokenVars
<1>2. /\ users' \in [Emails -> UserRows \cup {Absent}]
      /\ \A e \in Emails : users[e] # Absent => users'[e] # Absent
  <2>1. NewUser(NoSub, TRUE, "admin") \in UserRows /\ NewUser(NoSub, TRUE, "admin") # Absent
    BY NewUserTyped
  <2> QED
    BY <2>1 DEF CreateAdmin, Inv, TypeOK
<1> QED
  BY <1>1, <1>2, EndFits, IdleTyped, TokenlessStep

-----------------------------------------------------------------------------
(* The statements of Refresh, and the one that stores a token              *)

LEMMA RefreshSelectInv ==
  ASSUME Inv, NEW r \in Requests, NEW t \in Tokens, RefreshSelect(r, t) PROVE Inv'
<1> DEFINE i == [Idle EXCEPT !.pc = "revoke", !.email = owner[t], !.user = owner[t], !.tok = t]
<1>1. owner[t] \in Emails /\ Live(t) /\ family[t] \in Tokens
  BY DEF RefreshSelect, Live, Inv, TypeOK, Rooted, Families
<1>2. PICK q : /\ q \in Locals /\ q.tok = t /\ q.pc = "revoke" /\ q.user \in Emails
               /\ req' = [req EXCEPT ![r] = q]
  <2>1. i \in Locals /\ i.tok = t /\ i.pc = "revoke" /\ i.user \in Emails
    BY <1>1 DEF Idle, Locals
  <2> QED
    BY <2>1 DEF RefreshSelect, Begin
<1>3. /\ UNCHANGED <<users, owner, revoked, expired, family, delivered, broken>>
      /\ contended' = IF \E p \in Requests : Redeeming(p, t)
                      THEN contended \cup {family[t]} ELSE contended
      /\ req[r].pc = "idle"
  BY DEF RefreshSelect, Begin
<1>4. contended \subseteq contended' /\ contended' \subseteq Tokens
  BY <1>1, <1>3 DEF Inv, TypeOK
<1>5. req'[r] = q /\ \A p \in Requests : p # r => req'[p] = req[p]
  BY <1>2 DEF Inv, TypeOK
<1>6. TypeOK'
  BY <1>2, <1>3, <1>4 DEF Inv, TypeOK
<1>7. \A p \in Requests : LocalsFit(req[p])'
  <2>1. LocalsFit(q)'
    BY <1>1, <1>2, <1>3, NoneAssumption DEF LocalsFit
  <2> QED
    BY <1>2, <1>3, <2>1, OthersFit
<1>8. Rooted' /\ SessionHeld'
  BY <1>3, <1>4 DEF Inv, Rooted, SessionHeld, Families, Live
<1>9. OneSession'
  <2>1. \A h, f : Carries(h, f)' <=> Carries(h, f)
    BY <1>2, <1>3, <1>5 DEF Carries, Live
  <2> QED
    BY <1>3, <1>4, <2>1 DEF Inv, OneSession, Families
<1>10. Redeems'
  <2> SUFFICES ASSUME NEW p \in Requests, NEW u \in Tokens, Redeeming(p, u)',
                      family[u] \notin contended'
               PROVE  Live(u) /\ \A s \in Requests : Redeeming(s, u)' => s = p
    BY <1>3 DEF Redeems, Live
  <2>1. \A s \in Requests : s # r => (Redeeming(s, u)' <=> Redeeming(s, u))
    BY <1>5 DEF Redeeming
  <2>2. Redeeming(r, u)' <=> u = t
    BY <1>2, <1>5 DEF Redeeming
  <2>3. CASE u = t
    <3>1. \A s \in Requests : ~Redeeming(s, t)
      BY <1>3, <2>3
    <3> QED
      BY <1>1, <2>1, <2>3, <3>1
  <2>4. CASE u # t
    BY <1>4, <2>1, <2>2, <2>4 DEF Inv, Redeems
  <2> QED
    BY <2>3, <2>4
<1> QED
  BY <1>6, <1>7, <1>8, <1>9, <1>10 DEF Inv

LEMMA RefreshRevokeInv ==
  ASSUME Inv, NEW r \in Requests, RefreshRevoke(r) PROVE Inv'
<1>1. PICK t \in Tokens :
        /\ req[r] \in Locals /\ req[r].pc = "revoke" /\ req[r].tok = t /\ owner[t] # NoEmail
        /\ req[r].user \in Emails /\ family[t] \in Families
  BY DEF RefreshRevoke, Inv, TypeOK, LocalsFit, Rooted, Locals
<1>2. /\ UNCHANGED <<users, owner, expired, family, delivered, contended>>
      /\ revoked \subseteq revoked' /\ revoked' \subseteq revoked \cup {t}
      /\ broken \subseteq broken' /\ broken' \subseteq Tokens
  BY <1>1 DEF RefreshRevoke, Inv, TypeOK, Families
<1>3. PICK q : /\ q \in Locals /\ req' = [req EXCEPT ![r] = q]
               /\ \/ /\ q.pc = "issue" /\ q.tok = t /\ q.user \in Emails
                     /\ revoked' = revoked \cup {t}
                  \/ /\ q = Idle
                     /\ UNCHANGED revoked \/ family[t] \in broken'
  <2>1. CASE revoked' = revoked \cup {t} /\ Step(r, "issue")
    <3> DEFINE i == [req[r] EXCEPT !.pc = "issue"]
    <3>1. i \in Locals /\ i.tok = t /\ i.pc = "issue" /\ i.user \in Emails
      BY <1>1 DEF Locals
    <3> QED
      BY <2>1, <3>1 DEF Step
  <2>2. CASE End(r) /\ (UNCHANGED revoked \/ family[t] \in broken')
    BY <2>2, IdleTyped DEF End
  <2> QED
    BY <1>1, <2>1, <2>2 DEF RefreshRevoke
<1>4. req'[r] = q /\ \A p \in Requests : p # r => req'[p] = req[p]
  BY <1>3 DEF Inv, TypeOK
<1>5. TypeOK'
  BY <1>1, <1>2, <1>3 DEF Inv, TypeOK
<1>6. \A p \in Requests : LocalsFit(req[p])'
  <2>1. LocalsFit(q)'
    BY <1>1, <1>2, <1>3, EndFits DEF LocalsFit
  <2> QED
    BY <1>2, <1>3, <2>1, OthersFit
<1>7. Rooted' /\ SessionHeld'
  BY <1>1, <1>2 DEF Inv, Rooted, SessionHeld, Families, Live
<1>8. Redeems'
  <2> SUFFICES ASSUME NEW p \in Requests, NEW u \in Tokens, Redeeming(p, u)',
                      family[u] \notin contended
               PROVE  Live(u)' /\ \A s \in Requests : Redeeming(s, u)' => s = p
    BY <1>2 DEF Redeems
  <2>1. q.pc # "revoke"
    BY <1>3 DEF Idle
  <2>2. p # r /\ \A s \in Requests : Redeeming(s, u)' => Redeeming(s, u)
    BY <1>4, <2>1 DEF Redeeming
  <2>3. Live(u) /\ ~Redeeming(r, u)
    BY <2>2 DEF Inv, Redeems
  <2>4. u # t
    BY <1>1, <2>3 DEF Redeeming
  <2> QED
    BY <1>2, <2>2, <2>3, <2>4 DEF Live, Inv, Redeems
<1>9. OneSession'
  <2> SUFFICES ASSUME NEW f \in Families, f \notin contended \cup broken'
               PROVE  /\ \E h \in Tokens \cup Requests : Carries(h, f)'
                      /\ \A h, k \in Tokens \cup Requests :
                           Carries(h, f)' /\ Carries(k, f)' => h = k
    BY <1>2 DEF OneSession, Families
  <2>1. /\ \E h \in Tokens \cup Requests : Carries(h, f)
        /\ \A h, k \in Tokens \cup Requests : Carries(h, f) /\ Carries(k, f) => h = k
    BY <1>2 DEF Inv, OneSession
  <2>2. \A h \in Tokens \cup Requests : h # r /\ h # t => (Carries(h, f)' <=> Carries(h, f))
    BY <1>2, <1>4 DEF Carries, Live
  <2>3. CASE family[t] # f \/ (UNCHANGED revoked /\ q = Idle)
    <3>1. \A h \in Tokens \cup Requests : Carries(h, f)' <=> Carries(h, f)
      BY <1>1, <1>2, <1>3, <1>4, <2>2, <2>3, DisjointAssumption
      DEF Carries, Live, Idle
    <3> QED
      BY <2>1, <3>1
  <2>4. CASE family[t] = f /\ revoked' = revoked \cup {t} /\ q.pc = "issue" /\ q.tok = t
    <3>1. Carries(t, f)
      <4>1. Redeeming(r, t)
        BY <1>1 DEF Redeeming
      <4> QED
        BY <1>1, <2>4, <4>1 DEF Carries, Inv, Redeems
    <3>2. Carries(r, f)'
      BY <1>1, <1>2, <1>4, <2>4, NoneAssumption DEF Carries
    <3>3. ~Carries(t, f)'
      BY <1>1, <2>4, DisjointAssumption DEF Carries, Live
    <3> QED
      BY <1>1, <2>1, <2>2, <3>1, <3>2, <3>3
  <2> QED
    BY <1>3, <2>3, <2>4
<1> QED
  BY <1>5, <1>6, <1>7, <1>8, <1>9 DEF Inv

\* A request that stores token t as the next of family f.
LEMMA StoredInv ==
  ASSUME Inv, NEW r \in Requests, NEW t \in Tokens, NEW f \in Tokens,
         req[r].pc = "issue", owner[t] = NoEmail, f = FamilyOf(r, t),
         owner' = [owner EXCEPT ![t] = req[r].user], family' = [family EXCEPT ![t] = f],
         \/ delivered' = delivered \cup {t} /\ UNCHANGED broken
         \/ broken' = broken \cup {f} /\ UNCHANGED delivered,
         req' = [req EXCEPT ![r] = Idle], UNCHANGED <<users, revoked, expired, contended>>
  PROVE  Inv'
<1>1. /\ req[r] \in Locals /\ req[r].user \in Emails
      /\ req[r].tok = NoToken => f = t
      /\ req[r].tok # NoToken => req[r].tok \in Tokens /\ owner[req[r].tok] # NoEmail
                                 /\ f = family[req[r].tok] /\ f \in Families
  BY DEF Inv, TypeOK, LocalsFit, Rooted, FamilyOf, Locals
<1>2. /\ \A u \in Tokens : u # t => owner'[u] = owner[u] /\ family'[u] = family[u]
      /\ owner'[t] \in Emails /\ family'[t] = f /\ t \notin revoked
  BY <1>1 DEF Inv, TypeOK, Rooted
<1>3. req'[r] = Idle /\ \A p \in Requests : p # r => req'[p] = req[p]
  BY DEF Inv, TypeOK
<1>4. TypeOK'
  BY <1>1, IdleTyped DEF Inv, TypeOK
<1>5. \A p \in Requests : LocalsFit(req[p])'
  BY <1>1, <1>2, NoneAssumption, EndFits, OthersFit DEF Inv, TypeOK
<1>6. Families' = IF req[r].tok = NoToken THEN Families \cup {t} ELSE Families
  BY <1>1, <1>2, NoneAssumption DEF Families
<1>7. Rooted'
  BY <1>1, <1>2, <1>6, NoneAssumption DEF Inv, Rooted
<1>8. \A p \in Requests : req[p].tok # NoToken => req[p].tok # t /\ req[p].tok \in Tokens
  BY DEF Inv, TypeOK, LocalsFit, Locals
<1>9. Redeems'
  <2> SUFFICES ASSUME NEW p \in Requests, NEW u \in Tokens, Redeeming(p, u)',
                      family'[u] \notin contended
               PROVE  Live(u)' /\ \A q \in Requests : Redeeming(q, u)' => q = p
    BY DEF Redeems
  <2>1. p # r /\ \A q \in Requests : Redeeming(q, u)' => Redeeming(q, u)
    BY <1>3 DEF Redeeming, Idle
  <2>2. u # t
    BY <1>8, <2>1, NoneAssumption DEF Redeeming
  <2> QED
    BY <1>2, <2>1, <2>2 DEF Inv, Redeems, Live
<1>10. SessionHeld'
  BY <1>2 DEF Inv, SessionHeld, Live
<1>11. OneSession'
  <2> SUFFICES ASSUME NEW g \in Families', g \notin contended \cup broken'
               PROVE  /\ \E h \in Tokens \cup Requests : Carries(h, g)'
                      /\ \A h, k \in Tokens \cup Requests :
                           Carries(h, g)' /\ Carries(k, g)' => h = k
    BY DEF OneSession
  <2>1. ~Carries(r, g)'
    BY <1>3, DisjointAssumption DEF Carries, Idle
  <2>2. Carries(t, g)' <=> g = f
    BY <1>2, NoneAssumption, DisjointAssumption DEF Carries, Live
  <2>3. \A h \in Tokens \cup Requests : h # r /\ h # t => (Carries(h, g)' <=> Carries(h, g))
    BY <1>2, <1>3, <1>8 DEF Carries, Live
  <2>4. CASE g \in Families
    <3>1. /\ \E h \in Tokens \cup Requests : Carries(h, g)
          /\ \A h, k \in Tokens \cup Requests : Carries(h, g) /\ Carries(k, g) => h = k
      BY <2>4 DEF Inv, OneSession
    <3>2. ~Carries(t, g)
      BY DisjointAssumption DEF Carries, Live
    <3>3. g # t
      BY <2>4 DEF Families
    <3>4. Carries(r, g) <=> g = f
      BY <1>1, <3>3, DisjointAssumption DEF Carries
    <3> QED
      BY <2>1, <2>2, <2>3, <3>1, <3>2, <3>4
  <2>5. CASE g \notin Families
    <3>1. g = t /\ f = t
      BY <1>1, <1>6, <2>5
    <3>2. \A h \in Tokens \cup Requests : ~Carries(h, t)
      <4>1. \A u \in Tokens : owner[u] # NoEmail => family[u] # t
        BY DEF Inv, Rooted, Families
      <4> QED
        BY <4>1, <1>8 DEF Carries, Live, Inv, LocalsFit
    <3> QED
      BY <2>1, <2>2, <2>3, <3>1, <3>2
  <2> QED
    BY <2>4, <2>5
<1> QED
  BY <1>4, <1>5, <1>7, <1>9, <1>10, <1>11 DEF Inv

\* A request whose INSERT fails: the family it was to continue is broken.
LEMMA NotStoredInv ==
  ASSUME Inv, NEW r \in Requests, req[r].pc = "issue",
         broken' = IF req[r].tok = NoToken THEN broken ELSE broken \cup {family[req[r].tok]},
         req' = [req EXCEPT ![r] = Idle],
         UNCHANGED <<users, owner, revoked, expired, family, delivered, contended>>
  PROVE  Inv'
<1>1. /\ broken \subseteq broken' /\ broken' \subseteq Tokens
      /\ req[r].tok # NoToken => family[req[r].tok] \in broken'
  BY DEF Inv, TypeOK, LocalsFit, Rooted, Families, Locals
<1>2. req'[r] = Idle /\ \A p \in Requests : p # r => req'[p] = req[p]
  BY DEF Inv, TypeOK
<1>3. TypeOK'
  BY <1>1, IdleTyped DEF Inv, TypeOK
<1>4. \A p \in Requests : LocalsFit(req[p])'
  BY EndFits, OthersFit
<1>5. Rooted' /\ SessionHeld'
  BY <1>1 DEF Inv, Rooted, SessionHeld, Families, Live
<1>6. \A p \in Requests, u \in Tokens : Redeeming(p, u)' => Redeeming(p, u)
  BY <1>2 DEF Redeeming, Idle
<1>7. Redeems'
  BY <1>6 DEF Inv, Redeems, Live
<1>8. \A f \in Tokens \ broken' : \A h \in Tokens \cup Requests : Carries(h, f)' <=> Carries(h, f)
  BY <1>1, <1>2, DisjointAssumption DEF Carries, Live, Idle
<1>9. OneSession'
  BY <1>1, <1>8 DEF Inv, OneSession, Families
<1> QED
  BY <1>3, <1>4, <1>5, <1>7, <1>9 DEF Inv

LEMMA GenerateTokenPairInv ==
  ASSUME Inv, NEW r \in Requests, GenerateTokenPair(r) PROVE Inv'
<1>1. /\ req[r].pc = "issue" /\ req' = [req EXCEPT ![r] = Idle]
      /\ UNCHANGED <<users, revoked, expired, contended>>
  BY DEF GenerateTokenPair, End
<1>2. ASSUME NEW t \in Tokens, owner[t] = NoEmail,
             owner' = [owner EXCEPT ![t] = req[r].user],
             family' = [family EXCEPT ![t] = FamilyOf(r, t)],
             \/ delivered' = delivered \cup {t} /\ UNCHANGED broken
             \/ broken' = broken \cup {FamilyOf(r, t)} /\ UNCHANGED delivered
      PROVE  Inv'
  <2>1. PICK f \in Tokens : f = FamilyOf(r, t)
    BY DEF FamilyOf, Inv, TypeOK, LocalsFit, Rooted, Families, Locals
  <2> QED
    BY <1>1, <1>2, <2>1, StoredInv
<1>3. CASE /\ broken' = IF req[r].tok = NoToken THEN broken
                        ELSE broken \cup {family[req[r].tok]}
           /\ UNCHANGED <<owner, family, delivered>>
  BY <1>1, <1>3, NotStoredInv
<1> QED
  BY <1>2, <1>3 DEF GenerateTokenPair

-----------------------------------------------------------------------------
(* Every step, and the theorems                                            *)

\* Rows change outside the requests, and tokens expire.
LEMMA OutsideInv ==
  ASSUME Inv, UNCHANGED <<req, tokenVars>>, expired' \subseteq Tokens,
         users' \in [Emails -> UserRows \cup {Absent}],
         \A e \in Emails : users[e] # Absent => users'[e] # Absent
  PROVE  Inv'
<1>1. Rooted' /\ Redeems' /\ OneSession' /\ SessionHeld'
  BY NoRequestStep
<1>2. \A p \in Requests : LocalsFit(req[p])'
  BY DEF Inv, TypeOK, LocalsFit, tokenVars, Locals
<1>3. TypeOK'
  BY DEF Inv, TypeOK, tokenVars
<1> QED
  BY <1>1, <1>2, <1>3 DEF Inv

LEMMA NextInv == Inv /\ [Next]_vars => Inv'
<1> SUFFICES ASSUME Inv, [Next]_vars PROVE Inv'
  OBVIOUS
<1>1. CASE UNCHANGED vars
  BY <1>1, OutsideInv DEF vars, history, tokenVars, Inv, TypeOK
<1>2. ASSUME NEW r \in Requests, Handle(r) \/ Seed(r) PROVE Inv'
  BY <1>2, LoginSelectInv, FindByEmailInv, GoogleSelectInv, RefreshSelectInv, GoogleCountInv,
     GoogleInsertInv, GoogleLinkInv, RefreshRevokeInv, GenerateTokenPairInv, CreateAdminInv,
     FailInv DEF Handle, Seed
<1>3. ASSUME NEW e \in Emails, Provision(e) PROVE Inv'
  <2>1. NewUser(NoSub, TRUE, "teacher") \in UserRows /\ NewUser(NoSub, TRUE, "teacher") # Absent
    BY NewUserTyped
  <2> QED
    BY <1>3, <2>1, OutsideInv DEF Provision, Inv, TypeOK, history, tokenVars
<1>4. ASSUME NEW e \in Emails, Suspend(e) PROVE Inv'
  <2>1. users[e] \in UserRows
    BY <1>4 DEF Suspend, Active, Present, Inv, TypeOK
  <2>2. PICK u \in UserRows : u # Absent /\ users' = [users EXCEPT ![e] = u]
    <3>1. [users[e] EXCEPT !.status = "suspended"] \in UserRows
      BY <2>1 DEF UserRows
    <3>2. [users[e] EXCEPT !.status = "suspended"] # Absent
      BY <2>1 DEF UserRows, Absent
    <3> QED
      BY <1>4, <3>1, <3>2 DEF Suspend
  <2> QED
    BY <1>4, <2>2, OutsideInv DEF Suspend, Inv, TypeOK, history, tokenVars
<1>5. ASSUME NEW t \in Tokens, Expire(t) PROVE Inv'
  BY <1>5, OutsideInv DEF Expire, Inv, TypeOK, history, tokenVars
<1> QED
  BY <1>1, <1>2, <1>3, <1>4, <1>5 DEF Next

\* The inductive invariant holds of every behaviour.
THEOREM Invariance == Spec => []Inv
  BY InitInv, NextInv, PTL DEF Spec

\* Every variable keeps its type.
THEOREM TypeCorrect == Spec => []TypeOK
<1>1. Inv => TypeOK
  BY DEF Inv
<1> QED
  BY <1>1, Invariance, PTL

\* A session is carried by exactly one good token or one refresh under way,
\* unless refreshes of one token overlapped or one failed (service.go:113-140).
THEOREM SessionsRotate == Spec => []OneSession
<1>1. Inv => OneSession
  BY DEF Inv
<1> QED
  BY <1>1, Invariance, PTL

\* And the client has that token.
THEOREM SessionsHeld == Spec => []SessionHeld
<1>1. Inv => SessionHeld
  BY DEF Inv
<1> QED
  BY <1>1, Invariance, PTL

-----------------------------------------------------------------------------
(* Users                                                                   *)

\* What GoogleIdentity and CountsFit say of one request.
Identified(q) ==
  q.pc \in {"link", "issue"} /\ q.sub # NoSub => users[q.user].sub = q.sub \/ q.user = q.email

\* The users after a step that inserts u at e, or writes it there.
LEMMA UserAdded ==
  ASSUME Inv, UserInv, NEW e \in Emails \ Present, NEW u, u # Absent,
         u.role \in {"admin", "teacher"} \/ Present # {}, users' = [users EXCEPT ![e] = u]
  PROVE  /\ IsFiniteSet(Present)' /\ Led' /\ Present' = Present \cup {e}
         /\ \A x \in Present : users'[x] = users[x]
         /\ \A x \in Emails : users[x].sub # NoSub => users'[x].sub = users[x].sub
<1>1. Present' = Present \cup {e} /\ users'[e] = u
  BY DEF Present, Inv, TypeOK
<1>2. \A x \in Emails : x # e => users'[x] = users[x]
  BY DEF Inv, TypeOK
<1>3. IsFiniteSet(Present)'
  BY <1>1, FS_AddElement DEF UserInv
<1>4. Led'
  BY <1>1, <1>2 DEF UserInv, Led, Present
<1>5. users[e].sub = NoSub
  BY DEF Present, Absent
<1> QED
  BY <1>1, <1>2, <1>3, <1>4, <1>5 DEF Present

LEMMA UserWritten ==
  ASSUME Inv, UserInv, NEW e \in Present, NEW u, u # Absent, u.role = users[e].role,
         users[e].sub # NoSub => u.sub = users[e].sub, users' = [users EXCEPT ![e] = u]
  PROVE  /\ IsFiniteSet(Present)' /\ Led' /\ Present' = Present
         /\ \A x \in Emails : users[x].sub # NoSub => users'[x].sub = users[x].sub
<1>1. Present' = Present /\ users'[e] = u
  BY DEF Present, Inv, TypeOK
<1>2. \A x \in Emails : x # e => users'[x] = users[x]
  BY DEF Inv, TypeOK
<1>3. Led'
  BY <1>1, <1>2 DEF UserInv, Led, Present
<1> QED
  BY <1>1, <1>2, <1>3 DEF UserInv, Present

\* A request that takes a step knows what it did, those that do not still do.
LEMMA UsersStep ==
  ASSUME Inv, UserInv, NEW r \in Requests, NEW q, req' = [req EXCEPT ![r] = q],
         IsFiniteSet(Present)', Led', Present \subseteq Present',
         \A x \in Emails : users[x].sub # NoSub => users'[x].sub = users[x].sub,
         CountsFit(q)', Identified(q)'
  PROVE  UserInv'
<1>1. ASSUME NEW p \in Requests PROVE CountsFit(req[p])' /\ Identified(req[p])'
  <2>1. CASE p = r
    BY <2>1 DEF Inv, TypeOK
  <2>2. CASE p # r
    <3>1. req'[p] = req[p] /\ LocalsFit(req[p]) /\ CountsFit(req[p]) /\ Identified(req[p])
      BY <2>2 DEF Inv, TypeOK, UserInv, GoogleIdentity, Identified
    <3>2. CountsFit(req[p])'
      BY <3>1 DEF CountsFit
    <3>3. Identified(req[p])'
      BY <3>1 DEF Identified, LocalsFit
    <3> QED
      BY <3>2, <3>3
  <2> QED
    BY <2>1, <2>2
<1>2. GoogleIdentity'
  BY <1>1 DEF GoogleIdentity, Identified
<1> QED
  BY <1>1, <1>2 DEF UserInv

\* A step of a request that leaves the users alone.
LEMMA UsersSame ==
  ASSUME Inv, UserInv, NEW r \in Requests, NEW q, req' = [req EXCEPT ![r] = q],
         UNCHANGED users, CountsFit(q)', Identified(q)'
  PROVE  UserInv'
<1>1. IsFiniteSet(Present)' /\ Led' /\ Present' = Present
  BY DEF UserInv, Led, Present
<1> QED
  BY <1>1, UsersStep

\* A step outside the requests.
LEMMA UsersOutside ==
  ASSUME Inv, UserInv, UNCHANGED req, IsFiniteSet(Present)', Led', Present \subseteq Present',
         \A x \in Emails : users[x].sub # NoSub => users'[x].sub = users[x].sub
  PROVE  UserInv'
<1>1. ASSUME NEW p \in Requests PROVE CountsFit(req[p])' /\ Identified(req[p])'
  <2>1. req'[p] = req[p] /\ LocalsFit(req[p]) /\ CountsFit(req[p]) /\ Identified(req[p])
    BY DEF Inv, UserInv, GoogleIdentity, Identified
  <2>2. CountsFit(req[p])'
    BY <2>1 DEF CountsFit
  <2>3. Identified(req[p])'
    BY <2>1 DEF Identified, LocalsFit
  <2> QED
    BY <2>2, <2>3
<1>2. GoogleIdentity'
  BY <1>1 DEF GoogleIdentity, Identified
<1> QED
  BY <1>1, <1>2 DEF UserInv

LEMMA IdleKnows == CountsFit(Idle)' /\ Identified(Idle)'
  BY DEF CountsFit, Identified, Idle

LEMMA UserInit == Init => UserInv
<1> SUFFICES ASSUME Init PROVE UserInv
  OBVIOUS
<1>1. Present = {}
  BY DEF Init, Present
<1>2. IsFiniteSet(Present) /\ Led
  BY <1>1, FS_EmptySet DEF Led
<1>3. \A r \in Requests : CountsFit(req[r])
  BY DEF Init, Idle, CountsFit
<1>4. GoogleIdentity
  BY DEF Init, Idle, GoogleIdentity
<1> QED
  BY <1>2, <1>3, <1>4 DEF UserInv

LEMMA GoogleSelectUsers ==
  ASSUME Inv, UserInv, NEW r \in Requests, NEW e \in Emails, NEW s \in Subs, GoogleSelect(r, e, s)
  PROVE  UserInv'
<1> DEFINE came == [Idle EXCEPT !.email = e, !.sub = s, !.there = Present]
<1>1. UNCHANGED users /\ Present' = Present
  BY DEF GoogleSelect, Present
<1>2. CASE Begin(r, [came EXCEPT !.pc = "count"])
  <2>1. CountsFit([came EXCEPT !.pc = "count"])' /\ Identified([came EXCEPT !.pc = "count"])'
    BY <1>1 DEF CountsFit, Identified, Idle
  <2> QED
    BY <1>1, <1>2, <2>1, UsersSame DEF Begin
<1>3. ASSUME NEW u \in Matches(e, s), Begin(r, [came EXCEPT !.pc = "link", !.user = u])
      PROVE  UserInv'
  <2> DEFINE q == [came EXCEPT !.pc = "link", !.user = u]
  <2>1. CountsFit(q)'
    BY <1>1 DEF CountsFit, Idle
  <2>2. Identified(q)'
    BY <1>1 DEF Identified, Idle, Matches
  <2> QED
    BY <1>1, <1>3, <2>1, <2>2, UsersSame DEF Begin
<1> QED
  BY <1>2, <1>3 DEF GoogleSelect

\* Only a COUNT of an empty table is 0.
LEMMA GoogleCountUsers ==
  ASSUME Inv, UserInv, NEW r \in Requests, GoogleCount(r) PROVE UserInv'
<1>1. UNCHANGED users /\ Present' = Present
  BY DEF GoogleCount, Present
<1>2. PICK how \in {IF CountUsers = 0 THEN "counted" ELSE "no", "error"} :
        req' = [req EXCEPT ![r].pc = "insert", ![r].zero = how]
  BY DEF GoogleCount
<1>3. CountUsers = 0 <=> Present = {}
  BY FS_EmptySet DEF CountUsers, UserInv
<1>4. req[r] \in Locals /\ CountsFit(req[r])
  BY DEF Inv, TypeOK, UserInv
<1>5. PICK q : /\ req' = [req EXCEPT ![r] = q]
               /\ q.pc = "insert" /\ q.zero = how /\ q.there = req[r].there
  <2> DEFINE i == [req[r] EXCEPT !.pc = "insert", !.zero = how]
  <2>1. req' = [req EXCEPT ![r] = i]
    BY <1>2
  <2>2. i.pc = "insert" /\ i.zero = how /\ i.there = req[r].there
    BY <1>4 DEF Locals
  <2> QED
    BY <2>1, <2>2
<1>6. CountsFit(q)' /\ Identified(q)'
  BY <1>1, <1>2, <1>3, <1>4, <1>5 DEF CountsFit, Identified
<1> QED
  BY <1>1, <1>5, <1>6, UsersSame

LEMMA GoogleInsertUsers ==
  ASSUME Inv, UserInv, NEW r \in Requests, GoogleInsert(r) PROVE UserInv'
<1> DEFINE role == IF req[r].zero = "no" THEN "student" ELSE "admin"
           u    == NewUser(req[r].sub, FALSE, role)
           e    == req[r].email
<1>1. /\ req[r] \in Locals /\ e \in Emails /\ e \notin Present /\ CountsFit(req[r])
      /\ req[r].pc = "insert" /\ users' = [users EXCEPT ![e] = u]
  BY DEF GoogleInsert, Inv, TypeOK, LocalsFit, UserInv
<1>2. u # Absent /\ u.role = role
  BY DEF NewUser, Absent
<1>3. u.role \in {"admin", "teacher"} \/ Present # {}
  BY <1>1, <1>2 DEF CountsFit
<1> HIDE DEF u
<1>4. /\ IsFiniteSet(Present)' /\ Led' /\ Present \subseteq Present'
      /\ \A x \in Emails : users[x].sub # NoSub => users'[x].sub = users[x].sub
  BY <1>1, <1>2, <1>3, UserAdded
<1>5. CASE End(r)
  BY <1>4, <1>5, IdleKnows, UsersStep DEF End
<1>6. CASE req' = [req EXCEPT ![r].pc = "issue", ![r].user = e]
  <2>1. PICK q : /\ req' = [req EXCEPT ![r] = q]
                 /\ q.pc = "issue" /\ q.user = q.email /\ q.there = req[r].there
    <3> DEFINE i == [req[r] EXCEPT !.pc = "issue", !.user = e]
    <3>1. req' = [req EXCEPT ![r] = i]
      BY <1>6
    <3>2. i.pc = "issue" /\ i.user = i.email /\ i.there = req[r].there
      BY <1>1 DEF Locals
    <3> QED
      BY <3>1, <3>2
  <2>2. CountsFit(q)' /\ Identified(q)'
    BY <1>1, <1>4, <2>1 DEF CountsFit, Identified
  <2> QED
    BY <1>4, <2>1, <2>2, UsersStep
<1> QED
  BY <1>5, <1>6 DEF GoogleInsert

LEMMA GoogleLinkUsers ==
  ASSUME Inv, UserInv, NEW r \in Requests, GoogleLink(r) PROVE UserInv'
<1>1. /\ req[r] \in Locals /\ req[r].user \in Present /\ req[r].pc = "link" /\ Step(r, "issue")
      /\ CountsFit(req[r]) /\ Identified(req[r])
  BY DEF GoogleLink, Inv, TypeOK, LocalsFit, UserInv, GoogleIdentity, Identified, Present
<1>2. PICK q, e : /\ req' = [req EXCEPT ![r] = q] /\ e = req[r].user
                  /\ q.pc = "issue" /\ q.there = req[r].there /\ q.sub = req[r].sub
                  /\ q.user = e /\ q.email = req[r].email
  <2> DEFINE i == [req[r] EXCEPT !.pc = "issue"]
  <2>1. req' = [req EXCEPT ![r] = i]
    BY <1>1 DEF Step
  <2>2. /\ i.pc = "issue" /\ i.there = req[r].there /\ i.sub = req[r].sub
        /\ i.user = req[r].user /\ i.email = req[r].email
    BY <1>1 DEF Locals
  <2> QED
    BY <2>1, <2>2
<1>3. CASE UNCHANGED users
  <2>1. CountsFit(q)' /\ Identified(q)'
    BY <1>1, <1>2, <1>3 DEF CountsFit, Identified, Present
  <2> QED
    BY <1>2, <1>3, <2>1, UsersSame
<1>4. CASE Unlinked(r) /\ users' = [users EXCEPT ![req[r].user].sub = req[r].sub]
  <2> DEFINE u == [users[e] EXCEPT !.sub = req[r].sub]
  <2>1. users[e] \in UserRows
    BY <1>1, <1>2 DEF Inv, TypeOK, Present
  <2>2. u # Absent /\ u.role = users[e].role /\ u.sub = req[r].sub /\ users[e].sub = NoSub
    BY <1>2, <1>4, <2>1 DEF UserRows, Absent, Unlinked
  <2>3. users' = [users EXCEPT ![e] = u] /\ users'[e] = u
    BY <1>1, <1>2, <1>4 DEF Present, Inv, TypeOK
  <2> HIDE DEF u
  <2>4. /\ IsFiniteSet(Present)' /\ Led' /\ Present' = Present
        /\ \A x \in Emails : users[x].sub # NoSub => users'[x].sub = users[x].sub
    BY <1>1, <1>2, <2>2, <2>3, UserWritten
  <2>5. CountsFit(q)' /\ Identified(q)'
    BY <1>1, <1>2, <2>2, <2>3, <2>4 DEF CountsFit, Identified
  <2> QED
    BY <1>2, <2>4, <2>5, UsersStep
<1> QED
  BY <1>3, <1>4 DEF GoogleLink

LEMMA CreateAdminUsers ==
  ASSUME Inv, UserInv, NEW r \in Requests, CreateAdmin(r) PROVE UserInv'
<1> DEFINE e == req[r].email
           u == NewUser(NoSub, TRUE, "admin")
<1>1. e \in Emails /\ req' = [req EXCEPT ![r] = Idle]
  BY DEF CreateAdmin, End, Inv, LocalsFit
<1>2. CASE UNCHANGED users
  BY <1>1, <1>2, IdleKnows, UsersSame
<1>3. CASE e \notin Present /\ users' = [users EXCEPT ![e] = u]
  <2>1. u # Absent /\ u.role = "admin"
    BY DEF NewUser, Absent
  <2> HIDE DEF u
  <2>2. /\ IsFiniteSet(Present)' /\ Led' /\ Present \subseteq Present'
        /\ \A x \in Emails : users[x].sub # NoSub => users'[x].sub = users[x].sub
    BY <1>1, <1>3, <2>1, UserAdded
  <2> QED
    BY <1>1, <2>2, IdleKnows, UsersStep
<1> QED
  BY <1>2, <1>3 DEF CreateAdmin

\* The statements that read users, or do not touch them.
LEMMA TokenUsers ==
  ASSUME Inv, UserInv, NEW r \in Requests,
         \/ \E e \in Emails : LoginSelect(r, e) \/ FindByEmail(r, e)
         \/ \E t \in Tokens : RefreshSelect(r, t)
         \/ RefreshRevoke(r) \/ GenerateTokenPair(r) \/ Fail(r)
  PROVE  UserInv'
<1>1. CASE End(r) /\ UNCHANGED users
  BY <1>1, IdleKnows, UsersSame DEF End
<1>2. ASSUME NEW e \in Emails, LoginSelect(r, e) PROVE UserInv'
  <2> DEFINE q == [Idle EXCEPT !.pc = "issue", !.email = e, !.user = e]
  <2>1. CountsFit(q)' /\ Identified(q)'
    BY DEF CountsFit, Identified, Idle
  <2> QED
    BY <1>2, <2>1, UsersSame DEF LoginSelect, Begin
<1>3. ASSUME NEW e \in Emails, FindByEmail(r, e) PROVE UserInv'
  <2> DEFINE q == [Idle EXCEPT !.pc = "create", !.email = e]
  <2>1. CountsFit(q)' /\ Identified(q)'
    BY DEF CountsFit, Identified, Idle
  <2> QED
    BY <1>3, <2>1, UsersSame DEF FindByEmail, Begin
<1>4. ASSUME NEW t \in Tokens, RefreshSelect(r, t) PROVE UserInv'
  <2> DEFINE q == [Idle EXCEPT !.pc = "revoke", !.email = owner[t], !.user = owner[t], !.tok = t]
  <2>1. CountsFit(q)' /\ Identified(q)'
    BY DEF CountsFit, Identified, Idle
  <2> QED
    BY <1>4, <2>1, UsersSame DEF RefreshSelect, Begin
<1>5. CASE Step(r, "issue") /\ req[r].pc = "revoke" /\ UNCHANGED users
  <2>1. req[r] \in Locals /\ CountsFit(req[r]) /\ Present' = Present
    BY <1>5 DEF Inv, TypeOK, UserInv, Present
  <2>2. PICK q : /\ req' = [req EXCEPT ![r] = q]
                 /\ q.pc = "issue" /\ q.there = req[r].there /\ q.sub = NoSub
    <3> DEFINE i == [req[r] EXCEPT !.pc = "issue"]
    <3>1. req' = [req EXCEPT ![r] = i]
      BY <1>5 DEF Step
    <3>2. i.pc = "issue" /\ i.there = req[r].there /\ i.sub = NoSub
      BY <1>5, <2>1 DEF Locals, CountsFit
    <3> QED
      BY <3>1, <3>2
  <2>3. CountsFit(q)' /\ Identified(q)'
    BY <2>1, <2>2 DEF CountsFit, Identified
  <2> QED
    BY <1>5, <2>2, <2>3, UsersSame
<1> QED
  BY <1>1, <1>2, <1>3, <1>4, <1>5 DEF RefreshRevoke, GenerateTokenPair, Fail

LEMMA OutsideUsers ==
  ASSUME Inv, UserInv, NEW e \in Emails, Provision(e) \/ Suspend(e) PROVE UserInv'
<1>1. CASE Provision(e)
  <2> DEFINE u == NewUser(NoSub, TRUE, "teacher")
  <2>1. u # Absent /\ u.role = "teacher"
    BY DEF NewUser, Absent
  <2>2. e \in Emails \ Present /\ users' = [users EXCEPT ![e] = u] /\ UNCHANGED req
    BY <1>1 DEF Provision
  <2> HIDE DEF u
  <2> QED
    BY <2>1, <2>2, UserAdded, UsersOutside
<1>2. CASE Suspend(e)
  <2> DEFINE u == [users[e] EXCEPT !.status = "suspended"]
  <2>1. e \in Present /\ users' = [users EXCEPT ![e] = u] /\ UNCHANGED req /\ users[e] \in UserRows
    BY <1>2 DEF Suspend, Active, Present, Inv, TypeOK
  <2>2. u # Absent /\ u.role = users[e].role /\ u.sub = users[e].sub
    BY <2>1 DEF UserRows, Absent
  <2> HIDE DEF u
  <2> QED
    BY <2>1, <2>2, UserWritten, UsersOutside
<1> QED
  BY <1>1, <1>2

LEMMA NextUsers == Inv /\ UserInv /\ [Next]_vars => UserInv'
<1> SUFFICES ASSUME Inv, UserInv, [Next]_vars PROVE UserInv'
  OBVIOUS
<1>1. ASSUME UNCHANGED <<users, req>> PROVE UserInv'
  BY <1>1, UsersOutside DEF UserInv, Led, Present
<1>2. ASSUME NEW r \in Requests, Handle(r) \/ Seed(r) PROVE UserInv'
  BY <1>2, TokenUsers, GoogleSelectUsers, GoogleCountUsers, GoogleInsertUsers, GoogleLinkUsers,
     CreateAdminUsers DEF Handle, Seed
<1>3. ASSUME NEW t \in Tokens, Expire(t) PROVE UserInv'
  BY <1>1, <1>3 DEF Expire
<1> QED
  BY <1>1, <1>2, <1>3, OutsideUsers DEF Next, vars

\* A handler has locals of its own.
LEMMA OneActs ==
  ASSUME NEW r \in Requests, Handle(r) \/ Seed(r), NEW p, p # r, p \in DOMAIN req
  PROVE  req'[p] = req[p]
<1>2. ASSUME NEW e \in Emails, LoginSelect(r, e) \/ FindByEmail(r, e) PROVE req'[p] = req[p]
  BY <1>2 DEF LoginSelect, FindByEmail, Begin
<1>3. ASSUME NEW e \in Emails, NEW s \in Subs, GoogleSelect(r, e, s) PROVE req'[p] = req[p]
  BY <1>3 DEF GoogleSelect, Begin
<1>4. ASSUME NEW t \in Tokens, RefreshSelect(r, t) PROVE req'[p] = req[p]
  BY <1>4 DEF RefreshSelect, Begin
<1>5. CASE GoogleCount(r) \/ GoogleInsert(r) \/ GoogleLink(r)
  BY <1>5 DEF GoogleCount, GoogleInsert, GoogleLink, Step, End
<1>6. CASE RefreshRevoke(r) \/ GenerateTokenPair(r) \/ Fail(r) \/ CreateAdmin(r)
  BY <1>6 DEF RefreshRevoke, GenerateTokenPair, Fail, CreateAdmin, Step, End
<1> QED
  BY <1>2, <1>3, <1>4, <1>5, <1>6 DEF Handle, Seed

\* A request that inserts an admin found the tenant without users, or no count.
LEMMA NextMakesAdmin ==
  ASSUME Inv, UserInv, [Next]_vars, NEW r \in Requests, MakesAdmin(r)
  PROVE  req[r].there = {} \/ req[r].zero = "error"
<1>1. /\ req[r] \in Locals /\ CountsFit(req[r]) /\ req[r].pc = "insert" /\ req[r].email \in Emails
      /\ users[req[r].email].role = "student" /\ req'[r] # req[r]
      /\ users'[req[r].email].role = "admin"
  BY DEF MakesAdmin, Inv, TypeOK, LocalsFit, UserInv, Absent
<1>2. Handle(r) \/ Seed(r)
  <2>1. UNCHANGED req \/ \E p \in Requests : Handle(p) \/ Seed(p)
    BY DEF Next, vars, Provision, Suspend, Expire
  <2>2. ASSUME NEW p \in Requests, p # r, Handle(p) \/ Seed(p) PROVE req'[r] = req[r]
    BY <2>2, OneActs DEF Inv, TypeOK
  <2> QED
    BY <1>1, <2>1, <2>2
<1>3. GoogleInsert(r) \/ Fail(r)
  BY <1>1, <1>2 DEF Handle, Seed, LoginSelect, GoogleSelect, RefreshSelect, GoogleCount,
     GoogleLink, RefreshRevoke, GenerateTokenPair, FindByEmail, CreateAdmin, Begin
<1>4. GoogleInsert(r)
  BY <1>1, <1>3 DEF Fail
<1>5. req[r].zero # "no"
  BY <1>1, <1>4 DEF GoogleInsert, NewUser, Inv, TypeOK
<1> QED
  BY <1>1, <1>5 DEF CountsFit, Locals

\* Both invariants hold of every behaviour.
THEOREM UserInvariance == Spec => [](Inv /\ UserInv)
  BY InitInv, NextInv, UserInit, NextUsers, PTL DEF Spec

\* A Google login answers with a user of its account or its email
\* (service.go:69-106).
THEOREM GoogleIdentified == Spec => []GoogleIdentity
<1>1. UserInv => GoogleIdentity
  BY DEF UserInv
<1> QED
  BY <1>1, UserInvariance, PTL

\* Where there are users there is an admin, or a teacher someone provisioned
\* (service.go:77-94, main.go:100-117).
THEOREM StudentsAreLed == Spec => []StudentsLed
<1>1. UserInv => StudentsLed
  BY DEF UserInv, Led, StudentsLed
<1> QED
  BY <1>1, UserInvariance, PTL

\* A Google login makes an admin only where there was no user when it began,
\* or where its COUNT failed (service.go:77-94).
THEOREM AdminsJustified == Spec => AdminJustified
<1>1. Inv /\ UserInv /\ [Next]_vars =>
        [\A r \in Requests : MakesAdmin(r) => req[r].there = {} \/ req[r].zero = "error"]_vars
  BY NextMakesAdmin
<1> QED
  BY <1>1, UserInvariance, PTL DEF Spec, AdminJustified
=============================================================================
