---------------------------- MODULE AuthSessions ----------------------------
(***************************************************************************)
(* auth.Service and runSeed: password logins, Google logins that create or *)
(* link a user, rotation of refresh tokens, and the admin a starting       *)
(* server creates.  None of it runs in a transaction: every statement is   *)
(* committed on its own, and those of several requests, and of a server    *)
(* starting beside another, interleave.                                    *)
(*                                                                         *)
(* One tenant: every statement names the tenant_id.  A user is known by    *)
(* its email, unique in the tenant and never updated.                      *)
(***************************************************************************)
EXTENDS Naturals, FiniteSets

CONSTANTS
  Requests,   \* handlers, and starting servers, running at the same time
  Emails,     \* addresses, the users' identities
  Subs,       \* Google account identifiers
  Tokens,     \* refresh tokens that may be drawn (bound)
  NoEmail, NoSub, NoToken

ASSUME NoneAssumption == NoEmail \notin Emails /\ NoSub \notin Subs /\ NoToken \notin Tokens
ASSUME DisjointAssumption == Requests \cap Tokens = {}

VARIABLES
  users,      \* table users, by email
  owner,      \* table refresh_tokens: the user of each, NoEmail when absent
  revoked,    \* those with revoked_at set
  expired,    \* those past expires_at
  req,        \* each request: its next statement (pc) and local variables
  family,     \* history: the token of the login each token descends from
  delivered,  \* history: tokens some client was sent
  contended,  \* history: families with two refreshes of a token at once
  broken      \* history: families a failure left a refresh of incomplete

history == <<family, delivered, contended, broken>>
vars    == <<users, owner, revoked, expired, req, history>>

UserRows == [status : {"active", "suspended"}, sub : Subs \cup {NoSub},
             password : BOOLEAN, role : {"admin", "teacher", "student"}]
Absent   == [status |-> "absent", sub |-> NoSub, password |-> FALSE, role |-> "student"]

\* email and sub it came with; the user it read or created; the token it
\* redeems; how its count came to be 0; the users there when it began (history).
Locals ==
  [pc : {"idle", "count", "insert", "link", "revoke", "issue", "create"},
   email : Emails \cup {NoEmail}, sub : Subs \cup {NoSub}, user : Emails \cup {NoEmail},
   tok : Tokens \cup {NoToken}, zero : {"counted", "error", "no"}, there : SUBSET Emails]

Idle == [pc |-> "idle", email |-> NoEmail, sub |-> NoSub, user |-> NoEmail,
         tok |-> NoToken, zero |-> "no", there |-> {}]

Present == {e \in Emails : users[e] # Absent}
Active  == {e \in Present : users[e].status = "active"}

\* UNIQUE NULLS NOT DISTINCT (tenant_id, google_sub): NULL is taken too.
SubTaken(s) == \E e \in Present : users[e].sub = s

\* A fault: no default for the column status.
NewUserNoStatus(s, hasPassword, role) ==
  [status |-> "absent", sub |-> s, password |-> hasPassword, role |-> role]

NewUser(s, hasPassword, role) ==
  [status |-> "active", sub |-> s, password |-> hasPassword, role |-> role]

Begin(r, locals) == req[r].pc = "idle" /\ req' = [req EXCEPT ![r] = locals]
Step(r, to)      == req' = [req EXCEPT ![r].pc = to]
End(r)           == req' = [req EXCEPT ![r] = Idle]

\* The INSERT of a user can fail, and its client go away: an error is answered.
Fail(r) ==
  /\ req[r].pc \in {"insert", "create"}
  /\ End(r)
  /\ UNCHANGED <<users, owner, revoked, expired, history>>

-----------------------------------------------------------------------------
(* Login                                                                   *)

\* The SELECT, then the password: wrong ones end here and change nothing.
LoginSelect(r, e) ==
  /\ e \in Active /\ users[e].password
  /\ Begin(r, [Idle EXCEPT !.pc = "issue", !.email = e, !.user = e])
  /\ UNCHANGED <<users, owner, revoked, expired, history>>

-----------------------------------------------------------------------------
(* LoginOrCreateGoogle                                                     *)

Matches(e, s) == {u \in Active : users[u].sub = s \/ u = e}

\* SELECT ... LIMIT 1: any of the users that match.
GoogleSelect(r, e, s) ==
  /\ LET came == [Idle EXCEPT !.email = e, !.sub = s, !.there = Present] IN
     \/ Matches(e, s) = {} /\ Begin(r, [came EXCEPT !.pc = "count"])
     \/ \E u \in Matches(e, s) : Begin(r, [came EXCEPT !.pc = "link", !.user = u])
  /\ UNCHANGED <<users, owner, revoked, expired, history>>

\* A fault: AND status = 'active' in the count.
CountActive == Cardinality(Active)

\* A fault: the user is counted after it is inserted.
CountWithOwn == Cardinality(Present) + 1

CountUsers == Cardinality(Present)

\* SELECT COUNT(*): its error is dropped, and count stays 0.
GoogleCount(r) ==
  /\ req[r].pc = "count"
  /\ \E how \in {IF CountUsers = 0 THEN "counted" ELSE "no", "error"} :
       req' = [req EXCEPT ![r].pc = "insert", ![r].zero = how]
  /\ UNCHANGED <<users, owner, revoked, expired, history>>

\* INSERT: refused when the email or the sub is taken; its answer may be lost.
GoogleInsert(r) ==
  /\ req[r].pc = "insert"
  /\ LET q == req[r]
         role == IF q.zero = "no" THEN "student" ELSE "admin" IN
     /\ q.email \notin Present /\ ~SubTaken(q.sub)
     /\ users' = [users EXCEPT ![q.email] = NewUser(q.sub, FALSE, role)]
     /\ \/ req' = [req EXCEPT ![r].pc = "issue", ![r].user = q.email]
        \/ End(r)
  /\ UNCHANGED <<owner, revoked, expired, history>>

\* A fault: no AND google_sub IS NULL.
LinkAlways(r) == TRUE

\* WHERE google_sub IS NULL
Unlinked(r) == users[req[r].user].sub = NoSub

\* UPDATE: its error, a failure or a sub already taken, is dropped.
GoogleLink(r) ==
  /\ req[r].pc = "link"
  /\ \/ /\ Unlinked(r) /\ ~SubTaken(req[r].sub)
        /\ users' = [users EXCEPT ![req[r].user].sub = req[r].sub]
     \/ UNCHANGED users
  /\ Step(r, "issue")
  /\ UNCHANGED <<owner, revoked, expired, history>>

-----------------------------------------------------------------------------
(* Refresh                                                                 *)

Live(t) == owner[t] # NoEmail /\ t \notin revoked

\* Request q has read t and not yet revoked it.
Redeeming(q, t) == req[q].pc = "revoke" /\ req[q].tok = t

\* SELECT ... WHERE revoked_at IS NULL, then the test of expires_at.  The
\* client may send any token it was given, however often.
RefreshSelect(r, t) ==
  /\ t \in delivered /\ Live(t) /\ t \notin expired
  /\ Begin(r, [Idle EXCEPT !.pc = "revoke", !.email = owner[t], !.user = owner[t], !.tok = t])
  /\ contended' = IF \E q \in Requests : Redeeming(q, t)
                  THEN contended \cup {family[t]} ELSE contended
  /\ UNCHANGED <<users, owner, revoked, expired, family, delivered, broken>>

\* A fault: no UPDATE.
RefreshKeepsToken(r) ==
  /\ req[r].pc = "revoke"
  /\ Step(r, "issue")
  /\ UNCHANGED <<users, owner, revoked, expired, history>>

\* UPDATE ... SET revoked_at, whether or not another request set it already;
\* on an error, which may hide that it was set, nothing is issued.
RefreshRevoke(r) ==
  /\ req[r].pc = "revoke"
  /\ LET t == req[r].tok IN
     \/ revoked' = revoked \cup {t} /\ Step(r, "issue") /\ UNCHANGED broken
     \/ revoked' = revoked \cup {t} /\ End(r) /\ broken' = broken \cup {family[t]}
     \/ End(r) /\ UNCHANGED <<revoked, broken>>
  /\ UNCHANGED <<users, owner, expired, family, delivered, contended>>

-----------------------------------------------------------------------------
(* generateTokenPair                                                       *)

\* A login starts a family; a refresh continues that of the token it redeems.
FamilyOf(r, t) == IF req[r].tok = NoToken THEN t ELSE family[req[r].tok]

\* A fault: the INSERT is retried with a new token after its answer was lost.
GenerateTokenPairRetried(r) ==
  /\ req[r].pc = "issue"
  /\ \E t, u \in Tokens :
       /\ t # u /\ owner[t] = NoEmail /\ owner[u] = NoEmail
       /\ owner' = [owner EXCEPT ![t] = req[r].user, ![u] = req[r].user]
       /\ family' = [family EXCEPT ![t] = FamilyOf(r, t), ![u] = FamilyOf(r, t)]
       /\ delivered' = delivered \cup {t}
  /\ End(r)
  /\ UNCHANGED <<users, revoked, expired, contended, broken>>

\* A fresh token is stored, then sent or its answer lost; or the INSERT fails.
GenerateTokenPair(r) ==
  /\ req[r].pc = "issue"
  /\ \/ \E t \in Tokens :
          /\ owner[t] = NoEmail
          /\ owner' = [owner EXCEPT ![t] = req[r].user]
          /\ family' = [family EXCEPT ![t] = FamilyOf(r, t)]
          /\ \/ delivered' = delivered \cup {t} /\ UNCHANGED broken
             \/ broken' = broken \cup {FamilyOf(r, t)} /\ UNCHANGED delivered
     \/ /\ broken' = IF req[r].tok = NoToken THEN broken
                     ELSE broken \cup {family[req[r].tok]}
        /\ UNCHANGED <<owner, family, delivered>>
  /\ End(r)
  /\ UNCHANGED <<users, revoked, expired, contended>>

-----------------------------------------------------------------------------
(* runSeed, in a server that starts with ADMIN_EMAIL = e                   *)

FindByEmail(r, e) ==
  /\ e \notin Present
  /\ Begin(r, [Idle EXCEPT !.pc = "create", !.email = e])
  /\ UNCHANGED <<users, owner, revoked, expired, history>>

\* ON CONFLICT (tenant_id, email) DO NOTHING; a user without a google_sub
\* under another email is a conflict of the other constraint, and an error.
CreateAdmin(r) ==
  /\ req[r].pc = "create"
  /\ LET e == req[r].email IN
     users' = IF e \in Present \/ SubTaken(NoSub) THEN users
              ELSE [users EXCEPT ![e] = NewUser(NoSub, TRUE, "admin")]
  /\ End(r)
  /\ UNCHANGED <<owner, revoked, expired, history>>

-----------------------------------------------------------------------------
(* What happens to the tables outside this code                            *)

Provision(e) ==
  /\ e \notin Present /\ ~SubTaken(NoSub)
  /\ users' = [users EXCEPT ![e] = NewUser(NoSub, TRUE, "teacher")]
  /\ UNCHANGED <<owner, revoked, expired, req, history>>

Suspend(e) ==
  /\ e \in Active
  /\ users' = [users EXCEPT ![e].status = "suspended"]
  /\ UNCHANGED <<owner, revoked, expired, req, history>>

Expire(t) ==
  /\ owner[t] # NoEmail /\ t \notin expired
  /\ expired' = expired \cup {t}
  /\ UNCHANGED <<users, owner, revoked, req, history>>

-----------------------------------------------------------------------------
Init ==
  /\ users = [e \in Emails |-> Absent]
  /\ owner = [t \in Tokens |-> NoEmail]
  /\ revoked = {} /\ expired = {}
  /\ req = [r \in Requests |-> Idle]
  /\ family = [t \in Tokens |-> NoToken]
  /\ delivered = {} /\ contended = {} /\ broken = {}

Handle(r) ==
  \/ \E e \in Emails : LoginSelect(r, e)
  \/ \E e \in Emails, s \in Subs : GoogleSelect(r, e, s)
  \/ \E t \in Tokens : RefreshSelect(r, t)
  \/ GoogleCount(r) \/ GoogleInsert(r) \/ GoogleLink(r)
  \/ RefreshRevoke(r) \/ GenerateTokenPair(r) \/ Fail(r)

Seed(r) == CreateAdmin(r) \/ \E e \in Emails : FindByEmail(r, e)

Next ==
  \/ \E r \in Requests : Handle(r) \/ Seed(r)
  \/ \E e \in Emails : Provision(e) \/ Suspend(e)
  \/ \E t \in Tokens : Expire(t)

Spec == Init /\ [][Next]_vars

\* The logins and refreshes alone: nobody provisions, suspends or seeds.
LoginSpec == Init /\ [][\E r \in Requests : Handle(r)]_vars

-----------------------------------------------------------------------------
(* Properties                                                              *)

\* Every variable has its type.
TypeOK ==
  /\ users \in [Emails -> UserRows \cup {Absent}]
  /\ owner \in [Tokens -> Emails \cup {NoEmail}]
  /\ revoked \subseteq Tokens /\ expired \subseteq Tokens
  /\ req \in [Requests -> Locals]
  /\ family \in [Tokens -> Tokens \cup {NoToken}]
  /\ delivered \subseteq Tokens /\ contended \subseteq Tokens /\ broken \subseteq Tokens

\* The session a login began is carried by one token a client can redeem, or
\* by one Refresh that has revoked it and is about to store its successor.
Carries(h, f) ==
  \/ h \in Tokens /\ Live(h) /\ family[h] = f
  \/ h \in Requests /\ req[h].pc = "issue" /\ req[h].tok # NoToken /\ family[req[h].tok] = f

Families == {t \in Tokens : owner[t] # NoEmail /\ family[t] = t}

\* Rotation neither forks a session nor loses it (service.go:113-140), except
\* where two refreshes of one token overlapped or a failure cut one short.
OneSession ==
  \A f \in Families \ (contended \cup broken) :
    /\ \E h \in Tokens \cup Requests : Carries(h, f)
    /\ \A h, k \in Tokens \cup Requests : Carries(h, f) /\ Carries(k, f) => h = k

\* The token that carries such a session was sent to a client: it is not one
\* whose answer was lost.
SessionHeld ==
  \A t \in Tokens : Live(t) /\ family[t] \notin contended \cup broken => t \in delivered

\* What makes the two inductive.  Every stored token descends from a stored
\* token that began its family.
Rooted ==
  \A t \in Tokens : IF owner[t] # NoEmail THEN family[t] \in Families
                    ELSE family[t] = NoToken /\ t \notin revoked

\* The locals of a request fit the statement it has reached.
LocalsFit(q) ==
  /\ q.pc \in {"idle", "count", "insert", "link", "create"} => q.tok = NoToken
  /\ q.pc = "revoke" => q.tok # NoToken
  /\ q.tok # NoToken => owner[q.tok] # NoEmail
  /\ q.pc \in {"link", "revoke", "issue"} => q.user \in Emails
  /\ q.pc = "link" => users[q.user] # Absent
  /\ q.pc \in {"count", "insert", "create"} => q.email \in Emails

\* In a family without overlap, a token being redeemed is still good, and one
\* request alone redeems it.
Redeems ==
  \A r \in Requests, t \in Tokens : Redeeming(r, t) /\ family[t] \notin contended =>
    Live(t) /\ \A q \in Requests : Redeeming(q, t) => q = r

Inv ==
  /\ TypeOK /\ Rooted /\ Redeems /\ OneSession /\ SessionHeld
  /\ \A r \in Requests : LocalsFit(req[r])

\* A Google login answers with a user that still has the account's sub or its
\* email: the user read by the SELECT is the same when the pair is stored,
\* whatever other logins linked in between (service.go:69-106).
GoogleIdentity ==
  \A r \in Requests :
    req[r].pc \in {"link", "issue"} /\ req[r].sub # NoSub =>
      users[req[r].user].sub = req[r].sub \/ req[r].user = req[r].email

\* Request r, a Google login, inserts a user with role admin.
MakesAdmin(r) ==
  /\ req[r].pc = "insert"
  /\ users[req[r].email] = Absent /\ users'[req[r].email].role = "admin"
  /\ req'[r] # req[r]

\* A Google login makes an admin only in a tenant that had no user when the
\* login began, or when its COUNT failed (service.go:77-94).
AdminJustified ==
  [][\A r \in Requests : MakesAdmin(r) => req[r].there = {} \/ req[r].zero = "error"]_vars

\* Students are never alone in a tenant: the first user is an admin, unless
\* someone else provisioned a teacher, although the COUNT, the INSERT and the
\* seed of several servers interleave (service.go:77-94, main.go:100-117).
StudentsLed ==
  (\E e \in Present : users[e].role = "student") =>
    \E e \in Present : users[e].role \in {"admin", "teacher"}

\* What makes those three inductive: a request knows whether there were users
\* when it counted them, and users are never removed.
CountsFit(q) ==
  /\ q.there \subseteq Present
  /\ q.pc = "revoke" => q.sub = NoSub
  /\ q.pc = "insert" /\ q.zero = "counted" => q.there = {}
  /\ q.pc = "insert" /\ q.zero = "no" => Present # {}

Led == Present # {} => \E e \in Present : users[e].role \in {"admin", "teacher"}

UserInv ==
  /\ IsFiniteSet(Present) /\ Led /\ GoogleIdentity
  /\ \A r \in Requests : CountsFit(req[r])

\* "create user as admin (only if first user in tenant)" (service.go:78), in
\* the logins whose COUNT answered.
AdminOnlyFirst ==
  [][\A r \in Requests : MakesAdmin(r) /\ req[r].zero = "counted" => Present = {}]_vars
=============================================================================
