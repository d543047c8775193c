----------------------------- MODULE StartupProofs -----------------------------
(***************************************************************************)
(* For any number of servers, users and migrations: the schema is never    *)
(* left in doubt except by a process that died half way through a          *)
(* migration, no server answers before it is ready, and what               *)
(* AuthSessionsProofs shows of sessions and users survives processes that  *)
(* start and die in the middle of a request.                               *)
(***************************************************************************)
EXTENDS Startup, AuthSessionsProofs

-----------------------------------------------------------------------------
(* Requests under servers that start and die                               *)

\* A server's step takes a step of its request, unless the server ends.
LEMMA StepOrDie ==
  ASSUME StartTypeOK, [StartNext]_allVars PROVE [Next]_vars \/ \E r \in Requests : Die(r)
<1>1. CASE Outside
  BY <1>1 DEF Outside, Next
<1>2. ASSUME NEW r \in Requests, Server(r), ~Die(r) PROVE [Next]_vars
  <2>1. CASE UNCHANGED vars
    BY <2>1
  <2>2. CASE Serve(r)
    BY <2>2 DEF Serve, Next
  <2>3. CASE SeedLooks(r)
    <3>1. FindByEmail(r, boot[r].admin) /\ boot[r].admin \in Emails
      BY <2>3 DEF SeedLooks, StartTypeOK, Boots
    <3> QED
      BY <3>1 DEF Next, Seed
  <2>4. CASE SeedCreates(r)
    BY <2>4 DEF SeedCreates, Next, Seed
  <2> QED
    BY <1>2, <2>1, <2>2, <2>3, <2>4 DEF Server, Load, TakeLock, MarkDirty, RunSQL, MarkClean,
       UpDone, UpsertTenant, SeedSkips, Stop
<1> QED
  BY <1>1, <1>2 DEF StartNext, allVars

\* A request cut anywhere leaves no session forked, or lost unnoticed.
LEMMA DieInv == ASSUME Inv, NEW r \in Requests, Die(r) PROVE Inv'
<1>1. /\ req' = [req EXCEPT ![r] = Idle] /\ broken' = broken \cup CutFamilies(r)
      /\ UNCHANGED <<users, owner, revoked, expired, family, delivered, contended>>
  BY DEF Die
<1>2. CASE req[r].pc = "issue"
  BY <1>1, <1>2, NotStoredInv DEF CutFamilies
<1>3. CASE req[r].pc # "issue"
  <2>1. UNCHANGED broken
    BY <1>1, <1>3 DEF CutFamilies
  <2>2. CASE req[r].pc = "revoke"
    <3>1. RefreshRevoke(r)
      BY <1>1, <2>1, <2>2 DEF RefreshRevoke, End
    <3> QED
      BY <3>1, RefreshRevokeInv
  <2>3. CASE req[r].pc # "revoke"
    <3>1. req[r].pc \in {"idle", "count", "insert", "link", "create"}
      BY <1>3, <2>3 DEF Inv, TypeOK, Locals
    <3>2. UNCHANGED <<users, expired, tokenVars>>
      BY <1>1, <2>1 DEF tokenVars
    <3> QED
      BY <1>1, <3>1, <3>2, EndFits, IdleTyped, TokenlessStep DEF Inv, TypeOK
  <2> QED
    BY <2>2, <2>3
<1> QED
  BY <1>2, <1>3

LEMMA RequestsHold ==
  ASSUME Inv, UserInv, StartTypeOK, [StartNext]_allVars PROVE Inv' /\ UserInv'
<1>1. ASSUME NEW r \in Requests, Die(r) PROVE Inv' /\ UserInv'
  BY <1>1, DieInv, IdleKnows, UsersSame DEF Die
<1> QED
  BY <1>1, StepOrDie, NextInv, NextUsers

\* No statement removes a user.
LEMMA UsersStay == ASSUME Inv, StartTypeOK, [StartNext]_allVars PROVE Present \subseteq Present'
<1>1. CASE UNCHANGED users
  BY <1>1 DEF Present
<1>2. ASSUME NEW e, NEW u, u # Absent, users' = [users EXCEPT ![e] = u]
      PROVE  Present \subseteq Present'
  BY <1>2 DEF Present, Inv, TypeOK
<1>3. NewUser(NoSub, TRUE, "teacher") # Absent /\ NewUser(NoSub, TRUE, "admin") # Absent
  BY NewUserTyped
<1>4. ASSUME NEW r \in Requests, GoogleInsert(r) PROVE Present \subseteq Present'
  <2> DEFINE u == NewUser(req[r].sub, FALSE, IF req[r].zero = "no" THEN "student" ELSE "admin")
  <2>1. u # Absent
    BY DEF NewUser, Absent
  <2>2. users' = [users EXCEPT ![req[r].email] = u]
    BY <1>4 DEF GoogleInsert
  <2> HIDE DEF u
  <2> QED
    BY <1>2, <2>1, <2>2
<1>5. ASSUME NEW r \in Requests, GoogleLink(r) PROVE Present \subseteq Present'
  <2>1. PICK e : e = req[r].user
    OBVIOUS
  <2>2. users[e] \in UserRows /\ e \in Present
    BY <1>5, <2>1 DEF GoogleLink, Inv, LocalsFit, TypeOK, Present
  <2> DEFINE u == [users[e] EXCEPT !.sub = req[r].sub]
  <2>3. u # Absent
    BY <2>2 DEF UserRows, Absent
  <2>4. UNCHANGED users \/ users' = [users EXCEPT ![e] = u]
    BY <1>5, <2>1 DEF GoogleLink
  <2> HIDE DEF u
  <2> QED
    BY <1>1, <1>2, <2>3, <2>4
<1>6. ASSUME NEW r \in Requests, CreateAdmin(r) PROVE Present \subseteq Present'
  BY <1>1, <1>2, <1>3, <1>6 DEF CreateAdmin
<1>7. ASSUME NEW e \in Emails, Provision(e) PROVE Present \subseteq Present'
  BY <1>2, <1>3, <1>7 DEF Provision
<1>8. ASSUME NEW e \in Emails, Suspend(e) PROVE Present \subseteq Present'
  <2>1. users[e] \in UserRows
    BY <1>8 DEF Suspend, Active, Present, Inv, TypeOK
  <2> DEFINE u == [users[e] EXCEPT !.status = "suspended"]
  <2>2. u # Absent /\ users' = [users EXCEPT ![e] = u]
    BY <1>8, <2>1 DEF Suspend, UserRows, Absent
  <2> HIDE DEF u
  <2> QED
    BY <1>2, <2>2
<1>9. \/ UNCHANGED users
      \/ \E r \in Requests : GoogleInsert(r) \/ GoogleLink(r) \/ CreateAdmin(r)
      \/ \E e \in Emails : Provision(e) \/ Suspend(e)
  <2>1. Next \/ UNCHANGED users
    BY StepOrDie DEF Die, vars
  <2>2. ASSUME NEW r \in Requests, Handle(r) \/ Seed(r)
        PROVE  UNCHANGED users \/ GoogleInsert(r) \/ GoogleLink(r) \/ CreateAdmin(r)
    BY <2>2 DEF Handle, Seed, LoginSelect, GoogleSelect, RefreshSelect, GoogleCount,
       RefreshRevoke, GenerateTokenPair, Fail, FindByEmail
  <2>3. ASSUME NEW t \in Tokens, Expire(t) PROVE UNCHANGED users
    BY <2>3 DEF Expire
  <2> QED
    BY <2>1, <2>2, <2>3 DEF Next
<1> QED
  BY <1>1, <1>4, <1>5, <1>6, <1>7, <1>8, <1>9

-----------------------------------------------------------------------------
(* The schema, and what a server knows at each place of main               *)

LEMMA StartInitInv == StartInit => StartInv
<1> SUFFICES ASSUME StartInit PROVE StartInv
  OBVIOUS
<1>1. Down \in Boots
  BY LastAssumption DEF Down, Boots
<1>2. TypeOK
  BY InitInv DEF StartInit, Inv
<1>3. StartTypeOK
  <2>1. version \in 0..Last /\ schema \subseteq 1..Last /\ boot \in [Requests -> Boots]
    BY <1>1, LastAssumption DEF StartInit
  <2> QED
    BY <1>2, <2>1, Zenon DEF StartInit, StartTypeOK
<1>4. SchemaWhole /\ (dirty => version # 0)
  BY DEF StartInit, SchemaWhole
<1>5. \A r \in Requests : boot[r].at = "down" /\ req[r].pc = "idle"
  BY DEF StartInit, Init, Down, Idle
<1>6. /\ ServesReady
      /\ \A q, r \in Requests : Migrating(q) /\ Migrating(r) => q = r
  BY <1>5 DEF ServesReady, Migrating
<1>7. \A r \in Requests : Knows(r)
  BY <1>5 DEF Knows, At, HalfDone
<1> QED
  BY <1>3, <1>4, <1>6, <1>7 DEF StartInv

\* Server r goes to b, where it does not migrate, and the schema stays.
LEMMA Moved ==
  ASSUME StartInv, NEW r \in Requests, NEW b \in Boots, boot' = [boot EXCEPT ![r] = b],
         UNCHANGED <<version, dirty, schema>>, TypeOK', tenant' \in BOOLEAN, cut' \in BOOLEAN,
         b.at \notin {"up", "run", "mark"}, cut \/ HalfDone(r) => cut', tenant => tenant',
         Present \subseteq Present', \A p \in Requests : p # r => req'[p] = req[p],
         b.at \in {"tenant", "seed", "serving", "stopping"} =>
           version = Last /\ ~dirty /\ schema = 1..Last,
         b.at \in {"seed", "serving", "stopping"} => tenant',
         b.at \in {"serving", "stopping"} => b.admin \in Present' \cup {NoEmail},
         req'[r].pc = "create" => b.at = "seed" /\ req'[r].email = b.admin
  PROVE  StartInv'
<1>1. boot'[r] = b /\ \A p \in Requests : p # r => boot'[p] = boot[p]
  BY DEF StartInv, StartTypeOK
<1>2. StartTypeOK'
  BY DEF StartInv, StartTypeOK
<1>3. SchemaWhole'
  BY <1>1 DEF StartInv, SchemaWhole, HalfDone
<1>4. ServesReady'
  BY <1>1 DEF StartInv, ServesReady
<1>5. \A p, q \in Requests : Migrating(p)' /\ Migrating(q)' => p = q
  BY <1>1 DEF StartInv, Migrating
<1>6. ASSUME NEW p \in Requests PROVE Knows(p)'
  <2>1. CASE p = r
    BY <1>1, <2>1 DEF Knows, At, HalfDone
  <2>2. CASE p # r
    BY <1>1, <2>2 DEF StartInv, Knows, At, HalfDone
  <2> QED
    BY <2>1, <2>2
<1> QED
  BY <1>2, <1>3, <1>4, <1>5, <1>6 DEF StartInv

\* No server moves, and r, which does not migrate, or none, takes a step of
\* its request.
LEMMA Stayed ==
  ASSUME StartInv, UNCHANGED <<boot, database>>, TypeOK', Present \subseteq Present',
         \A p \in Requests : req'[p].pc = "create" =>
           req'[p] = req[p] \/ (At(p, "seed") /\ req'[p].email = boot[p].admin)
  PROVE  StartInv'
<1>1. StartTypeOK' /\ SchemaWhole'
  BY DEF StartInv, StartTypeOK, SchemaWhole, HalfDone, database
<1>2. ServesReady'
  BY DEF StartInv, ServesReady, database
<1>3. \A p \in Requests : Knows(p)'
  BY DEF StartInv, Knows, At, HalfDone, database
<1> QED
  BY <1>1, <1>2, <1>3 DEF StartInv, Migrating, database

-----------------------------------------------------------------------------
(* migrate.Up                                                              *)

LEMMA TakeLockInv ==
  ASSUME StartInv, NEW r \in Requests, TakeLock(r) PROVE StartInv'
<1>1. /\ boot[r] \in Boots /\ At(r, "lock") /\ \A q \in Requests : ~Migrating(q)
      /\ UNCHANGED <<vars, database>> /\ version \in 0..Last
  BY DEF TakeLock, StartInv, StartTypeOK
<1>2. CASE dirty
  <2>1. Down \in Boots /\ Down.at = "down" /\ boot' = [boot EXCEPT ![r] = Down]
    BY <1>2, LastAssumption DEF Down, Boots, TakeLock
  <2>2. TypeOK' /\ Present' = Present /\ UNCHANGED req
    BY <1>1 DEF StartInv, StartTypeOK, TypeOK, Present, vars, history
  <2> QED
    BY <1>1, <2>1, <2>2, Moved DEF database, StartInv, StartTypeOK, Knows, At, Migrating, HalfDone
<1>3. CASE ~dirty
  <2> DEFINE b == [boot[r] EXCEPT !.at = "up", !.next = version + 1]
  <2>1. b \in Boots /\ b.at = "up" /\ b.next = version + 1
    <3>1. version + 1 \in 0..Last + 1
      BY <1>1, LastAssumption
    <3> QED
      BY <1>1, <3>1 DEF Boots
  <2>2. boot' = [boot EXCEPT ![r] = b]
    BY <1>3 DEF TakeLock
  <2> HIDE DEF b
  <2>3. boot'[r] = b /\ \A p \in Requests : p # r => boot'[p] = boot[p]
    BY <2>2 DEF StartInv, StartTypeOK
  <2>4. StartTypeOK'
    BY <1>1, <2>1, <2>2 DEF StartInv, StartTypeOK, TypeOK, vars, history, database
  <2>5. SchemaWhole' /\ ServesReady'
    BY <1>1, <1>3, <2>1, <2>3 DEF StartInv, SchemaWhole, ServesReady, Present, vars, database
  <2>6. \A p, q \in Requests : Migrating(p)' /\ Migrating(q)' => p = q
    BY <1>1, <2>3 DEF Migrating
  <2>7. ASSUME NEW p \in Requests PROVE Knows(p)'
    <3>1. CASE p = r
      BY <1>1, <1>3, <2>1, <2>3, <3>1 DEF StartInv, Knows, At, HalfDone, vars, database
    <3>2. CASE p # r
      BY <1>1, <2>3, <3>2 DEF StartInv, Knows, At, HalfDone, vars, database
    <3> QED
      BY <3>1, <3>2
  <2> QED
    BY <1>1, <1>3, <2>4, <2>5, <2>6, <2>7 DEF StartInv, database
<1> QED
  BY <1>2, <1>3 DEF StartInv, StartTypeOK

\* Only r migrates, and it says so at a version that is not the last.
LEMMA Alone ==
  ASSUME StartInv, NEW r \in Requests, Migrating(r)
  PROVE  /\ \A p \in Requests : p # r => ~Migrating(p)
         /\ boot[r] \in Boots /\ version \in 0..Last
         /\ dirty \/ boot[r].next <= Last =>
              \A p \in Requests : boot[p].at \notin {"tenant", "seed", "serving", "stopping"}
<1>1. version \in 0..Last /\ \A p \in Requests : boot[p] \in Boots
  BY DEF StartInv, StartTypeOK
<1>2. ~dirty /\ boot[r].next <= Last => version # Last
  <2>1. CASE At(r, "up")
    BY <1>1, <2>1, LastAssumption DEF StartInv, Knows
  <2>2. CASE HalfDone(r)
    BY <2>2 DEF StartInv, Knows
  <2> QED
    BY <2>1, <2>2 DEF Migrating, At, HalfDone
<1> QED
  BY <1>1, <1>2 DEF StartInv, ServesReady

\* A step of r, which alone migrates and goes on to b.
LEMMA Migrates ==
  ASSUME StartInv, NEW r \in Requests, Migrating(r), dirty \/ boot[r].next <= Last,
         NEW b \in Boots, boot' = [boot EXCEPT ![r] = b], b.at \in {"up", "run", "mark"},
         UNCHANGED <<vars, tenant, cut>>, version' \in 0..Last, dirty' \in BOOLEAN,
         schema' \subseteq 1..Last, SchemaWhole', dirty' => version' # 0,
         b.at = "up" => ~dirty' /\ b.next = version' + 1,
         b.at \in {"run", "mark"} => dirty' /\ b.next = version',
         b.at = "run" => schema' = 1..(version' - 1),
         b.at = "mark" => schema' = 1..version'
  PROVE  StartInv'
<1>1. boot'[r] = b /\ \A p \in Requests : p # r => boot'[p] = boot[p]
  BY DEF StartInv, StartTypeOK
<1>2. StartTypeOK'
  BY DEF StartInv, StartTypeOK, TypeOK, vars, history
<1>3. \A p, q \in Requests : Migrating(p)' /\ Migrating(q)' => p = q
  BY <1>1, Alone DEF Migrating
<1>4. ServesReady'
  BY <1>1, Alone DEF ServesReady
<1>5. ASSUME NEW p \in Requests PROVE Knows(p)'
  <2>1. req[p].pc # "create"
    BY Alone DEF StartInv, Knows, At, Migrating
  <2>2. CASE p = r
    BY <1>1, <2>1, <2>2 DEF Knows, At, HalfDone, vars
  <2>3. CASE p # r
    <3>1. ~Migrating(p) /\ boot[p].at \notin {"tenant", "seed", "serving", "stopping"}
      BY <2>3, Alone
    <3> QED
      BY <1>1, <2>1, <2>3, <3>1 DEF Knows, At, HalfDone, Migrating, vars
  <2> QED
    BY <2>2, <2>3
<1> QED
  BY <1>2, <1>3, <1>4, <1>5 DEF StartInv

LEMMA MarkDirtyInv ==
  ASSUME StartInv, NEW r \in Requests, MarkDirty(r) PROVE StartInv'
<1> DEFINE v == version + 1
           b == [boot[r] EXCEPT !.at = "run"]
<1>1. /\ At(r, "up") /\ Migrating(r) /\ boot[r] \in Boots /\ boot[r].next <= Last
      /\ ~dirty /\ boot[r].next = v /\ version \in 0..Last /\ schema = 1..version
      /\ boot' = [boot EXCEPT ![r] = b] /\ version' = v /\ dirty' = TRUE
      /\ UNCHANGED <<vars, schema, tenant, cut>>
  BY DEF MarkDirty, At, Go, Migrating, StartInv, StartTypeOK, Knows, SchemaWhole
<1>2. b \in Boots /\ b.at = "run" /\ b.next = v
  BY <1>1 DEF Boots
<1>3. v \in 0..Last /\ v # 0 /\ 1..(v - 1) = 1..version
  BY <1>1, LastAssumption
<1>4. HalfDone(r)'
  BY <1>1, <1>2 DEF HalfDone, StartInv, StartTypeOK
<1>5. SchemaWhole' /\ schema' \subseteq 1..Last
  BY <1>1, <1>3, <1>4 DEF SchemaWhole, StartInv, StartTypeOK
<1> HIDE DEF b
<1> QED
  BY <1>1, <1>2, <1>3, <1>5, Migrates

LEMMA RunSQLInv ==
  ASSUME StartInv, NEW r \in Requests, RunSQL(r) PROVE StartInv'
<1> DEFINE b == [boot[r] EXCEPT !.at = "mark"]
<1>1. /\ At(r, "run") /\ Migrating(r) /\ boot[r] \in Boots /\ dirty /\ boot[r].next = version
      /\ version \in 1..Last /\ schema = 1..(version - 1)
      /\ schema' = schema \cup {version} /\ UNCHANGED <<vars, version, dirty, tenant, cut>>
  BY DEF RunSQL, At, HalfDone, Migrating, StartInv, StartTypeOK, Knows
<1>2. version \notin schema /\ schema' = 1..version
  BY <1>1, LastAssumption
<1>3. boot' = [boot EXCEPT ![r] = b]
  BY <1>1, <1>2 DEF RunSQL
<1>4. b \in Boots /\ b.at = "mark" /\ b.next = version
  BY <1>1 DEF Boots
<1>5. HalfDone(r)'
  BY <1>1, <1>3, <1>4 DEF HalfDone, StartInv, StartTypeOK
<1>6. SchemaWhole' /\ schema' \subseteq 1..Last /\ version \in 0..Last
  BY <1>1, <1>2, <1>5, LastAssumption DEF SchemaWhole
<1> HIDE DEF b
<1> QED
  BY <1>1, <1>2, <1>3, <1>4, <1>6, Migrates DEF StartInv, StartTypeOK

LEMMA MarkCleanInv ==
  ASSUME StartInv, NEW r \in Requests, MarkClean(r) PROVE StartInv'
<1> DEFINE b == [boot[r] EXCEPT !.at = "up", !.next = boot[r].next + 1]
<1>1. /\ At(r, "mark") /\ Migrating(r) /\ boot[r] \in Boots /\ dirty /\ boot[r].next = version
      /\ version \in 0..Last /\ schema = 1..version /\ version' = version /\ dirty' = FALSE
      /\ boot' = [boot EXCEPT ![r] = b] /\ UNCHANGED <<vars, schema, tenant, cut>>
  BY DEF MarkClean, At, HalfDone, Migrating, StartInv, StartTypeOK, Knows
<1>2. version + 1 \in 0..Last + 1
  BY <1>1, LastAssumption
<1>3. b \in Boots /\ b.at = "up" /\ b.next = version + 1
  BY <1>1, <1>2 DEF Boots
<1>4. SchemaWhole' /\ schema' \subseteq 1..Last
  BY <1>1 DEF SchemaWhole, StartInv, StartTypeOK
<1> HIDE DEF b
<1> QED
  BY <1>1, <1>3, <1>4, Migrates

LEMMA UpDoneInv ==
  ASSUME StartInv, NEW r \in Requests, UpDone(r) PROVE StartInv'
<1> DEFINE b == [boot[r] EXCEPT !.at = "tenant"]
<1>1. /\ At(r, "up") /\ boot[r] \in Boots /\ boot[r].next > Last /\ ~dirty
      /\ boot[r].next = version + 1 /\ version \in 0..Last /\ schema = 1..version
      /\ boot' = [boot EXCEPT ![r] = b] /\ UNCHANGED <<vars, database>> /\ req[r].pc # "create"
  BY DEF UpDone, Go, At, StartInv, StartTypeOK, Knows, SchemaWhole
<1>2. b \in Boots /\ b.at = "tenant"
  BY <1>1 DEF Boots
<1>3. version = Last
  BY <1>1, LastAssumption
<1>4. TypeOK' /\ Present' = Present /\ UNCHANGED req
  BY <1>1 DEF StartInv, StartTypeOK, TypeOK, Present, vars, history
<1>5. ~HalfDone(r)
  BY <1>1 DEF HalfDone, At
<1> HIDE DEF b
<1> QED
  BY <1>1, <1>2, <1>3, <1>4, <1>5, Moved DEF database, StartInv, StartTypeOK

-----------------------------------------------------------------------------
(* The seed, and the end                                                   *)

\* What a step that leaves the requests alone keeps.
LEMMA SameRequests ==
  ASSUME StartInv, UNCHANGED vars PROVE TypeOK' /\ Present' = Present /\ UNCHANGED req
  BY DEF StartInv, StartTypeOK, TypeOK, Present, vars, history

LEMMA LoadInv ==
  ASSUME StartInv, NEW r \in Requests, Load(r) PROVE StartInv'
<1>1. PICK e \in Emails \cup {NoEmail} :
        boot' = [boot EXCEPT ![r] = [at |-> "lock", next |-> 0, admin |-> e]]
  BY DEF Load
<1> DEFINE b == [at |-> "lock", next |-> 0, admin |-> e]
<1>2. b \in Boots /\ b.at = "lock" /\ boot' = [boot EXCEPT ![r] = b]
  BY <1>1, LastAssumption DEF Boots
<1>3. At(r, "down") /\ req[r].pc # "create" /\ UNCHANGED <<vars, database>>
  BY DEF Load, StartInv, Knows, At
<1> HIDE DEF b
<1> QED
  BY <1>2, <1>3, SameRequests, Moved DEF database, StartInv, StartTypeOK, At, HalfDone

LEMMA UpsertTenantInv ==
  ASSUME StartInv, NEW r \in Requests, UpsertTenant(r) PROVE StartInv'
<1> DEFINE b == [boot[r] EXCEPT !.at = "seed"]
<1>1. /\ At(r, "tenant") /\ boot[r] \in Boots /\ boot' = [boot EXCEPT ![r] = b]
      /\ UNCHANGED <<vars, version, dirty, schema>> /\ req[r].pc # "create"
      /\ version = Last /\ ~dirty /\ schema = 1..Last
  BY DEF UpsertTenant, Go, At, StartInv, StartTypeOK, ServesReady, Knows
<1>2. b \in Boots /\ b.at = "seed"
  BY <1>1 DEF Boots
<1>3. tenant' /\ tenant' \in BOOLEAN
  BY DEF UpsertTenant
<1>4. cut' \in BOOLEAN /\ (cut \/ HalfDone(r) => cut')
  BY <1>1 DEF UpsertTenant, At, HalfDone, StartInv, StartTypeOK
<1> HIDE DEF b
<1> QED
  BY <1>1, <1>2, <1>3, <1>4, SameRequests, Moved

LEMMA SeedSkipsInv ==
  ASSUME StartInv, NEW r \in Requests, SeedSkips(r) PROVE StartInv'
<1> DEFINE b == [boot[r] EXCEPT !.at = "serving", !.next = 0]
<1>1. /\ At(r, "seed") /\ boot[r] \in Boots /\ boot' = [boot EXCEPT ![r] = b]
      /\ UNCHANGED <<vars, database>> /\ req[r].pc # "create" /\ tenant
      /\ version = Last /\ ~dirty /\ schema = 1..Last /\ boot[r].admin \in Present \cup {NoEmail}
  BY DEF SeedSkips, Listen, At, StartInv, StartTypeOK, ServesReady, Knows
<1>2. b \in Boots /\ b.at = "serving" /\ b.admin = boot[r].admin
  <2>1. 0 \in 0..Last + 1
    BY LastAssumption
  <2> QED
    BY <1>1, <2>1 DEF Boots
<1> HIDE DEF b
<1> QED
  BY <1>1, <1>2, SameRequests, Moved DEF database, StartInv, StartTypeOK, At, HalfDone

LEMMA StopInv ==
  ASSUME StartInv, NEW r \in Requests, Stop(r) PROVE StartInv'
<1> DEFINE b == [boot[r] EXCEPT !.at = "stopping"]
<1>1. /\ At(r, "serving") /\ boot[r] \in Boots /\ boot' = [boot EXCEPT ![r] = b]
      /\ UNCHANGED <<vars, database>> /\ req[r].pc # "create" /\ tenant
      /\ version = Last /\ ~dirty /\ schema = 1..Last /\ boot[r].admin \in Present \cup {NoEmail}
  BY DEF Stop, Go, At, StartInv, StartTypeOK, ServesReady, Knows
<1>2. b \in Boots /\ b.at = "stopping" /\ b.admin = boot[r].admin
  BY <1>1 DEF Boots
<1> HIDE DEF b
<1> QED
  BY <1>1, <1>2, SameRequests, Moved DEF database, StartInv, StartTypeOK, At, HalfDone

\* The admin this server creates, or finds created, is there when it listens.
LEMMA SeedCreatesInv ==
  ASSUME StartInv, Inv', Present \subseteq Present', NEW r \in Requests, SeedCreates(r)
  PROVE  StartInv'
<1> DEFINE e == req[r].email
           u == NewUser(NoSub, TRUE, "admin")
           b == [boot[r] EXCEPT !.at = "serving", !.next = 0]
<1>1. /\ At(r, "seed") /\ boot[r] \in Boots /\ tenant /\ UNCHANGED database
      /\ version = Last /\ ~dirty /\ schema = 1..Last /\ e = boot[r].admin
      /\ CreateAdmin(r) /\ req[r].pc = "create" /\ req' = [req EXCEPT ![r] = Idle]
  BY DEF SeedCreates, CreateAdmin, End, At, StartInv, StartTypeOK, ServesReady, Knows
<1>2. req \in [Requests -> Locals] /\ TypeOK'
  BY DEF StartInv, StartTypeOK, TypeOK, Inv
<1>3. /\ req'[r] = Idle /\ Idle.pc # "create" /\ \A p \in Requests : p # r => req'[p] = req[p]
  BY <1>1, <1>2 DEF Idle
<1>4. /\ b \in Boots /\ b.at = "serving" /\ b.admin = boot[r].admin
      /\ Down \in Boots /\ Down.at = "down"
  <2>1. 0 \in 0..Last + 1
    BY LastAssumption
  <2> QED
    BY <1>1, <2>1 DEF Boots, Down
<1>5. CASE Accepted(boot[r].admin) /\ Listen(r)
  <2>1. boot[r].admin \in Present' \cup {NoEmail}
    <3>1. CASE boot[r].admin \in Present \cup {NoEmail}
      BY <3>1
    <3>2. CASE boot[r].admin \notin Present \cup {NoEmail}
      <4>1. boot[r].admin \in Emails /\ users' = [users EXCEPT ![e] = u]
        BY <1>1, <1>5, <3>2 DEF Accepted, CreateAdmin, Boots
      <4>2. u # Absent
        BY DEF NewUser, Absent
      <4> HIDE DEF u
      <4> QED
        BY <1>1, <4>1, <4>2 DEF Present, StartInv, StartTypeOK, TypeOK
    <3> QED
      BY <3>1, <3>2
  <2>2. boot' = [boot EXCEPT ![r] = b]
    BY <1>5 DEF Listen
  <2> HIDE DEF b
  <2> QED
    BY <1>1, <1>2, <1>3, <1>4, <2>1, <2>2, Moved
    DEF database, StartInv, StartTypeOK, At, HalfDone
<1>6. CASE boot' = [boot EXCEPT ![r] = Down]
  BY <1>1, <1>2, <1>3, <1>4, <1>6, Moved DEF database, StartInv, StartTypeOK, At, HalfDone
<1> QED
  BY <1>5, <1>6 DEF SeedCreates

LEMMA DieStartInv ==
  ASSUME StartInv, Inv', Present \subseteq Present', NEW r \in Requests, Die(r) PROVE StartInv'
<1>1. Down \in Boots /\ Down.at = "down"
  BY LastAssumption DEF Down, Boots
<1>2. req'[r] = Idle /\ Idle.pc # "create" /\ \A p \in Requests : p # r => req'[p] = req[p]
  BY DEF Die, Idle, StartInv, StartTypeOK, TypeOK
<1>3. TypeOK' /\ tenant' \in BOOLEAN
  BY DEF Inv, Die, StartInv, StartTypeOK
<1>4. cut' \in BOOLEAN /\ (cut \/ HalfDone(r) => cut')
  BY DEF Die
<1> QED
  BY <1>1, <1>2, <1>3, <1>4, Moved DEF Die

\* A request of a server that serves never creates the admin.
LEMMA ServeInv ==
  ASSUME StartInv, Inv', Present \subseteq Present', NEW r \in Requests, Serve(r) PROVE StartInv'
<1>1. Handle(r) /\ req[r].pc # "create" /\ UNCHANGED <<boot, database>>
  BY DEF Serve, StartInv, Knows, At
<1>2. req \in [Requests -> Locals] /\ req' \in [Requests -> Locals] /\ TypeOK'
  BY DEF StartInv, StartTypeOK, TypeOK, Inv
<1>3. \A p \in Requests : p # r => req'[p] = req[p]
  BY <1>1, <1>2, OneActs
<1>4. req'[r].pc # "create"
  <2>1. ASSUME NEW q, req' = [req EXCEPT ![r] = q], q.pc # "create" PROVE req'[r].pc # "create"
    BY <1>2, <2>1
  <2>2. Idle.pc # "create"
    BY DEF Idle
  <2>3. CASE \/ \E e \in Emails : LoginSelect(r, e)
             \/ \E t \in Tokens : RefreshSelect(r, t)
    <3>1. ASSUME NEW e \in Emails, LoginSelect(r, e) PROVE req'[r].pc # "create"
      BY <1>2, <3>1 DEF LoginSelect, Begin, Idle
    <3>2. ASSUME NEW t \in Tokens, RefreshSelect(r, t) PROVE req'[r].pc # "create"
      BY <1>2, <3>2 DEF RefreshSelect, Begin, Idle
    <3> QED
      BY <2>3, <3>1, <3>2
  <2>4. CASE \E e \in Emails, s \in Subs : GoogleSelect(r, e, s)
    BY <1>2, <2>4 DEF GoogleSelect, Begin, Idle
  <2>5. CASE GoogleCount(r) \/ GoogleLink(r)
    BY <1>2, <2>5 DEF GoogleCount, GoogleLink, Step, Locals
  <2>6. CASE GoogleInsert(r) \/ RefreshRevoke(r)
    <3>1. CASE End(r)
      BY <2>1, <2>2, <3>1 DEF End
    <3>2. CASE Step(r, "issue") \/ req' = [req EXCEPT ![r].pc = "issue", ![r].user = req[r].email]
      BY <1>2, <3>2 DEF Step, Locals
    <3> QED
      BY <2>6, <3>1, <3>2 DEF GoogleInsert, RefreshRevoke
  <2>7. CASE GenerateTokenPair(r) \/ Fail(r)
    BY <2>1, <2>2, <2>7 DEF GenerateTokenPair, Fail, End
  <2> QED
    BY <1>1, <2>3, <2>4, <2>5, <2>6, <2>7 DEF Handle
<1> QED
  BY <1>1, <1>2, <1>3, <1>4, Stayed

LEMMA SeedLooksInv ==
  ASSUME StartInv, Inv', Present \subseteq Present', NEW r \in Requests, SeedLooks(r)
  PROVE  StartInv'
<1> DEFINE q == [Idle EXCEPT !.pc = "create", !.email = boot[r].admin]
<1>1. At(r, "seed") /\ UNCHANGED <<boot, database>> /\ req' = [req EXCEPT ![r] = q]
  BY DEF SeedLooks, FindByEmail, Begin
<1>2. req \in [Requests -> Locals] /\ TypeOK'
  BY DEF StartInv, StartTypeOK, TypeOK, Inv
<1>3. q.email = boot[r].admin
  BY DEF Idle
<1> HIDE DEF q
<1>4. req'[r].email = boot[r].admin /\ \A p \in Requests : p # r => req'[p] = req[p]
  BY <1>1, <1>2, <1>3
<1> QED
  BY <1>1, <1>2, <1>4, Stayed

-----------------------------------------------------------------------------
(* Every step, and the theorems                                            *)

LEMMA StartNextInv ==
  Inv /\ UserInv /\ StartInv /\ [StartNext]_allVars => Inv' /\ UserInv' /\ StartInv'
<1> SUFFICES ASSUME Inv, UserInv, StartInv, [StartNext]_allVars
             PROVE  Inv' /\ UserInv' /\ StartInv'
  OBVIOUS
<1>1. Inv' /\ UserInv' /\ Present \subseteq Present'
  BY RequestsHold, UsersStay DEF StartInv
<1>2. ASSUME NEW r \in Requests, Server(r) PROVE StartInv'
  BY <1>1, <1>2, LoadInv, TakeLockInv, MarkDirtyInv, RunSQLInv, MarkCleanInv, UpDoneInv,
     UpsertTenantInv, SeedSkipsInv, SeedLooksInv, SeedCreatesInv, ServeInv, StopInv, DieStartInv
     DEF Server
<1>3. ASSUME UNCHANGED <<req, boot, database>> PROVE StartInv'
  BY <1>1, <1>3, Stayed DEF Inv
<1>4. Outside => UNCHANGED <<req, boot, database>>
  BY DEF Outside, Provision, Suspend, Expire
<1> QED
  BY <1>1, <1>2, <1>3, <1>4 DEF StartNext, allVars, vars

\* The three invariants hold of every behaviour of the servers.
THEOREM StartInvariance == StartSpec => [](Inv /\ UserInv /\ StartInv)
<1>1. StartInit => Init
  BY DEF StartInit
<1> QED
  BY <1>1, InitInv, UserInit, StartInitInv, StartNextInv, PTL DEF StartSpec

\* Every variable keeps its type.
THEOREM StartTypeCorrect == StartSpec => []StartTypeOK
<1>1. StartInv => StartTypeOK
  BY DEF StartInv
<1> QED
  BY <1>1, StartInvariance, PTL

\* A clean version says which migrations the database holds, a dirty one comes
\* of a process that ended half way (main.go:36-44).
THEOREM SchemaIsWhole == StartSpec => []SchemaWhole
<1>1. StartInv => SchemaWhole
  BY DEF StartInv
<1> QED
  BY <1>1, StartInvariance, PTL

\* A server answers only over the whole schema, with its tenant there and a user,
\* of whatever role, with the email of its admin (main.go:39-68, 101-117).
THEOREM ServersAreReady == StartSpec => []ServesReady
<1>1. StartInv => ServesReady
  BY DEF StartInv
<1> QED
  BY <1>1, StartInvariance, PTL

\* What AuthSessionsProofs shows of users stays true although processes die:
\* whom a Google login answers with (service.go:69-106),
THEOREM LoginsIdentified == StartSpec => []GoogleIdentity
<1>1. UserInv => GoogleIdentity
  BY DEF UserInv
<1> QED
  BY <1>1, StartInvariance, PTL

\* that students are never alone (service.go:77-94, main.go:100-117),
THEOREM StudentsStayLed == StartSpec => []StudentsLed
<1>1. UserInv => StudentsLed
  BY DEF UserInv, Led, StudentsLed
<1> QED
  BY <1>1, StartInvariance, PTL

\* and when a Google login makes an admin (service.go:77-94).
THEOREM AdminsStayJustified == StartSpec => AdminJustified
<1>1. Inv /\ UserInv /\ StartInv /\ [StartNext]_allVars =>
        [\A r \in Requests : MakesAdmin(r) => req[r].there = {} \/ req[r].zero = "error"]_vars
  <2> SUFFICES ASSUME Inv, UserInv, StartInv, [StartNext]_allVars, NEW r \in Requests,
                      MakesAdmin(r)
               PROVE  req[r].there = {} \/ req[r].zero = "error"
    OBVIOUS
  <2>1. ~UNCHANGED users
    BY DEF MakesAdmin, Absent
  <2>2. [Next]_vars
    BY <2>1, StepOrDie DEF StartInv, Die
  <2> QED
    BY <2>2, NextMakesAdmin
<1> QED
  BY <1>1, StartInvariance, PTL DEF StartSpec, AdminJustified

\* And so do sessions: only a refresh cut short may leave one without its token
\* (service.go:113-140, main.go:75-81).
THEOREM SessionsSurvive == StartSpec => [](OneSession /\ SessionHeld)
<1>1. Inv => OneSession /\ SessionHeld
  BY DEF Inv
<1> QED
  BY <1>1, StartInvariance, PTL

=============================================================================
