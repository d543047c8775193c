------------------------------- MODULE Startup -------------------------------
(***************************************************************************)
(* cmd/api/main.go: a server starts by bringing the schema up to date,     *)
(* then the tenant and the admin, and only then listens; it stops on a     *)
(* signal, and may die at any statement.  Several servers share the        *)
(* database: a new one starts beside the one it replaces.                  *)
(*                                                                         *)
(* A server is the process of one request of AuthSessions: the handlers    *)
(* share no memory, so a second request of the same process would only be  *)
(* another server that stops with it.  migrate.Up is golang-migrate's; the *)
(* advisory lock it holds goes with the process.                           *)
(***************************************************************************)
EXTENDS AuthSessions

CONSTANT Last  \* the number of the last migration; 5 in the repository

ASSUME LastAssumption == Last \in Nat

VARIABLES
  boot,     \* each server: where main has got to, its next migration, the
            \* email of the admin it is to seed, NoEmail for none
  version,  \* schema_migrations: version
  dirty,    \* schema_migrations: dirty
  schema,   \* the migrations whose SQL was committed
  tenant,   \* the row of the tenant exists
  cut       \* history: a process ended with a migration half done

database == <<version, dirty, schema, tenant, cut>>
allVars  == <<vars, boot, database>>

Down == [at |-> "down", next |-> 0, admin |-> NoEmail]

Boots ==
  [at : {"down", "lock", "up", "run", "mark", "tenant", "seed", "serving", "stopping"},
   next : 0..Last + 1, admin : Emails \cup {NoEmail}]

At(r, place) == boot[r].at = place
Go(r, place) == boot' = [boot EXCEPT ![r].at = place]
Listen(r)    == boot' = [boot EXCEPT ![r].at = "serving", ![r].next = 0]
Migrating(r) == boot[r].at \in {"up", "run", "mark"}
\* Its SQL has begun and schema_migrations does not yet say that it ended.
HalfDone(r)  == boot[r].at \in {"run", "mark"}

-----------------------------------------------------------------------------
(* main: configuration and migrations                                      *)

\* config.Load: ADMIN_EMAIL has a default, ADMIN_INITIAL_PASSWORD may be unset.
Load(r) ==
  /\ At(r, "down")
  /\ \E e \in Emails \cup {NoEmail} :
       boot' = [boot EXCEPT ![r] = [at |-> "lock", next |-> 0, admin |-> e]]
  /\ UNCHANGED <<vars, database>>

\* A fault: two servers migrate at once.
TakeLockShared(r) ==
  /\ At(r, "lock")
  /\ boot' = [boot EXCEPT ![r] = IF dirty THEN Down
                                 ELSE [@ EXCEPT !.at = "up", !.next = version + 1]]
  /\ UNCHANGED <<vars, database>>

\* A fault: main goes on after an error of migrate.Up.
TakeLockGoesOn(r) ==
  /\ At(r, "lock") /\ \A q \in Requests : ~Migrating(q)
  /\ boot' = [boot EXCEPT ![r] = IF dirty THEN [@ EXCEPT !.at = "tenant"]
                                 ELSE [@ EXCEPT !.at = "up", !.next = version + 1]]
  /\ UNCHANGED <<vars, database>>

\* migrate.Up: under the lock it reads the version once; a dirty one is an
\* error, and the process exits.
TakeLock(r) ==
  /\ At(r, "lock") /\ \A q \in Requests : ~Migrating(q)
  /\ boot' = [boot EXCEPT ![r] = IF dirty THEN Down
                                 ELSE [@ EXCEPT !.at = "up", !.next = version + 1]]
  /\ UNCHANGED <<vars, database>>

\* A fault: the version is set clean before the SQL.
MarkCleanFirst(r) ==
  /\ At(r, "up") /\ boot[r].next <= Last
  /\ version' = boot[r].next /\ dirty' = FALSE
  /\ Go(r, "run")
  /\ UNCHANGED <<vars, schema, tenant, cut>>

\* SetVersion(next, dirty), before the SQL.
MarkDirty(r) ==
  /\ At(r, "up") /\ boot[r].next <= Last
  /\ version' = boot[r].next /\ dirty' = TRUE
  /\ Go(r, "run")
  /\ UNCHANGED <<vars, schema, tenant, cut>>

\* A file of migrations/ is one implicit transaction.  To run one again is an
\* error, and an exit: it CREATEs what exists by then.
RunSQL(r) ==
  /\ At(r, "run")
  /\ schema' = schema \cup {boot[r].next}
  /\ boot' = [boot EXCEPT ![r] = IF @.next \in schema THEN Down ELSE [@ EXCEPT !.at = "mark"]]
  /\ UNCHANGED <<vars, version, dirty, tenant, cut>>

\* SetVersion(next, clean), then the next one.
MarkClean(r) ==
  /\ At(r, "mark")
  /\ version' = boot[r].next /\ dirty' = FALSE
  /\ boot' = [boot EXCEPT ![r].at = "up", ![r].next = @ + 1]
  /\ UNCHANGED <<vars, schema, tenant, cut>>

\* No migration is left (ErrNoChange when there was none at all): db.New.
UpDone(r) ==
  /\ At(r, "up") /\ boot[r].next > Last
  /\ Go(r, "tenant")
  /\ UNCHANGED <<vars, database>>

-----------------------------------------------------------------------------
(* runSeed                                                                 *)

UpsertTenant(r) ==
  /\ At(r, "tenant")
  /\ tenant' = TRUE
  /\ Go(r, "seed")
  /\ UNCHANGED <<vars, version, dirty, schema, cut>>

\* No password for an admin, or FindByEmail finds a user, whatever its role.
SeedSkips(r) ==
  /\ At(r, "seed") /\ req[r].pc = "idle"
  /\ boot[r].admin \in Present \cup {NoEmail}
  /\ Listen(r)
  /\ UNCHANGED <<vars, database>>

SeedLooks(r) ==
  /\ At(r, "seed") /\ boot[r].admin # NoEmail /\ FindByEmail(r, boot[r].admin)
  /\ UNCHANGED <<boot, database>>

\* A fault: the error of CreateAdmin is dropped.
AcceptedAlways(e) == TRUE

\* The email is taken by now, which is no error, or the row can be inserted.
Accepted(e) == e \in Present \/ ~SubTaken(NoSub)

\* An error of CreateAdmin, or an answer lost, is an exit.
SeedCreates(r) ==
  /\ At(r, "seed") /\ CreateAdmin(r)
  /\ \/ Accepted(boot[r].admin) /\ Listen(r)
     \/ boot' = [boot EXCEPT ![r] = Down]
  /\ UNCHANGED database

-----------------------------------------------------------------------------
(* main: serving and the end                                               *)

\* Until it stops, a server takes requests; then it ends the one it has.
Serve(r) ==
  /\ At(r, "serving") \/ (At(r, "stopping") /\ req[r].pc # "idle")
  /\ Handle(r)
  /\ UNCHANGED <<boot, database>>

\* SIGTERM or SIGINT: srv.Shutdown waits for the requests, ten seconds.
Stop(r) ==
  /\ At(r, "serving")
  /\ Go(r, "stopping")
  /\ UNCHANGED <<vars, database>>

\* A refresh cut after it revoked its token leaves the session broken.
CutFamilies(r) ==
  IF req[r].pc = "issue" /\ req[r].tok # NoToken THEN {family[req[r].tok]} ELSE {}

\* The process ends: at the end of Shutdown, on os.Exit(1) after an error of
\* any statement of its start, or killed.
Die(r) ==
  /\ ~At(r, "down")
  /\ boot' = [boot EXCEPT ![r] = Down]
  /\ req' = [req EXCEPT ![r] = Idle]
  /\ broken' = broken \cup CutFamilies(r)
  /\ cut' = (cut \/ HalfDone(r))
  /\ UNCHANGED <<users, owner, revoked, expired, family, delivered, contended>>
  /\ UNCHANGED <<version, dirty, schema, tenant>>

\* Users are provisioned and suspended, and tokens expire, in a tenant.
Outside ==
  /\ tenant
  /\ \/ \E e \in Emails : Provision(e) \/ Suspend(e)
     \/ \E t \in Tokens : Expire(t)
  /\ UNCHANGED <<boot, database>>

-----------------------------------------------------------------------------
StartInit ==
  /\ Init
  /\ boot = [r \in Requests |-> Down]
  /\ version = 0 /\ dirty = FALSE /\ schema = {} /\ tenant = FALSE /\ cut = FALSE

Server(r) ==
  \/ Load(r) \/ TakeLock(r) \/ MarkDirty(r) \/ RunSQL(r) \/ MarkClean(r) \/ UpDone(r)
  \/ UpsertTenant(r) \/ SeedSkips(r) \/ SeedLooks(r) \/ SeedCreates(r)
  \/ Serve(r) \/ Stop(r) \/ Die(r)

StartNext == Outside \/ \E r \in Requests : Server(r)

StartSpec == StartInit /\ [][StartNext]_allVars

-----------------------------------------------------------------------------
(* Properties                                                              *)

\* Every variable has its type, those of the requests too.
StartTypeOK ==
  /\ TypeOK
  /\ boot \in [Requests -> Boots]
  /\ version \in 0..Last /\ dirty \in BOOLEAN /\ schema \subseteq 1..Last
  /\ tenant \in BOOLEAN /\ cut \in BOOLEAN

\* A clean version says exactly which migrations the database holds; a dirty
\* one, which stops every later start, leaves only the last in doubt, and is
\* that of a migration under way, or of one some process ended in the middle
\* of: servers that start at once do not fail each other (main.go:36-44).
SchemaWhole ==
  IF dirty THEN /\ schema \in {1..version, 1..(version - 1)}
                /\ cut \/ \E r \in Requests : HalfDone(r)
           ELSE schema = 1..version

\* A server seeds, and answers requests, only over a complete schema, and
\* answers only with its tenant and, given a password for its admin, a user
\* with the admin's email: no server starting beside it takes that away, and
\* whether its own INSERT, another server's or a login's made the user does
\* not matter, nor the role that user has (main.go:39-68, 101-117).
ServesReady ==
  \A r \in Requests :
    /\ boot[r].at \in {"tenant", "seed", "serving", "stopping"} =>
         version = Last /\ ~dirty /\ schema = 1..Last
    /\ boot[r].at \in {"serving", "stopping"} =>
         tenant /\ boot[r].admin \in Present \cup {NoEmail}

\* What makes them inductive: what a server at each place of main knows.  One
\* migrates at a time, and only it makes or ends a dirty version.
Knows(r) ==
  /\ At(r, "up") => ~dirty /\ boot[r].next = version + 1
  /\ HalfDone(r) => dirty /\ boot[r].next = version
  /\ At(r, "run") => schema = 1..(version - 1)
  /\ At(r, "mark") => schema = 1..version
  /\ boot[r].at \in {"seed", "serving", "stopping"} => tenant
  /\ req[r].pc = "create" => At(r, "seed") /\ req[r].email = boot[r].admin

StartInv ==
  /\ StartTypeOK /\ SchemaWhole /\ ServesReady
  /\ dirty => version # 0
  /\ \A q, r \in Requests : Migrating(q) /\ Migrating(r) => q = r
  /\ \A r \in Requests : Knows(r)
=============================================================================
