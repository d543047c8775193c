------------------------------- MODULE TenantDB -------------------------------
(***************************************************************************)
(* The path of every request to Postgres: tenancy.Middleware finds the     *)
(* tenant, auth.JWTMiddleware lets the request through, and the handler    *)
(* runs its statements either directly on the pool (auth, tenancy) or in   *)
(* db.DB.WithTenant, which borrows a connection, drops to the role under   *)
(* row level security, names the tenant, runs the body and commits.        *)
(*                                                                         *)
(* Both settings are LOCAL: they belong to the transaction.  They are      *)
(* modelled apart from the settings of the session, so that whether they   *)
(* can leak into the pool is a question and not a premise.                 *)
(*                                                                         *)
(* Foreign keys stand above row level security: Postgres runs their checks *)
(* and their cascades as the owner of the table, so a row may refer to one *)
(* of another tenant, and falls with it.                                   *)
(***************************************************************************)
EXTENDS Naturals

CONSTANTS
  Requests,   \* handlers running at the same time
  Conns,      \* connections of the pool (MaxConns)
  Tenants,    \* schools sharing the database
  Rows,       \* primary keys of the tables with row level security
  Refers,     \* pairs of a row and a row it refers to, should it be there:
              \*   ids are fresh and no UPDATE touches a key, so they are fixed
  Cascades,   \* those of them that are ON DELETE CASCADE
  NoTenant,   \* an absent row, an unset app.tenant_id, an unknown subdomain
  NoConn      \* the request holds no connection

ASSUME TenantAssumption == NoTenant \notin Tenants
ASSUME ConnAssumption == NoConn \notin Conns
ASSUME ReferenceAssumption == Cascades \subseteq Refers /\ Refers \subseteq Rows \X Rows

VARIABLES
  pc,         \* where each request is
  tenant,     \* the tenant_id in its Echo context
  txLeft,     \* transactions its handler has still to run, the current one included
  conn,       \* the connection of its transaction
  ins, upd, del,  \* rows its transaction has inserted, updated, deleted, uncommitted
  seen,       \* tenants whose rows its statements have returned
  outcome,    \* its last answer to a tenant operation
  status,     \* of each connection: "idle" in the pool, "busy", "closed"
  session,    \* session-level role and app.tenant_id of each connection
  local,      \* those set LOCAL to the transaction in progress
  rows        \* the tenant_id of each committed row, NoTenant if absent

reqVars  == <<pc, tenant, txLeft, conn, ins, upd, del, seen, outcome>>
connVars == <<status, session, local>>
vars     == <<reqVars, connVars, rows>>

InTx   == {"setRole", "setTenant", "body", "commit", "rollback"}
Active == {"begin"} \cup InTx

Super == "licreamo"          \* the role the pool connects with: no RLS
App   == "licreamo_app"      \* the role under RLS

\* A fresh session, and "nothing set LOCAL".
Default == [role |-> Super, tenant |-> NoTenant]

-----------------------------------------------------------------------------
(* Settings in force on a connection, and what RLS lets its statements see *)

Role(c)  == IF local[c].role = App THEN App ELSE session[c].role
Scope(c) == IF local[c].tenant # NoTenant THEN local[c].tenant ELSE session[c].tenant

\* Policy tenant_isolation, USING and WITH CHECK alike, for a row of tenant t.
Visible(c, t) == Role(c) = Super \/ Scope(c) = t

\* A fault: rows a transaction has deleted are returned too.
ReturnedWithDeleted(c) == {rows[x] : x \in {y \in Rows : Visible(c, rows[y])}}

Returned(c) == {rows[x] : x \in {y \in Rows : rows[y] # NoTenant /\ Visible(c, rows[y])}}

-----------------------------------------------------------------------------
(* The pool and its transactions (pgx, Postgres)                           *)

Idle == {c \in Conns : status[c] = "idle"}

\* A fault: set_config(..., false).
SetSessionTenant(c, t) == session' = [session EXCEPT ![c].tenant = t] /\ UNCHANGED local

SetLocalTenant(c, t) == local' = [local EXCEPT ![c].tenant = t] /\ UNCHANGED session

\* A fault: the connection is not given back.
EndTxKeepsConn(c) == local' = [local EXCEPT ![c] = Default] /\ UNCHANGED <<status, session>>

\* COMMIT and ROLLBACK drop what was set LOCAL; the connection goes back.
EndTx(c) ==
  /\ local' = [local EXCEPT ![c] = Default]
  /\ status' = [status EXCEPT ![c] = "idle"]
  /\ UNCHANGED session

\* A connection that failed is destroyed, and its session with it.
Destroy(c) ==
  /\ status' = [status EXCEPT ![c] = "closed"]
  /\ session' = [session EXCEPT ![c] = Default]
  /\ local' = [local EXCEPT ![c] = Default]

\* The pool dials again.
Open(c) ==
  /\ status[c] = "closed"
  /\ status' = [status EXCEPT ![c] = "idle"]
  /\ UNCHANGED <<reqVars, session, local, rows>>

-----------------------------------------------------------------------------
(* Routing: tenancy.Middleware, auth.JWTMiddleware, direct statements      *)

Go(r, to) == pc' = [pc EXCEPT ![r] = to]

Arrive(r) ==
  /\ pc[r] = "idle"
  /\ Go(r, "lookup")
  /\ \E t \in Tenants \cup {NoTenant} : tenant' = [tenant EXCEPT ![r] = t]
  /\ UNCHANGED <<txLeft, conn, ins, upd, del, seen, outcome, connVars, rows>>

\* resolveTenant: one direct statement; an unknown subdomain or a failure
\* ends the request (404).
Resolve(r) ==
  /\ pc[r] = "lookup"
  /\ Idle # {}
  /\ \/ tenant[r] # NoTenant /\ Go(r, "route")
     \/ Go(r, "idle")
  /\ seen' = [seen EXCEPT ![r] = {}]
  /\ UNCHANGED <<tenant, txLeft, conn, ins, upd, del, outcome, connVars, rows>>

\* A public route of auth: a statement on the pool, outside any transaction.
Direct(r) ==
  /\ pc[r] = "route"
  /\ \E c \in Idle : seen' = [seen EXCEPT ![r] = Returned(c)]
  /\ Go(r, "idle")
  /\ UNCHANGED <<tenant, txLeft, conn, ins, upd, del, outcome, connVars, rows>>

\* A protected route: refused (401, 403, 400), or on to WithTenant.  Most
\* handlers run one transaction; courses.Update and progress.Complete run two.
\* The tenant stays that of the subdomain: the tenant_id of the token is put
\* in the claims and compared with nothing, so any valid token goes on.
Authorize(r) ==
  /\ pc[r] = "route"
  /\ \/ Go(r, "idle") /\ UNCHANGED <<txLeft, outcome>>
     \/ /\ Go(r, "begin")
        /\ \E n \in {1, 2} : txLeft' = [txLeft EXCEPT ![r] = n]
        /\ outcome' = [outcome EXCEPT ![r] = "none"]
  /\ UNCHANGED <<tenant, conn, ins, upd, del, seen, connVars, rows>>

-----------------------------------------------------------------------------
(* WithTenant, one action per statement                                    *)

Begin(r) ==
  /\ pc[r] = "begin"
  /\ \E c \in Idle :
       /\ conn' = [conn EXCEPT ![r] = c]
       /\ status' = [status EXCEPT ![c] = "busy"]
  /\ Go(r, "setRole")
  /\ UNCHANGED <<tenant, txLeft, ins, upd, del, seen, outcome, session, local, rows>>

\* A fault: the role is not dropped.
SetRoleSkipped(r) ==
  /\ pc[r] = "setRole"
  /\ Go(r, "setTenant")
  /\ UNCHANGED <<tenant, txLeft, conn, ins, upd, del, seen, outcome, status, session, local, rows>>

\* SET LOCAL ROLE licreamo_app
SetRole(r) ==
  /\ pc[r] = "setRole"
  /\ local' = [local EXCEPT ![conn[r]].role = App]
  /\ Go(r, "setTenant")
  /\ UNCHANGED <<tenant, txLeft, conn, ins, upd, del, seen, outcome, status, session, rows>>

\* A fault: the tenant is not named.
SetTenantSkipped(r) ==
  /\ pc[r] = "setTenant"
  /\ Go(r, "body")
  /\ UNCHANGED <<tenant, txLeft, conn, ins, upd, del, seen, outcome, status, session, local, rows>>

\* SELECT set_config('app.tenant_id', $1, true)
SetTenant(r) ==
  /\ pc[r] = "setTenant"
  /\ SetLocalTenant(conn[r], tenant[r])
  /\ Go(r, "body")
  /\ UNCHANGED <<tenant, txLeft, conn, ins, upd, del, seen, outcome, status, rows>>

Query(r) ==
  /\ pc[r] = "body"
  /\ seen' = [seen EXCEPT ![r] = @ \cup Returned(conn[r])]
  /\ UNCHANGED <<pc, tenant, txLeft, conn, ins, upd, del, outcome, connVars, rows>>

\* The transaction has written nothing yet.  A handler writes with one INSERT,
\* with one DELETE, or with UPDATEs; the first of two transactions only reads.
Unwritten(r) == txLeft[r] = 1 /\ ins[r] \cup upd[r] \cup del[r] = {}

\* A fresh id; tenant_id is the request's own, while the rows it refers to may
\* be of any tenant.  They are there, and nobody else is deleting them.
Insert(r, x) ==
  /\ pc[r] = "body" /\ Unwritten(r)
  /\ rows[x] = NoTenant /\ \A q \in Requests : x \notin ins[q]
  /\ Visible(conn[r], tenant[r])
  /\ \A e \in Refers : e[1] = x => rows[e[2]] # NoTenant /\ \A q \in Requests : e[2] \notin del[q]
  /\ ins' = [ins EXCEPT ![r] = {x}]
  /\ UNCHANGED <<pc, tenant, txLeft, conn, upd, del, seen, outcome, connVars, rows>>

\* No other transaction has a lock on row x.
Unlocked(r, x) == \A q \in Requests \ {r} : x \notin upd[q] \cup del[q]

\* Only a row the policy lets through.
Update(r, x) ==
  /\ pc[r] = "body" /\ txLeft[r] = 1 /\ ins[r] \cup del[r] = {}
  /\ rows[x] # NoTenant /\ Visible(conn[r], rows[x])
  /\ Unlocked(r, x)
  /\ upd' = [upd EXCEPT ![r] = @ \cup {x}]
  /\ UNCHANGED <<pc, tenant, txLeft, conn, ins, del, seen, outcome, connVars, rows>>

\* The rows that fall with x, whatever their tenant: the least set with x and
\* with every row whose cascading key refers into it.
Fallen(x) ==
  {y \in Rows : \A S \in SUBSET Rows :
     /\ x \in S
     /\ \A e \in Cascades : e[2] \in S /\ rows[e[1]] # NoTenant => e[1] \in S
     => y \in S}

\* A fault: a delete does not wait for the locks of the rows.
DeleteUnlocked(r, x) ==
  /\ pc[r] = "body" /\ Unwritten(r)
  /\ rows[x] # NoTenant /\ Visible(conn[r], rows[x])
  /\ \A e \in Refers : e[2] \in Fallen(x) => e[1] \in Fallen(x) \/ rows[e[1]] = NoTenant
  /\ del' = [del EXCEPT ![r] = Fallen(x)]
  /\ UNCHANGED <<pc, tenant, txLeft, conn, ins, upd, seen, outcome, connVars, rows>>

\* The row named is one the policy lets through; those that fall with it need
\* not be.  Refused while a row that stays refers to one that falls.  It waits
\* for the locks on them, those of the rows another transaction inserts under
\* them included; it has all its own at once, so that of the deadlocks between
\* two deletes only the error is left, as Fail.
Delete(r, x) ==
  /\ pc[r] = "body" /\ Unwritten(r)
  /\ rows[x] # NoTenant /\ Visible(conn[r], rows[x])
  /\ \A y \in Fallen(x) : Unlocked(r, y)
  /\ \A e \in Refers : e[2] \in Fallen(x) =>
       /\ \A q \in Requests : e[1] \notin ins[q]
       /\ e[1] \in Fallen(x) \/ rows[e[1]] = NoTenant
  /\ del' = [del EXCEPT ![r] = Fallen(x)]
  /\ UNCHANGED <<pc, tenant, txLeft, conn, ins, upd, seen, outcome, connVars, rows>>

Return(r) ==
  /\ pc[r] = "body"
  /\ Go(r, "commit")
  /\ UNCHANGED <<tenant, txLeft, conn, ins, upd, del, seen, outcome, connVars, rows>>

\* A statement, or the body, returns an error.
Fail(r) ==
  /\ pc[r] \in {"setRole", "setTenant", "body"}
  /\ Go(r, "rollback")
  /\ UNCHANGED <<tenant, txLeft, conn, ins, upd, del, seen, outcome, connVars, rows>>

\* The transaction is over: the request holds nothing any more.
Leave(r, to) ==
  /\ Go(r, to)
  /\ conn' = [conn EXCEPT ![r] = NoConn]
  /\ ins' = [ins EXCEPT ![r] = {}]
  /\ upd' = [upd EXCEPT ![r] = {}]
  /\ del' = [del EXCEPT ![r] = {}]
  /\ UNCHANGED <<tenant, seen>>

\* A fault: only the first statements of a body are committed.
CommittedInserts(r) == [x \in Rows |-> IF x \in ins[r] THEN tenant[r] ELSE rows[x]]

Committed(r) ==
  [x \in Rows |-> IF x \in ins[r] THEN tenant[r]
                  ELSE IF x \in del[r] THEN NoTenant ELSE rows[x]]

\* COMMIT answered: the last transaction ends the request, an earlier one
\* lets the handler refuse (403, 404) or go on to the next.
Commit(r) ==
  /\ pc[r] = "commit"
  /\ rows' = Committed(r)
  /\ EndTx(conn[r])
  /\ \/ /\ txLeft[r] = 1
        /\ Leave(r, "idle")
        /\ outcome' = [outcome EXCEPT ![r] = "ok"]
        /\ UNCHANGED txLeft
     \/ /\ txLeft[r] = 2
        /\ Leave(r, "idle")
        /\ outcome' = [outcome EXCEPT ![r] = "error"]
        /\ UNCHANGED txLeft
     \/ /\ txLeft[r] = 2
        /\ Leave(r, "begin")
        /\ txLeft' = [txLeft EXCEPT ![r] = 1]
        /\ UNCHANGED outcome

\* COMMIT of an aborted transaction rolls back; when COMMIT itself fails the
\* connection is destroyed, and its effect may have taken place or not.
CommitFails(r) ==
  /\ pc[r] = "commit"
  /\ \/ EndTx(conn[r]) /\ UNCHANGED rows
     \/ Destroy(conn[r]) /\ rows' \in {rows, Committed(r)}
  /\ Leave(r, "idle")
  /\ outcome' = [outcome EXCEPT ![r] = "error"]
  /\ UNCHANGED txLeft

\* The deferred Rollback; when it cannot be sent the connection is destroyed.
Rollback(r) ==
  /\ pc[r] = "rollback"
  /\ EndTx(conn[r]) \/ Destroy(conn[r])
  /\ Leave(r, "idle")
  /\ outcome' = [outcome EXCEPT ![r] = "error"]
  /\ UNCHANGED <<txLeft, rows>>

\* The client goes away: its context is cancelled, it stops waiting for a
\* connection, and pgx closes the one of its transaction.
Cancel(r) ==
  /\ pc[r] # "idle"
  /\ IF conn[r] = NoConn THEN UNCHANGED connVars ELSE Destroy(conn[r])
  /\ Leave(r, "idle")
  /\ outcome' = IF pc[r] \in Active THEN [outcome EXCEPT ![r] = "error"] ELSE outcome
  /\ UNCHANGED <<txLeft, rows>>

-----------------------------------------------------------------------------
Init ==
  /\ pc = [r \in Requests |-> "idle"]
  /\ tenant = [r \in Requests |-> NoTenant]
  /\ txLeft = [r \in Requests |-> 1]
  /\ conn = [r \in Requests |-> NoConn]
  /\ ins = [r \in Requests |-> {}]
  /\ upd = [r \in Requests |-> {}]
  /\ del = [r \in Requests |-> {}]
  /\ seen = [r \in Requests |-> {}]
  /\ outcome = [r \in Requests |-> "none"]
  /\ status = [c \in Conns |-> "closed"]
  /\ session = [c \in Conns |-> Default]
  /\ local = [c \in Conns |-> Default]
  /\ rows \in [Rows -> Tenants \cup {NoTenant}]
  /\ \A e \in Refers : rows[e[1]] # NoTenant => rows[e[2]] # NoTenant

\* What the server does for a request once it has arrived.
Serve(r) ==
  \/ Resolve(r) \/ Direct(r) \/ Authorize(r)
  \/ Begin(r) \/ SetRole(r) \/ SetTenant(r)
  \/ Query(r) \/ (\E x \in Rows : Insert(r, x) \/ Update(r, x) \/ Delete(r, x))
  \/ Return(r) \/ Fail(r)
  \/ Commit(r) \/ CommitFails(r) \/ Rollback(r)

Next ==
  \/ \E r \in Requests : Arrive(r) \/ Serve(r) \/ Cancel(r)
  \/ \E c \in Conns : Open(c)

Spec == Init /\ [][Next]_vars

\* Go runs every handler on, Postgres answers, the pool redials; and the pool
\* serves those waiting for a connection in turn, so that none is overtaken
\* for ever: hence strong fairness where a step needs an idle connection.
Fairness ==
  /\ \A c \in Conns : WF_vars(Open(c))
  /\ \A r \in Requests :
       /\ SF_vars(Resolve(r)) /\ SF_vars(Direct(r) \/ Authorize(r)) /\ SF_vars(Begin(r))
       /\ WF_vars(SetRole(r)) /\ WF_vars(SetTenant(r)) /\ WF_vars(Return(r))
       /\ WF_vars(Commit(r) \/ CommitFails(r)) /\ WF_vars(Rollback(r))

FairSpec == Spec /\ Fairness

-----------------------------------------------------------------------------
(* Properties                                                              *)

Settings == [role : {Super, App}, tenant : Tenants \cup {NoTenant}]

\* Every variable has its type.
TypeOK ==
  /\ pc \in [Requests -> {"idle", "lookup", "route"} \cup Active]
  /\ tenant \in [Requests -> Tenants \cup {NoTenant}]
  /\ txLeft \in [Requests -> {1, 2}]
  /\ conn \in [Requests -> Conns \cup {NoConn}]
  /\ ins \in [Requests -> SUBSET Rows]
  /\ upd \in [Requests -> SUBSET Rows]
  /\ del \in [Requests -> SUBSET Rows]
  /\ seen \in [Requests -> SUBSET Tenants]
  /\ outcome \in [Requests -> {"none", "ok", "error"}]
  /\ status \in [Conns -> {"idle", "busy", "closed"}]
  /\ session \in [Conns -> Settings]
  /\ local \in [Conns -> Settings]
  /\ rows \in [Rows -> Tenants \cup {NoTenant}]

\* A connection in the pool has neither the role nor the tenant of whoever
\* used it last (db.go:35-38): a direct statement of auth or tenancy runs as
\* the role above RLS and WithTenant starts from nothing, whatever failed,
\* was cancelled or was rolled back before.
PoolClean == \A c \in Idle : Role(c) = Super /\ Scope(c) = NoTenant

\* A body runs, however late its turn came, under RLS and for the tenant of
\* its own request (db.go:46-57).
BodyScoped ==
  \A r \in Requests : pc[r] = "body" => Role(conn[r]) = App /\ Scope(conn[r]) = tenant[r]

\* No statement of a tenant operation returns a row of another tenant
\* (README.md:136), even of one that shares the pool at the same time.  The
\* tenant is the subdomain's, which is not compared with the token's (see
\* Authorize): this keeps tenants apart, not the users of one from another.
TenantIsolation == \A r \in Requests : pc[r] \in Active => seen[r] \subseteq {tenant[r]}

\* The connections out of the pool are those of running transactions, one
\* each: no exit of WithTenant keeps its connection, none returns it twice.
ConnOwned ==
  /\ \A r \in Requests : pc[r] \in InTx => conn[r] \in Conns /\ status[conn[r]] = "busy"
  /\ \A c \in Conns : status[c] = "busy" => \E r \in Requests : pc[r] \in InTx /\ conn[r] = c
  /\ \A r, q \in Requests : pc[r] \in InTx /\ pc[q] \in InTx /\ conn[r] = conn[q] => r = q

\* What running transactions write: rows of the tenant of their request, and
\* in a delete those that fall with one; never two transactions on one row.
WritesOwned ==
  /\ \A r \in Requests : \A x \in ins[r] : rows[x] = NoTenant
  /\ \A r \in Requests : \A x \in upd[r] : rows[x] = tenant[r]
  /\ \A r \in Requests : \A x \in del[r] :
       /\ rows[x] # NoTenant
       /\ rows[x] = tenant[r] \/ \E e \in Cascades : e[1] = x /\ e[2] \in del[r]
  /\ \A r, q \in Requests :
       r # q => (ins[r] \cup upd[r] \cup del[r]) \cap (ins[q] \cup upd[q] \cup del[q]) = {}

\* A transaction reaches the rows of another tenant only where one of them
\* refers, ON DELETE CASCADE, to a row of its own that it deletes: as long as
\* clients name parents of their own tenant, which no handler checks
\* (modules/repository.go:66), a tenant loses rows to itself alone.
Confined ==
  \A r \in Requests : (\E x \in del[r] : rows[x] # tenant[r]) =>
    \E e \in Cascades :
      /\ e[1] \in del[r] /\ e[2] \in del[r]
      /\ rows[e[2]] = tenant[r] /\ rows[e[1]] # tenant[r]

\* What the settings of a connection and the transaction on it are at each
\* step of WithTenant: with the invariants above, enough to be inductive.
Settled ==
  /\ \A c \in Conns : session[c] = Default /\ (status[c] # "busy" => local[c] = Default)
  /\ \A r \in Requests :
       /\ pc[r] \notin InTx => conn[r] = NoConn /\ ins[r] = {} /\ upd[r] = {} /\ del[r] = {}
       /\ pc[r] \notin {"idle", "lookup"} => tenant[r] \in Tenants
       /\ pc[r] = "route" => seen[r] = {}
       /\ pc[r] \in {"setTenant", "body", "commit"} => local[conn[r]].role = App
       /\ pc[r] \in {"body", "commit"} => local[conn[r]].tenant = tenant[r]
       /\ txLeft[r] = 2 => ins[r] = {} /\ upd[r] = {} /\ del[r] = {}

Inv == TypeOK /\ Settled /\ ConnOwned /\ WritesOwned /\ Confined /\ TenantIsolation

\* WithTenant is atomic, and writes within its tenant but for cascades, as
\* TenantStore says.
Store == INSTANCE TenantStore WITH
  active <- {r \in Requests : pc[r] \in Active},
  tenant <- [r \in Requests |-> IF pc[r] \in Active THEN tenant[r] ELSE NoTenant]

StoreSpec == Store!Spec

\* Every request is answered: a failed or cancelled transaction gives its
\* connection back, and no handler waits for a second connection while it
\* holds one (a pool of 20 would lock up under load and pass every test).
Answered == \A r \in Requests : pc[r] # "idle" ~> pc[r] = "idle"
=============================================================================
