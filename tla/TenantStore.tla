----------------------------- MODULE TenantStore -----------------------------
(***************************************************************************)
(* What db.DB.WithTenant promises its callers, with no connection and no   *)
(* role in sight: an operation writes only rows of its own tenant and, in  *)
(* a delete, those that fall with them; every row keeps the rows it refers *)
(* to; all its writes take effect in one step or none do; an answer of     *)
(* success means that they did, an error leaves it open (the answer of     *)
(* COMMIT can be lost).  TenantDB, the pool and its transactions,          *)
(* implements it.                                                          *)
(***************************************************************************)
CONSTANTS
  Requests,   \* handlers running at the same time
  Tenants,    \* schools sharing the database
  Rows,       \* primary keys of the tables with row level security
  Refers,     \* pairs of a row and a row it refers to
  Cascades,   \* those of them that are ON DELETE CASCADE
  NoTenant    \* "no tenant": an absent row, a request that is not running

VARIABLES
  rows,       \* the tenant_id of each row, NoTenant if absent
  active,     \* requests whose operation is running
  tenant,     \* the tenant each running request is for
  ins, upd, del,  \* rows it is inserting, updating and deleting
  outcome     \* the last answer each request gave

vars == <<rows, active, tenant, ins, upd, del, outcome>>

Init ==
  /\ rows \in [Rows -> Tenants \cup {NoTenant}]
  /\ \A e \in Refers : rows[e[1]] # NoTenant => rows[e[2]] # NoTenant
  /\ active = {}
  /\ tenant = [r \in Requests |-> NoTenant]
  /\ ins = [r \in Requests |-> {}]
  /\ upd = [r \in Requests |-> {}]
  /\ del = [r \in Requests |-> {}]
  /\ outcome = [r \in Requests |-> "none"]

Start(r) ==
  /\ r \notin active
  /\ active' = active \cup {r}
  /\ \E t \in Tenants : tenant' = [tenant EXCEPT ![r] = t]
  /\ outcome' = [outcome EXCEPT ![r] = "none"]
  /\ UNCHANGED <<rows, ins, upd, del>>

\* No other operation is writing row x.
Free(r, x) == \A q \in Requests \ {r} : x \notin ins[q] \cup upd[q] \cup del[q]

\* Under rows of whatever tenant.
Insert(r, x) ==
  /\ r \in active /\ rows[x] = NoTenant /\ Free(r, x)
  /\ \A e \in Refers : e[1] = x => rows[e[2]] # NoTenant /\ \A q \in Requests : e[2] \notin del[q]
  /\ ins' = [ins EXCEPT ![r] = @ \cup {x}]
  /\ UNCHANGED <<rows, active, tenant, upd, del, outcome>>

Update(r, x) ==
  /\ r \in active /\ rows[x] = tenant[r] /\ Free(r, x)
  /\ upd' = [upd EXCEPT ![r] = @ \cup {x}]
  /\ UNCHANGED <<rows, active, tenant, ins, del, outcome>>

\* Rows D: its tenant's, and those that fall with a row of D.  None that stays
\* or that is being inserted refers to one of them.
Delete(r, D) ==
  /\ r \in active /\ \E x \in D : rows[x] = tenant[r]
  /\ \A x \in D :
       /\ rows[x] # NoTenant /\ Free(r, x)
       /\ rows[x] = tenant[r] \/ \E e \in Cascades : e[1] = x /\ e[2] \in D
  /\ \A e \in Refers : e[2] \in D =>
       /\ \A q \in Requests : e[1] \notin ins[q]
       /\ e[1] \in D \/ rows[e[1]] = NoTenant
  /\ del' = [del EXCEPT ![r] = @ \cup D]
  /\ UNCHANGED <<rows, active, tenant, ins, upd, outcome>>

Close(r, answer) ==
  /\ r \in active
  /\ active' = active \ {r}
  /\ tenant' = [tenant EXCEPT ![r] = NoTenant]
  /\ ins' = [ins EXCEPT ![r] = {}]
  /\ upd' = [upd EXCEPT ![r] = {}]
  /\ del' = [del EXCEPT ![r] = {}]
  /\ outcome' = [outcome EXCEPT ![r] = answer]

\* All that r wrote, at once.
Apply(r) ==
  rows' = [x \in Rows |-> IF x \in ins[r] THEN tenant[r]
                          ELSE IF x \in del[r] THEN NoTenant ELSE rows[x]]

Succeed(r) == Close(r, "ok") /\ Apply(r)

Err(r) == Close(r, "error") /\ (Apply(r) \/ UNCHANGED rows)

Next == \E r \in Requests :
  \/ Start(r) \/ Succeed(r) \/ Err(r)
  \/ \E x \in Rows : Insert(r, x) \/ Update(r, x)
  \/ \E D \in SUBSET Rows : Delete(r, D)

Spec == Init /\ [][Next]_vars
=============================================================================
