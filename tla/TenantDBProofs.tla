--------------------------- MODULE TenantDBProofs ---------------------------
(***************************************************************************)
(* For any number of requests, connections, tenants and rows: a connection *)
(* goes back to the pool clean, a body is scoped to its tenant, and no     *)
(* statement of a tenant operation returns the rows of another tenant.     *)
(***************************************************************************)
EXTENDS TenantDB, TLAPS

\* The system starts in the invariant.
LEMMA InitInv == Init => Inv
  BY TenantAssumption, ConnAssumption
  DEF Init, Inv, TypeOK, Settled, ConnOwned, WritesOwned, Confined, TenantIsolation, InTx, Active,
      Settings, Default, Super, App

\* However a transaction ends, its connection has a status and settings.
LEMMA EndTyped ==
  ASSUME Inv, NEW c, EndTx(c) \/ Destroy(c)
  PROVE  /\ status' \in [Conns -> {"idle", "busy", "closed"}]
         /\ session' \in [Conns -> Settings] /\ local' \in [Conns -> Settings]
<1>1. Default \in Settings
  BY DEF Default, Settings, Super, App
<1>2. /\ status \in [Conns -> {"idle", "busy", "closed"}]
      /\ session \in [Conns -> Settings] /\ local \in [Conns -> Settings]
  BY DEF Inv, TypeOK
<1>3. CASE EndTx(c)
  BY <1>1, <1>2, <1>3 DEF EndTx
<1>4. CASE Destroy(c)
  BY <1>1, <1>2, <1>4 DEF Destroy
<1> QED
  BY <1>3, <1>4

\* A step that moves a request neither into nor out of a transaction leaves
\* the connections with their owners.
LEMMA OwnersStay ==
  ASSUME Inv, NEW r \in Requests, NEW to,
         pc' = [pc EXCEPT ![r] = to], to \in InTx <=> pc[r] \in InTx, UNCHANGED <<conn, status>>
  PROVE  ConnOwned'
<1>1. \A q \in Requests : pc'[q] \in InTx <=> pc[q] \in InTx
  BY DEF Inv, TypeOK
<1> QED
  BY <1>1 DEF Inv, ConnOwned

\* One that ends its transaction and gives up its connection does too.
LEMMA OwnersLeave ==
  ASSUME Inv, NEW r \in Requests, NEW to, NEW s, pc[r] \in InTx, to \notin InTx, s # "busy",
         pc' = [pc EXCEPT ![r] = to], conn' = [conn EXCEPT ![r] = NoConn],
         status' = [status EXCEPT ![conn[r]] = s]
  PROVE  ConnOwned'
<1>1. \A q \in Requests : pc'[q] \in InTx => q # r /\ pc[q] \in InTx /\ conn'[q] = conn[q]
  BY DEF Inv, TypeOK
<1>2. \A q \in Requests : q # r => pc'[q] = pc[q] /\ conn'[q] = conn[q]
  BY DEF Inv, TypeOK
<1>3. \A q \in Requests : pc[q] \in InTx /\ q # r => conn[q] # conn[r]
  BY DEF Inv, ConnOwned
<1>4. status' \in [Conns -> {"idle", "busy", "closed", s}]
      /\ \A c \in Conns : status'[c] = IF c = conn[r] THEN s ELSE status[c]
  BY DEF Inv, TypeOK
<1>5. \A q \in Requests : pc'[q] \in InTx => conn'[q] \in Conns /\ status'[conn'[q]] = "busy"
  BY <1>1, <1>3, <1>4 DEF Inv, ConnOwned
<1>6. \A c \in Conns : status'[c] = "busy" => \E q \in Requests : pc'[q] \in InTx /\ conn'[q] = c
  BY <1>2, <1>4 DEF Inv, ConnOwned
<1>7. \A p, q \in Requests : pc'[p] \in InTx /\ pc'[q] \in InTx /\ conn'[p] = conn'[q] => p = q
  BY <1>1 DEF Inv, ConnOwned
<1> QED
  BY <1>5, <1>6, <1>7 DEF ConnOwned

\* A step that deletes nothing leaves what is deleted confined.
LEMMA ConfinedStays ==
  ASSUME Inv, \A q \in Requests : del'[q] = {} \/
           (del'[q] = del[q] /\ tenant'[q] = tenant[q] /\ \A x \in del[q] : rows'[x] = rows[x])
  PROVE  Confined'
BY DEF Inv, Confined

\* The rows that fall with x: x, and with each row those whose cascading key
\* refers to it.
LEMMA FallenClosed ==
  ASSUME ReferenceAssumption, NEW x \in Rows
  PROVE  /\ x \in Fallen(x)
         /\ \A e \in Cascades : e[2] \in Fallen(x) /\ rows[e[1]] # NoTenant => e[1] \in Fallen(x)
BY DEF Fallen, ReferenceAssumption

\* They are the least such rows.
LEMMA FallenLeast ==
  ASSUME NEW x \in Rows, NEW S \in SUBSET Rows, x \in S,
         \A e \in Cascades : e[2] \in S /\ rows[e[1]] # NoTenant => e[1] \in S
  PROVE  Fallen(x) \subseteq S
BY DEF Fallen

\* They are there, and each but x refers to another of them.
LEMMA FallenHangs ==
  ASSUME ReferenceAssumption, NEW x \in Rows, rows[x] # NoTenant
  PROVE  \A y \in Fallen(x) : /\ rows[y] # NoTenant
                              /\ y = x \/ \E e \in Cascades : e[1] = y /\ e[2] \in Fallen(x)
<1> DEFINE S == {y \in Fallen(x) : /\ rows[y] # NoTenant
                                   /\ y = x \/ \E e \in Cascades : e[1] = y /\ e[2] \in Fallen(x)}
<1>1. S \in SUBSET Rows /\ x \in S
  BY FallenClosed DEF Fallen
<1>2. \A e \in Cascades : e[2] \in S /\ rows[e[1]] # NoTenant => e[1] \in S
  BY FallenClosed
<1>3. Fallen(x) \subseteq S
  <2> HIDE DEF S
  <2> QED
    BY <1>1, <1>2, FallenLeast
<1> QED
  BY <1>3

\* Unless one of them crosses to another tenant, they are of the tenant of x.
LEMMA FallenConfined ==
  ASSUME ReferenceAssumption, NEW x \in Rows, rows[x] # NoTenant, NEW y \in Fallen(x), rows[y] # rows[x]
  PROVE  \E e \in Cascades : /\ e[1] \in Fallen(x) /\ e[2] \in Fallen(x)
                             /\ rows[e[2]] = rows[x] /\ rows[e[1]] # rows[x]
<1> DEFINE S == {z \in Fallen(x) : rows[z] = rows[x]}
<1>1. S \in SUBSET Rows /\ x \in S
  BY FallenClosed DEF Fallen
<1>2. ~ (Fallen(x) \subseteq S)
  OBVIOUS
<1>3. PICK e \in Cascades : e[2] \in S /\ rows[e[1]] # NoTenant /\ e[1] \notin S
  <2> HIDE DEF S
  <2> QED
    BY <1>1, <1>2, FallenLeast
<1>4. e[1] \in Fallen(x)
  BY <1>3, FallenClosed
<1> QED
  BY <1>3, <1>4

\* Every step preserves it.
LEMMA NextInv == Inv /\ [Next]_vars => Inv'
<1> SUFFICES ASSUME Inv, [Next]_vars PROVE Inv'
  OBVIOUS
<1> USE TenantAssumption, ConnAssumption, ReferenceAssumption
<1> USE DEF Inv, InTx, Active, Settings, Default, Super, App, Go
<1>1. CASE UNCHANGED vars
  BY <1>1 DEF vars, reqVars, connVars, TypeOK, Settled, ConnOwned, WritesOwned, Confined, TenantIsolation
<1>2. ASSUME NEW r \in Requests, Arrive(r) PROVE Inv'
  <2>1. TypeOK'
    BY <1>2 DEF Arrive, connVars, TypeOK
  <2>2. Settled'
    BY <1>2 DEF Arrive, connVars, TypeOK, Settled, ConnOwned
  <2>3. ConnOwned'
    BY <1>2, OwnersStay DEF Arrive, connVars
  <2>4. WritesOwned'
    BY <1>2 DEF Arrive, connVars, TypeOK, Settled, WritesOwned
  <2>5. TenantIsolation'
    BY <1>2 DEF Arrive, connVars, TypeOK, TenantIsolation
  <2>6. Confined'
    BY <1>2, ConfinedStays DEF Arrive, connVars, TypeOK, Settled
  <2> QED
    BY <2>1, <2>2, <2>3, <2>4, <2>5, <2>6
<1>3. ASSUME NEW r \in Requests, Resolve(r) PROVE Inv'
  <2>1. TypeOK'
    BY <1>3 DEF Resolve, connVars, TypeOK
  <2>2. Settled'
    BY <1>3 DEF Resolve, connVars, TypeOK, Settled, ConnOwned
  <2>3. ConnOwned'
    BY <1>3, OwnersStay DEF Resolve, connVars
  <2>4. WritesOwned'
    BY <1>3 DEF Resolve, connVars, TypeOK, Settled, WritesOwned
  <2>5. TenantIsolation'
    BY <1>3 DEF Resolve, connVars, TypeOK, TenantIsolation
  <2>6. Confined'
    BY <1>3, ConfinedStays DEF Resolve, connVars, TypeOK, Settled
  <2> QED
    BY <2>1, <2>2, <2>3, <2>4, <2>5, <2>6
<1>4. ASSUME NEW r \in Requests, Direct(r) PROVE Inv'
  <2>1. TypeOK'
    BY <1>4 DEF Direct, Returned, Idle, connVars, TypeOK
  <2>2. Settled'
    BY <1>4 DEF Direct, Returned, Idle, connVars, TypeOK, Settled, ConnOwned
  <2>3. ConnOwned'
    BY <1>4, OwnersStay DEF Direct, connVars
  <2>4. WritesOwned'
    BY <1>4 DEF Direct, Returned, Idle, connVars, TypeOK, Settled, WritesOwned
  <2>5. TenantIsolation'
    BY <1>4 DEF Direct, Returned, Idle, connVars, TypeOK, TenantIsolation
  <2>6. Confined'
    BY <1>4, ConfinedStays DEF Direct, connVars, TypeOK, Settled
  <2> QED
    BY <2>1, <2>2, <2>3, <2>4, <2>5, <2>6
<1>5. ASSUME NEW r \in Requests, Authorize(r) PROVE Inv'
  <2>1. TypeOK'
    <3>1. pc' \in [Requests -> {"idle", "lookup", "route"} \cup Active]
      BY <1>5 DEF Authorize, TypeOK
    <3>2. txLeft' \in [Requests -> {1, 2}] /\ outcome' \in [Requests -> {"none", "ok", "error"}]
      BY <1>5 DEF Authorize, TypeOK
    <3> QED
      BY <1>5, <3>1, <3>2 DEF Authorize, connVars, TypeOK
  <2>2. Settled'
    BY <1>5 DEF Authorize, connVars, TypeOK, Settled, ConnOwned
  <2>3. ConnOwned'
    BY <1>5, OwnersStay DEF Authorize, connVars
  <2>4. WritesOwned'
    BY <1>5 DEF Authorize, connVars, TypeOK, Settled, WritesOwned
  <2>5. TenantIsolation'
    BY <1>5 DEF Authorize, TypeOK, Settled, TenantIsolation
  <2>6. Confined'
    BY <1>5, ConfinedStays DEF Authorize, connVars, TypeOK, Settled
  <2> QED
    BY <2>1, <2>2, <2>3, <2>4, <2>5, <2>6
<1>6. ASSUME NEW r \in Requests, Begin(r) PROVE Inv'
  <2>1. TypeOK'
    BY <1>6 DEF Begin, Idle, TypeOK
  <2>2. Settled'
    BY <1>6 DEF Begin, Idle, TypeOK, Settled, ConnOwned
  <2>3. ConnOwned'
    <3>1. PICK c \in Conns : status[c] = "idle" /\ conn' = [conn EXCEPT ![r] = c]
                            /\ status' = [status EXCEPT ![c] = "busy"]
      BY <1>6 DEF Begin, Idle
    <3>2. \A q \in Requests : q # r /\ pc[q] \in InTx => conn[q] # c
      BY <3>1 DEF ConnOwned
    <3>3. pc[r] \notin InTx /\ pc' = [pc EXCEPT ![r] = "setRole"]
      BY <1>6 DEF Begin
    <3> QED
      BY <3>1, <3>2, <3>3 DEF TypeOK, ConnOwned
  <2>4. WritesOwned'
    BY <1>6 DEF Begin, Idle, TypeOK, Settled, WritesOwned
  <2>5. TenantIsolation'
    BY <1>6 DEF Begin, Idle, TypeOK, TenantIsolation
  <2>6. Confined'
    BY <1>6, ConfinedStays DEF Begin, connVars, TypeOK, Settled
  <2> QED
    BY <2>1, <2>2, <2>3, <2>4, <2>5, <2>6
<1>7. ASSUME NEW r \in Requests, SetRole(r) PROVE Inv'
  <2>1. TypeOK'
    BY <1>7 DEF SetRole, TypeOK
  <2>2. Settled'
    BY <1>7 DEF SetRole, TypeOK, Settled, ConnOwned
  <2>3. ConnOwned'
    BY <1>7 DEF SetRole, TypeOK, ConnOwned
  <2>4. WritesOwned'
    BY <1>7 DEF SetRole, TypeOK, Settled, WritesOwned
  <2>5. TenantIsolation'
    BY <1>7 DEF SetRole, TypeOK, TenantIsolation
  <2>6. Confined'
    BY <1>7, ConfinedStays DEF SetRole, connVars, TypeOK, Settled
  <2> QED
    BY <2>1, <2>2, <2>3, <2>4, <2>5, <2>6
<1>8. ASSUME NEW r \in Requests, SetTenant(r) PROVE Inv'
  <2>1. TypeOK'
    BY <1>8 DEF SetTenant, SetLocalTenant, TypeOK
  <2>2. Settled'
    BY <1>8 DEF SetTenant, SetLocalTenant, TypeOK, Settled, ConnOwned
  <2>3. ConnOwned'
    BY <1>8 DEF SetTenant, SetLocalTenant, TypeOK, ConnOwned
  <2>4. WritesOwned'
    BY <1>8 DEF SetTenant, SetLocalTenant, TypeOK, Settled, WritesOwned
  <2>5. TenantIsolation'
    BY <1>8 DEF SetTenant, SetLocalTenant, TypeOK, TenantIsolation
  <2>6. Confined'
    BY <1>8, ConfinedStays DEF SetTenant, connVars, TypeOK, Settled
  <2> QED
    BY <2>1, <2>2, <2>3, <2>4, <2>5, <2>6
<1>9. ASSUME NEW r \in Requests, Query(r) PROVE Inv'
  <2>1. Confined'
    BY <1>9, ConfinedStays DEF Query, connVars, TypeOK
  <2> QED
    BY <1>9, <2>1 DEF Query, Returned, Visible, Role, Scope, connVars, TypeOK, Settled, ConnOwned, WritesOwned, TenantIsolation
<1>10. ASSUME NEW r \in Requests, NEW x \in Rows, Insert(r, x) PROVE Inv'
  <2>1. TypeOK'
    BY <1>10 DEF Insert, connVars, TypeOK
  <2>2. Settled'
    BY <1>10 DEF Insert, Unwritten, connVars, TypeOK, Settled, ConnOwned
  <2>3. ConnOwned' /\ TenantIsolation'
    BY <1>10 DEF Insert, connVars, TypeOK, ConnOwned, TenantIsolation
  <2>4. WritesOwned'
    <3>1. \A q \in Requests : x \notin ins[q] \cup upd[q] \cup del[q]
      <4>1. rows[x] = NoTenant /\ \A q \in Requests : x \notin ins[q]
        BY <1>10 DEF Insert
      <4>2. \A q \in Requests : upd[q] # {} => tenant[q] # NoTenant
        BY DEF Settled
      <4> QED
        BY <4>1, <4>2 DEF WritesOwned
    <3> QED
      BY <1>10, <3>1 DEF Insert, TypeOK, WritesOwned
  <2>5. Confined'
    BY <1>10, ConfinedStays DEF Insert, connVars, TypeOK
  <2> QED
    BY <2>1, <2>2, <2>3, <2>4, <2>5
<1>11. ASSUME NEW r \in Requests, NEW x \in Rows, Delete(r, x) PROVE Inv'
  <2>1. TypeOK'
    BY <1>11 DEF Delete, Fallen, connVars, TypeOK
  <2>2. Settled'
    BY <1>11 DEF Delete, Unwritten, connVars, TypeOK, Settled, ConnOwned
  <2>3. ConnOwned' /\ TenantIsolation'
    BY <1>11 DEF Delete, connVars, TypeOK, ConnOwned, TenantIsolation
  <2>4. rows[x] = tenant[r] /\ rows[x] # NoTenant
    BY <1>11 DEF Delete, Visible, Role, Scope, TypeOK, Settled, ConnOwned
  <2>5. /\ ins[r] = {} /\ upd[r] = {} /\ del' = [del EXCEPT ![r] = Fallen(x)]
        /\ UNCHANGED <<ins, upd, tenant, rows>>
    BY <1>11 DEF Delete, Unwritten, connVars
  <2>6. WritesOwned'
    <3>1. \A y \in Fallen(x) : /\ rows[y] # NoTenant
                               /\ rows[y] = tenant[r] \/ \E e \in Cascades : e[1] = y /\ e[2] \in Fallen(x)
      BY <2>4, FallenHangs
    <3>2. \A q \in Requests \ {r} : \A y \in Fallen(x) : y \notin ins[q] \cup upd[q] \cup del[q]
      BY <1>11, <3>1 DEF Delete, Unlocked, WritesOwned
    <3>3. \A q \in Requests : q # r => del'[q] = del[q]
      BY <2>5 DEF TypeOK
    <3>4. del'[r] = Fallen(x)
      BY <2>5 DEF TypeOK
    <3> QED
      BY <2>5, <3>1, <3>2, <3>3, <3>4 DEF WritesOwned
  <2>7. Confined'
    <3>1. \A y \in Fallen(x) : rows[y] # tenant[r] =>
            \E e \in Cascades : /\ e[1] \in Fallen(x) /\ e[2] \in Fallen(x)
                                /\ rows[e[2]] = tenant[r] /\ rows[e[1]] # tenant[r]
      BY <2>4, FallenConfined
    <3> QED
      BY <2>5, <3>1 DEF TypeOK, Confined
  <2> QED
    BY <2>1, <2>2, <2>3, <2>6, <2>7
<1>12. ASSUME NEW r \in Requests, Return(r) PROVE Inv'
  <2>1. Confined'
    BY <1>12, ConfinedStays DEF Return, connVars, TypeOK
  <2> QED
    BY <1>12, <2>1 DEF Return, connVars, TypeOK, Settled, ConnOwned, WritesOwned, TenantIsolation
<1>13. ASSUME NEW r \in Requests, Fail(r) PROVE Inv'
  <2>1. Confined'
    BY <1>13, ConfinedStays DEF Fail, connVars, TypeOK
  <2> QED
    BY <1>13, <2>1 DEF Fail, connVars, TypeOK, Settled, ConnOwned, WritesOwned, TenantIsolation
<1>14. ASSUME NEW r \in Requests, Commit(r) PROVE Inv'
  <2>1. TypeOK'
    <3>1. rows' \in [Rows -> Tenants \cup {NoTenant}]
      BY <1>14 DEF Commit, Committed, TypeOK
    <3>2. status' \in [Conns -> {"idle", "busy", "closed"}]
          /\ session' \in [Conns -> Settings] /\ local' \in [Conns -> Settings]
      BY <1>14, EndTyped DEF Commit, connVars, TypeOK
    <3> QED
      BY <1>14, <3>1, <3>2 DEF Commit, Leave, TypeOK
  <2>2. Settled'
    <3>1. PICK to \in {"idle", "begin"} : Leave(r, to)
      BY <1>14 DEF Commit
    <3>2. /\ local' = [local EXCEPT ![conn[r]] = Default]
          /\ status' = [status EXCEPT ![conn[r]] = "idle"] /\ UNCHANGED session
      BY <1>14 DEF Commit, EndTx
    <3>3. \A q \in Requests : txLeft'[q] = 2 => txLeft[q] = 2
      BY <1>14 DEF Commit, TypeOK
    <3>4. \A c \in Conns : session'[c] = Default /\ (status'[c] # "busy" => local'[c] = Default)
      BY <3>2 DEF TypeOK, Settled
    <3>5. \A q \in Requests : pc[q] \in InTx /\ q # r => conn[q] # conn[r]
      BY <1>14 DEF Commit, ConnOwned
    <3>6. \A q \in Requests \ {r} :
            pc'[q] = pc[q] /\ conn'[q] = conn[q] /\ ins'[q] = ins[q] /\ upd'[q] = upd[q] /\ del'[q] = del[q]
      BY <3>1 DEF Leave, TypeOK
    <3>7. pc'[r] = to /\ conn'[r] = NoConn /\ ins'[r] = {} /\ upd'[r] = {} /\ del'[r] = {}
      BY <3>1 DEF Leave, TypeOK
    <3>8. pc[r] = "commit" /\ UNCHANGED <<tenant, seen>>
      BY <1>14, <3>1 DEF Commit, Leave
    <3>9. \A q \in Requests \ {r} : pc[q] \in InTx => local'[conn[q]] = local[conn[q]]
      BY <3>2, <3>5 DEF TypeOK, ConnOwned
    <3> QED
      BY <3>3, <3>4, <3>6, <3>7, <3>8, <3>9 DEF Settled
  <2>3. ConnOwned'
    <3>1. PICK to \in {"idle", "begin"} : pc' = [pc EXCEPT ![r] = to] /\ conn' = [conn EXCEPT ![r] = NoConn]
      BY <1>14 DEF Commit, EndTx, Leave
    <3>2. PICK s \in {"idle", "closed"} : status' = [status EXCEPT ![conn[r]] = s]
      BY <1>14 DEF Commit, EndTx
    <3>3. pc[r] \in InTx
      BY <1>14 DEF Commit, EndTx
    <3>4. to \notin InTx /\ s # "busy"
      BY DEF InTx
    <3> HIDE DEF Inv, InTx, Active
    <3> QED
      BY <3>1, <3>2, <3>3, <3>4, OwnersLeave
  <2>4. WritesOwned'
    <3>1. \A q \in Requests \ {r} : \A x \in ins[q] \cup upd[q] \cup del[q] : rows'[x] = rows[x]
      BY <1>14 DEF Commit, Committed, TypeOK, WritesOwned
    <3>2. ins' = [ins EXCEPT ![r] = {}] /\ upd' = [upd EXCEPT ![r] = {}]
          /\ del' = [del EXCEPT ![r] = {}] /\ UNCHANGED tenant
      BY <1>14 DEF Commit, Leave
    <3> QED
      BY <3>1, <3>2 DEF TypeOK, WritesOwned
  <2>5. TenantIsolation'
    BY <1>14 DEF Commit, EndTx, Leave, TypeOK, TenantIsolation
  <2>6. Confined'
    <3>1. \A q \in Requests \ {r} : \A x \in ins[q] \cup upd[q] \cup del[q] : rows'[x] = rows[x]
      BY <1>14 DEF Commit, Committed, TypeOK, WritesOwned
    <3>2. del' = [del EXCEPT ![r] = {}] /\ UNCHANGED tenant
      BY <1>14 DEF Commit, Leave
    <3> QED
      BY <3>1, <3>2, ConfinedStays DEF TypeOK
  <2> QED
    BY <2>1, <2>2, <2>3, <2>4, <2>5, <2>6
<1>15. ASSUME NEW r \in Requests, CommitFails(r) PROVE Inv'
  <2>1. TypeOK'
    <3>1. rows' \in [Rows -> Tenants \cup {NoTenant}]
      BY <1>15 DEF CommitFails, Committed, TypeOK
    <3>2. status' \in [Conns -> {"idle", "busy", "closed"}]
          /\ session' \in [Conns -> Settings] /\ local' \in [Conns -> Settings]
      BY <1>15, EndTyped DEF CommitFails, connVars, TypeOK
    <3> QED
      BY <1>15, <3>1, <3>2 DEF CommitFails, Leave, TypeOK
  <2>2. Settled'
    BY <1>15 DEF CommitFails, EndTx, Destroy, Leave, TypeOK, Settled, ConnOwned
  <2>3. ConnOwned'
    <3>1. PICK to \in {"idle", "begin"} : pc' = [pc EXCEPT ![r] = to] /\ conn' = [conn EXCEPT ![r] = NoConn]
      BY <1>15 DEF CommitFails, EndTx, Destroy, Leave
    <3>2. PICK s \in {"idle", "closed"} : status' = [status EXCEPT ![conn[r]] = s]
      BY <1>15 DEF CommitFails, EndTx, Destroy
    <3>3. pc[r] \in InTx
      BY <1>15 DEF CommitFails, EndTx, Destroy
    <3>4. to \notin InTx /\ s # "busy"
      BY DEF InTx
    <3> HIDE DEF Inv, InTx, Active
    <3> QED
      BY <3>1, <3>2, <3>3, <3>4, OwnersLeave
  <2>4. WritesOwned'
    <3>1. \A q \in Requests \ {r} : \A x \in ins[q] \cup upd[q] \cup del[q] : rows'[x] = rows[x]
      BY <1>15 DEF CommitFails, Committed, TypeOK, WritesOwned
    <3>2. ins' = [ins EXCEPT ![r] = {}] /\ upd' = [upd EXCEPT ![r] = {}]
          /\ del' = [del EXCEPT ![r] = {}] /\ UNCHANGED tenant
      BY <1>15 DEF CommitFails, Leave
    <3> QED
      BY <3>1, <3>2 DEF TypeOK, WritesOwned
  <2>5. TenantIsolation'
    BY <1>15 DEF CommitFails, EndTx, Destroy, Leave, TypeOK, TenantIsolation
  <2>6. Confined'
    <3>1. \A q \in Requests \ {r} : \A x \in ins[q] \cup upd[q] \cup del[q] : rows'[x] = rows[x]
      BY <1>15 DEF CommitFails, Committed, TypeOK, WritesOwned
    <3>2. del' = [del EXCEPT ![r] = {}] /\ UNCHANGED tenant
      BY <1>15 DEF CommitFails, Leave
    <3> QED
      BY <3>1, <3>2, ConfinedStays DEF TypeOK
  <2> QED
    BY <2>1, <2>2, <2>3, <2>4, <2>5, <2>6
<1>16. ASSUME NEW r \in Requests, Rollback(r) PROVE Inv'
  <2>1. TypeOK'
    <3>1. rows' \in [Rows -> Tenants \cup {NoTenant}]
      BY <1>16 DEF Rollback, Committed, TypeOK
    <3>2. status' \in [Conns -> {"idle", "busy", "closed"}]
          /\ session' \in [Conns -> Settings] /\ local' \in [Conns -> Settings]
      BY <1>16, EndTyped DEF Rollback, connVars, TypeOK
    <3> QED
      BY <1>16, <3>1, <3>2 DEF Rollback, Leave, TypeOK
  <2>2. Settled'
    BY <1>16 DEF Rollback, EndTx, Destroy, Leave, TypeOK, Settled, ConnOwned
  <2>3. ConnOwned'
    <3>1. PICK to \in {"idle", "begin"} : pc' = [pc EXCEPT ![r] = to] /\ conn' = [conn EXCEPT ![r] = NoConn]
      BY <1>16 DEF Rollback, EndTx, Destroy, Leave
    <3>2. PICK s \in {"idle", "closed"} : status' = [status EXCEPT ![conn[r]] = s]
      BY <1>16 DEF Rollback, EndTx, Destroy
    <3>3. pc[r] \in InTx
      BY <1>16 DEF Rollback, EndTx, Destroy
    <3>4. to \notin InTx /\ s # "busy"
      BY DEF InTx
    <3> HIDE DEF Inv, InTx, Active
    <3> QED
      BY <3>1, <3>2, <3>3, <3>4, OwnersLeave
  <2>4. WritesOwned'
    BY <1>16 DEF Rollback, EndTx, Destroy, Leave, TypeOK, Settled, WritesOwned
  <2>5. TenantIsolation'
    BY <1>16 DEF Rollback, EndTx, Destroy, Leave, TypeOK, TenantIsolation
  <2>6. Confined'
    BY <1>16, ConfinedStays DEF Rollback, Leave, TypeOK
  <2> QED
    BY <2>1, <2>2, <2>3, <2>4, <2>5, <2>6
<1>17. ASSUME NEW r \in Requests, Cancel(r) PROVE Inv'
  <2>1. TypeOK'
    <3>1. rows' \in [Rows -> Tenants \cup {NoTenant}]
      BY <1>17 DEF Cancel, Committed, TypeOK
    <3>2. status' \in [Conns -> {"idle", "busy", "closed"}]
          /\ session' \in [Conns -> Settings] /\ local' \in [Conns -> Settings]
      BY <1>17, EndTyped DEF Cancel, connVars, TypeOK
    <3> QED
      BY <1>17, <3>1, <3>2 DEF Cancel, Leave, TypeOK
  <2>2. Settled'
    BY <1>17 DEF Cancel, Destroy, Leave, connVars, TypeOK, Settled, ConnOwned
  <2>3. ConnOwned'
    <3>1. CASE conn[r] = NoConn
      BY <1>17, <3>1, OwnersStay DEF Cancel, Leave, connVars, ConnOwned, Settled
    <3>2. CASE conn[r] # NoConn
      <4>1. pc' = [pc EXCEPT ![r] = "idle"] /\ conn' = [conn EXCEPT ![r] = NoConn]
        BY <1>17 DEF Cancel, Leave
      <4>2. status' = [status EXCEPT ![conn[r]] = "closed"]
        BY <1>17, <3>2 DEF Cancel, Destroy
      <4>3. pc[r] \in InTx
        BY <3>2 DEF Settled
      <4>4. "idle" \notin InTx /\ "closed" # "busy"
        BY DEF InTx
      <4> HIDE DEF Inv, InTx, Active
      <4> QED
        BY <4>1, <4>2, <4>3, <4>4, OwnersLeave
    <3> QED
      BY <3>1, <3>2
  <2>4. WritesOwned'
    BY <1>17 DEF Cancel, Destroy, Leave, connVars, TypeOK, Settled, WritesOwned
  <2>5. TenantIsolation'
    BY <1>17 DEF Cancel, Destroy, Leave, connVars, TypeOK, TenantIsolation
  <2>6. Confined'
    BY <1>17, ConfinedStays DEF Cancel, Leave, TypeOK
  <2> QED
    BY <2>1, <2>2, <2>3, <2>4, <2>5, <2>6
<1>18. ASSUME NEW c \in Conns, Open(c) PROVE Inv'
  <2>1. Confined'
    BY <1>18, ConfinedStays DEF Open, reqVars, TypeOK
  <2> QED
    BY <1>18, <2>1 DEF Open, reqVars, TypeOK, Settled, ConnOwned, WritesOwned, TenantIsolation
<1>19. ASSUME NEW r \in Requests, NEW x \in Rows, Update(r, x) PROVE Inv'
  <2>1. TypeOK'
    BY <1>19 DEF Update, connVars, TypeOK
  <2>2. Settled'
    BY <1>19 DEF Update, connVars, TypeOK, Settled, ConnOwned
  <2>3. ConnOwned' /\ TenantIsolation'
    BY <1>19 DEF Update, connVars, TypeOK, ConnOwned, TenantIsolation
  <2>4. rows[x] = tenant[r] /\ rows[x] # NoTenant
    BY <1>19 DEF Update, Visible, Role, Scope, TypeOK, Settled, ConnOwned
  <2>5. WritesOwned'
    <3>1. \A q \in Requests \ {r} : x \notin ins[q] \cup upd[q] \cup del[q]
      BY <1>19, <2>4 DEF Update, Unlocked, WritesOwned
    <3> QED
      BY <1>19, <2>4, <3>1 DEF Update, TypeOK, WritesOwned
  <2>6. Confined'
    BY <1>19, ConfinedStays DEF Update, connVars, TypeOK
  <2> QED
    BY <2>1, <2>2, <2>3, <2>5, <2>6
<1> QED
  BY <1>1, <1>2, <1>3, <1>4, <1>5, <1>6, <1>7, <1>8, <1>9, <1>10, <1>11, <1>12, <1>13,
     <1>14, <1>15, <1>16, <1>17, <1>18, <1>19 DEF Next, Serve

\* The inductive invariant holds of every behaviour.
THEOREM Invariance == Spec => []Inv
  BY InitInv, NextInv, PTL DEF Spec

\* Every variable keeps its type.
THEOREM TypeCorrect == Spec => []TypeOK
<1>1. Inv => TypeOK
  BY DEF Inv
<1> QED
  BY <1>1, Invariance, PTL

\* Whatever happened to the transaction that had it, a connection in the pool
\* has neither a role nor a tenant left on it (db.go:35-38).
THEOREM PoolStaysClean == Spec => []PoolClean
<1>1. Inv => PoolClean
  BY TenantAssumption DEF Inv, Settled, PoolClean, Idle, Role, Scope, Default, Super, App
<1> QED
  BY <1>1, Invariance, PTL

\* The body of WithTenant runs under RLS, for its own tenant (db.go:46-57).
THEOREM BodiesScoped == Spec => []BodyScoped
<1>1. Inv => BodyScoped
  <2> SUFFICES ASSUME Inv, NEW r \in Requests, pc[r] = "body"
               PROVE  Role(conn[r]) = App /\ Scope(conn[r]) = tenant[r]
    BY DEF BodyScoped
  <2>1. local[conn[r]].role = App /\ local[conn[r]].tenant = tenant[r] /\ tenant[r] \in Tenants
    BY DEF Inv, Settled
  <2> QED
    BY <2>1, TenantAssumption DEF Role, Scope
<1> QED
  BY <1>1, Invariance, PTL

\* No tenant operation is shown a row of another tenant (README.md:136).
THEOREM Isolation == Spec => []TenantIsolation
<1>1. Inv => TenantIsolation
  BY DEF Inv
<1> QED
  BY <1>1, Invariance, PTL

\* The rows a running transaction inserts were free, those it updates are of its
\* tenant, those it deletes too or fall with another of them, and no two
\* transactions write the same one (db.go:46-57).
THEOREM OwnWrites == Spec => []WritesOwned
<1>1. Inv => WritesOwned
  BY DEF Inv
<1> QED
  BY <1>1, Invariance, PTL

\* A delete leaves the tenant only across a cascading key from a row of another
\* tenant to one of its own (courses/repository.go:146).
THEOREM DeletesConfined == Spec => []Confined
<1>1. Inv => Confined
  BY DEF Inv
<1> QED
  BY <1>1, Invariance, PTL

\* WithTenant never loses a connection nor gives one back twice.
THEOREM ConnectionsOwned == Spec => []ConnOwned
<1>1. Inv => ConnOwned
  BY DEF Inv
<1> QED
  BY <1>1, Invariance, PTL

-----------------------------------------------------------------------------
(* The refinement                                                          *)

\* What TenantStore sees does not change when a request moves without
\* starting or ending an operation and writes nothing.
LEMMA StoreStutters ==
  ASSUME \A q \in Requests : pc'[q] \in Active <=> pc[q] \in Active,
         \A q \in Requests : pc[q] \in Active => tenant'[q] = tenant[q],
         UNCHANGED <<rows, ins, upd, del, outcome>>
  PROVE  UNCHANGED Store!vars
  BY DEF Store!vars

\* The end of an operation is the end TenantStore knows.
LEMMA StoreCloses ==
  ASSUME Inv, NEW r \in Requests, NEW answer, pc[r] \in Active,
         pc' = [pc EXCEPT ![r] = "idle"], outcome' = [outcome EXCEPT ![r] = answer],
         ins' = [ins EXCEPT ![r] = {}], upd' = [upd EXCEPT ![r] = {}], del' = [del EXCEPT ![r] = {}],
         UNCHANGED tenant
  PROVE  Store!Close(r, answer)
<1>1. \A q \in Requests : pc'[q] \in Active <=> q # r /\ pc[q] \in Active
  BY DEF Inv, TypeOK, Active, InTx
<1>2. {q \in Requests : pc'[q] \in Active} = {q \in Requests : pc[q] \in Active} \ {r}
  BY <1>1
<1>3. [q \in Requests |-> IF pc'[q] \in Active THEN tenant'[q] ELSE NoTenant]
      = [[q \in Requests |-> IF pc[q] \in Active THEN tenant[q] ELSE NoTenant]
           EXCEPT ![r] = NoTenant]
  BY <1>1
<1> QED
  BY <1>2, <1>3 DEF Store!Close

\* The rows a COMMIT leaves are those TenantStore applies.
LEMMA StoreApplies ==
  ASSUME Inv, NEW r \in Requests, pc[r] \in Active, rows' = Committed(r)
  PROVE  Store!Apply(r)
  BY DEF Store!Apply, Committed

LEMMA StoreStep == Inv /\ [Next]_vars => [Store!Next]_(Store!vars)
<1> SUFFICES ASSUME Inv, [Next]_vars PROVE Store!Next \/ UNCHANGED Store!vars
  OBVIOUS
<1> USE DEF Active, InTx, Go
<1>1. CASE UNCHANGED vars
  BY <1>1 DEF vars, reqVars, connVars, Store!vars
<1>2. ASSUME NEW r \in Requests, Arrive(r) PROVE UNCHANGED Store!vars
  BY <1>2, StoreStutters DEF Arrive, Inv, TypeOK
<1>3. ASSUME NEW r \in Requests, Resolve(r) PROVE UNCHANGED Store!vars
  BY <1>3, StoreStutters DEF Resolve, Inv, TypeOK
<1>4. ASSUME NEW r \in Requests, Direct(r) PROVE UNCHANGED Store!vars
  BY <1>4, StoreStutters DEF Direct, Inv, TypeOK
<1>5. ASSUME NEW r \in Requests, Authorize(r) PROVE Store!Next \/ UNCHANGED Store!vars
  <2>1. CASE pc' = [pc EXCEPT ![r] = "idle"] /\ UNCHANGED outcome
    BY <1>5, <2>1, StoreStutters DEF Authorize, Inv, TypeOK
  <2>2. CASE pc' = [pc EXCEPT ![r] = "begin"] /\ outcome' = [outcome EXCEPT ![r] = "none"]
    <3>1. pc[r] = "route" /\ tenant[r] \in Tenants /\ UNCHANGED <<tenant, ins, upd, del, rows>>
      BY <1>5 DEF Authorize, Inv, Settled
    <3>2. \A q \in Requests : pc'[q] \in Active <=> q = r \/ pc[q] \in Active
      BY <2>2 DEF Inv, TypeOK
    <3>3. {q \in Requests : pc'[q] \in Active} = {q \in Requests : pc[q] \in Active} \cup {r}
      BY <3>2
    <3>4. [q \in Requests |-> IF pc'[q] \in Active THEN tenant'[q] ELSE NoTenant]
          = [[q \in Requests |-> IF pc[q] \in Active THEN tenant[q] ELSE NoTenant]
               EXCEPT ![r] = tenant[r]]
      BY <3>1, <3>2
    <3>5. Store!Start(r)
      BY <2>2, <3>1, <3>3, <3>4 DEF Store!Start
    <3> QED
      BY <3>5 DEF Store!Next
  <2> QED
    BY <1>5, <2>1, <2>2 DEF Authorize
<1>6. ASSUME NEW r \in Requests, Begin(r) PROVE UNCHANGED Store!vars
  BY <1>6, StoreStutters DEF Begin, Inv, TypeOK
<1>7. ASSUME NEW r \in Requests, SetRole(r) PROVE UNCHANGED Store!vars
  BY <1>7, StoreStutters DEF SetRole, Inv, TypeOK
<1>8. ASSUME NEW r \in Requests, SetTenant(r) PROVE UNCHANGED Store!vars
  BY <1>8, StoreStutters DEF SetTenant, Inv, TypeOK
<1>9. ASSUME NEW r \in Requests, Query(r) PROVE UNCHANGED Store!vars
  BY <1>9 DEF Query, Store!vars
<1>10. ASSUME NEW r \in Requests, NEW x \in Rows, Insert(r, x) PROVE Store!Next
  <2>1. Store!Free(r, x)
    BY <1>10, TenantAssumption DEF Insert, Store!Free, Inv, TypeOK, Settled, WritesOwned
  <2>2. Store!Insert(r, x)
    <3>1. r \in {q \in Requests : pc[q] \in Active} /\ ins' = [ins EXCEPT ![r] = @ \cup {x}]
      BY <1>10 DEF Insert, Unwritten, Inv, TypeOK
    <3> QED
      BY <1>10, <2>1, <3>1 DEF Insert, Store!Insert
  <2> QED
    BY <2>2 DEF Store!Next
<1>11. ASSUME NEW r \in Requests, NEW x \in Rows, Delete(r, x) PROVE Store!Next
  <2>1. rows[x] = tenant[r] /\ rows[x] # NoTenant
    BY <1>11 DEF Delete, Visible, Role, Scope, Inv, TypeOK, Settled, ConnOwned, Super, App, Default
  <2>2. \A y \in Fallen(x) : /\ rows[y] # NoTenant
                             /\ rows[y] = tenant[r] \/ \E e \in Cascades : e[1] = y /\ e[2] \in Fallen(x)
    BY <2>1, FallenHangs, ReferenceAssumption
  <2>3. \A y \in Fallen(x) : Store!Free(r, y)
    BY <1>11, <2>2 DEF Delete, Unlocked, Store!Free, Inv, WritesOwned
  <2>4. x \in Fallen(x) /\ Fallen(x) \in SUBSET Rows
    BY FallenClosed, ReferenceAssumption DEF Fallen
  <2>5. del' = [del EXCEPT ![r] = @ \cup Fallen(x)]
    BY <1>11 DEF Delete, Unwritten, Inv, TypeOK
  <2>6. Store!Delete(r, Fallen(x))
    BY <1>11, <2>1, <2>2, <2>3, <2>4, <2>5 DEF Delete, Store!Delete
  <2> QED
    BY <2>4, <2>6 DEF Store!Next
<1>19. ASSUME NEW r \in Requests, NEW x \in Rows, Update(r, x) PROVE Store!Next
  <2>1. rows[x] = tenant[r] /\ rows[x] # NoTenant
    BY <1>19 DEF Update, Visible, Role, Scope, Inv, TypeOK, Settled, ConnOwned, Super, App, Default
  <2>2. Store!Free(r, x)
    BY <1>19, <2>1 DEF Update, Unlocked, Store!Free, Inv, WritesOwned
  <2>3. Store!Update(r, x)
    BY <1>19, <2>1, <2>2 DEF Update, Store!Update
  <2> QED
    BY <2>3 DEF Store!Next
<1>12. ASSUME NEW r \in Requests, Return(r) PROVE UNCHANGED Store!vars
  BY <1>12, StoreStutters DEF Return, Inv, TypeOK
<1>13. ASSUME NEW r \in Requests, Fail(r) PROVE UNCHANGED Store!vars
  BY <1>13, StoreStutters DEF Fail, Inv, TypeOK
<1>14. ASSUME NEW r \in Requests, Commit(r) PROVE Store!Next \/ UNCHANGED Store!vars
  <2>1. CASE pc' = [pc EXCEPT ![r] = "idle"]
    <3>1. PICK answer \in {"ok", "error"} : outcome' = [outcome EXCEPT ![r] = answer]
      <4>1. ~Leave(r, "begin")
        BY <1>14, <2>1 DEF Commit, Leave, Inv, TypeOK
      <4> QED
        BY <1>14, <4>1 DEF Commit
    <3>2. Store!Close(r, answer)
      BY <1>14, <2>1, <3>1, StoreCloses DEF Commit, Leave
    <3>3. Store!Apply(r)
      BY <1>14, StoreApplies DEF Commit
    <3> QED
      BY <3>1, <3>2, <3>3 DEF Store!Next, Store!Succeed, Store!Err
  <2>2. CASE txLeft[r] = 2 /\ Leave(r, "begin") /\ UNCHANGED outcome
    <3>1. ins[r] = {} /\ upd[r] = {} /\ del[r] = {} /\ UNCHANGED <<ins, upd, del>>
      BY <2>2 DEF Leave, Inv, TypeOK, Settled
    <3>2. UNCHANGED rows
      BY <1>14, <3>1 DEF Commit, Committed, Inv, TypeOK
    <3> QED
      BY <1>14, <2>2, <3>1, <3>2, StoreStutters DEF Commit, Leave, Inv, TypeOK
  <2> QED
    BY <1>14, <2>1, <2>2 DEF Commit, Leave
<1>15. ASSUME NEW r \in Requests, CommitFails(r) PROVE Store!Next
  <2>1. Store!Close(r, "error")
    BY <1>15, StoreCloses DEF CommitFails, Leave
  <2>2. Store!Apply(r) \/ UNCHANGED rows
    BY <1>15, StoreApplies DEF CommitFails
  <2> QED
    BY <2>1, <2>2 DEF Store!Next, Store!Err
<1>16. ASSUME NEW r \in Requests, Rollback(r) PROVE Store!Next
  <2>1. Store!Close(r, "error") /\ UNCHANGED rows
    BY <1>16, StoreCloses DEF Rollback, Leave
  <2> QED
    BY <2>1 DEF Store!Next, Store!Err
<1>17. ASSUME NEW r \in Requests, Cancel(r) PROVE Store!Next \/ UNCHANGED Store!vars
  <2>1. CASE pc[r] \in Active
    <3>1. Store!Close(r, "error") /\ UNCHANGED rows
      BY <1>17, <2>1, StoreCloses DEF Cancel, Leave
    <3> QED
      BY <3>1 DEF Store!Next, Store!Err
  <2>2. CASE pc[r] \notin Active
    <3>1. UNCHANGED <<ins, upd, del>>
      BY <1>17, <2>2 DEF Cancel, Leave, Inv, TypeOK, Settled
    <3> QED
      BY <1>17, <2>2, <3>1, StoreStutters DEF Cancel, Leave, Inv, TypeOK
  <2> QED
    BY <2>1, <2>2
<1>18. ASSUME NEW c \in Conns, Open(c) PROVE UNCHANGED Store!vars
  BY <1>18 DEF Open, reqVars, Store!vars
<1> QED
  BY <1>1, <1>2, <1>3, <1>4, <1>5, <1>6, <1>7, <1>8, <1>9, <1>10, <1>11, <1>12, <1>13,
     <1>14, <1>15, <1>16, <1>17, <1>18, <1>19 DEF Next, Serve

\* WithTenant, over a shared pool, with failures and cancellations anywhere,
\* is the atomic operation of TenantStore, of one tenant but for cascades.
THEOREM Refinement == Spec => StoreSpec
<1>1. Init => Store!Init
  BY DEF Init, Store!Init, Active, InTx
<1> QED
  BY <1>1, Invariance, StoreStep, PTL DEF Spec, StoreSpec, Store!Spec
=============================================================================
