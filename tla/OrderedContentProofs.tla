------------------------ MODULE OrderedContentProofs ------------------------
(***************************************************************************)
(* Theorems about OrderedContent, for any number of transactions, of rows  *)
(* and of ids in a list: reorders never mix, an order_index is shared only *)
(* for a reason, and no row outlives its parent.                           *)
(***************************************************************************)
EXTENDS OrderedContent, FiniteSetTheorems, WellFoundedInduction, TLAPS

-----------------------------------------------------------------------------
(* The inductive invariant                                                 *)

\* What each operation works on.
Ids ==
  \A r \in Requests :
    /\ req[r].done <= Len(req[r].ids)
    /\ req[r].op = "none" => req[r] = Idle
    /\ req[r].op # "create" => Range(req[r].ids) \subseteq ever
    /\ req[r].op = "create" =>
         \E x \in Items \ ever : req[r].ids = <<x>> /\ req[r].done = 1
    /\ req[r].op = "reorder" => Len(req[r].ids) > 0
    /\ req[r].op = "drop" => parent /\ Present \subseteq Range(req[r].ids)

\* INSERTs hold the parent together, a DELETE of it holds it alone.
Holders ==
  /\ Creating # {} => parent /\ Dropping = {}
  /\ \A r, q \in Dropping : r = q
  /\ \A r, q \in Creating : r # q =>
       req[r].ids[1] # req[q].ids[1] /\ {req[r].ids[1], req[q].ids[1]} \in overlapped

\* A committed order_index is the place of the row in the list it is from.
Placed ==
  /\ \A x \in Items : Range(from[x]) \subseteq ever /\ (x \notin Present => from[x] = <<>>)
  /\ \A x \in Present : from[x] # <<>> =>
       /\ index[x] + 1 \in DOMAIN from[x] /\ from[x][index[x] + 1] = x

\* The number of a row being created is beyond those of the rows that Create
\* numbered, but for the ones created at the same time.
Numbered ==
  \A r \in Creating : \A y \in Present :
    index[y] < req[r].number \/ from[y] # <<>> \/ {y, req[r].ids[1]} \in overlapped

\* Rows that Create numbered alike were created at the same time.
Created ==
  \A x, y \in Present :
    x # y /\ from[x] = <<>> /\ from[y] = <<>> /\ index[x] = index[y] => {x, y} \in overlapped

IInv ==
  /\ TypeOK
  /\ Ids
  /\ Holders
  /\ Placed
  /\ Numbered
  /\ Created
  /\ WholeReorder
  /\ NoOrphan

-----------------------------------------------------------------------------
(* Small facts                                                             *)

\* The types alone, and what each transaction has written.
LEMMA Types ==
  ASSUME TypeOK
  PROVE  /\ parent \in BOOLEAN /\ index \in [Items -> Nat \cup {Absent}]
         /\ ever \subseteq Items /\ Present \subseteq ever /\ Present \subseteq Items
         /\ lock \in [Items -> Requests \cup {NoRequest}]
         /\ req \in [Requests -> [op : Ops, ids : Seq(Items), done : Nat, number : Nat]]
         /\ from \in [Items -> Seq(Items)]
         /\ \A x \in Present : index[x] \in Nat
         /\ \A r \in Requests :
              Written(r) = IF req[r].op = "create" THEN {} ELSE Reached(r) \cap Present
  BY DEF TypeOK, Present

\* A list gone through to its end.
LEMMA AllReached ==
  ASSUME TypeOK, NEW r \in Requests, ~Pending(r), req[r].done <= Len(req[r].ids)
  PROVE  Reached(r) = Range(req[r].ids)
<1>1. req[r].ids \in Seq(Items) /\ req[r].done \in Nat
  BY Types
<1>2. req[r].done = Len(req[r].ids) /\ Len(req[r].ids) \in Nat
  BY <1>1 DEF Pending
<1>3. QED
  BY <1>1, <1>2 DEF Reached, Range

\* Whatever a request is about to write has been committed before.
LEMMA ReachedEver ==
  ASSUME TypeOK, Ids, NEW r \in Requests, req[r].op # "create"
  PROVE  Reached(r) \subseteq ever
<1>1. req[r].ids \in Seq(Items) /\ req[r].done \in Nat /\ req[r].done <= Len(req[r].ids)
  BY Types DEF Ids
<1>2. Reached(r) \subseteq Range(req[r].ids)
  BY <1>1 DEF Reached, Range
<1>3. QED
  BY <1>2 DEF Ids

\* An order of a finite set is a sequence of its elements, all of them.
LEMMA OrderSeq ==
  ASSUME NEW S, IsFiniteSet(S), NEW s \in Orders(S)
  PROVE  s \in Seq(S) /\ IsInjective(s) /\ Range(s) = S
<1>1. Cardinality(S) \in Nat
  BY FS_CardinalityType
<1>2. PICK n \in 0 .. Cardinality(S) : s \in [1 .. n -> S]
  BY DEF Orders
<1>3. n \in Nat
  BY <1>1
<1>4. s \in Seq(S)
  BY <1>2, <1>3
<1>5. QED
  BY <1>4 DEF Orders

LEMMA PresentFinite ==
  ASSUME TypeOK
  PROVE  IsFiniteSet(Present)
  BY Types, BoundAssumption, FS_Subset

\* The lists a client sends name ids once committed.
LEMMA ListSeq ==
  ASSUME TypeOK, NEW s \in Lists
  PROVE  s \in Seq(Items) /\ Len(s) > 0 /\ Range(s) \subseteq ever
<1>1. PICK n \in 1 .. MaxIds : s \in [1 .. n -> ever]
  BY DEF Lists
<1>2. n \in Nat /\ n > 0
  BY BoundAssumption
<1>3. s \in Seq(ever) /\ Len(s) = n
  BY <1>1, <1>2
<1>4. ever \subseteq Items
  BY Types
<1>5. QED
  BY <1>1, <1>2, <1>3, <1>4 DEF Lists, Range

\* A set of numbers that is not empty has a least one.
LEMMA Least ==
  ASSUME NEW T \in SUBSET Nat, T # {}
  PROVE  \E n \in T : \A m \in T : n <= m
<1>1. PICK R : IsWellFoundedOn(R, Nat) /\ \A m, n \in Nat : m < n => <<m, n>> \in R
  <2>1. \A m, n \in Nat : m < n => <<m, n>> \in OpToRel(<, Nat)
    BY Zenon DEF OpToRel
  <2>2. QED
    BY <2>1, NatLessThanWellFounded, Zenon
<1>2. IsWellFoundedOn(R, Nat) /\ T \subseteq Nat /\ T # {}
  BY <1>1
<1>3. PICK n \in T : \A m \in T : ~(<<m, n>> \in R)
  BY <1>2, WFMin, Zenon
<1>4. \A m \in T : ~(m < n)
  BY <1>1, <1>3
<1>5. QED
  BY <1>4

\* A row that is named has a last place, with the row in it.
LEMMA LastPlaceIs ==
  ASSUME NEW s \in Seq(Items), NEW x \in Range(s)
  PROVE  LastPlace(s, x) \in 0 .. Len(s) - 1 /\ s[LastPlace(s, x) + 1] = x
<1> DEFINE T == {n \in 0 .. Len(s) - 1 : s[Len(s) - n] = x}
<1>1. Len(s) \in Nat
  OBVIOUS
<1>2. PICK k \in 1 .. Len(s) : s[k] = x
  BY DEF Range
<1>3. Len(s) - k \in T
  BY <1>1, <1>2
<1>4. T \in SUBSET Nat
  BY <1>1
<1>5. PICK n \in T : \A m \in T : n <= m
  BY <1>3, <1>4, Least
<1>6. PICK i : i = Len(s) - n - 1
  OBVIOUS
<1>7. i \in 0 .. Len(s) - 1 /\ s[i + 1] = x
  BY <1>1, <1>5, <1>6
<1>8. ASSUME NEW j \in i + 2 .. Len(s), s[j] = x
      PROVE  FALSE
  <2>1. Len(s) - j \in 0 .. Len(s) - 1 /\ Len(s) - (Len(s) - j) = j
    BY <1>1, <1>7, <1>8
  <2>2. Len(s) - j \in T
    BY <1>8, <2>1
  <2>3. n <= Len(s) - j
    BY <1>5, <2>2
  <2>4. QED
    BY <1>1, <1>5, <1>6, <1>8, <2>3
<1>9. \E l \in 0 .. Len(s) - 1 : s[l + 1] = x /\ \A j \in l + 2 .. Len(s) : s[j] # x
  BY <1>7, <1>8
<1>10. QED
  BY <1>9 DEF LastPlace

-----------------------------------------------------------------------------
(* The invariant holds in the initial states                               *)

LEMMA InitIInv ==
  ASSUME Init
  PROVE  IInv
<1>1. PICK S \in SUBSET Items : \E s \in Orders(S) :
        /\ index = [x \in Items |-> IF x \in S THEN (CHOOSE i \in DOMAIN s : s[i] = x) - 1 ELSE Absent]
        /\ ever = S
  BY DEF Init
<1>2. PICK s \in Orders(S) :
        /\ index = [x \in Items |-> IF x \in S THEN (CHOOSE i \in DOMAIN s : s[i] = x) - 1 ELSE Absent]
        /\ ever = S
  BY <1>1
<1>3. IsFiniteSet(S)
  BY BoundAssumption, FS_Subset
<1>4. s \in Seq(S) /\ Range(s) = S
  BY <1>3, OrderSeq
<1>5. /\ parent = TRUE /\ lock = [x \in Items |-> NoRequest]
      /\ req = [r \in Requests |-> Idle] /\ from = [x \in Items |-> <<>>]
  BY DEF Init
<1>6. \A x \in S : index[x] \in Nat /\ s[index[x] + 1] = x
  <2>1. TAKE x \in S
  <2>2. \E i \in DOMAIN s : s[i] = x
    BY <1>4 DEF Range
  <2>3. PICK i \in DOMAIN s : s[i] = x /\ index[x] = i - 1
    BY <1>2, <2>2
  <2>4. i \in Nat /\ i >= 1
    BY <1>4
  <2>5. QED
    BY <2>3, <2>4
<1>7. index \in [Items -> Nat \cup {Absent}]
  BY <1>2, <1>6
<1>8. Present = S
  <2>1. \A x \in Items \ S : index[x] = Absent
    BY <1>2
  <2>2. \A n \in Nat : n # Absent
    BY DEF Absent
  <2>3. QED
    BY <1>6, <2>1, <2>2 DEF Present
<1>9. \A r \in Requests : req[r] = Idle /\ Written(r) = {} /\ Reached(r) = {}
  BY <1>5, RequestAssumption DEF Written, Reached, Idle
<1>10. TypeOK
  <2>1. Idle \in [op : Ops, ids : Seq(Items), done : Nat, number : Nat]
    BY DEF Idle, Ops
  <2>2. req \in [Requests -> [op : Ops, ids : Seq(Items), done : Nat, number : Nat]]
    BY <1>5, <2>1
  <2>3. from \in [Items -> Seq(Items)]
    BY <1>5
  <2>4. lock \in [Items -> Requests \cup {NoRequest}]
    BY <1>5
  <2>5. QED
    BY <1>2, <1>5, <1>7, <1>8, <1>9, <2>2, <2>3, <2>4 DEF TypeOK
<1>11. Ids
  <2>1. Range(<<>>) = {} /\ Len(<<>>) = 0
    BY DEF Range
  <2>2. QED
    BY <1>9, <2>1 DEF Ids, Idle
<1>12. Creating = {} /\ Dropping = {}
  BY <1>9 DEF Creating, Dropping, Idle
<1>13. Holders /\ Numbered
  BY <1>12 DEF Holders, Numbered
<1>14. \A x \in Items : from[x] = <<>> /\ Range(from[x]) = {}
  BY <1>5 DEF Range
<1>15. Placed /\ WholeReorder
  BY <1>8, <1>14 DEF Placed, WholeReorder
<1>16. Created
  BY <1>6, <1>8 DEF Created
<1>17. NoOrphan
  BY <1>5 DEF NoOrphan
<1>18. QED
  BY <1>10, <1>11, <1>13, <1>15, <1>16, <1>17 DEF IInv

-----------------------------------------------------------------------------
(* Steps that leave the table alone                                        *)

\* The parts of the invariant about the table only.
LEMMA TableKeeps ==
  ASSUME Placed, Created, WholeReorder, NoOrphan, UNCHANGED table
  PROVE  Placed' /\ Created' /\ WholeReorder' /\ NoOrphan'
<1>1. Present' = Present
  BY DEF table, Present
<1>2. QED
  BY <1>1 DEF table, Placed, Created, WholeReorder, NoOrphan

\* A transaction begins on ids ids.
LEMMA BeginIInv ==
  ASSUME IInv, NEW r \in Requests, NEW op \in {"reorder", "edit", "delete", "drop"},
         NEW ids \in Seq(Items), Begin(r, op, ids), UNCHANGED <<table, lock>>,
         Range(ids) \subseteq ever,
         op = "reorder" => Len(ids) > 0,
         op = "drop" => parent /\ Present \subseteq Range(ids) /\ Creating = {} /\ Dropping = {}
  PROVE  IInv'
<1>1. TypeOK /\ Ids /\ Holders /\ Numbered
  BY DEF IInv
<1>2. /\ req[r] = Idle
      /\ req' = [req EXCEPT ![r] = [op |-> op, ids |-> ids, done |-> 0, number |-> 0]]
  BY <1>1 DEF Begin, Ids
<1>3. Placed' /\ Created' /\ WholeReorder' /\ NoOrphan'
  BY TableKeeps DEF IInv
<1>4. /\ Present' = Present /\ parent' = parent /\ index' = index /\ ever' = ever /\ from' = from
      /\ overlapped' = overlapped /\ lock' = lock
  BY DEF table, Present
<1>5. /\ req'[r] = [op |-> op, ids |-> ids, done |-> 0, number |-> 0]
      /\ \A q \in Requests \ {r} : req'[q] = req[q]
  BY <1>1, <1>2, Types
<1>6. \A q \in Requests : Written(q)' = Written(q)
  BY <1>4 DEF Written
<1>7. Written(r) = {} /\ Reached(r)' = {}
  <2>1. Reached(r) = {}
    BY <1>2 DEF Reached, Idle
  <2>2. req[r].op # "create"
    BY <1>2 DEF Idle
  <2>3. Written(r) = {}
    BY <1>1, <2>1, <2>2, Types
  <2>4. Reached(r)' = {}
    BY <1>5 DEF Reached
  <2>5. QED
    BY <2>3, <2>4
<1>8. TypeOK'
  <2>1. [op |-> op, ids |-> ids, done |-> 0, number |-> 0]
          \in [op : Ops, ids : Seq(Items), done : Nat, number : Nat]
    BY DEF Ops
  <2>2. req' \in [Requests -> [op : Ops, ids : Seq(Items), done : Nat, number : Nat]]
    BY <1>1, <1>2, <2>1, Types
  <2>3. \A q \in Requests :
          Written(q)' = IF req'[q].op = "create" THEN {} ELSE Reached(q)' \cap Present'
    <3>1. TAKE q \in Requests
    <3>2. CASE q = r
      BY <1>5, <1>6, <1>7, <3>2
    <3>3. CASE q # r
      <4>1. Reached(q)' = Reached(q)
        BY <1>5, <3>3 DEF Reached
      <4>2. QED
        BY <1>1, <1>4, <1>5, <1>6, <3>3, <4>1, Types
    <3>4. QED
      BY <3>2, <3>3
  <2>4. QED
    BY <1>1, <1>4, <2>2, <2>3 DEF TypeOK
<1>9. Ids'
  <2>1. SUFFICES ASSUME NEW q \in Requests
                 PROVE  /\ req'[q].done <= Len(req'[q].ids)
                        /\ req'[q].op = "none" => req'[q] = Idle
                        /\ req'[q].op # "create" => Range(req'[q].ids) \subseteq ever
                        /\ req'[q].op = "create" =>
                             \E x \in Items \ ever : req'[q].ids = <<x>> /\ req'[q].done = 1
                        /\ req'[q].op = "reorder" => Len(req'[q].ids) > 0
                        /\ req'[q].op = "drop" => parent /\ Present \subseteq Range(req'[q].ids)
    BY <1>4 DEF Ids, Idle
  <2>2. CASE q = r
    <3>1. Len(ids) \in Nat
      OBVIOUS
    <3>2. QED
      BY <1>5, <2>2, <3>1
  <2>3. CASE q # r
    BY <1>1, <1>5, <2>3 DEF Ids
  <2>4. QED
    BY <2>2, <2>3
<1>10. Creating' = Creating /\ Dropping' = IF op = "drop" THEN Dropping \cup {r} ELSE Dropping
  BY <1>2, <1>5 DEF Creating, Dropping, Idle
<1>11. \A q \in Creating : req'[q] = req[q]
  BY <1>2, <1>5 DEF Creating, Idle
<1>12. Holders'
  <2>1. Creating' # {} => parent' /\ Dropping' = {}
    BY <1>1, <1>4, <1>10 DEF Holders
  <2>2. \A p, q \in Dropping' : p = q
    BY <1>1, <1>10 DEF Holders
  <2>3. \A p, q \in Creating' : p # q =>
          req'[p].ids[1] # req'[q].ids[1] /\ {req'[p].ids[1], req'[q].ids[1]} \in overlapped'
    <3>1. SUFFICES ASSUME NEW p \in Creating, NEW q \in Creating, p # q
                   PROVE  /\ req'[p].ids[1] # req'[q].ids[1]
                          /\ {req'[p].ids[1], req'[q].ids[1]} \in overlapped
      BY <1>4, <1>10
    <3>2. req'[p] = req[p] /\ req'[q] = req[q]
      BY <1>11
    <3>3. req[p].ids[1] # req[q].ids[1] /\ {req[p].ids[1], req[q].ids[1]} \in overlapped
      BY <1>1, <3>1 DEF Holders
    <3>4. QED
      BY <3>2, <3>3
  <2>4. QED
    BY <2>1, <2>2, <2>3 DEF Holders
<1>13. Numbered'
  BY <1>1, <1>4, <1>10, <1>11 DEF Numbered
<1>14. QED
  BY <1>3, <1>8, <1>9, <1>12, <1>13 DEF IInv

\* A row is written, or there is none to write.
LEMMA StatementIInv ==
  ASSUME IInv, NEW r \in Requests, Statement(r)
  PROVE  IInv'
<1>1. TypeOK /\ Ids /\ Holders /\ Numbered
  BY DEF IInv
<1>2. PICK x : x = NextId(r)
  OBVIOUS
<1>3. /\ req[r].done < Len(req[r].ids) /\ lock[x] \in {NoRequest, r}
      /\ lock' = IF x \in Present THEN [lock EXCEPT ![x] = r] ELSE lock
      /\ req' = [req EXCEPT ![r].done = @ + 1] /\ UNCHANGED table
  BY <1>2 DEF Statement, Pending
<1>4. Placed' /\ Created' /\ WholeReorder' /\ NoOrphan'
  BY <1>3, TableKeeps DEF IInv
<1>5. /\ Present' = Present /\ parent' = parent /\ index' = index /\ ever' = ever /\ from' = from
      /\ overlapped' = overlapped
  BY <1>3 DEF table, Present
<1>6. req[r].ids \in Seq(Items) /\ Len(req[r].ids) \in Nat /\ req[r].done \in Nat
  BY <1>1, Types
<1>7. /\ req'[r].op = req[r].op /\ req'[r].ids = req[r].ids /\ req'[r].done = req[r].done + 1
      /\ req'[r].number = req[r].number /\ \A q \in Requests \ {r} : req'[q] = req[q]
  BY <1>1, <1>3, Types
<1>8. x = req[r].ids[req[r].done + 1] /\ x \in Items
  BY <1>2, <1>3, <1>6 DEF NextId
<1>9. req[r].op \notin {"create", "none"}
  <2>1. req[r].op # "create"
    <3>1. ASSUME req[r].op = "create"
          PROVE  FALSE
      <4>1. PICK y \in Items \ ever : req[r].ids = <<y>> /\ req[r].done = 1
        BY <1>1, <3>1 DEF Ids
      <4>2. QED
        BY <1>3, <4>1
    <3>2. QED
      BY <3>1
  <2>2. req[r].op # "none"
    BY <1>1, <1>3 DEF Ids, Idle
  <2>3. QED
    BY <2>1, <2>2
<1>10. Reached(r)' = Reached(r) \cup {x}
  <2>1. Reached(r)' = {req[r].ids[i] : i \in 1 .. (req[r].done + 1)}
    BY <1>7 DEF Reached
  <2>2. 1 .. (req[r].done + 1) = (1 .. req[r].done) \cup {req[r].done + 1}
    BY <1>6
  <2>3. QED
    BY <1>8, <2>1, <2>2 DEF Reached
<1>11. TypeOK'
  <2>1. req' \in [Requests -> [op : Ops, ids : Seq(Items), done : Nat, number : Nat]]
    <3>1. PICK q \in [op : Ops, ids : Seq(Items), done : Nat, number : Nat] : q = req[r]
      BY <1>1, Types
    <3>2. [q EXCEPT !.done = q.done + 1] \in [op : Ops, ids : Seq(Items), done : Nat, number : Nat]
      BY <3>1
    <3>3. req' = [req EXCEPT ![r] = [q EXCEPT !.done = q.done + 1]]
      BY <1>3, <3>1
    <3>4. QED
      BY <1>1, <3>2, <3>3, Types
  <2>2. lock' \in [Items -> Requests \cup {NoRequest}]
    BY <1>1, <1>3, <1>8, Types
  <2>3. \A q \in Requests :
          Written(q)' = IF req'[q].op = "create" THEN {} ELSE Reached(q)' \cap Present'
    <3>1. TAKE q \in Requests
    <3>2. q # NoRequest
      BY RequestAssumption
    <3>3. CASE q = r
      <4>1. Written(r)' = Written(r) \cup ({x} \cap Present)
        BY <1>1, <1>3, <1>8, Types DEF Written
      <4>2. Written(r) = Reached(r) \cap Present
        BY <1>1, <1>9, Types
      <4>3. QED
        BY <1>5, <1>7, <1>9, <1>10, <3>3, <4>1, <4>2
    <3>4. CASE q # r
      <4>1. Written(q)' = Written(q)
        BY <1>1, <1>3, <1>8, <3>2, <3>4, Types DEF Written
      <4>2. Reached(q)' = Reached(q)
        BY <1>7, <3>4 DEF Reached
      <4>3. QED
        BY <1>1, <1>5, <1>7, <3>4, <4>1, <4>2, Types
    <3>5. QED
      BY <3>3, <3>4
  <2>4. QED
    BY <1>1, <1>5, <2>1, <2>2, <2>3 DEF TypeOK
<1>12. Ids'
  <2>1. SUFFICES ASSUME NEW q \in Requests
                 PROVE  /\ req'[q].done <= Len(req'[q].ids)
                        /\ req'[q].op = "none" => req'[q] = Idle
                        /\ req'[q].op # "create" => Range(req'[q].ids) \subseteq ever
                        /\ req'[q].op = "create" =>
                             \E y \in Items \ ever : req'[q].ids = <<y>> /\ req'[q].done = 1
                        /\ req'[q].op = "reorder" => Len(req'[q].ids) > 0
                        /\ req'[q].op = "drop" => parent /\ Present \subseteq Range(req'[q].ids)
    BY <1>5 DEF Ids, Idle
  <2>2. CASE q = r
    BY <1>1, <1>3, <1>6, <1>7, <1>9, <2>2 DEF Ids
  <2>3. CASE q # r
    BY <1>1, <1>7, <2>3 DEF Ids
  <2>4. QED
    BY <2>2, <2>3
<1>13. /\ Creating' = Creating /\ Dropping' = Dropping
       /\ \A q \in Creating : req'[q] = req[q]
  BY <1>7, <1>9 DEF Creating, Dropping
<1>14. Holders' /\ Numbered'
  <2>1. SUFFICES ASSUME NEW p \in Creating, NEW q \in Creating, p # q
                 PROVE  /\ req'[p].ids[1] # req'[q].ids[1]
                        /\ {req'[p].ids[1], req'[q].ids[1]} \in overlapped
    <3>1. Numbered'
      BY <1>1, <1>5, <1>13 DEF Numbered
    <3>2. (Creating' # {} => parent' /\ Dropping' = {}) /\ \A p, q \in Dropping' : p = q
      BY <1>1, <1>5, <1>13 DEF Holders
    <3>3. QED
      BY <1>5, <1>13, <3>1, <3>2 DEF Holders
  <2>2. req'[p] = req[p] /\ req'[q] = req[q]
    BY <1>13
  <2>3. req[p].ids[1] # req[q].ids[1] /\ {req[p].ids[1], req[q].ids[1]} \in overlapped
    BY <1>1, <2>1 DEF Holders
  <2>4. QED
    BY <2>2, <2>3
<1>15. QED
  BY <1>4, <1>11, <1>12, <1>14 DEF IInv

\* The one statement of Create.
LEMMA InsertIInv ==
  ASSUME IInv, NEW r \in Requests, NEW x \in Items, InsertSelect(r, x)
  PROVE  IInv'
<1>1. TypeOK /\ Ids /\ Holders /\ Numbered
  BY DEF IInv
<1>2. PICK n \in NextNumber :
        req' = [req EXCEPT ![r] = [op |-> "create", ids |-> <<x>>, done |-> 1, number |-> n]]
  BY DEF InsertSelect
<1>3. /\ parent = TRUE /\ Dropping = {} /\ x \notin ever
      /\ \A q \in Creating : req[q].ids # <<x>>
      /\ req[r].op = "none"
      /\ overlapped' = overlapped \cup {{x, req[q].ids[1]} : q \in Creating}
      /\ parent' = parent /\ index' = index /\ ever' = ever /\ from' = from /\ lock' = lock
  BY <1>1, Types DEF InsertSelect
<1>4. n \in Nat /\ \A y \in Present : index[y] < n
  <2>1. CASE Present = {}
    BY <1>2, <2>1 DEF NextNumber
  <2>2. CASE Present # {}
    <3>1. PICK z \in Present : n = index[z] + 1 /\ \A y \in Present : index[y] <= index[z]
      BY <1>2, <2>2 DEF NextNumber
    <3>2. \A y \in Present : index[y] \in Nat
      BY <1>1, Types
    <3>3. QED
      BY <3>1, <3>2
  <2>3. QED
    BY <2>1, <2>2
<1>5. /\ req'[r] = [op |-> "create", ids |-> <<x>>, done |-> 1, number |-> n]
      /\ \A q \in Requests \ {r} : req'[q] = req[q]
  BY <1>1, <1>2, Types
<1>6. Present' = Present
  BY <1>3 DEF Present
<1>7. Placed' /\ Created' /\ WholeReorder' /\ NoOrphan'
  BY <1>3, <1>6 DEF IInv, Placed, Created, WholeReorder, NoOrphan
<1>8. r \notin Creating /\ r \notin Dropping /\ Creating' = Creating \cup {r} /\ Dropping' = {}
  BY <1>3, <1>5 DEF Creating, Dropping
<1>9. TypeOK'
  <2>1. <<x>> \in Seq(Items)
    OBVIOUS
  <2>2. req' \in [Requests -> [op : Ops, ids : Seq(Items), done : Nat, number : Nat]]
    BY <1>1, <1>2, <1>4, <2>1, Types DEF Ops
  <2>3. \A q \in Requests :
          Written(q)' = IF req'[q].op = "create" THEN {} ELSE Reached(q)' \cap Present'
    <3>1. TAKE q \in Requests
    <3>2. Written(q)' = Written(q)
      BY <1>3 DEF Written
    <3>3. CASE q = r
      <4>1. Reached(r) = {}
        BY <1>1, <1>3 DEF Reached, Ids, Idle
      <4>2. Written(r) = {}
        BY <1>1, <4>1, Types
      <4>3. req'[r].op = "create"
        BY <1>5
      <4>4. QED
        BY <3>2, <3>3, <4>2, <4>3
    <3>4. CASE q # r
      <4>1. Reached(q)' = Reached(q)
        BY <1>5, <3>4 DEF Reached
      <4>2. QED
        BY <1>1, <1>5, <1>6, <3>2, <3>4, <4>1, Types
    <3>5. QED
      BY <3>3, <3>4
  <2>4. QED
    BY <1>1, <1>3, <1>6, <2>2, <2>3 DEF TypeOK
<1>10. Ids'
  <2>1. SUFFICES ASSUME NEW q \in Requests
                 PROVE  /\ req'[q].done <= Len(req'[q].ids)
                        /\ req'[q].op = "none" => req'[q] = Idle
                        /\ req'[q].op # "create" => Range(req'[q].ids) \subseteq ever
                        /\ req'[q].op = "create" =>
                             \E y \in Items \ ever : req'[q].ids = <<y>> /\ req'[q].done = 1
                        /\ req'[q].op = "reorder" => Len(req'[q].ids) > 0
                        /\ req'[q].op = "drop" => parent /\ Present \subseteq Range(req'[q].ids)
    BY <1>3, <1>6 DEF Ids, Idle
  <2>2. CASE q = r
    <3>1. Len(<<x>>) = 1 /\ x \in Items \ ever
      BY <1>3
    <3>2. /\ req'[r].op = "create" /\ req'[r].ids = <<x>> /\ req'[r].done = 1
          /\ "create" \notin {"none", "reorder", "drop"}
      BY <1>5
    <3>3. QED
      BY <2>2, <3>1, <3>2
  <2>3. CASE q # r
    BY <1>1, <1>5, <2>3 DEF Ids
  <2>4. QED
    BY <2>2, <2>3
<1>11. \A q \in Creating : /\ q # r /\ req'[q] = req[q] /\ req[q].ids[1] # x
                          /\ {x, req[q].ids[1]} \in overlapped'
                          /\ {req[q].ids[1], x} = {x, req[q].ids[1]}
  <2>1. TAKE q \in Creating
  <2>2. q # r /\ req'[q] = req[q]
    BY <1>5, <1>8 DEF Creating
  <2>3. PICK y \in Items : req[q].ids = <<y>>
    BY <1>1 DEF Ids, Creating
  <2>4. req[q].ids[1] # x
    BY <1>3, <2>3
  <2>5. QED
    BY <1>3, <2>2, <2>4
<1>12. req'[r].ids[1] = x
  BY <1>5
<1>13. Holders'
  <2>1. SUFFICES ASSUME NEW p \in Creating', NEW q \in Creating', p # q
                 PROVE  /\ req'[p].ids[1] # req'[q].ids[1]
                        /\ {req'[p].ids[1], req'[q].ids[1]} \in overlapped'
    BY <1>3, <1>8 DEF Holders
  <2>2. CASE p = r
    BY <1>8, <1>11, <1>12, <2>1, <2>2
  <2>3. CASE q = r
    BY <1>8, <1>11, <1>12, <2>1, <2>3
  <2>4. CASE p # r /\ q # r
    <3>1. p \in Creating /\ q \in Creating
      BY <1>8, <2>4
    <3>2. QED
      BY <1>1, <1>3, <1>11, <2>1, <3>1 DEF Holders
  <2>5. QED
    BY <2>2, <2>3, <2>4
<1>14. Numbered'
  <2>1. SUFFICES ASSUME NEW q \in Creating', NEW y \in Present
                 PROVE  index[y] < req'[q].number \/ from[y] # <<>> \/ {y, req'[q].ids[1]} \in overlapped'
    BY <1>3, <1>6 DEF Numbered
  <2>2. CASE q = r
    BY <1>4, <1>5, <2>2
  <2>3. CASE q # r
    BY <1>1, <1>3, <1>8, <1>11, <2>3 DEF Numbered
  <2>4. QED
    BY <2>2, <2>3
<1>15. QED
  BY <1>7, <1>9, <1>10, <1>13, <1>14 DEF IInv

-----------------------------------------------------------------------------
(* Steps that end a transaction                                            *)

\* A transaction that ends leaves the others as they were.
LEMMA Released ==
  ASSUME TypeOK, NEW r \in Requests, Release(r)
  PROVE  /\ lock' \in [Items -> Requests \cup {NoRequest}]
         /\ req'[r] = Idle /\ \A q \in Requests \ {r} : req'[q] = req[q]
         /\ req' \in [Requests -> [op : Ops, ids : Seq(Items), done : Nat, number : Nat]]
         /\ Written(r)' = {} /\ \A q \in Requests \ {r} : Written(q)' = Written(q)
         /\ Reached(r)' = {} /\ \A q \in Requests \ {r} : Reached(q)' = Reached(q)
         /\ Creating' = Creating \ {r} /\ Dropping' = Dropping \ {r}
<1>1. /\ lock' = [x \in Items |-> IF lock[x] = r THEN NoRequest ELSE lock[x]]
      /\ req' = [req EXCEPT ![r] = Idle]
  BY DEF Release
<1>2. Idle \in [op : Ops, ids : Seq(Items), done : Nat, number : Nat]
  BY DEF Idle, Ops
<1>3. /\ req'[r] = Idle /\ \A q \in Requests \ {r} : req'[q] = req[q]
      /\ req' \in [Requests -> [op : Ops, ids : Seq(Items), done : Nat, number : Nat]]
  BY <1>1, <1>2, Types
<1>4. lock' \in [Items -> Requests \cup {NoRequest}]
  BY <1>1, Types
<1>5. Written(r)' = {} /\ \A q \in Requests \ {r} : Written(q)' = Written(q)
  BY <1>1, RequestAssumption DEF Written
<1>6. Reached(r)' = {} /\ \A q \in Requests \ {r} : Reached(q)' = Reached(q)
  BY <1>3 DEF Reached, Idle
<1>7. Creating' = Creating \ {r} /\ Dropping' = Dropping \ {r}
  BY <1>3 DEF Creating, Dropping, Idle
<1>8. QED
  BY <1>3, <1>4, <1>5, <1>6, <1>7

\* What the table may become for the transactions that go on.
Compatible(r) ==
  /\ parent' \in BOOLEAN /\ index' \in [Items -> Nat \cup {Absent}]
  /\ ever \subseteq ever' /\ ever' \subseteq Items /\ Present' \subseteq ever'
  /\ from' \in [Items -> Seq(Items)] /\ overlapped' = overlapped
  /\ \A q \in Requests \ {r} : req[q].op # "create" => Reached(q) \cap Present' = Reached(q) \cap Present
  /\ \A q \in Creating \ {r} : req[q].ids[1] \notin ever' /\ parent'
  /\ \A q \in Dropping \ {r} : parent' /\ Present' \subseteq Range(req[q].ids)

LEMMA ReleaseKeeps ==
  ASSUME IInv, NEW r \in Requests, Release(r), Compatible(r)
  PROVE  TypeOK' /\ Ids' /\ Holders'
<1>1. TypeOK /\ Ids /\ Holders
  BY DEF IInv
<1>2. /\ lock' \in [Items -> Requests \cup {NoRequest}]
      /\ req'[r] = Idle /\ \A q \in Requests \ {r} : req'[q] = req[q]
      /\ req' \in [Requests -> [op : Ops, ids : Seq(Items), done : Nat, number : Nat]]
      /\ Written(r)' = {} /\ \A q \in Requests \ {r} : Written(q)' = Written(q)
      /\ Reached(r)' = {} /\ \A q \in Requests \ {r} : Reached(q)' = Reached(q)
      /\ Creating' = Creating \ {r} /\ Dropping' = Dropping \ {r}
  BY <1>1, Released
<1>3. TypeOK'
  <2>1. \A q \in Requests :
          Written(q)' = IF req'[q].op = "create" THEN {} ELSE Reached(q)' \cap Present'
    <3>1. TAKE q \in Requests
    <3>2. CASE q = r
      BY <1>2, <3>2
    <3>3. CASE q # r
      <4>1. Written(q) = IF req[q].op = "create" THEN {} ELSE Reached(q) \cap Present
        BY <1>1, Types
      <4>2. QED
        BY <1>2, <3>3, <4>1 DEF Compatible
    <3>4. QED
      BY <3>2, <3>3
  <2>2. QED
    BY <1>2, <2>1 DEF TypeOK, Compatible
<1>4. Ids'
  <2>1. SUFFICES ASSUME NEW q \in Requests
                 PROVE  /\ req'[q].done <= Len(req'[q].ids)
                        /\ req'[q].op = "none" => req'[q] = Idle
                        /\ req'[q].op # "create" => Range(req'[q].ids) \subseteq ever'
                        /\ req'[q].op = "create" =>
                             \E y \in Items \ ever' : req'[q].ids = <<y>> /\ req'[q].done = 1
                        /\ req'[q].op = "reorder" => Len(req'[q].ids) > 0
                        /\ req'[q].op = "drop" => parent' /\ Present' \subseteq Range(req'[q].ids)
    BY DEF Ids, Idle
  <2>2. CASE q = r
    <3>1. Range(<<>>) = {} /\ Len(<<>>) = 0
      BY DEF Range
    <3>2. QED
      BY <1>2, <2>2, <3>1 DEF Idle
  <2>3. CASE q # r
    <3>1. req'[q] = req[q]
      BY <1>2, <2>3
    <3>2. CASE req[q].op = "create"
      <4>1. PICK y \in Items \ ever : req[q].ids = <<y>> /\ req[q].done = 1
        BY <1>1, <3>2 DEF Ids
      <4>2. y \notin ever'
        BY <2>3, <3>2, <4>1 DEF Compatible, Creating
      <4>3. Len(req[q].ids) = 1
        BY <4>1
      <4>4. QED
        BY <3>1, <3>2, <4>1, <4>2, <4>3
    <3>3. CASE req[q].op # "create"
      <4>1. Range(req[q].ids) \subseteq ever'
        BY <1>1, <3>3 DEF Ids, Compatible
      <4>2. req[q].op = "drop" => parent' /\ Present' \subseteq Range(req[q].ids)
        BY <2>3 DEF Compatible, Dropping
      <4>3. QED
        BY <1>1, <3>1, <3>3, <4>1, <4>2 DEF Ids
    <3>4. QED
      BY <3>2, <3>3
  <2>4. QED
    BY <2>2, <2>3
<1>5. Holders'
  <2>1. Creating' # {} => parent' /\ Dropping' = {}
    BY <1>1, <1>2 DEF Holders, Compatible
  <2>2. \A p, q \in Dropping' : p = q
    BY <1>1, <1>2 DEF Holders
  <2>3. ASSUME NEW p \in Creating', NEW q \in Creating', p # q
        PROVE  /\ req'[p].ids[1] # req'[q].ids[1]
               /\ {req'[p].ids[1], req'[q].ids[1]} \in overlapped'
    <3>1. p \in Creating /\ q \in Creating /\ req'[p] = req[p] /\ req'[q] = req[q]
      BY <1>2, <2>3 DEF Creating
    <3>2. req[p].ids[1] # req[q].ids[1] /\ {req[p].ids[1], req[q].ids[1]} \in overlapped
      BY <1>1, <2>3, <3>1 DEF Holders
    <3>3. QED
      BY <3>1, <3>2 DEF Compatible
  <2>4. QED
    BY <2>1, <2>2, <2>3 DEF Holders
<1>6. QED
  BY <1>3, <1>4, <1>5

\* The numbers of the rows still being created.
LEMMA NumberedKeeps ==
  ASSUME IInv, NEW r \in Requests, Release(r), overlapped' = overlapped,
         \A q \in Creating \ {r} : \A y \in Present' :
           index'[y] < req[q].number \/ from'[y] # <<>> \/ {y, req[q].ids[1]} \in overlapped
  PROVE  Numbered'
<1>1. TypeOK
  BY DEF IInv
<1>2. Creating' = Creating \ {r} /\ \A q \in Creating' : req'[q] = req[q]
  BY <1>1, Released DEF Creating
<1>3. QED
  BY <1>2 DEF Numbered

LEMMA RollbackIInv ==
  ASSUME IInv, NEW r \in Requests, Rollback(r)
  PROVE  IInv'
<1>1. Release(r) /\ UNCHANGED table
  BY DEF Rollback
<1>2. Present' = Present /\ TypeOK
  BY <1>1 DEF table, Present, IInv
<1>3. Placed' /\ Created' /\ WholeReorder' /\ NoOrphan'
  BY <1>1, TableKeeps DEF IInv
<1>4. Compatible(r)
  <2>1. \A q \in Creating : req[q].ids[1] \notin ever /\ parent
    <3>1. TAKE q \in Creating
    <3>2. PICK y \in Items \ ever : req[q].ids = <<y>>
      BY DEF IInv, Ids, Creating
    <3>3. QED
      BY <3>2 DEF IInv, Holders
  <2>2. \A q \in Dropping : parent /\ Present \subseteq Range(req[q].ids)
    BY DEF IInv, Ids, Dropping
  <2>3. QED
    BY <1>1, <1>2, <2>1, <2>2, Types DEF Compatible, table
<1>5. TypeOK' /\ Ids' /\ Holders'
  BY <1>1, <1>4, ReleaseKeeps
<1>6. Numbered'
  BY <1>1, <1>2, NumberedKeeps DEF IInv, Numbered, table
<1>7. QED
  BY <1>3, <1>5, <1>6 DEF IInv

\* COMMIT of Create.
LEMMA CommitCreateIInv ==
  ASSUME IInv, NEW r \in Requests, CommitCreate(r), Release(r), overlapped' = overlapped
  PROVE  IInv'
<1>1. TypeOK /\ Ids /\ Holders /\ Numbered /\ Placed /\ Created /\ WholeReorder
  BY DEF IInv
<1>2. r \in Creating /\ req[r].number \in Nat
  BY <1>1, Types DEF CommitCreate, Creating
<1>3. PICK z \in Items \ ever : req[r].ids = <<z>>
  BY <1>1, <1>2 DEF Ids, Creating
<1>4. /\ index' = [index EXCEPT ![z] = req[r].number] /\ ever' = ever \cup {z}
      /\ parent' = parent /\ from' = from
  BY <1>3 DEF CommitCreate
<1>5. /\ index' \in [Items -> Nat \cup {Absent}] /\ index'[z] = req[r].number
      /\ \A x \in Items \ {z} : index'[x] = index[x]
  BY <1>1, <1>2, <1>3, <1>4, Types
<1>6. Present' = Present \cup {z} /\ z \notin Present /\ from[z] = <<>> /\ parent = TRUE
  <2>1. index'[z] # Absent
    BY <1>2, <1>5 DEF Absent
  <2>2. z \notin Present
    BY <1>1, <1>3, Types
  <2>3. QED
    BY <1>1, <1>2, <1>5, <2>1, <2>2, Types DEF Present, Placed, Holders
<1>7. \A q \in Creating \ {r} : /\ req[q].ids[1] \notin ever /\ req[q].ids[1] # z
                                /\ {z, req[q].ids[1]} \in overlapped
  <2>1. TAKE q \in Creating \ {r}
  <2>2. PICK y \in Items \ ever : req[q].ids = <<y>>
    BY <1>1 DEF Ids, Creating
  <2>3. req[r].ids[1] # req[q].ids[1] /\ {req[r].ids[1], req[q].ids[1]} \in overlapped
    BY <1>1, <1>2 DEF Holders
  <2>4. QED
    BY <1>3, <2>2, <2>3
<1>8. Compatible(r)
  <2>1. \A q \in Requests : req[q].op # "create" => Reached(q) \cap Present' = Reached(q) \cap Present
    BY <1>1, <1>3, <1>6, ReachedEver
  <2>2. Dropping = {}
    BY <1>1, <1>2 DEF Holders
  <2>3. QED
    BY <1>1, <1>3, <1>4, <1>5, <1>6, <1>7, <2>1, <2>2, Types DEF Compatible
<1>9. TypeOK' /\ Ids' /\ Holders'
  BY <1>8, ReleaseKeeps
<1>10. Numbered'
  <2>1. SUFFICES ASSUME NEW q \in Creating \ {r}, NEW y \in Present'
                 PROVE  index'[y] < req[q].number \/ from'[y] # <<>> \/ {y, req[q].ids[1]} \in overlapped
    BY NumberedKeeps
  <2>2. CASE y = z
    BY <1>7, <2>2
  <2>3. CASE y # z
    BY <1>1, <1>4, <1>5, <1>6, <2>3, Types DEF Numbered
  <2>4. QED
    BY <2>2, <2>3
<1>11. Placed'
  BY <1>1, <1>4, <1>5, <1>6, Types DEF Placed
<1>12. Created'
  <2>1. \A y \in Present : from[y] = <<>> /\ index[y] = req[r].number => {y, z} \in overlapped
    <3>1. SUFFICES ASSUME NEW y \in Present, from[y] = <<>>, index[y] = req[r].number
                   PROVE  {y, z} \in overlapped
      OBVIOUS
    <3>2. r \in Creating /\ req[r].ids[1] = z
      BY <1>1, <1>2, <1>3 DEF Creating
    <3>3. index[y] < req[r].number \/ {y, z} \in overlapped
      BY <1>1, <3>1, <3>2 DEF Numbered
    <3>4. index[y] \in Nat
      BY <1>1, <3>1, Types
    <3>5. ~(index[y] < req[r].number)
      BY <3>1, <3>4
    <3>6. QED
      BY <3>3, <3>5
  <2>2. \A y : {y, z} = {z, y}
    OBVIOUS
  <2>3. SUFFICES ASSUME NEW x \in Present', NEW y \in Present', x # y, from[x] = <<>>, from[y] = <<>>,
                        index'[x] = index'[y]
                 PROVE  {x, y} \in overlapped
    BY <1>4 DEF Created
  <2>4. CASE x = z
    <3>1. y \in Present /\ index[y] = req[r].number
      BY <1>5, <1>6, <2>3, <2>4 DEF Present
    <3>2. QED
      BY <2>1, <2>2, <2>3, <2>4, <3>1
  <2>5. CASE y = z
    <3>1. x \in Present /\ index[x] = req[r].number
      BY <1>5, <1>6, <2>3, <2>5 DEF Present
    <3>2. QED
      BY <2>1, <2>3, <2>5, <3>1
  <2>6. CASE x # z /\ y # z
    BY <1>1, <1>5, <1>6, <2>3, <2>6, Types DEF Created
  <2>7. QED
    BY <2>4, <2>5, <2>6
<1>13. WholeReorder'
  <2>1. Range(<<>>) = {}
    BY DEF Range
  <2>2. SUFFICES ASSUME NEW x \in Present', NEW y \in Present', y \in Range(from[x])
                 PROVE  from[y] = from[x] \/ (from[y] # <<>> /\ x \notin Range(from[y]))
    BY <1>4 DEF WholeReorder
  <2>3. x # z
    BY <1>6, <2>1, <2>2
  <2>4. y # z
    BY <1>1, <1>3, <1>6, <2>2, <2>3, Types DEF Placed
  <2>5. QED
    BY <1>1, <1>6, <2>2, <2>3, <2>4 DEF WholeReorder
<1>14. NoOrphan'
  BY <1>4, <1>6 DEF NoOrphan
<1>15. QED
  BY <1>9, <1>10, <1>11, <1>12, <1>13, <1>14 DEF IInv

\* COMMIT of Reorder: every row of its list that exists is where the list has it.
LEMMA CommitReorderIInv ==
  ASSUME IInv, NEW r \in Requests, ~Pending(r), CommitReorder(r), Release(r), overlapped' = overlapped
  PROVE  IInv'
<1>1. TypeOK /\ Ids /\ Holders /\ Numbered /\ Placed /\ Created /\ WholeReorder /\ NoOrphan
  BY DEF IInv
<1>2. req[r].op = "reorder" /\ parent' = parent /\ ever' = ever
  BY DEF CommitReorder
<1>3. PICK s \in Seq(Items) : s = req[r].ids
  BY <1>1, Types
<1>4. s # <<>> /\ Range(s) \subseteq ever /\ Len(s) \in Nat
  BY <1>1, <1>2, <1>3 DEF Ids
<1>5. PICK W : W = Written(r)
  OBVIOUS
<1>6. W = Range(s) \cap Present
  <2>1. Reached(r) = Range(s)
    BY <1>1, <1>3, AllReached DEF Ids
  <2>2. QED
    BY <1>1, <1>2, <1>5, <2>1, Types
<1>7. /\ index' = [x \in Items |-> IF x \in W THEN LastPlace(s, x) ELSE index[x]]
      /\ from' = [x \in Items |-> IF x \in W THEN s ELSE from[x]]
  BY <1>3, <1>5 DEF CommitReorder
<1>8. \A x \in W : index'[x] \in Nat /\ index'[x] + 1 \in DOMAIN s /\ s[index'[x] + 1] = x
  <2>1. TAKE x \in W
  <2>2. x \in Items /\ x \in Range(s)
    BY <1>5, <1>6 DEF Written
  <2>3. index'[x] = LastPlace(s, x)
    BY <1>7, <2>1, <2>2
  <2>4. index'[x] \in 0 .. Len(s) - 1 /\ s[index'[x] + 1] = x
    BY <2>2, <2>3, LastPlaceIs
  <2>5. QED
    BY <1>3, <1>4, <2>4
<1>9. /\ \A x \in W : from'[x] = s
      /\ \A x \in Items \ W : index'[x] = index[x] /\ from'[x] = from[x]
      /\ W \subseteq Present
  BY <1>1, <1>6, <1>7, Types
<1>10. index' \in [Items -> Nat \cup {Absent}] /\ from' \in [Items -> Seq(Items)]
  <2>1. \A x \in Items : (IF x \in W THEN LastPlace(s, x) ELSE index[x])
                          \in Nat \cup {Absent}
    BY <1>1, <1>7, <1>8, Types
  <2>2. QED
    BY <1>1, <1>7, <2>1, Types
<1>11. Present' = Present
  <2>1. \A n \in Nat : n # Absent
    BY DEF Absent
  <2>2. \A x \in W : index'[x] # Absent
    BY <1>8, <2>1
  <2>3. QED
    BY <1>9, <2>2 DEF Present
<1>12. Compatible(r)
  <2>1. \A q \in Creating : req[q].ids[1] \notin ever /\ parent
    <3>1. TAKE q \in Creating
    <3>2. PICK y \in Items \ ever : req[q].ids = <<y>>
      BY <1>1 DEF Ids, Creating
    <3>3. QED
      BY <1>1, <3>2 DEF Holders
  <2>2. \A q \in Dropping : parent /\ Present \subseteq Range(req[q].ids)
    BY <1>1 DEF Ids, Dropping
  <2>3. QED
    BY <1>1, <1>2, <1>10, <1>11, <2>1, <2>2, Types DEF Compatible
<1>13. TypeOK' /\ Ids' /\ Holders'
  BY <1>12, ReleaseKeeps
<1>14. Numbered'
  <2>1. SUFFICES ASSUME NEW q \in Creating \ {r}, NEW y \in Present'
                 PROVE  index'[y] < req[q].number \/ from'[y] # <<>> \/ {y, req[q].ids[1]} \in overlapped
    BY NumberedKeeps
  <2>2. CASE y \in W
    BY <1>4, <1>9, <2>2
  <2>3. CASE y \notin W
    BY <1>1, <1>9, <1>11, <2>3, Types DEF Numbered
  <2>4. QED
    BY <2>2, <2>3
<1>15. Placed'
  <2>1. SUFFICES ASSUME NEW x \in Items
                 PROVE  /\ Range(from'[x]) \subseteq ever /\ (x \notin Present => from'[x] = <<>>)
                        /\ x \in Present /\ from'[x] # <<>> =>
                             /\ index'[x] + 1 \in DOMAIN from'[x] /\ from'[x][index'[x] + 1] = x
    BY <1>1, <1>2, <1>11, Types DEF Placed
  <2>2. CASE x \in W
    BY <1>4, <1>8, <1>9, <2>2
  <2>3. CASE x \notin W
    BY <1>1, <1>9, <2>3 DEF Placed
  <2>4. QED
    BY <2>2, <2>3
<1>16. Created'
  BY <1>1, <1>4, <1>9, <1>11, Types DEF Created
<1>17. WholeReorder'
  <2>1. SUFFICES ASSUME NEW x \in Present, NEW y \in Present, y \in Range(from'[x])
                 PROVE  from'[y] = from'[x] \/ (from'[y] # <<>> /\ x \notin Range(from'[y]))
    BY <1>11 DEF WholeReorder
  <2>2. x \in Items /\ y \in Items
    BY <1>1, Types
  <2>3. CASE x \in W
    <3>1. y \in W
      BY <1>6, <1>9, <2>1, <2>3
    <3>2. QED
      BY <1>9, <2>3, <3>1
  <2>4. CASE x \notin W /\ y \in W
    BY <1>4, <1>6, <1>9, <2>1, <2>4
  <2>5. CASE x \notin W /\ y \notin W
    BY <1>1, <1>9, <2>1, <2>2, <2>5 DEF WholeReorder
  <2>6. QED
    BY <2>3, <2>4, <2>5
<1>18. NoOrphan'
  BY <1>1, <1>2, <1>11 DEF NoOrphan
<1>19. QED
  BY <1>13, <1>14, <1>15, <1>16, <1>17, <1>18 DEF IInv

\* COMMIT of a DELETE, of one row or of the parent and all its rows.
LEMMA CommitDeleteIInv ==
  ASSUME IInv, NEW r \in Requests, ~Pending(r), CommitDelete(r), Release(r), overlapped' = overlapped
  PROVE  IInv'
<1>1. TypeOK /\ Ids /\ Holders /\ Numbered /\ Placed /\ Created /\ WholeReorder /\ NoOrphan
  BY DEF IInv
<1>2. PICK W : W = Written(r)
  OBVIOUS
<1>3. /\ req[r].op \in {"delete", "drop"} /\ ever' = ever
      /\ parent' = (parent /\ req[r].op = "delete")
      /\ index' = [x \in Items |-> IF x \in W THEN Absent ELSE index[x]]
      /\ from' = [x \in Items |-> IF x \in W THEN <<>> ELSE from[x]]
  BY <1>2 DEF CommitDelete
<1>4. /\ index' \in [Items -> Nat \cup {Absent}] /\ from' \in [Items -> Seq(Items)]
      /\ \A x \in Items : x \in W => index'[x] = Absent /\ from'[x] = <<>>
      /\ \A x \in Items \ W : index'[x] = index[x] /\ from'[x] = from[x]
  BY <1>1, <1>3, Types
<1>5. W \subseteq Items /\ Present' = Present \ W
  BY <1>2, <1>4 DEF Present, Written
<1>6. \A q \in Requests \ {r} : Written(q) \cap W = {}
  BY <1>2 DEF Written
<1>7. req[r].op = "drop" => Present' = {}
  <2>1. SUFFICES ASSUME req[r].op = "drop"
                 PROVE  Present \subseteq W
    BY <1>5
  <2>2. Reached(r) = Range(req[r].ids)
    BY <1>1, AllReached DEF Ids
  <2>3. W = Reached(r) \cap Present
    BY <1>1, <1>2, <2>1, Types
  <2>4. QED
    BY <1>1, <2>1, <2>2, <2>3 DEF Ids
<1>8. Compatible(r)
  <2>1. \A q \in Requests \ {r} : req[q].op # "create" => Reached(q) \cap Present' = Reached(q) \cap Present
    <3>1. \A q \in Requests \ {r} : req[q].op # "create" => Reached(q) \cap Present \cap W = {}
      BY <1>1, <1>6, Types
    <3>2. QED
      BY <1>5, <3>1
  <2>2. \A q \in Creating : req[q].ids[1] \notin ever /\ parent'
    <3>1. TAKE q \in Creating
    <3>2. PICK y \in Items \ ever : req[q].ids = <<y>>
      BY <1>1 DEF Ids, Creating
    <3>3. parent /\ req[r].op # "drop"
      BY <1>1 DEF Holders, Dropping
    <3>4. parent'
      BY <1>3, <3>3
    <3>5. req[q].ids[1] = y
      BY <3>2
    <3>6. QED
      BY <3>2, <3>4, <3>5
  <2>3. \A q \in Dropping \ {r} : parent' /\ Present' \subseteq Range(req[q].ids)
    <3>1. TAKE q \in Dropping \ {r}
    <3>2. req[r].op # "drop"
      BY <1>1, <3>1 DEF Holders, Dropping
    <3>3. parent /\ Present \subseteq Range(req[q].ids)
      BY <1>1 DEF Ids, Dropping
    <3>4. QED
      BY <1>3, <1>5, <3>2, <3>3
  <2>4. parent' \in BOOLEAN
    BY <1>3
  <2>5. QED
    BY <1>1, <1>3, <1>4, <1>5, <2>1, <2>2, <2>3, <2>4, Types DEF Compatible
<1>9. TypeOK' /\ Ids' /\ Holders'
  BY <1>8, ReleaseKeeps
<1>10. Numbered'
  <2>1. SUFFICES ASSUME NEW q \in Creating \ {r}, NEW y \in Present'
                 PROVE  index'[y] < req[q].number \/ from'[y] # <<>> \/ {y, req[q].ids[1]} \in overlapped
    BY NumberedKeeps
  <2>2. QED
    BY <1>1, <1>4, <1>5, Types DEF Numbered
<1>11. Placed'
  <2>1. SUFFICES ASSUME NEW x \in Items
                 PROVE  /\ Range(from'[x]) \subseteq ever /\ (x \notin Present' => from'[x] = <<>>)
                        /\ x \in Present' /\ from'[x] # <<>> =>
                             /\ index'[x] + 1 \in DOMAIN from'[x] /\ from'[x][index'[x] + 1] = x
    BY <1>3, <1>5, Types, <1>1 DEF Placed
  <2>2. CASE x \in W
    <3>1. Range(<<>>) = {}
      BY DEF Range
    <3>2. QED
      BY <1>4, <1>5, <2>2, <3>1
  <2>3. CASE x \notin W
    BY <1>1, <1>4, <1>5, <2>3 DEF Placed
  <2>4. QED
    BY <2>2, <2>3
<1>12. Created'
  BY <1>1, <1>4, <1>5, Types DEF Created
<1>13. WholeReorder'
  BY <1>1, <1>4, <1>5, Types DEF WholeReorder
<1>14. NoOrphan'
  BY <1>1, <1>3, <1>5, <1>7 DEF NoOrphan
<1>15. QED
  BY <1>9, <1>10, <1>11, <1>12, <1>13, <1>14 DEF IInv

\* COMMIT of an Update.
LEMMA CommitUpdateIInv ==
  ASSUME IInv, NEW r \in Requests, CommitUpdate(r), Release(r), overlapped' = overlapped
  PROVE  IInv'
<1>1. UNCHANGED table
  BY DEF CommitUpdate, table
<1>2. QED
  BY <1>1, RollbackIInv DEF Rollback

-----------------------------------------------------------------------------
(* The theorems                                                            *)

LEMMA StutterIInv ==
  ASSUME IInv, UNCHANGED vars
  PROVE  IInv'
<1>1. /\ UNCHANGED <<table, lock, req>> /\ lock' = lock /\ req' = req
  BY DEF vars
<1>2. Placed' /\ Created' /\ WholeReorder' /\ NoOrphan'
  BY <1>1, TableKeeps DEF IInv
<1>3. /\ Present' = Present /\ Creating' = Creating /\ Dropping' = Dropping
      /\ \A r : Reached(r)' = Reached(r) /\ Written(r)' = Written(r)
  BY <1>1 DEF table, Present, Creating, Dropping, Reached, Written
<1>4. TypeOK'
  BY <1>1, <1>3 DEF IInv, TypeOK, table
<1>5. Ids'
  BY <1>1, <1>3 DEF IInv, Ids, table, Idle
<1>6. Holders'
  <2>1. /\ Creating' # {} => parent' /\ Dropping' = {}
        /\ \A p, q \in Dropping' : p = q
    BY <1>1, <1>3 DEF IInv, Holders, table
  <2>2. SUFFICES ASSUME NEW p \in Creating', NEW q \in Creating', p # q
                 PROVE  req'[p].ids[1] # req'[q].ids[1] /\ {req'[p].ids[1], req'[q].ids[1]} \in overlapped'
    BY <2>1 DEF Holders
  <2>3. QED
    BY <1>1, <1>3, <2>2 DEF IInv, Holders, table
<1>7. Numbered'
  <2>1. SUFFICES ASSUME NEW q \in Creating', NEW y \in Present'
                 PROVE  index'[y] < req'[q].number \/ from'[y] # <<>> \/ {y, req'[q].ids[1]} \in overlapped'
    BY DEF Numbered
  <2>2. QED
    BY <1>1, <1>3, <2>1 DEF IInv, Numbered, table
<1>8. QED
  BY <1>2, <1>4, <1>5, <1>6, <1>7 DEF IInv

LEMMA NextIInv ==
  ASSUME IInv, [Next]_vars
  PROVE  IInv'
<1>1. TypeOK /\ ever \subseteq Items
  BY Types DEF IInv
<1>2. CASE UNCHANGED vars
  BY <1>2, StutterIInv
<1>3. ASSUME NEW r \in Requests, NEW x \in Items, InsertSelect(r, x)
      PROVE  IInv'
  BY <1>3, InsertIInv
<1>4. ASSUME NEW r \in Requests, NEW x \in Items, BeginUpdate(r, x) \/ BeginDelete(r, x)
      PROVE  IInv'
  <2>1. <<x>> \in Seq(Items) /\ Range(<<x>>) \subseteq {x}
    BY DEF Range
  <2>2. x \in ever /\ UNCHANGED <<table, lock>>
    BY <1>4 DEF BeginUpdate, BeginDelete
  <2>3. CASE Begin(r, "edit", <<x>>)
    BY <2>1, <2>2, <2>3, BeginIInv
  <2>4. CASE Begin(r, "delete", <<x>>)
    BY <2>1, <2>2, <2>4, BeginIInv
  <2>5. QED
    BY <1>4, <2>3, <2>4 DEF BeginUpdate, BeginDelete
<1>5. ASSUME NEW r \in Requests, BeginReorder(r)
      PROVE  IInv'
  <2>1. PICK ids \in Lists : Begin(r, "reorder", ids) /\ UNCHANGED <<table, lock>>
    BY <1>5 DEF BeginReorder
  <2>2. ids \in Seq(Items) /\ Len(ids) > 0 /\ Range(ids) \subseteq ever
    BY <1>1, ListSeq
  <2>3. QED
    BY <2>1, <2>2, BeginIInv
<1>6. ASSUME NEW r \in Requests, BeginDrop(r)
      PROVE  IInv'
  <2>1. PICK ids \in Orders(Present) : Begin(r, "drop", ids)
    BY <1>6 DEF BeginDrop
  <2>2. parent /\ Creating = {} /\ Dropping = {} /\ UNCHANGED <<table, lock>>
    BY <1>6 DEF BeginDrop
  <2>3. ids \in Seq(Present) /\ Range(ids) = Present
    BY <1>1, PresentFinite, OrderSeq
  <2>4. ids \in Seq(Items) /\ Range(ids) \subseteq ever
    BY <1>1, <2>3, Types
  <2>5. QED
    BY <2>1, <2>2, <2>3, <2>4, BeginIInv
<1>7. ASSUME NEW r \in Requests, Statement(r)
      PROVE  IInv'
  BY <1>7, StatementIInv
<1>8. ASSUME NEW r \in Requests, Commit(r)
      PROVE  IInv'
  <2>1. Release(r) /\ overlapped' = overlapped /\ ~Pending(r)
    BY <1>8 DEF Commit
  <2>2. QED
    BY <1>8, <2>1, CommitCreateIInv, CommitReorderIInv, CommitUpdateIInv, CommitDeleteIInv DEF Commit
<1>9. ASSUME NEW r \in Requests, Fail(r) \/ Deadlock(r)
      PROVE  IInv'
  BY <1>9, RollbackIInv DEF Fail, Deadlock
<1>10. QED
  BY <1>2, <1>3, <1>4, <1>5, <1>6, <1>7, <1>8, <1>9 DEF Next

\* The inductive invariant holds in every reachable state.
THEOREM Invariance == Spec => []IInv
<1>1. Init => IInv
  BY InitIInv
<1>2. IInv /\ [Next]_vars => IInv'
  BY NextIInv
<1>3. QED
  BY <1>1, <1>2, PTL DEF Spec

\* Every variable keeps its type, and a transaction has written what it has
\* gone through.
THEOREM TypeCorrect == Spec => []TypeOK
<1>1. IInv => TypeOK
  BY DEF IInv
<1>2. QED
  BY <1>1, Invariance, PTL

\* No two reorders mix, and none takes effect in part, for any lists and any
\* number of requests (modules/repository.go:125-137).
THEOREM ReordersWhole == Spec => []WholeReorder
<1>1. IInv => WholeReorder
  BY DEF IInv
<1>2. QED
  BY <1>1, Invariance, PTL

\* Rows share an order_index only for the reasons SameIndexExcused names
\* (modules/repository.go:63-79).
THEOREM IndexShared == Spec => []SameIndexExcused
<1>1. IInv => SameIndexExcused
  <2>1. SUFFICES ASSUME IInv, NEW x \in Present, NEW y \in Present, x # y, index[x] = index[y]
                 PROVE  \/ {x, y} \in overlapped
                        \/ from[x] # <<>> /\ y \notin Range(from[x])
                        \/ from[y] # <<>> /\ x \notin Range(from[y])
    BY DEF SameIndexExcused
  <2>2. \A a, b \in Present : b \in Range(from[a]) =>
          from[b] = from[a] \/ (from[b] # <<>> /\ a \notin Range(from[b]))
    BY <2>1 DEF IInv, WholeReorder
  <2>3. \A a \in Present : from[a] # <<>> =>
          index[a] + 1 \in DOMAIN from[a] /\ from[a][index[a] + 1] = a
    BY <2>1 DEF IInv, Placed
  <2>4. CASE from[x] = <<>> /\ from[y] = <<>>
    BY <2>1, <2>4 DEF IInv, Created
  <2>5. ~(from[x] # <<>> /\ from[y] = from[x])
    BY <2>1, <2>3
  <2>6. QED
    BY <2>1, <2>2, <2>4, <2>5
<1>2. QED
  BY <1>1, Invariance, PTL

\* No row outlives its parent.
THEOREM Parented == Spec => []NoOrphan
<1>1. IInv => NoOrphan
  BY DEF IInv
<1>2. QED
  BY <1>1, Invariance, PTL
=============================================================================
