--------------------------- MODULE OrderedContent ---------------------------
(***************************************************************************)
(* The ordered children of one parent: the modules of a course, the        *)
(* lessons of a module, the attachments of a lesson.  Their repositories   *)
(* share one shape: Create numbers the new row after the others, Reorder   *)
(* sends one UPDATE for each id of a list, Update and Delete touch one     *)
(* row, deleting the parent cascades.  Each is one transaction, at READ    *)
(* COMMITTED, and their statements interleave: a statement that wants a    *)
(* row another transaction wrote waits until that one ends, and Postgres   *)
(* aborts one of those that wait for each other.                           *)
(*                                                                         *)
(* Attachments have no Reorder and no Update.  An id is drawn once.        *)
(***************************************************************************)
EXTENDS Integers, SequencesExt

CONSTANTS
  Requests,   \* transactions running at the same time
  Items,      \* ids of the children (bound: how many can be created)
  MaxIds,     \* length of the lists of Reorder (bound)
  NoRequest   \* nobody

ASSUME RequestAssumption == NoRequest \notin Requests
ASSUME BoundAssumption == IsFiniteSet(Items) /\ MaxIds \in Nat

VARIABLES
  parent,     \* the parent exists
  index,      \* committed order_index of each item, Absent without a row
  ever,       \* ids ever committed: those a client can name
  lock,       \* the transaction that wrote each row and has not ended
  req,        \* each transaction: its operation, ids and progress
  from,       \* history: the Reorder list each committed order_index is from, <<>> for Create
  overlapped  \* history: pairs created by transactions that overlapped

table == <<parent, index, ever, from, overlapped>>
vars  == <<table, lock, req>>

Absent  == -1
Present == {x \in Items : index[x] # Absent}

Ops  == {"none", "create", "reorder", "edit", "delete", "drop"}
Idle == [op |-> "none", ids |-> <<>>, done |-> 0, number |-> 0]

\* The sequences that have each element of S once.
Orders(S) ==
  {s \in UNION {[1 .. n -> S] : n \in 0 .. Cardinality(S)} : IsInjective(s) /\ Range(s) = S}

\* Rows r has written and not committed.
Written(r) == {x \in Items : lock[x] = r}

\* What any transaction does on its way out.
Release(r) ==
  /\ lock' = [x \in Items |-> IF lock[x] = r THEN NoRequest ELSE lock[x]]
  /\ req' = [req EXCEPT ![r] = Idle]

Begin(r, op, ids) ==
  /\ req[r].op = "none"
  /\ req' = [req EXCEPT ![r] = [op |-> op, ids |-> ids, done |-> 0, number |-> 0]]

-----------------------------------------------------------------------------
(* Create, AddAttachment                                                   *)

Creating == {r \in Requests : req[r].op = "create"}
Dropping == {r \in Requests : req[r].op = "drop"}

\* A fault: COUNT(*) for MAX(order_index) + 1.
NextNumberCount == {Cardinality(Present)}

\* COALESCE(MAX(order_index) + 1, 0), over the rows committed when it runs.
NextNumber ==
  IF Present = {} THEN {0}
  ELSE {index[x] + 1 : x \in {y \in Present : \A z \in Present : index[z] <= index[y]}}

\* A fault: the parent's id is no foreign key.
InsertSelectNoKey(r, x) ==
  /\ parent
  /\ x \notin ever /\ \A q \in Creating : req[q].ids # <<x>>
  /\ req[r].op = "none"
  /\ \E n \in NextNumber :
       req' = [req EXCEPT ![r] = [op |-> "create", ids |-> <<x>>, done |-> 1, number |-> n]]
  /\ overlapped' = overlapped \cup {{x, req[q].ids[1]} : q \in Creating}
  /\ UNCHANGED <<parent, index, ever, from, lock>>

\* The one INSERT; its foreign key holds the parent, or waits for its DELETE.
InsertSelect(r, x) ==
  /\ parent /\ Dropping = {}
  /\ x \notin ever /\ \A q \in Creating : req[q].ids # <<x>>
  /\ req[r].op = "none"
  /\ \E n \in NextNumber :
       req' = [req EXCEPT ![r] = [op |-> "create", ids |-> <<x>>, done |-> 1, number |-> n]]
  /\ overlapped' = overlapped \cup {{x, req[q].ids[1]} : q \in Creating}
  /\ UNCHANGED <<parent, index, ever, from, lock>>

-----------------------------------------------------------------------------
(* Reorder, Update, Delete, and the parent's Delete                        *)

\* The ids a client sends: rows it once saw, some of them gone by now, and
\* nothing keeps it from naming one twice.  The id of a row of another parent is
\* to this one what that of a row that is gone is: no child of it is written.
Lists == UNION {[1 .. n -> ever] : n \in 1 .. MaxIds}

BeginReorder(r) ==
  /\ \E ids \in Lists : Begin(r, "reorder", ids)
  /\ UNCHANGED <<table, lock>>

BeginUpdate(r, x) == x \in ever /\ Begin(r, "edit", <<x>>) /\ UNCHANGED <<table, lock>>

BeginDelete(r, x) == x \in ever /\ Begin(r, "delete", <<x>>) /\ UNCHANGED <<table, lock>>

\* DELETE of the parent, once no INSERT holds it: it cascades row by row.
BeginDrop(r) ==
  /\ parent /\ Creating = {} /\ Dropping = {}
  /\ \E ids \in Orders(Present) : Begin(r, "drop", ids)
  /\ UNCHANGED <<table, lock>>

Pending(r) == req[r].done < Len(req[r].ids)
NextId(r)  == req[r].ids[req[r].done + 1]

\* r waits for the transaction that wrote the row it wants.
Awaits(r, q) == Pending(r) /\ q # r /\ lock[NextId(r)] = q

\* A fault: no transaction, so that each UPDATE is committed on its own.
StatementAlone(r) ==
  /\ Pending(r) /\ lock[NextId(r)] \in {NoRequest, r}
  /\ req' = [req EXCEPT ![r].done = @ + 1]
  /\ IF req[r].op = "reorder" /\ NextId(r) \in Present
     THEN /\ index' = [index EXCEPT ![NextId(r)] = req[r].done]
          /\ from' = [from EXCEPT ![NextId(r)] = req[r].ids]
          /\ UNCHANGED lock
     ELSE /\ lock' = IF NextId(r) \in Present THEN [lock EXCEPT ![NextId(r)] = r] ELSE lock
          /\ UNCHANGED <<index, from>>
  /\ UNCHANGED <<parent, ever, overlapped>>

\* UPDATE or DELETE ... WHERE id = NextId(r): a row that is gone is no error.
Statement(r) ==
  /\ Pending(r) /\ lock[NextId(r)] \in {NoRequest, r}
  /\ lock' = IF NextId(r) \in Present THEN [lock EXCEPT ![NextId(r)] = r] ELSE lock
  /\ req' = [req EXCEPT ![r].done = @ + 1]
  /\ UNCHANGED table

-----------------------------------------------------------------------------
(* How a transaction ends                                                  *)

CommitCreate(r) ==
  LET x == req[r].ids[1] IN
  /\ req[r].op = "create"
  /\ index' = [index EXCEPT ![x] = req[r].number]
  /\ ever' = ever \cup {x}
  /\ UNCHANGED <<parent, from>>

\* The number the last UPDATE of row x gives it.
LastPlace(ids, x) ==
  CHOOSE i \in 0 .. Len(ids) - 1 : ids[i + 1] = x /\ \A j \in i + 2 .. Len(ids) : ids[j] # x

\* UPDATE ... SET order_index = i, of the rows it wrote.
CommitReorder(r) ==
  /\ req[r].op = "reorder"
  /\ index' = [x \in Items |-> IF x \in Written(r)
                               THEN LastPlace(req[r].ids, x) ELSE index[x]]
  /\ from' = [x \in Items |-> IF x \in Written(r) THEN req[r].ids ELSE from[x]]
  /\ UNCHANGED <<parent, ever>>

\* title, description, the video: not the order.
CommitUpdate(r) == req[r].op = "edit" /\ UNCHANGED <<parent, index, ever, from>>

CommitDelete(r) ==
  /\ req[r].op \in {"delete", "drop"}
  /\ index' = [x \in Items |-> IF x \in Written(r) THEN Absent ELSE index[x]]
  /\ from' = [x \in Items |-> IF x \in Written(r) THEN <<>> ELSE from[x]]
  /\ parent' = (parent /\ req[r].op = "delete")
  /\ UNCHANGED ever

Commit(r) ==
  /\ req[r].op # "none" /\ ~Pending(r)
  /\ CommitCreate(r) \/ CommitReorder(r) \/ CommitUpdate(r) \/ CommitDelete(r)
  /\ Release(r)
  /\ UNCHANGED overlapped

\* A fault: after an error the transaction is left open.
RollbackForgotten(r) == UNCHANGED vars

\* The deferred Rollback.
Rollback(r) == Release(r) /\ UNCHANGED table

\* A statement or the COMMIT fails, or the client goes away.
Fail(r) == req[r].op # "none" /\ Rollback(r)

\* Postgres finds r waiting for itself, and fails its statement.
Deadlock(r) ==
  /\ \E S \in SUBSET Requests :
       /\ r \in S
       /\ \A p \in S : \E q \in S : Awaits(p, q)
       /\ \A q \in S : \E p \in S : Awaits(p, q)
  /\ Rollback(r)

-----------------------------------------------------------------------------
\* Some of the items, created one after the other.
Init ==
  /\ parent = TRUE
  /\ \E S \in SUBSET Items : \E s \in Orders(S) :
       /\ index = [x \in Items |-> IF x \in S THEN (CHOOSE i \in DOMAIN s : s[i] = x) - 1 ELSE Absent]
       /\ ever = S
  /\ lock = [x \in Items |-> NoRequest]
  /\ req = [r \in Requests |-> Idle]
  /\ from = [x \in Items |-> <<>>]
  /\ overlapped = {}

Next ==
  \E r \in Requests :
    \/ \E x \in Items : InsertSelect(r, x) \/ BeginUpdate(r, x) \/ BeginDelete(r, x)
    \/ BeginReorder(r) \/ BeginDrop(r) \/ Statement(r)
    \/ Commit(r) \/ Fail(r) \/ Deadlock(r)

Spec == Init /\ [][Next]_vars

\* Postgres grants a row to those waiting for it in turn and looks for
\* deadlocks; handlers go on to their next statement and to the end.
Fairness ==
  \A r \in Requests : SF_vars(Statement(r)) /\ WF_vars(Commit(r)) /\ WF_vars(Deadlock(r))

FairSpec == Spec /\ Fairness

-----------------------------------------------------------------------------
(* Properties                                                              *)

\* The ids r has gone through.
Reached(r) == {req[r].ids[i] : i \in 1 .. req[r].done}

\* Every variable has its type; a transaction has written just those of the
\* rows it has gone through that exist.
TypeOK ==
  /\ parent \in BOOLEAN
  /\ index \in [Items -> Nat \cup {Absent}]
  /\ ever \subseteq Items /\ Present \subseteq ever
  /\ lock \in [Items -> Requests \cup {NoRequest}]
  /\ req \in [Requests -> [op : Ops, ids : Seq(Items), done : Nat, number : Nat]]
  /\ from \in [Items -> Seq(Items)]
  /\ \A r \in Requests :
       Written(r) = IF req[r].op = "create" THEN {} ELSE Reached(r) \cap Present

\* A Reorder takes effect whole, or not at all, and none is mixed with
\* another (modules/repository.go:125-137): when x stands where a list put
\* it, a row y of that list stands where the same list put it, or where a
\* later one did that does not name x.
WholeReorder ==
  \A x, y \in Present : y \in Range(from[x]) =>
    from[y] = from[x] \/ (from[y] # <<>> /\ x \notin Range(from[y]))

\* Two rows have one order_index only when they were created at the same time
\* or a list that named one left out the other (modules/repository.go:68).
SameIndexExcused ==
  \A x, y \in Present : x # y /\ index[x] = index[y] =>
    \/ {x, y} \in overlapped
    \/ from[x] # <<>> /\ y \notin Range(from[x])
    \/ from[y] # <<>> /\ x \notin Range(from[y])

\* Rows exist only under a parent that does, although Create, the deletion of
\* the parent and the transactions on its rows interleave.
NoOrphan == Present # {} => parent

\* Every transaction ends: those that wait for each other's rows, too.
Ends == \A r \in Requests : req[r].op # "none" ~> req[r].op = "none"
=============================================================================
