---------------------------- MODULE OutlineProofs ----------------------------
(***************************************************************************)
(* Theorems about Outline, for any course, any number of lessons and any   *)
(* sizes of array: what a lesson's pointer is good for depends only on     *)
(* where its slice last moved, and a lesson that stays is listed.          *)
(***************************************************************************)
EXTENDS Outline, TLAPS

\* Lesson l is in the slice of module m.
Listed(l, m) == \E k \in Positions(m) : slice[m][k] = l

-----------------------------------------------------------------------------
(* The inductive invariant                                                 *)

\* A slice fits its array; it has been copied but for its last elements, and
\* at least once if the array is not the first one.
Shape ==
  \A m \in Modules :
    /\ Len(slice[m]) <= cap[m]
    /\ Len(slice[m]) = 0 => cap[m] = 0
    /\ Len(slice[m]) > 0 => copied[m] < Len(slice[m])
    /\ cap[m] > 1 => copied[m] >= 1

\* The entry of lessonMap for an element of a slice is for that slice, and
\* for its present array just when the element was appended to it.
Pointers ==
  \A m \in Modules : \A k \in Positions(m) :
    /\ pointer[slice[m][k]].module = m
    /\ pointer[slice[m][k]].array <= cap[m]
    /\ (pointer[slice[m][k]].array = cap[m]) <=> (k > copied[m])

\* Only lessons listed have an entry.
Mapped ==
  \A l \in Lessons : pointer[l] # Nil =>
    pointer[l].module \in Modules /\ Listed(l, pointer[l].module)

\* No lesson is listed twice.
Once ==
  \A m, n \in Modules : \A j \in Positions(m), k \in Positions(n) :
    slice[m][j] = slice[n][k] => m = n /\ j = k

\* The rows to scan are of different lessons, none of them scanned.
Rows ==
  /\ \A l \in Lessons, m \in Modules : <<l, m>> \in pending => pointer[l] = Nil
  /\ \A l \in Lessons, m, n \in Modules : <<l, m>> \in pending /\ <<l, n>> \in pending => m = n

\* What has not been read yet is empty; what has been read is where the good
\* pointers lead and nowhere else.
Applied ==
  /\ pc \in {"enrollment", "modules", "lessons"} => \A l \in Lessons : pointer[l] = Nil
  /\ pc \in {"enrollment", "modules", "lessons", "scan", "attachments"} =>
       \A l \in Lessons : attached[l] = {} /\ readAttached[l] = {}
  /\ pc \notin {"commit", "done"} => completed = {} /\ readCompleted = {}
  /\ \A l \in Lessons :
       /\ attached[l] = IF Current(l) THEN readAttached[l] ELSE {}
       /\ l \in completed <=> (Current(l) /\ l \in readCompleted)

\* A lesson that has been there all the time is on its way into the answer.
Kept ==
  /\ (outcome = "none") <=> (pc # "done")
  /\ \A l \in lasting :
       /\ pc = "lessons" => parent[l] \in moduleIDs
       /\ pc = "scan" => <<l, parent[l]>> \in pending \/ Listed(l, parent[l])
       /\ pc \in {"attachments", "progress", "commit"} \/ outcome = "ok" => Listed(l, parent[l])

IInv ==
  /\ TypeOK
  /\ Shape
  /\ Pointers
  /\ Mapped
  /\ Once
  /\ Rows
  /\ Applied
  /\ Kept


-----------------------------------------------------------------------------
(* append                                                                  *)

\* What append leaves in the slice of m and what it leaves alone.
Grown(m, l, c) ==
  /\ slice'[m] \in Seq(Lessons) /\ Len(slice'[m]) = Len(slice[m]) + 1
  /\ slice'[m][Len(slice[m]) + 1] = l
  /\ \A k \in Positions(m) : slice'[m][k] = slice[m][k]
  /\ cap'[m] = c
  /\ copied'[m] = IF c = cap[m] THEN copied[m] ELSE Len(slice[m])
  /\ \A n \in Modules \ {m} :
       slice'[n] = slice[n] /\ cap'[n] = cap[n] /\ copied'[n] = copied[n]
  /\ pointer'[l] = [module |-> m, array |-> c]
  /\ \A k \in Lessons \ {l} : pointer'[k] = pointer[k]

LEMMA Appended ==
  ASSUME TypeOK, NEW m \in Modules, NEW l \in Lessons, NEW c \in Capacities, AppendLesson(m, l, c)
  PROVE  Grown(m, l, c)
<1>1. /\ slice \in [Modules -> Seq(Lessons)] /\ cap \in [Modules -> Nat] /\ copied \in [Modules -> Nat]
      /\ pointer \in [Lessons -> [module : Modules \cup {NoModule}, array : Nat]]
  BY DEF TypeOK
<1>2. slice'[m] = Append(slice[m], l)
  BY <1>1 DEF AppendLesson
<1>3. slice[m] \in Seq(Lessons)
  BY <1>1
<1>4. /\ slice'[m] \in Seq(Lessons) /\ Len(slice'[m]) = Len(slice[m]) + 1
      /\ slice'[m][Len(slice[m]) + 1] = l
      /\ \A k \in Positions(m) : slice'[m][k] = slice[m][k]
  BY <1>2, <1>3 DEF Positions
<1>5. QED
  BY <1>1, <1>4 DEF AppendLesson, Grown

\* An element of a slice after append is the new one or was there.
LEMMA Elements ==
  ASSUME TypeOK, NEW m \in Modules, NEW l \in Lessons, NEW c \in Capacities, Grown(m, l, c)
  PROVE  \A n \in Modules : \A k \in 1 .. Len(slice'[n]) :
           \/ n = m /\ k = Len(slice[m]) + 1 /\ slice'[n][k] = l
           \/ k \in Positions(n) /\ slice'[n][k] = slice[n][k] /\ slice[n][k] \in Lessons
<1>1. \A i \in Modules : slice[i] \in Seq(Lessons) /\ Len(slice[i]) \in Nat
  BY DEF TypeOK
<1>2. TAKE n \in Modules
<1>3. TAKE k \in 1 .. Len(slice'[n])
<1>4. CASE n = m
  <2>1. k \in 1 .. Len(slice[m]) + 1
    BY <1>3, <1>4 DEF Grown
  <2>2. CASE k = Len(slice[m]) + 1
    BY <1>4, <2>2 DEF Grown
  <2>3. CASE k \in 1 .. Len(slice[m])
    <3>1. k \in Positions(m) /\ slice[m][k] \in Lessons
      BY <1>1, <2>3 DEF Positions
    <3>2. slice'[m][k] = slice[m][k]
      BY <3>1 DEF Grown
    <3>3. QED
      BY <1>4, <3>1, <3>2
  <2>4. QED
    BY <1>1, <2>1, <2>2, <2>3
<1>5. CASE n # m
  <2>1. slice'[n] = slice[n]
    BY <1>5 DEF Grown
  <2>2. k \in Positions(n) /\ slice[n][k] \in Lessons
    BY <1>1, <2>1 DEF Positions
  <2>3. QED
    BY <2>1, <2>2
<1>6. QED
  BY <1>4, <1>5

\* append keeps every slice, its array and the pointers in the shape they had.
LEMMA AppendKeeps ==
  ASSUME TypeOK, Shape, Pointers, Mapped, Once,
         NEW m \in Modules, NEW l \in Lessons, NEW c \in Capacities,
         pointer[l] = Nil, Room(m, c), AppendLesson(m, l, c)
  PROVE  Shape' /\ Pointers' /\ Mapped' /\ Once'
<1>0. Grown(m, l, c)
  BY Appended
<1>1. \A i \in Modules : /\ slice[i] \in Seq(Lessons) /\ Len(slice[i]) \in Nat
                        /\ cap[i] \in Nat /\ copied[i] \in Nat
  BY DEF TypeOK
<1>2. c \in Nat /\ 1 \in Capacities /\ Capacities \subseteq Nat
  BY CapacityAssumption
<1>3. \/ c = cap[m] /\ Len(slice[m]) < c
      \/ c > cap[m] /\ Len(slice[m]) = cap[m] /\ (cap[m] = 0 => c = 1)
  BY <1>1, <1>2 DEF Room, Shape
<1>4. \A i \in Modules : \A k \in Positions(i) : slice[i][k] # l
  <2>1. SUFFICES ASSUME NEW i \in Modules, NEW k \in Positions(i), slice[i][k] = l
                 PROVE  FALSE
    OBVIOUS
  <2>2. pointer[l].module = i
    BY <2>1 DEF Pointers
  <2>3. QED
    BY <2>2, ParentAssumption DEF Nil
<1>5. \A n \in Modules : \A k \in 1 .. Len(slice'[n]) :
         \/ n = m /\ k = Len(slice[m]) + 1 /\ slice'[n][k] = l
         \/ k \in Positions(n) /\ slice'[n][k] = slice[n][k] /\ slice[n][k] \in Lessons
  BY <1>0, Elements
<1>6. Shape'
  <2>1. SUFFICES ASSUME NEW n \in Modules
                 PROVE  /\ Len(slice'[n]) <= cap'[n]
                        /\ Len(slice'[n]) = 0 => cap'[n] = 0
                        /\ Len(slice'[n]) > 0 => copied'[n] < Len(slice'[n])
                        /\ cap'[n] > 1 => copied'[n] >= 1
    BY DEF Shape
  <2>2. CASE n = m
    <3>1. /\ Len(slice'[m]) = Len(slice[m]) + 1 /\ cap'[m] = c
          /\ copied'[m] = IF c = cap[m] THEN copied[m] ELSE Len(slice[m])
      BY <1>0 DEF Grown
    <3>2. /\ Len(slice[m]) <= cap[m]
          /\ Len(slice[m]) = 0 => cap[m] = 0
          /\ Len(slice[m]) > 0 => copied[m] < Len(slice[m])
          /\ cap[m] > 1 => copied[m] >= 1
      BY DEF Shape
    <3>3. QED
      BY <1>1, <1>2, <1>3, <2>2, <3>1, <3>2
  <2>3. CASE n # m
    BY <2>3, <1>0 DEF Grown, Shape
  <2>4. QED
    BY <2>2, <2>3
<1>7. Pointers'
  <2>1. SUFFICES ASSUME NEW n \in Modules, NEW k \in Positions(n)'
                 PROVE  /\ pointer'[slice'[n][k]].module = n
                        /\ pointer'[slice'[n][k]].array <= cap'[n]
                        /\ (pointer'[slice'[n][k]].array = cap'[n]) <=> (k > copied'[n])
    BY DEF Pointers
  <2>2. CASE n = m /\ k = Len(slice[m]) + 1 /\ slice'[n][k] = l
    <3>1. pointer'[l] = [module |-> m, array |-> c] /\ cap'[m] = c
      BY <1>0 DEF Grown
    <3>2. copied'[m] < Len(slice[m]) + 1
      BY <1>1, <1>6, <1>0 DEF Grown, Shape
    <3>3. QED
      BY <1>1, <1>2, <2>2, <3>1, <3>2
  <2>3. CASE k \in Positions(n) /\ slice'[n][k] = slice[n][k] /\ slice[n][k] \in Lessons
    <3>1. pointer'[slice'[n][k]] = pointer[slice[n][k]]
      BY <1>4, <2>3, <1>0 DEF Grown
    <3>2. /\ pointer[slice[n][k]].module = n
          /\ pointer[slice[n][k]].array <= cap[n]
          /\ (pointer[slice[n][k]].array = cap[n]) <=> (k > copied[n])
      BY <2>3 DEF Pointers
    <3>3. pointer[slice[n][k]].array \in Nat /\ k \in Nat /\ k <= Len(slice[n])
      BY <1>1, <2>3 DEF TypeOK, Positions
    <3>4. CASE n # m
      <4>1. cap'[n] = cap[n] /\ copied'[n] = copied[n]
        BY <3>4, <1>0 DEF Grown
      <4>2. QED
        BY <3>1, <3>2, <4>1
    <3>5. CASE n = m
      <4>1. cap'[n] = c /\ copied'[n] = IF c = cap[n] THEN copied[n] ELSE Len(slice[n])
        BY <3>5, <1>0 DEF Grown
      <4>2. CASE c = cap[n]
        BY <3>1, <3>2, <4>1, <4>2
      <4>3. CASE c > cap[n]
        <5>1. copied'[n] = Len(slice[n]) /\ cap'[n] = c
          BY <4>1, <4>3, <1>1, <1>2
        <5>2. ~(k > copied'[n])
          BY <5>1, <3>3, <1>1
        <5>3. pointer[slice[n][k]].array < c
          BY <4>3, <3>2, <3>3, <1>1, <1>2
        <5>4. QED
          BY <3>1, <3>2, <3>3, <5>1, <5>2, <5>3, <1>2
      <4>4. QED
        BY <1>3, <3>5, <4>2, <4>3
    <3>6. QED
      BY <3>4, <3>5
  <2>4. QED
    BY <1>5, <2>2, <2>3 DEF Positions
<1>8. \A k \in Lessons, n \in Modules : Listed(k, n) => Listed(k, n)'
  <2>1. SUFFICES ASSUME NEW k \in Lessons, NEW n \in Modules, NEW i \in Positions(n), slice[n][i] = k
                 PROVE  Listed(k, n)'
    BY DEF Listed
  <2>2. i \in Positions(n)' /\ slice'[n][i] = slice[n][i]
    <3>1. CASE n = m
      BY <1>1, <3>1, <1>0 DEF Grown, Positions
    <3>2. CASE n # m
      BY <1>1, <3>2, <1>0 DEF Grown, Positions
    <3>3. QED
      BY <3>1, <3>2
  <2>3. QED
    BY <2>1, <2>2 DEF Listed
<1>9. Listed(l, m)'
  BY <1>1, <1>0 DEF Grown, Listed, Positions
<1>10. Mapped'
  <2>1. SUFFICES ASSUME NEW k \in Lessons, pointer'[k] # Nil
                 PROVE  pointer'[k].module \in Modules /\ Listed(k, pointer[k].module)'
    BY DEF Mapped, Nil
  <2>2. CASE k = l
    <3>1. pointer'[k].module = m
      BY <2>2, <1>0 DEF Grown
    <3>2. QED
      BY <1>9, <2>2, <3>1
  <2>3. CASE k # l
    <3>1. pointer'[k] = pointer[k]
      BY <2>3, <1>0 DEF Grown
    <3>2. PICK n \in Modules : n = pointer[k].module /\ Listed(k, n)
      BY <2>1, <3>1 DEF Mapped
    <3>3. Listed(k, n)'
      BY <1>8, <3>2
    <3>4. n = pointer'[k].module
      BY <3>1, <3>2
    <3>5. QED
      BY <3>2, <3>3, <3>4
  <2>4. QED
    BY <2>2, <2>3
<1>11. Once'
  <2>1. SUFFICES ASSUME NEW i \in Modules, NEW n \in Modules, NEW j \in Positions(i)',
                        NEW k \in Positions(n)', slice'[i][j] = slice'[n][k]
                 PROVE  i = n /\ j = k
    BY DEF Once
  <2>2. \/ i = m /\ j = Len(slice[m]) + 1 /\ slice'[i][j] = l
        \/ j \in Positions(i) /\ slice'[i][j] = slice[i][j] /\ slice[i][j] # l
    BY <1>4, <1>5 DEF Positions
  <2>3. \/ n = m /\ k = Len(slice[m]) + 1 /\ slice'[n][k] = l
        \/ k \in Positions(n) /\ slice'[n][k] = slice[n][k] /\ slice[n][k] # l
    BY <1>4, <1>5 DEF Positions
  <2>4. QED
    BY <2>1, <2>2, <2>3 DEF Once
<1>12. QED
  BY <1>6, <1>7, <1>10, <1>11

-----------------------------------------------------------------------------
(* The invariant holds in the initial states and is kept by every step     *)

LEMMA InitIInv ==
  ASSUME Init
  PROVE  IInv
<1>1. TypeOK
  <2>1. /\ slice = [m \in Modules |-> <<>>] /\ cap = [m \in Modules |-> 0]
        /\ copied = [m \in Modules |-> 0]
    BY DEF Init
  <2>2. slice \in [Modules -> Seq(Lessons)] /\ cap \in [Modules -> Nat] /\ copied \in [Modules -> Nat]
    BY <2>1
  <2>3. pointer \in [Lessons -> [module : Modules \cup {NoModule}, array : Nat]]
    BY DEF Init, Nil
  <2>4. /\ attached \in [Lessons -> SUBSET Attachments]
        /\ readAttached \in [Lessons -> SUBSET Attachments]
    BY DEF Init
  <2>5. progress \subseteq Stored
    BY DEF Init
  <2>6. QED
    BY <2>2, <2>3, <2>4, <2>5 DEF Init, TypeOK
<1>2. \A m \in Modules : slice[m] = <<>> /\ cap[m] = 0 /\ Positions(m) = {}
  <2>1. slice = [m \in Modules |-> <<>>] /\ cap = [m \in Modules |-> 0]
    BY DEF Init
  <2>2. Len(<<>>) = 0 /\ 1 .. 0 = {}
    OBVIOUS
  <2>3. QED
    BY <2>1, <2>2 DEF Positions
<1>3. \A l \in Lessons : pointer[l] = Nil
  BY DEF Init
<1>4. Shape /\ Pointers /\ Mapped /\ Once
  BY <1>2, <1>3 DEF Shape, Pointers, Mapped, Once
<1>5. Rows /\ Kept
  BY DEF Init, Rows, Kept
<1>6. Applied
  BY <1>3 DEF Init, Applied, Current
<1>7. QED
  BY <1>1, <1>4, <1>5, <1>6 DEF IInv

\* What no step but ScanLesson touches.
LEMMA BuiltKeeps ==
  ASSUME Shape, Pointers, Mapped, Once, UNCHANGED built
  PROVE  /\ Shape' /\ Pointers' /\ Mapped' /\ Once'
         /\ \A l \in Lessons : Current(l)' = Current(l)
         /\ \A l, m : Listed(l, m)' = Listed(l, m)
<1>1. slice' = slice /\ cap' = cap /\ pointer' = pointer /\ copied' = copied
  BY DEF built
<1>2. \A m : Positions(m)' = Positions(m)
  BY <1>1 DEF Positions
<1>3. \A l, m : Listed(l, m)' = Listed(l, m)
  BY <1>1, <1>2 DEF Listed
<1>4. Shape'
  BY <1>1 DEF Shape
<1>5. Pointers'
  BY <1>1, <1>2 DEF Pointers
<1>6. Mapped'
  BY <1>1, <1>3 DEF Mapped, Nil
<1>7. Once'
  BY <1>1, <1>2 DEF Once
<1>8. QED
  BY <1>1, <1>3, <1>4, <1>5, <1>6, <1>7 DEF Current, Nil

\* A row of a lesson scanned.
LEMMA ScanLessonIInv ==
  ASSUME IInv, NEW l \in Lessons, NEW m \in Modules, ScanLesson(l, m)
  PROVE  IInv'
<1>1. /\ pc = "scan" /\ <<l, m>> \in pending /\ pending' = pending \ {<<l, m>>}
      /\ UNCHANGED <<db, pc, student, enrollment, moduleIDs, applied, outcome, lasting>>
  BY DEF ScanLesson
<1>2. PICK c \in Capacities : Room(m, c) /\ AppendLesson(m, l, c)
  BY DEF ScanLesson
<1>3. TypeOK /\ pointer[l] = Nil /\ Grown(m, l, c) /\ c \in Nat
  BY <1>1, <1>2, Appended, CapacityAssumption DEF IInv, Rows
<1>4. Shape' /\ Pointers' /\ Mapped' /\ Once'
  BY <1>2, <1>3, AppendKeeps DEF IInv
<1>5. TypeOK'
  <2>1. /\ slice' \in [Modules -> Seq(Lessons)]
        /\ cap' \in [Modules -> Nat] /\ copied' \in [Modules -> Nat]
        /\ pointer' \in [Lessons -> [module : Modules \cup {NoModule}, array : Nat]]
    <3>1. slice[m] \in Seq(Lessons) /\ Len(slice[m]) \in Nat /\ Append(slice[m], l) \in Seq(Lessons)
      BY <1>3 DEF TypeOK
    <3>2. QED
      BY <1>2, <1>3, <3>1 DEF TypeOK, AppendLesson
  <2>2. QED
    BY <1>1, <1>3, <2>1 DEF TypeOK, db, applied, Stored
<1>6. Rows'
  <2>1. \A k \in Lessons, n \in Modules : <<k, n>> \in pending' => k # l
    BY <1>1 DEF IInv, Rows
  <2>2. QED
    BY <1>1, <1>3, <2>1 DEF IInv, Rows, Grown, Nil
<1>7. Applied'
  BY <1>1 DEF IInv, Applied, applied, Current
<1>8. Kept'
  <2>1. Listed(l, m)'
    <3>1. Len(slice[m]) \in Nat
      BY <1>3 DEF TypeOK
    <3>2. QED
      BY <1>3, <3>1 DEF Grown, Listed, Positions
  <2>2. \A k \in Lessons, n \in Modules : Listed(k, n) => Listed(k, n)'
    <3>1. SUFFICES ASSUME NEW k \in Lessons, NEW n \in Modules, NEW i \in Positions(n), slice[n][i] = k
                   PROVE  Listed(k, n)'
      BY DEF Listed
    <3>2. Len(slice[n]) \in Nat
      BY <1>3 DEF TypeOK
    <3>3. i \in Positions(n)' /\ slice'[n][i] = slice[n][i]
      <4>1. CASE n = m
        BY <1>3, <3>2, <4>1 DEF Grown, Positions
      <4>2. CASE n # m
        BY <1>3, <4>2 DEF Grown, Positions
      <4>3. QED
        BY <4>1, <4>2
    <3>4. QED
      BY <3>1, <3>3 DEF Listed
  <2>3. ASSUME NEW k \in lasting
        PROVE  k \in Lessons /\ parent[k] \in Modules
    BY <1>3, <2>3 DEF TypeOK, Stored
  <2>4. parent' = parent /\ lasting' = lasting /\ pc' = "scan" /\ outcome' = outcome
    BY <1>1 DEF db
  <2>5. outcome = "none"
    BY <1>1 DEF IInv, Kept
  <2>6. ASSUME NEW k \in lasting
        PROVE  <<k, parent[k]>> \in pending' \/ Listed(k, parent[k])'
    <3>1. CASE <<k, parent[k]>> = <<l, m>>
      BY <2>1, <2>4, <3>1 DEF Listed
    <3>2. CASE <<k, parent[k]>> \in pending /\ <<k, parent[k]>> # <<l, m>>
      BY <1>1, <3>2
    <3>3. CASE Listed(k, parent[k])
      <4>1. PICK n \in Modules : n = parent[k]
        BY <2>3, <2>6
      <4>2. Listed(k, n)'
        BY <2>2, <2>3, <2>6, <3>3, <4>1
      <4>3. QED
        BY <2>4, <4>1, <4>2 DEF Listed
    <3>4. QED
      BY <1>1, <2>6, <3>1, <3>2, <3>3 DEF IInv, Kept
  <2>7. QED
    BY <2>4, <2>5, <2>6 DEF Kept
<1>9. QED
  BY <1>4, <1>5, <1>6, <1>7, <1>8 DEF IInv

\* The other steps of GetOutline and its handler.
LEMMA GetOutlineIInv ==
  ASSUME IInv,
         \/ ReadEnrollment \/ ReadModules \/ QueryLessons \/ ScanEnds
         \/ ReadAttachments \/ ReadProgress \/ Commit \/ Fail
  PROVE  IInv'
<1>1. UNCHANGED <<db, built, lasting, student>>
  BY DEF ReadEnrollment, ReadModules, QueryLessons, ScanEnds, ReadAttachments, ReadProgress,
         Commit, Fail, Answer
<1>2. Shape /\ Pointers /\ Mapped /\ Once
  BY DEF IInv
<1>3. Shape' /\ Pointers' /\ Mapped' /\ Once'
  BY <1>1, <1>2, BuiltKeeps
<1>4. /\ \A l \in Lessons : Current(l)' = Current(l)
      /\ \A l, m : Listed(l, m)' = Listed(l, m)
  BY <1>1, <1>2, BuiltKeeps
<1>5. /\ course' = course /\ modules' = modules /\ parent' = parent /\ lessonOf' = lessonOf
      /\ enrolled' = enrolled /\ progress' = progress /\ lasting' = lasting
      /\ slice' = slice /\ cap' = cap /\ pointer' = pointer /\ copied' = copied
  BY <1>1 DEF db, built
<1>6. TypeOK /\ Rows /\ Applied /\ Kept
  BY DEF IInv
<1>7. Stored' = Stored
  BY <1>5 DEF Stored
<1>8. SUFFICES TypeOK' /\ Rows' /\ Applied' /\ Kept'
  BY <1>3 DEF IInv
<1>9. CASE ReadEnrollment
  BY <1>4, <1>5, <1>6, <1>7, <1>9 DEF ReadEnrollment, TypeOK, Rows, Applied, Kept, applied
<1>10. CASE ReadModules
  <2>1. TypeOK' /\ Rows' /\ Applied'
    BY <1>4, <1>5, <1>6, <1>7, <1>10 DEF ReadModules, TypeOK, Rows, Applied, applied
  <2>2. \A l \in lasting : parent[l] \in modules
    BY <1>6 DEF TypeOK, Stored
  <2>3. Kept'
    BY <1>4, <1>5, <1>6, <1>10, <2>2 DEF ReadModules, Kept
  <2>4. QED
    BY <2>1, <2>3
<1>11. CASE QueryLessons
  <2>1. TypeOK'
    BY <1>5, <1>6, <1>7, <1>11 DEF QueryLessons, TypeOK, applied
  <2>2. Rows' /\ Applied'
    BY <1>4, <1>5, <1>6, <1>11 DEF QueryLessons, Rows, Applied, applied
  <2>3. \A l \in lasting : l \in Lessons /\ parent[l] \in moduleIDs
    BY <1>6, <1>11 DEF TypeOK, Stored, Kept, QueryLessons
  <2>4. Kept'
    BY <1>5, <1>6, <1>11, <2>3 DEF QueryLessons, Kept
  <2>5. QED
    BY <2>1, <2>2, <2>4
<1>12. CASE ScanEnds
  <2>1. TypeOK' /\ Rows' /\ Applied'
    BY <1>4, <1>5, <1>6, <1>7, <1>12 DEF ScanEnds, TypeOK, Rows, Applied, applied
  <2>2. Kept'
    BY <1>4, <1>5, <1>6, <1>12 DEF ScanEnds, Kept
  <2>3. QED
    BY <2>1, <2>2
<1>13. CASE ReadAttachments
  <2>1. /\ pc = "attachments" /\ pc' \in {"progress", "commit"}
        /\ UNCHANGED <<db, student, enrollment, moduleIDs, pending, built, completed, readCompleted,
                       outcome, lasting>>
    BY <1>13 DEF ReadAttachments
  <2>2. \A l \in Lessons : attached'[l] = IF Current(l) THEN readAttached'[l] ELSE {}
    BY <1>6, <1>13 DEF ReadAttachments, Applied
  <2>3. TypeOK'
    <3>1. readAttached' \in [Lessons -> SUBSET Attachments]
      BY <1>13 DEF ReadAttachments, FilesOf
    <3>2. attached' \in [Lessons -> SUBSET Attachments]
      BY <1>6, <1>13, <3>1 DEF ReadAttachments, TypeOK
    <3>3. QED
      BY <1>5, <1>6, <1>7, <2>1, <3>1, <3>2 DEF TypeOK
  <2>4. Rows' /\ Kept'
    BY <1>4, <1>5, <1>6, <2>1 DEF Rows, Kept
  <2>5. Applied'
    BY <1>4, <1>6, <2>1, <2>2 DEF Applied
  <2>6. QED
    BY <2>3, <2>4, <2>5
<1>14. CASE ReadProgress
  <2>1. /\ pc = "progress" /\ pc' = "commit"
        /\ UNCHANGED <<db, student, enrollment, moduleIDs, pending, built, attached, readAttached,
                       outcome, lasting>>
        /\ readCompleted' \subseteq Lessons
        /\ completed' = completed \cup {l \in readCompleted' : Current(l)}
    BY <1>6, <1>14 DEF ReadProgress, TypeOK, Stored
  <2>2. \A l \in Lessons : l \in completed' <=> (Current(l) /\ l \in readCompleted')
    BY <1>6, <2>1 DEF Applied
  <2>3. TypeOK'
    BY <1>5, <1>6, <1>7, <2>1 DEF TypeOK
  <2>4. Rows' /\ Kept'
    BY <1>4, <1>5, <1>6, <2>1 DEF Rows, Kept
  <2>5. Applied'
    BY <1>4, <1>6, <2>1, <2>2 DEF Applied
  <2>6. QED
    BY <2>3, <2>4, <2>5
<1>15. CASE Commit \/ Fail
  <2>1. /\ pc # "done" /\ pc' = "done" /\ outcome' \in {"forbidden", "ok", "error"}
        /\ outcome' = "ok" => pc = "commit"
        /\ UNCHANGED <<db, student, enrollment, moduleIDs, pending, built, applied, lasting>>
    BY <1>15 DEF Commit, Fail, Answer
  <2>2. TypeOK' /\ Rows'
    BY <1>5, <1>6, <1>7, <2>1 DEF TypeOK, Rows, applied
  <2>3. Applied' /\ Kept'
    BY <1>4, <1>5, <1>6, <2>1 DEF Applied, Kept, applied
  <2>4. QED
    BY <2>2, <2>3
<1>16. QED
  BY <1>9, <1>10, <1>11, <1>12, <1>13, <1>14, <1>15

\* What others commit keeps the tables in order and every lesson that stays
\* in its module.
Steady ==
  /\ course' \in BOOLEAN /\ modules' \subseteq Modules
  /\ parent' \in [Lessons -> modules' \cup {NoModule}]
  /\ lessonOf' \in [Attachments -> Stored' \cup {NoLesson}]
  /\ enrolled' \in BOOLEAN /\ progress' \subseteq Stored'
  /\ lasting' \subseteq Stored' /\ lasting' \subseteq lasting
  /\ \A l \in lasting' : parent'[l] = parent[l]

\* Lessons dropped, with modules that have no other lessons.
LEMMA DropSteady ==
  ASSUME TypeOK, NEW gone, Drop(gone), course' \in BOOLEAN, modules' \subseteq modules,
         \A l \in Lessons : parent[l] \in modules \ modules' => l \in gone
  PROVE  Steady
<1>1. /\ parent' = [l \in Lessons |-> IF l \in gone THEN NoModule ELSE parent[l]]
      /\ lessonOf' = [a \in Attachments |-> IF lessonOf[a] \in gone THEN NoLesson ELSE lessonOf[a]]
      /\ progress' = progress \ gone /\ lasting' = lasting \ gone /\ enrolled' = enrolled
  BY DEF Drop
<1>2. /\ modules \subseteq Modules /\ parent \in [Lessons -> modules \cup {NoModule}]
      /\ lessonOf \in [Attachments -> Stored \cup {NoLesson}]
      /\ enrolled \in BOOLEAN /\ progress \subseteq Stored /\ lasting \subseteq Stored
  BY DEF TypeOK
<1>3. \A l \in Lessons : l \notin gone => parent'[l] = parent[l]
  BY <1>1
<1>4. \A l \in Stored : l \notin gone => l \in Stored'
  BY <1>3 DEF Stored
<1>5. parent' \in [Lessons -> modules' \cup {NoModule}]
  <2>1. SUFFICES ASSUME NEW l \in Lessons, l \notin gone
                 PROVE  parent[l] \in modules' \cup {NoModule}
    BY <1>1
  <2>2. QED
    BY <1>2, <2>1
<1>6. lessonOf' \in [Attachments -> Stored' \cup {NoLesson}]
  <2>1. SUFFICES ASSUME NEW a \in Attachments, lessonOf[a] \notin gone
                 PROVE  lessonOf[a] \in Stored' \cup {NoLesson}
    BY <1>1
  <2>2. QED
    BY <1>2, <1>4, <2>1
<1>7. \A l \in lasting' : l \in Lessons /\ l \notin gone
  BY <1>1, <1>2 DEF Stored
<1>8. QED
  BY <1>1, <1>2, <1>3, <1>4, <1>5, <1>6, <1>7 DEF Steady

LEMMA OthersSteady ==
  ASSUME TypeOK, Others
  PROVE  Steady
<1>1. /\ course \in BOOLEAN /\ modules \subseteq Modules
      /\ parent \in [Lessons -> modules \cup {NoModule}]
      /\ lessonOf \in [Attachments -> Stored \cup {NoLesson}]
      /\ enrolled \in BOOLEAN /\ progress \subseteq Stored /\ lasting \subseteq Stored
  BY DEF TypeOK
<1>2. CASE DeleteCourse
  <2>1. \A l \in Lessons : parent[l] \in modules \ modules' => l \in Lessons
    OBVIOUS
  <2>2. Drop(Lessons) /\ course' \in BOOLEAN /\ modules' \subseteq modules
    BY <1>2 DEF DeleteCourse
  <2>3. QED
    BY <2>1, <2>2, DropSteady
<1>3. CASE Enroll
  BY <1>1, <1>3 DEF Enroll, Steady, Stored
<1>4. ASSUME NEW m \in Modules, CreateModule(m)
      PROVE  Steady
  BY <1>1, <1>4 DEF CreateModule, Steady, Stored
<1>5. ASSUME NEW m \in Modules, DeleteModule(m)
      PROVE  Steady
  <2>1. PICK gone : gone = {l \in Lessons : parent[l] = m}
    OBVIOUS
  <2>2. Drop(gone) /\ modules' = modules \ {m} /\ course' = course
    BY <1>5, <2>1 DEF DeleteModule
  <2>3. \A l \in Lessons : parent[l] \in modules \ modules' => l \in gone
    BY <2>1, <2>2
  <2>4. QED
    BY <1>1, <2>2, <2>3, DropSteady
<1>6. ASSUME NEW l \in Lessons, DeleteLesson(l)
      PROVE  Steady
  <2>1. PICK gone : gone = {l}
    OBVIOUS
  <2>2. Drop(gone) /\ modules' = modules /\ course' = course
    BY <1>6, <2>1 DEF DeleteLesson
  <2>3. QED
    BY <1>1, <2>2, DropSteady
<1>7. ASSUME NEW l \in Lessons, CompleteLesson(l)
      PROVE  Steady
  BY <1>1, <1>7 DEF CompleteLesson, Steady, Stored
<1>8. ASSUME NEW l \in Lessons, NEW m \in Modules, CreateLesson(l, m)
      PROVE  Steady
  <2>1. /\ m \in modules /\ l \notin Stored /\ parent' = [parent EXCEPT ![l] = m]
        /\ UNCHANGED <<course, modules, lessonOf, enrolled, progress, lasting>>
    BY <1>8 DEF CreateLesson
  <2>2. m # NoModule
    BY <1>1, <2>1, ParentAssumption
  <2>3. Stored \subseteq Stored'
    BY <1>1, <2>1, <2>2 DEF Stored
  <2>4. QED
    BY <1>1, <2>1, <2>3 DEF Steady
<1>9. ASSUME NEW a \in Attachments, DeleteAttachment(a)
      PROVE  Steady
  BY <1>1, <1>9 DEF DeleteAttachment, Steady, Stored
<1>10. ASSUME NEW a \in Attachments, NEW l \in Lessons, AddAttachment(a, l)
       PROVE  Steady
  BY <1>1, <1>10 DEF AddAttachment, Steady, Stored
<1>11. QED
  BY <1>2, <1>3, <1>4, <1>5, <1>6, <1>7, <1>8, <1>9, <1>10 DEF Others

LEMMA OthersIInv ==
  ASSUME IInv, Others
  PROVE  IInv'
<1>1. TypeOK /\ Shape /\ Pointers /\ Mapped /\ Once /\ Rows /\ Applied /\ Kept
  BY DEF IInv
<1>2. Steady
  BY <1>1, OthersSteady
<1>3. /\ UNCHANGED <<pc, student, enrollment, moduleIDs, pending, built, applied, outcome>>
      /\ pc # "done" /\ outcome = "none"
  BY <1>1 DEF Others, reader, Kept
<1>4. Shape' /\ Pointers' /\ Mapped' /\ Once'
  BY <1>1, <1>3, BuiltKeeps
<1>5. /\ \A l \in Lessons : Current(l)' = Current(l)
      /\ \A l, m : Listed(l, m)' = Listed(l, m)
  BY <1>1, <1>3, BuiltKeeps
<1>6. TypeOK'
  BY <1>1, <1>2, <1>3 DEF TypeOK, Steady, built, applied
<1>7. Rows' /\ Applied'
  BY <1>1, <1>3, <1>5 DEF Rows, Applied, built, applied
<1>8. Kept'
  <2>1. ASSUME NEW l \in lasting'
        PROVE  /\ l \in lasting /\ parent'[l] = parent[l]
               /\ Listed(l, parent[l])' <=> Listed(l, parent[l])
    <3>1. l \in lasting /\ parent'[l] = parent[l]
      BY <1>2, <2>1 DEF Steady
    <3>2. PICK m : m = parent[l]
      OBVIOUS
    <3>3. Listed(l, m)' = Listed(l, m)
      BY <1>5
    <3>4. Listed(l, parent[l])' <=> Listed(l, m)'
      BY <3>1, <3>2 DEF Listed
    <3>5. QED
      BY <3>1, <3>2, <3>3, <3>4
  <2>2. QED
    BY <1>1, <1>3, <2>1 DEF Kept
<1>9. QED
  BY <1>4, <1>6, <1>7, <1>8 DEF IInv

LEMMA StutterIInv ==
  ASSUME IInv, UNCHANGED vars
  PROVE  IInv'
<1>1. TypeOK /\ Shape /\ Pointers /\ Mapped /\ Once /\ Rows /\ Applied /\ Kept
  BY DEF IInv
<1>2. UNCHANGED <<db, pc, student, enrollment, moduleIDs, pending, built, applied, outcome, lasting>>
  BY DEF vars
<1>3. Shape' /\ Pointers' /\ Mapped' /\ Once'
  BY <1>1, <1>2, BuiltKeeps
<1>4. /\ \A l \in Lessons : Current(l)' = Current(l)
      /\ \A l, m : Listed(l, m)' = Listed(l, m)
  BY <1>1, <1>2, BuiltKeeps
<1>5. TypeOK'
  BY <1>1, <1>2 DEF TypeOK, db, built, applied, Stored
<1>6. Rows' /\ Applied'
  BY <1>1, <1>2, <1>4 DEF Rows, Applied, built, applied
<1>7. Kept'
  BY <1>1, <1>2, <1>4 DEF Kept, Listed, db
<1>8. QED
  BY <1>3, <1>5, <1>6, <1>7 DEF IInv

-----------------------------------------------------------------------------
(* The theorems                                                            *)

\* The inductive invariant holds in every reachable state.
THEOREM Invariance == Spec => []IInv
<1>1. Init => IInv
  BY InitIInv
<1>2. IInv /\ [Next]_vars => IInv'
  <2>1. SUFFICES ASSUME IInv, [Next]_vars
                 PROVE  IInv'
    OBVIOUS
  <2>2. CASE GetOutline
    BY <2>1, <2>2, GetOutlineIInv, ScanLessonIInv DEF GetOutline
  <2>3. CASE Commit \/ Fail
    BY <2>1, <2>3, GetOutlineIInv
  <2>4. CASE Others
    BY <2>1, <2>4, OthersIInv
  <2>5. CASE UNCHANGED vars
    BY <2>1, <2>5, StutterIInv
  <2>6. QED
    BY <2>1, <2>2, <2>3, <2>4, <2>5 DEF Next
<1>3. QED
  BY <1>1, <1>2, PTL DEF Spec

\* Every variable keeps its type and the tables their foreign keys
\* (migrations 0001 and 0005).
THEOREM TypeCorrect == Spec => []TypeOK
<1>1. IInv => TypeOK
  BY DEF IInv
<1>2. QED
  BY <1>1, Invariance, PTL

\* Which elements lessonMap still reaches, for any number of lessons and any
\* sizes of array: those after the last move of their slice.
THEOREM PointersFresh == Spec => []FreshSuffix
<1>1. IInv => FreshSuffix
  <2>1. SUFFICES ASSUME IInv, NEW m \in Modules, NEW k \in Positions(m)
                 PROVE  /\ Current(slice[m][k]) <=> (k > copied[m])
                        /\ (Len(slice[m]) >= 2) => ~Current(slice[m][1])
                        /\ Current(slice[m][Len(slice[m])])
    BY DEF FreshSuffix
  <2>2. Len(slice[m]) \in Nat /\ cap[m] \in Nat /\ copied[m] \in Nat
    BY <2>1 DEF IInv, TypeOK
  <2>3. \A j \in Positions(m) : Current(slice[m][j]) <=> (j > copied[m])
    <3>1. TAKE j \in Positions(m)
    <3>2. /\ pointer[slice[m][j]].module = m
          /\ (pointer[slice[m][j]].array = cap[m]) <=> (j > copied[m])
      BY <2>1 DEF IInv, Pointers
    <3>3. pointer[slice[m][j]] # Nil
      BY <3>2, ParentAssumption DEF Nil
    <3>4. QED
      BY <3>2, <3>3 DEF Current
  <2>4. /\ Len(slice[m]) <= cap[m] /\ copied[m] < Len(slice[m])
        /\ cap[m] > 1 => copied[m] >= 1
    BY <2>1, <2>2 DEF IInv, Shape, Positions
  <2>5. Len(slice[m]) \in Positions(m)
    BY <2>1, <2>2 DEF Positions
  <2>6. Current(slice[m][Len(slice[m])])
    BY <2>2, <2>3, <2>4, <2>5
  <2>7. ASSUME Len(slice[m]) >= 2
        PROVE  ~Current(slice[m][1])
    <3>1. 1 \in Positions(m) /\ ~(1 > copied[m])
      BY <2>2, <2>4, <2>7 DEF Positions
    <3>2. QED
      BY <2>3, <3>1
  <2>8. QED
    BY <2>3, <2>6, <2>7
<1>2. QED
  BY <1>1, Invariance, PTL

\* The attachments and the progress of a successful outline are those its
\* queries returned, for the elements after the last move and no others
\* (outline.go:162-206).
THEOREM OutlineFresh == Spec => []ShowsFresh
<1>1. IInv => ShowsFresh
  <2>1. SUFFICES ASSUME IInv, NEW l \in Lessons
                 PROVE  IF \E m \in Modules : \E k \in Positions(m) : slice[m][k] = l /\ k > copied[m]
                        THEN attached[l] = readAttached[l] /\ (l \in completed) = (l \in readCompleted)
                        ELSE attached[l] = {} /\ l \notin completed
    BY DEF ShowsFresh
  <2>2. /\ attached[l] = IF Current(l) THEN readAttached[l] ELSE {}
        /\ l \in completed <=> (Current(l) /\ l \in readCompleted)
    BY <2>1 DEF IInv, Applied
  <2>3. ASSUME NEW m \in Modules, NEW k \in Positions(m), slice[m][k] = l
        PROVE  Current(l) <=> (k > copied[m])
    <3>1. /\ pointer[l].module = m
          /\ (pointer[l].array = cap[m]) <=> (k > copied[m])
      BY <2>1, <2>3 DEF IInv, Pointers
    <3>2. QED
      BY <3>1, ParentAssumption DEF Current, Nil
  <2>4. Current(l) => \E m \in Modules : \E k \in Positions(m) : slice[m][k] = l
    BY <2>1 DEF IInv, Mapped, Listed, Current
  <2>5. QED
    BY <2>2, <2>3, <2>4
<1>2. QED
  BY <1>1, Invariance, PTL

\* A lesson that is there during the whole request is in a successful answer,
\* once (outline.go:93-160).
THEOREM OutlineComplete == Spec => []ListsLasting
<1>1. IInv => ListsLasting
  <2>1. SUFFICES ASSUME IInv, outcome = "ok", NEW l \in lasting
                 PROVE  \E k \in Positions(parent[l]) :
                          /\ slice[parent[l]][k] = l
                          /\ \A m \in Modules : \A j \in Positions(m) :
                               slice[m][j] = l => m = parent[l] /\ j = k
    BY DEF ListsLasting
  <2>2. parent[l] \in Modules
    BY <2>1 DEF IInv, TypeOK, Stored
  <2>3. PICK k \in Positions(parent[l]) : slice[parent[l]][k] = l
    BY <2>1 DEF IInv, Kept, Listed
  <2>4. QED
    BY <2>1, <2>2, <2>3 DEF IInv, Once
<1>2. QED
  BY <1>1, Invariance, PTL
=============================================================================
