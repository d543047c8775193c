-------------------------- MODULE CourseViewerProofs --------------------------
(***************************************************************************)
(* For any courses, lessons, users and requests: a lesson is completed for *)
(* the student who asks, in their enrollment in its course, teachers       *)
(* update courses of theirs, and a page shows as completed what is.        *)
(***************************************************************************)
EXTENDS CourseViewer, FiniteSetTheorems, TLAPS

ReqType == [op : Ops, user : Users \cup {None}, on : Courses \cup Lessons \cup {None},
            found : (Students \X Courses) \cup {None},
            st : {"idle", "read", "write"} \cup Final]

\* What DataInv says of the tables.
Tables ==
  /\ teacher \in [Courses -> Users \cup {None}]
  /\ lessons \subseteq Lessons /\ \A l \in lessons : teacher[CourseOfLesson(l)] # None
  /\ ever \subseteq Courses \cup Lessons
  /\ enrolled \subseteq Students \X Courses /\ \A e \in enrolled : teacher[e[2]] # None
  /\ progress \subseteq enrolled \X lessons
  /\ lessons \subseteq ever /\ IsFiniteSet(lessons)

LEMMA DataParts ==
  DataInv <=> Tables /\ req \in [Requests -> ReqType] /\ \A r \in Requests : ReqFits(req[r])
  BY DEF DataInv, TypeOK, Tables, ReqType

LEMMA CourseTyped == \A l \in Lessons : CourseOfLesson(l) \in Courses
  BY TreeAssumption DEF CourseOfLesson

\* An answered request, and one that is not there, hold no id.
LEMMA AnswerTyped ==
  /\ Idle \in ReqType /\ Idle.op = "none" /\ Idle.st = "idle"
  /\ \A st \in Final : /\ Answer(st) \in ReqType
                       /\ Answer(st).op = "none" /\ Answer(st).st = st
  BY DEF Idle, Answer, ReqType, Ops, Final

LEMMA AnswerFits == ReqFits(Idle)' /\ \A st \in Final : ReqFits(Answer(st))'
  BY AnswerTyped DEF ReqFits

-----------------------------------------------------------------------------
(* What other steps may do to the tables a request relies on               *)

\* Ids stay given out, enrollments stay, a course has its teacher until it is
\* gone; a lesson that exists keeps its progress and is not created again.
Keeps ==
  /\ ever \subseteq ever' /\ enrolled \subseteq enrolled'
  /\ \A c \in Courses \cap ever : teacher'[c] \in {teacher[c], None}
  /\ lessons' \cap ever \subseteq lessons
  /\ \A p \in progress : p[2] \in lessons' => p \in progress'

LEMMA DbKeeps == Tables /\ UNCHANGED db => Tables' /\ Keeps
  BY DEF Tables, Keeps, db

LEMMA FitsStill ==
  ASSUME NEW q \in ReqType, ReqFits(q), Keeps PROVE ReqFits(q)'
  BY DEF ReqFits, Keeps

\* A step of one request.
LEMMA ReqStep ==
  ASSUME DataInv, Tables', Keeps, NEW r \in Requests, NEW q \in ReqType, ReqFits(q)',
         req' = [req EXCEPT ![r] = q]
  PROVE  DataInv'
<1>1. req' \in [Requests -> ReqType] /\ \A p \in Requests : req'[p] = IF p = r THEN q ELSE req[p]
  BY DataParts
<1>2. ASSUME NEW p \in Requests PROVE ReqFits(req[p])'
  BY <1>1, DataParts, FitsStill
<1> QED
  BY <1>1, <1>2, DataParts DEF DataInv, TypeOK, Tables, ReqType

LEMMA NoReqStep == ASSUME DataInv, Tables', Keeps, UNCHANGED req PROVE DataInv'
<1>1. ASSUME NEW p \in Requests PROVE ReqFits(req[p])'
  BY DataParts, FitsStill
<1> QED
  BY <1>1, DataParts DEF DataInv, TypeOK, Tables, ReqType

-----------------------------------------------------------------------------
(* The tables                                                              *)

LEMMA CreateCourseTables ==
  ASSUME DataInv, NEW r \in Requests, CreateCourse(r) PROVE Tables' /\ Keeps
<1>1. PICK c \in Courses \ ever, u \in Owners \cup {req[r].user} :
        /\ teacher' = [teacher EXCEPT ![c] = u] /\ ever' = ever \cup {c}
        /\ UNCHANGED <<lessons, enrolled, progress>>
  BY DEF CreateCourse
<1>2. Tables /\ u \in Users /\ u # None
  <2>1. ReqFits(req[r]) /\ req[r].op = "create" /\ req[r].st = "write"
    BY DataParts DEF CreateCourse, At
  <2> QED
    BY <2>1, DataParts, RoleAssumption DEF ReqFits
<1>3. \A d \in Courses : teacher'[d] = IF d = c THEN u ELSE teacher[d]
  BY <1>1, <1>2 DEF Tables
<1>4. \A l \in Lessons : CourseOfLesson(l) \in Courses
  BY CourseTyped
<1>5. \A l \in lessons' : teacher'[CourseOfLesson(l)] # None
  BY <1>1, <1>2, <1>3, <1>4 DEF Tables
<1>6. \A e \in enrolled' : teacher'[e[2]] # None
  BY <1>1, <1>2, <1>3 DEF Tables
<1>7. Tables'
  BY <1>1, <1>2, <1>5, <1>6 DEF Tables
<1> QED
  BY <1>1, <1>2, <1>3, <1>7 DEF Keeps, Tables

LEMMA DeleteCourseTables ==
  ASSUME DataInv, NEW r \in Requests, DeleteCourse(r) PROVE Tables' /\ Keeps
<1> DEFINE c == req[r].on
<1>1. Tables
  BY DataParts
<1>2. CASE UNCHANGED db
  BY <1>1, <1>2, DbKeeps
<1>3. CASE /\ NotEnrolled(c) /\ teacher' = [teacher EXCEPT ![c] = None]
           /\ lessons' = {l \in lessons : CourseOfLesson(l) # c}
           /\ progress' = {p \in progress : CourseOfLesson(p[2]) # c}
           /\ UNCHANGED <<ever, enrolled>>
  <2>1. \A d \in Courses : teacher'[d] = IF d = c THEN None ELSE teacher[d]
    BY <1>1, <1>3 DEF Tables
  <2>2. IsFiniteSet(lessons')
    BY <1>1, <1>3, FS_Subset DEF Tables
  <2>3. \A l \in lessons' : teacher'[CourseOfLesson(l)] # None
    BY <1>1, <1>3, <2>1, CourseTyped DEF Tables
  <2>4. \A e \in enrolled' : teacher'[e[2]] # None
    BY <1>1, <1>3, <2>1 DEF Tables, NotEnrolled
  <2>5. teacher' \in [Courses -> Users \cup {None}]
    BY <1>1, <1>3 DEF Tables
  <2>6. progress' \subseteq enrolled' \X lessons'
    BY <1>1, <1>3 DEF Tables
  <2>7. Tables'
    BY <1>1, <1>3, <2>2, <2>3, <2>4, <2>5, <2>6 DEF Tables
  <2>8. \A p \in progress : p[2] \in lessons' => p \in progress'
    BY <1>3
  <2> QED
    BY <1>3, <2>1, <2>7, <2>8 DEF Keeps
<1> QED
  BY <1>2, <1>3 DEF DeleteCourse, db

LEMMA InsertProgressTables ==
  ASSUME DataInv, NEW r \in Requests, InsertProgress(r) PROVE Tables' /\ Keeps
<1> DEFINE f == req[r].found
           l == req[r].on
<1>1. Tables /\ f \in enrolled /\ f = <<req[r].user, CourseOfLesson(l)>>
  BY DataParts DEF InsertProgress, At, ReqFits
<1>2. CASE UNCHANGED db
  BY <1>1, <1>2, DbKeeps
<1>3. CASE /\ l \in lessons /\ progress' = progress \cup {<<f, l>>}
           /\ UNCHANGED <<teacher, lessons, ever, enrolled>>
  <2>1. progress' \subseteq enrolled' \X lessons'
    BY <1>1, <1>3 DEF Tables
  <2>2. Tables'
    BY <1>1, <1>3, <2>1 DEF Tables
  <2> QED
    BY <1>3, <2>2 DEF Keeps
<1> QED
  BY <1>2, <1>3 DEF InsertProgress, db

LEMMA OthersTables == ASSUME DataInv, Others PROVE Tables' /\ Keeps /\ UNCHANGED req
<1>1. Tables
  BY DataParts
<1>2. ASSUME NEW l \in Lessons, CreateLesson(l) PROVE Tables' /\ Keeps /\ UNCHANGED req
  <2>1. /\ l \notin ever /\ teacher[CourseOfLesson(l)] # None /\ lessons' = lessons \cup {l}
        /\ ever' = ever \cup {l} /\ UNCHANGED <<teacher, enrolled, progress, req>>
    BY <1>2 DEF CreateLesson
  <2>2. IsFiniteSet(lessons')
    BY <1>1, <2>1, FS_AddElement DEF Tables
  <2>3. progress' \subseteq enrolled' \X lessons'
    BY <1>1, <2>1 DEF Tables
  <2>4. Tables'
    BY <1>1, <2>1, <2>2, <2>3 DEF Tables
  <2> QED
    BY <2>1, <2>4 DEF Keeps
<1>3. ASSUME NEW S, DeleteLessons(S) PROVE Tables' /\ Keeps /\ UNCHANGED req
  <2>1. /\ lessons' = lessons \ S /\ progress' = {p \in progress : p[2] \notin S}
        /\ UNCHANGED <<teacher, ever, enrolled, req>>
    BY <1>3 DEF DeleteLessons
  <2>2. IsFiniteSet(lessons')
    BY <1>1, <2>1, FS_Subset DEF Tables
  <2>3. progress' \subseteq enrolled' \X lessons'
    BY <1>1, <2>1 DEF Tables
  <2>4. Tables'
    BY <1>1, <2>1, <2>2, <2>3 DEF Tables
  <2> QED
    BY <2>1, <2>4 DEF Keeps
<1>4. ASSUME NEW u \in Students, NEW c \in Courses, Enroll(u, c)
      PROVE  Tables' /\ Keeps /\ UNCHANGED req
  <2>1. /\ teacher[c] # None /\ enrolled' = enrolled \cup {<<u, c>>}
        /\ UNCHANGED <<teacher, lessons, ever, progress, req>>
    BY <1>4 DEF Enroll
  <2>2. progress' \subseteq enrolled' \X lessons'
    BY <1>1, <2>1 DEF Tables
  <2>3. enrolled' \subseteq Students \X Courses /\ \A e \in enrolled' : teacher'[e[2]] # None
    BY <1>1, <2>1 DEF Tables
  <2>4. Tables'
    BY <1>1, <2>1, <2>2, <2>3 DEF Tables
  <2> QED
    BY <2>1, <2>4 DEF Keeps
<1> QED
  BY <1>2, <1>3, <1>4 DEF Others

-----------------------------------------------------------------------------
(* The requests                                                            *)

\* An answer that may be good or lost.
LEMMA Answered ==
  ASSUME DataInv, Tables', Keeps, NEW r \in Requests, Done(r) \/ End(r, "error") PROVE DataInv'
<1>1. PICK st \in Final : req' = [req EXCEPT ![r] = Answer(st)]
  BY DEF Done, End, Final
<1> QED
  BY <1>1, AnswerTyped, AnswerFits, ReqStep

LEMMA AskInv ==
  ASSUME DataInv, NEW r \in Requests, NEW op, NEW u \in Users, NEW x, Ask(r, op, u, x),
         \/ op = "create" /\ x = None
         \/ op \in {"update", "delete"} /\ x \in Courses \cap ever
         \/ op = "complete" /\ x \in Lessons \cap ever
  PROVE  DataInv' /\ Keeps
<1>1. Tables' /\ Keeps /\ ever' = ever
  BY DbKeeps, DataParts DEF Ask, db
<1>2. CASE Refused(op, u)
  BY <1>1, <1>2, Answered DEF Ask, End
<1>3. CASE ~Refused(op, u)
  <2> DEFINE q == [op |-> op, user |-> u, on |-> x, found |-> None,
                   st |-> IF Reads(op, u) THEN "read" ELSE "write"]
  <2>1. q \in ReqType
    BY DEF ReqType, Ops
  <2>2. ReqFits(q)'
    BY <1>1 DEF ReqFits, Reads
  <2>3. req' = [req EXCEPT ![r] = q]
    BY <1>3 DEF Ask
  <2> HIDE DEF q
  <2> QED
    BY <1>1, <2>1, <2>2, <2>3, ReqStep
<1> QED
  BY <1>2, <1>3

LEMMA ArriveInv == ASSUME DataInv, NEW r \in Requests, Arrive(r) PROVE DataInv' /\ Keeps
  BY AskInv DEF Arrive

LEMMA HandleInv == ASSUME DataInv, NEW r \in Requests, Handle(r) PROVE DataInv' /\ Keeps
<1>1. ASSUME UNCHANGED db PROVE Tables' /\ Keeps
  BY <1>1, DataParts, DbKeeps
<1>2. CASE CreateCourse(r)
  BY <1>2, CreateCourseTables, Answered DEF CreateCourse
<1>3. CASE DeleteCourse(r)
  BY <1>3, DeleteCourseTables, Answered DEF DeleteCourse
<1>4. CASE InsertProgress(r)
  BY <1>4, InsertProgressTables, Answered DEF InsertProgress
<1>5. CASE UpdateCourse(r)
  BY <1>1, <1>5, Answered DEF UpdateCourse
<1>6. CASE Fail(r)
  BY <1>1, <1>6, Answered DEF Fail
<1>7. CASE ReadCourse(r)
  <2>1. CASE End(r, "error")
    BY <1>1, <1>7, <2>1, Answered DEF ReadCourse
  <2>2. CASE ~NotTheirs(req[r].user, req[r].on) /\ req' = [req EXCEPT ![r].st = "write"]
    <3>1. req[r] \in ReqType /\ ReqFits(req[r]) /\ req[r].op = "update" /\ UNCHANGED db
      BY <1>7, DataParts DEF ReadCourse, At
    <3>2. PICK q \in ReqType : /\ req' = [req EXCEPT ![r] = q] /\ q.op = "update"
                               /\ q.on = req[r].on /\ q.user = req[r].user
      <4> DEFINE w == [req[r] EXCEPT !.st = "write"]
      <4>1. w \in ReqType /\ w.op = "update" /\ w.on = req[r].on /\ w.user = req[r].user
        BY <3>1 DEF ReqType
      <4> QED
        BY <2>2, <4>1
    <3>3. ReqFits(q)'
      BY <2>2, <3>1, <3>2 DEF ReqFits, NotTheirs, db
    <3> QED
      BY <1>1, <3>1, <3>2, <3>3, ReqStep
  <2> QED
    BY <1>7, <2>1, <2>2 DEF ReadCourse
<1>8. CASE FindEnrollment(r)
  <2>1. CASE End(r, "error")
    BY <1>1, <1>8, <2>1, Answered DEF FindEnrollment
  <2>2. ASSUME NEW e \in Enrollments(req[r].user, req[r].on),
               req' = [req EXCEPT ![r].found = e, ![r].st = "write"]
        PROVE  DataInv' /\ Keeps
    <3>1. req[r] \in ReqType /\ ReqFits(req[r]) /\ req[r].op = "complete" /\ UNCHANGED db
      BY <1>8, DataParts DEF FindEnrollment, At
    <3>2. /\ e \in enrolled /\ e = <<req[r].user, CourseOfLesson(req[r].on)>>
          /\ e \in Students \X Courses
      BY DataParts DEF Enrollments, Tables
    <3>3. PICK q \in ReqType : /\ req' = [req EXCEPT ![r] = q] /\ q.op = "complete" /\ q.found = e
                               /\ q.on = req[r].on /\ q.user = req[r].user
      <4> DEFINE w == [req[r] EXCEPT !.found = e, !.st = "write"]
      <4>1. /\ w \in ReqType /\ w.op = "complete" /\ w.found = e
            /\ w.on = req[r].on /\ w.user = req[r].user
        BY <3>1, <3>2 DEF ReqType
      <4> QED
        BY <2>2, <4>1
    <3>4. ReqFits(q)'
      BY <3>1, <3>2, <3>3 DEF ReqFits, db
    <3> QED
      BY <1>1, <3>1, <3>3, <3>4, ReqStep
  <2> QED
    BY <1>8, <2>1, <2>2 DEF FindEnrollment
<1> QED
  BY <1>2, <1>3, <1>4, <1>5, <1>6, <1>7, <1>8 DEF Handle

\* An answer that is taken.
LEMMA IdleInv ==
  ASSUME DataInv, NEW r \in Requests, UNCHANGED db, req' = [req EXCEPT ![r] = Idle]
  PROVE  DataInv' /\ Keeps
<1>1. Tables' /\ Keeps
  BY DataParts, DbKeeps
<1> QED
  BY <1>1, AnswerTyped, AnswerFits, ReqStep

-----------------------------------------------------------------------------
(* The page                                                                *)

\* Lessons that were completed stay so, or go.
LEMMA KeptStill ==
  ASSUME Keeps, NEW l \in Lessons \cap ever, Kept(l) PROVE Kept(l)' /\ l \in Lessons \cap ever'
  BY DEF Keeps, Kept

\* The page stays as it is, and its call has not been disturbed.
LEMMA PageSame ==
  ASSUME ViewInv, DataInv', Keeps, UNCHANGED page, call # None => Called' PROVE ViewInv'
<1>1. ShownDone' /\ done' \subseteq Lessons \cap ever'
  BY KeptStill DEF ViewInv, ShownDone, page
<1>2. outline' \in Seq(Lessons \cap ever')
  <2>1. \A i \in 1..Len(outline) : outline[i] \in Lessons \cap ever'
    BY DEF ViewInv, Keeps
  <2> QED
    BY <2>1 DEF ViewInv, page
<1>3. current' \in (Lessons \cap ever') \cup {None}
  BY DEF ViewInv, page, Keeps
<1> QED
  BY <1>1, <1>2, <1>3 DEF ViewInv, page

\* The request of the call takes no step, or another does.
LEMMA CallSame ==
  ASSUME ViewInv, Keeps, UNCHANGED call, call # None, req'[call.req] = req[call.req]
  PROVE  Called'
  BY KeptStill DEF ViewInv, Called, Keeps

LEMMA HandleElsewhere ==
  ASSUME NEW r \in Requests, Handle(r), NEW p, p # r, p \in DOMAIN req PROVE req'[p] = req[p]
<1>1. ASSUME NEW st, End(r, st) PROVE req'[p] = req[p]
  BY <1>1 DEF End
<1> QED
  BY <1>1 DEF Handle, CreateCourse, ReadCourse, UpdateCourse, DeleteCourse, FindEnrollment,
     InsertProgress, Fail, Done

\* The request of the call: it reads, fails, or stores what it was sent for.
LEMMA HandleOfCall ==
  ASSUME ViewInv, call # None, UNCHANGED call, Keeps, Handle(call.req) PROVE Called'
<1> DEFINE r == call.req
           l == call.lesson
<1>1. /\ r \in Requests /\ l \in Lessons \cap ever' /\ req \in [Requests -> ReqType]
      /\ ReqFits(req[r]) /\ Tables
  BY DataParts DEF ViewInv, Called, Keeps
<1>2. /\ req[r].op = "complete" /\ req[r].user = Viewer /\ req[r].on = l
      /\ FindEnrollment(r) \/ InsertProgress(r) \/ Fail(r)
  BY DEF ViewInv, Called, Handle, CreateCourse, ReadCourse, UpdateCourse, DeleteCourse,
     FindEnrollment, InsertProgress, Fail, At, Final
<1>3. CASE End(r, "error")
  BY <1>1, <1>3, AnswerTyped DEF End, Called, Final
<1>4. CASE FindEnrollment(r) /\ ~End(r, "error")
  <2>1. PICK e : req' = [req EXCEPT ![r].found = e, ![r].st = "write"]
    BY <1>4 DEF FindEnrollment
  <2>2. /\ req'[r].op = "complete" /\ req'[r].user = Viewer /\ req'[r].on = l
        /\ req'[r].st = "write"
    BY <1>1, <1>2, <2>1 DEF ReqType
  <2> QED
    BY <1>1, <2>2 DEF Called
<1>5. CASE InsertProgress(r) /\ ~End(r, "error")
  <2>1. /\ req' = [req EXCEPT ![r] = Answer("ok")]
        /\ progress' = progress \cup {<<req[r].found, l>>}
        /\ req[r].found = <<Viewer, CourseOfLesson(l)>>
    BY <1>1, <1>2, <1>5 DEF InsertProgress, Done, End, Final, At, ReqFits
  <2>2. req'[r].st = "ok" /\ Kept(l)'
    BY <1>1, <2>1, AnswerTyped DEF Kept, Final
  <2> QED
    BY <1>1, <2>2 DEF Called
<1> QED
  BY <1>2, <1>3, <1>4, <1>5 DEF Fail

LEMMA ServerInv == ASSUME ViewInv, Server PROVE ViewInv'
<1>1. DataInv /\ UNCHANGED page /\ UNCHANGED call
  BY DEF ViewInv, Server, page
<1>2. req \in [Requests -> ReqType] /\ (call # None => call.req \in Requests)
  BY <1>1, DataParts DEF ViewInv, Called
<1>3. ASSUME NEW r \in Requests, Handle(r) PROVE ViewInv'
  <2>1. DataInv' /\ Keeps
    BY <1>1, <1>3, HandleInv
  <2>2. CASE call # None /\ r = call.req
    BY <1>1, <1>3, <2>1, <2>2, HandleOfCall, PageSame
  <2>3. CASE call # None /\ r # call.req
    <3>1. req'[call.req] = req[call.req]
      BY <1>2, <1>3, <2>3, HandleElsewhere
    <3> QED
      BY <1>1, <2>1, <2>3, <3>1, CallSame, PageSame
  <2> QED
    BY <1>1, <2>1, <2>2, <2>3, PageSame
<1>4. ASSUME NEW r \in Requests, Arrive(r) PROVE ViewInv'
  <2>1. DataInv' /\ Keeps
    BY <1>1, <1>4, ArriveInv
  <2>2. req[r] = Idle /\ \A p \in Requests : p # r => req'[p] = req[p]
    BY <1>2, <1>4 DEF Arrive, Ask
  <2>3. call # None => r # call.req
    BY <2>2, AnswerTyped DEF ViewInv, Called
  <2> QED
    BY <1>1, <1>2, <2>1, <2>2, <2>3, CallSame, PageSame
<1>5. ASSUME NEW r \in Requests, call # None => r # call.req, Leave(r) PROVE ViewInv'
  <2>1. DataInv' /\ Keeps
    BY <1>1, <1>5, IdleInv DEF Leave
  <2>2. \A p \in Requests : p # r => req'[p] = req[p]
    BY <1>2, <1>5 DEF Leave
  <2> QED
    BY <1>1, <1>2, <1>5, <2>1, <2>2, CallSame, PageSame
<1>6. CASE Others
  <2>1. DataInv' /\ Keeps /\ UNCHANGED req
    BY <1>1, <1>6, OthersTables, NoReqStep
  <2> QED
    BY <1>1, <2>1, CallSame, PageSame
<1> QED
  BY <1>3, <1>4, <1>5, <1>6 DEF Server

\* The outline is loaded, whole; of what was completed it shows a part.
LEMMA LoadInv == ASSUME ViewInv, NEW c \in Courses, Load(c) PROVE ViewInv'
<1> DEFINE of == {l \in lessons : CourseOfLesson(l) = c}
<1>1. /\ outline' \in SetToSeqs(of) /\ done' \subseteq of /\ current' \in of \cup {None}
      /\ \A l \in done' : <<<<Viewer, c>>, l>> \in progress /\ CourseOfLesson(l) = c
      /\ UNCHANGED <<db, req, call>>
  BY DEF Load
<1>2. Tables /\ of \subseteq Lessons \cap ever
  BY DataParts DEF ViewInv, Tables
<1>3. Cardinality(of) \in Nat
  BY <1>2, FS_Subset, FS_CardinalityType DEF Tables
<1>4. outline' \in Seq(Lessons \cap ever)
  <2>1. PICK n \in Nat : outline' \in [1..n -> of]
    BY <1>1, <1>3 DEF SetToSeqs
  <2>2. outline' \in [1..n -> Lessons \cap ever]
    BY <1>2, <2>1
  <2> QED
    BY <2>2
<1>5. DataInv' /\ Keeps
  BY <1>1, DataParts, DbKeeps, NoReqStep DEF ViewInv
<1>6. ShownDone'
  BY <1>1 DEF ShownDone, Kept, db
<1>7. call # None => Called'
  BY <1>1, <1>5, CallSame DEF ViewInv
<1>8. ever' = ever
  BY <1>1 DEF db
<1> QED
  BY <1>1, <1>2, <1>4, <1>5, <1>6, <1>7, <1>8 DEF ViewInv

\* Another lesson of the outline is shown.
LEMMA SelectInv ==
  ASSUME ViewInv, UNCHANGED <<db, req, outline, done, call>>, current' \in Range(outline)
  PROVE  ViewInv'
<1>1. current' \in Lessons \cap ever
  BY DEF ViewInv, Range
<1>2. DataInv' /\ Keeps
  BY DataParts, DbKeeps, NoReqStep DEF ViewInv
<1>3. (call # None => Called') /\ ShownDone'
  BY <1>2, CallSame DEF ViewInv, ShownDone, Kept, db
<1> QED
  BY <1>1, <1>2, <1>3 DEF ViewInv, db

LEMMA MarkCompleteInv == ASSUME ViewInv, NEW r \in Requests, MarkComplete(r) PROVE ViewInv'
<1>1. /\ current \in Lessons \cap ever /\ Ask(r, "complete", Viewer, current)
      /\ call' = [req |-> r, lesson |-> current] /\ UNCHANGED <<db, outline, done, current>>
  BY DEF MarkComplete, Ask, ViewInv
<1>2. DataInv' /\ Keeps
  BY <1>1, AskInv, ViewerAssumption DEF ViewInv
<1>3. ShownDone'
  BY <1>1 DEF ViewInv, ShownDone, Kept, db
<1>4. Called'
  <2>1. req \in [Requests -> ReqType]
    BY DataParts DEF ViewInv
  <2>2. CASE Refused("complete", Viewer)
    <3>1. req'[r].st = "error"
      BY <1>1, <2>1, <2>2, AnswerTyped DEF Ask, Final
    <3> QED
      BY <1>1, <3>1 DEF Called, db
  <2>3. CASE ~Refused("complete", Viewer)
    <3>1. /\ req'[r].op = "complete" /\ req'[r].user = Viewer /\ req'[r].on = current
          /\ req'[r].st = "read"
      BY <1>1, <2>1, <2>3 DEF Ask, Reads
    <3> QED
      BY <1>1, <3>1 DEF Called, db
  <2> QED
    BY <2>2, <2>3
<1> QED
  BY <1>1, <1>2, <1>3, <1>4 DEF ViewInv, db

\* The answer counts for the lesson of the click.
LEMMA AnsweredInv == ASSUME ViewInv, Completed \/ NotCompleted PROVE ViewInv'
<1>1. /\ call # None /\ call.req \in Requests /\ call.lesson \in Lessons \cap ever
      /\ call' = None /\ UNCHANGED <<db, outline>> /\ req' = [req EXCEPT ![call.req] = Idle]
  BY DEF Completed, NotCompleted, ViewInv, Called
<1>2. DataInv' /\ Keeps
  BY <1>1, IdleInv DEF ViewInv
<1>3. CASE Completed
  <2>1. Kept(call.lesson)
    BY <1>1, <1>3 DEF Completed, ViewInv, Called
  <2>2. ShownDone'
    BY <1>1, <1>3, <2>1 DEF Completed, LessonAsked, ViewInv, ShownDone, Kept, db
  <2> QED
    BY <1>1, <1>2, <1>3, <2>2 DEF Completed, LessonAsked, ViewInv, db
<1>4. CASE NotCompleted
  <2>1. ShownDone'
    BY <1>1, <1>4 DEF NotCompleted, ViewInv, ShownDone, Kept, db
  <2> QED
    BY <1>1, <1>2, <1>4, <2>1 DEF NotCompleted, ViewInv, db
<1> QED
  BY <1>3, <1>4

-----------------------------------------------------------------------------
(* Every step, and the theorems                                            *)

LEMMA InitViewInv == Init => ViewInv
<1> SUFFICES ASSUME Init PROVE ViewInv
  OBVIOUS
<1>1. Tables
  BY FS_EmptySet DEF Init, InitDB, Tables
<1>2. req \in [Requests -> ReqType] /\ \A r \in Requests : ReqFits(req[r])
  BY AnswerTyped DEF Init, InitDB, ReqFits
<1>3. DataInv
  BY <1>1, <1>2, DataParts
<1>4. outline \in Seq(Lessons \cap ever)
  BY DEF Init
<1> QED
  BY <1>3, <1>4 DEF Init, InitDB, ViewInv, ShownDone

LEMMA NextViewInv == ViewInv /\ [Next]_vars => ViewInv'
<1> SUFFICES ASSUME ViewInv, [Next]_vars PROVE ViewInv'
  OBVIOUS
<1>1. CASE UNCHANGED vars
  <2>1. DataInv' /\ Keeps /\ UNCHANGED page /\ UNCHANGED <<call, req>>
    BY <1>1, DataParts, DbKeeps, NoReqStep DEF ViewInv, vars, page
  <2> QED
    BY <2>1, CallSame, PageSame
<1>2. ASSUME NEW l \in Lessons, SelectLesson(l) PROVE ViewInv'
  BY <1>2, SelectInv DEF SelectLesson
<1>3. CASE GoNext
  <2>1. current' \in Range(outline)
    BY <1>3 DEF GoNext, ViewInv, Range
  <2> QED
    BY <1>3, <2>1, SelectInv DEF GoNext
<1> QED
  BY <1>1, <1>2, <1>3, ServerInv, LoadInv, MarkCompleteInv, AnsweredInv DEF Next

\* The inductive invariant of the page and the server holds throughout.
THEOREM ViewInvariance == Spec => []ViewInv
  BY InitViewInv, NextViewInv, PTL DEF Spec

\* The variables of the server keep their types, and rows the rows they refer
\* to.
THEOREM TypeCorrect == Spec => []TypeOK
<1>1. ViewInv => TypeOK
  BY DEF ViewInv, DataInv
<1> QED
  BY <1>1, ViewInvariance, PTL

\* A lesson is completed by a request of its student for it, in their enrollment
\* of its course (progress/repository.go:21, :36).
LEMMA ProgressStep ==
  ASSUME ViewInv, [Next]_vars, NEW p \in progress' \ progress
  PROVE  /\ p[1][2] = CourseOfLesson(p[2])
         /\ \E r \in Requests : /\ req[r].op = "complete" /\ req'[r] # req[r]
                                /\ p[1][1] = req[r].user /\ p[2] = req[r].on
<1>1. PICK r \in Requests : InsertProgress(r)
  BY DEF Next, vars, db, Server, Load, SelectLesson, MarkComplete, GoNext, Completed, NotCompleted,
     Arrive, Ask, Handle, Leave, Others, CreateLesson, DeleteLessons, Enroll, CreateCourse,
     ReadCourse, UpdateCourse, DeleteCourse, FindEnrollment, Fail
<1>2. /\ req[r].op = "complete" /\ req[r].st = "write" /\ p = <<req[r].found, req[r].on>>
      /\ Done(r)
  BY <1>1 DEF InsertProgress, At
<1>3. req[r].found = <<req[r].user, CourseOfLesson(req[r].on)>> /\ req \in [Requests -> ReqType]
  BY <1>2, DataParts DEF ViewInv, ReqFits
<1>4. req'[r] # req[r]
  BY <1>2, <1>3, AnswerTyped DEF Done, End
<1> QED
  BY <1>2, <1>3, <1>4

\* Progress is the student's own (progress/repository.go:21, :36).
THEOREM ProgressIsOwn == Spec => ProgressOwn
<1>1. ViewInv /\ [Next]_vars =>
        [\A p \in progress' \ progress :
           /\ p[1][2] = CourseOfLesson(p[2])
           /\ \E r \in Requests :
                /\ req[r].op = "complete" /\ req'[r] # req[r]
                /\ p[1][1] = req[r].user /\ p[2] = req[r].on]_<<db, req>>
  BY ProgressStep
<1> QED
  BY <1>1, ViewInvariance, PTL DEF Spec, ProgressOwn

\* A teacher updates a course of theirs, or none (courses/handler.go:93, :99).
THEOREM EditsAreOwn == Spec => []OwnEdits
<1>1. ViewInv => OwnEdits
  BY DEF ViewInv, DataInv, ReqFits, OwnEdits, At
<1> QED
  BY <1>1, ViewInvariance, PTL

\* What the page shows as completed is completed, or gone
\* (course-viewer.component.ts:196).
THEOREM ShownIsDone == Spec => []ShownDone
<1>1. ViewInv => ShownDone
  BY DEF ViewInv
<1> QED
  BY <1>1, ViewInvariance, PTL
=============================================================================
