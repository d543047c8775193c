----------------------------- MODULE Curriculum -----------------------------
(***************************************************************************)
(* Courses, who teaches them, who is enrolled in them, and which lessons   *)
(* the enrolled have completed.  A request is one handler: at most two     *)
(* transactions, each of which takes effect at once (TenantStore), with    *)
(* whatever other requests do between the two.  Its role is that of the    *)
(* access token.  Lessons keep their module, and modules their course, for *)
(* life; ids are drawn once; nothing in the code ends an enrollment.       *)
(***************************************************************************)
EXTENDS FiniteSets

CONSTANTS
  Requests,                    \* running at the same time (bound)
  Admins, Teachers, Students,  \* users by role
  Courses, Modules, Lessons,   \* ids (bound: how many can be created)
  ModuleOf, CourseOf,          \* the module of a lesson, the course of a module
  Owners,                      \* users an admin names as teacher_id (bound)
  Seats,                       \* enrollments, <<student, course>>, there can be (bound)
  None

Users == Admins \cup Teachers \cup Students

ASSUME RoleAssumption ==
  /\ Teachers \cap Students = {} /\ Admins \cap (Teachers \cup Students) = {}
  /\ None \notin Users \cup Courses \cup Lessons \cup Requests
  /\ Owners \subseteq Users
ASSUME TreeAssumption == ModuleOf \in [Lessons -> Modules] /\ CourseOf \in [Modules -> Courses]

VARIABLES
  teacher,   \* courses: teacher_id, None without a row
  lessons,   \* the lessons with a row
  ever,      \* the ids that have been given out
  enrolled,  \* enrollments: <<student, course>>, which are unique
  progress,  \* lesson_progress: <<enrollment, lesson>>
  req        \* each request

db == <<teacher, lessons, ever, enrolled, progress>>

CourseOfLesson(l) == CourseOf[ModuleOf[l]]

Idle  == [op |-> "none", user |-> None, on |-> None, found |-> None, st |-> "idle"]
Ops   == {"none", "create", "update", "delete", "complete"}
Final == {"ok", "error"}  \* an error is any of 403, 404 and 500

-----------------------------------------------------------------------------
(* A request comes and goes                                                *)

Answer(st) == [Idle EXCEPT !.st = st]

\* The role checks at the top of the handlers.
Refused(op, u) ==
  \/ op = "create" /\ u \in Students
  \/ op = "delete" /\ u \notin Admins
  \/ op = "complete" /\ u \notin Students

\* Handlers that look at the database before they write to it.
Reads(op, u) == op = "complete" \/ (op = "update" /\ u \in Teachers)

Ask(r, op, u, x) ==
  /\ req[r] = Idle
  /\ req' = [req EXCEPT ![r] =
       IF Refused(op, u) THEN Answer("error")
       ELSE [op |-> op, user |-> u, on |-> x, found |-> None,
             st |-> IF Reads(op, u) THEN "read" ELSE "write"]]
  /\ UNCHANGED db

Arrive(r) ==
  \E u \in Users :
    \/ Ask(r, "create", u, None)
    \/ \E c \in Courses \cap ever : Ask(r, "update", u, c) \/ Ask(r, "delete", u, c)
    \/ \E l \in Lessons \cap ever : Ask(r, "complete", u, l)

End(r, st) == req' = [req EXCEPT ![r] = Answer(st)]

\* The answer of a transaction that took effect may be lost.
Done(r) == \E st \in Final : End(r, st)

\* The client has its answer.
Leave(r) ==
  /\ req[r].st \in Final
  /\ req' = [req EXCEPT ![r] = Idle]
  /\ UNCHANGED db

\* A statement fails, or the client goes away.
Fail(r) == req[r].st \in {"read", "write"} /\ End(r, "error") /\ UNCHANGED db

At(r, op, st) == req[r].op = op /\ req[r].st = st

-----------------------------------------------------------------------------
(* Courses                                                                 *)

\* A teacher creates courses of their own, an admin those of others too: the
\* role of the user named is not looked at.
CreateCourse(r) ==
  /\ At(r, "create", "write")
  /\ \E c \in Courses \ ever, u \in Owners \cup {req[r].user} :
       /\ req[r].user \in Teachers => u = req[r].user
       /\ teacher' = [teacher EXCEPT ![c] = u]
       /\ ever' = ever \cup {c}
  /\ Done(r)
  /\ UNCHANGED <<lessons, enrolled, progress>>

\* existing == nil || existing.TeacherID != claims.UserID
NotTheirs(u, c) == teacher[c] # u

ReadCourse(r) ==
  /\ At(r, "update", "read")
  /\ IF NotTheirs(req[r].user, req[r].on) THEN End(r, "error")
                                           ELSE req' = [req EXCEPT ![r].st = "write"]
  /\ UNCHANGED db

\* What the UPDATE sets is left out.  Of a course that is gone it returns no
\* row, which is an error; so does the SELECT when there is nothing to set.
UpdateCourse(r) ==
  /\ At(r, "update", "write")
  /\ IF teacher[req[r].on] # None THEN Done(r) ELSE End(r, "error")
  /\ UNCHANGED db

\* A fault: the enrollments' foreign key is not looked at.
MayDelete(c) == TRUE

\* enrollments REFERENCES courses, without a cascade.
NotEnrolled(c) == \A e \in enrolled : e[2] # c

\* Modules, lessons and progress go with the course; no row is no error.
DeleteCourse(r) ==
  LET c == req[r].on IN
  /\ At(r, "delete", "write")
  /\ IF NotEnrolled(c)
     THEN /\ teacher' = [teacher EXCEPT ![c] = None]
          /\ lessons' = {l \in lessons : CourseOfLesson(l) # c}
          /\ progress' = {p \in progress : CourseOfLesson(p[2]) # c}
          /\ Done(r)
     ELSE End(r, "error") /\ UNCHANGED <<teacher, lessons, progress>>
  /\ UNCHANGED <<ever, enrolled>>

-----------------------------------------------------------------------------
(* Progress                                                                *)

\* A fault: the JOIN is not on the course.
EnrollmentsAny(u, l) == {e \in enrolled : e[1] = u /\ l \in lessons}

\* A fault: no AND e.student_id = $2.
EnrollmentsOfAll(u, l) == {e \in enrolled : e[2] = CourseOfLesson(l) /\ l \in lessons}

\* EnrollmentForStudent: the student's, in the course of the lesson's module.
Enrollments(u, l) == {e \in enrolled : e = <<u, CourseOfLesson(l)>> /\ l \in lessons}

FindEnrollment(r) ==
  LET found == Enrollments(req[r].user, req[r].on) IN
  /\ At(r, "complete", "read")
  /\ IF found = {} THEN End(r, "error")
                   ELSE \E e \in found : req' = [req EXCEPT ![r].found = e, ![r].st = "write"]
  /\ UNCHANGED db

\* The lesson may be gone by now: its foreign key fails.
InsertProgress(r) ==
  /\ At(r, "complete", "write")
  /\ IF req[r].on \in lessons THEN progress' = progress \cup {<<req[r].found, req[r].on>>} /\ Done(r)
                              ELSE End(r, "error") /\ UNCHANGED progress
  /\ UNCHANGED <<teacher, lessons, ever, enrolled>>

-----------------------------------------------------------------------------
(* Lessons come and go (Outline, OrderedContent); students are enrolled.   *)

CreateLesson(l) ==
  /\ l \in Lessons \ ever /\ teacher[CourseOfLesson(l)] # None
  /\ lessons' = lessons \cup {l} /\ ever' = ever \cup {l}
  /\ UNCHANGED <<teacher, enrolled, progress, req>>

\* One lesson, or those of a module, with their progress.
DeleteLessons(S) ==
  /\ S \subseteq lessons
  /\ lessons' = lessons \ S
  /\ progress' = {p \in progress : p[2] \notin S}
  /\ UNCHANGED <<teacher, ever, enrolled, req>>

\* Nothing in the code inserts an enrollment.
Enroll(u, c) ==
  /\ <<u, c>> \in Seats /\ teacher[c] # None
  /\ enrolled' = enrolled \cup {<<u, c>>}
  /\ UNCHANGED <<teacher, lessons, ever, progress, req>>

-----------------------------------------------------------------------------
InitDB ==
  /\ teacher = [c \in Courses |-> None] /\ lessons = {} /\ ever = {}
  /\ enrolled = {} /\ progress = {}
  /\ req = [r \in Requests |-> Idle]

Handle(r) ==
  \/ CreateCourse(r) \/ ReadCourse(r) \/ UpdateCourse(r) \/ DeleteCourse(r)
  \/ FindEnrollment(r) \/ InsertProgress(r) \/ Fail(r)

Others ==
  \/ \E l \in Lessons : CreateLesson(l) \/ DeleteLessons({l})
  \/ \E m \in Modules : DeleteLessons({l \in lessons : ModuleOf[l] = m})
  \/ \E u \in Students, c \in Courses : Enroll(u, c)

-----------------------------------------------------------------------------
(* Properties                                                              *)

\* Every variable has its type; lessons, enrollments and progress have the
\* rows they refer to.
TypeOK ==
  /\ teacher \in [Courses -> Users \cup {None}]
  /\ lessons \subseteq Lessons /\ \A l \in lessons : teacher[CourseOfLesson(l)] # None
  /\ ever \subseteq Courses \cup Lessons
  /\ enrolled \subseteq Students \X Courses /\ \A e \in enrolled : teacher[e[2]] # None
  /\ progress \subseteq enrolled \X lessons
  /\ req \in [Requests -> [op : Ops, user : Users \cup {None}, on : Courses \cup Lessons \cup {None},
                           found : (Students \X Courses) \cup {None},
                           st : {"idle", "read", "write"} \cup Final]]

\* A lesson becomes completed for the student whose request it is, in their
\* enrollment of the lesson's own course, though the enrollment is found in one
\* transaction and the row inserted in another, with other students asking and
\* being enrolled in between (progress/repository.go:21, :36).
ProgressOwn ==
  [][\A p \in progress' \ progress :
       /\ p[1][2] = CourseOfLesson(p[2])
       /\ \E r \in Requests :
            /\ req[r].op = "complete" /\ req'[r] # req[r]
            /\ p[1][1] = req[r].user /\ p[2] = req[r].on]_<<db, req>>

\* A teacher about to update a course updates one of theirs, or none at all,
\* though the owner is read in one transaction and the course updated in
\* another (courses/handler.go:93, :99).
OwnEdits ==
  \A r \in Requests :
    At(r, "update", "write") /\ req[r].user \in Teachers => teacher[req[r].on] \in {req[r].user, None}

\* What makes them inductive: ids once given out stay so, and a request about
\* to write has found what its last transaction will need.
ReqFits(q) ==
  /\ q.op \in {"update", "delete"} => q.on \in Courses \cap ever
  /\ q.op = "create" => q.user \in Users
  /\ q.op = "complete" => q.on \in Lessons \cap ever
  /\ q.op = "complete" /\ q.st = "write" =>
       q.found \in enrolled /\ q.found = <<q.user, CourseOfLesson(q.on)>>
  /\ q.op = "update" /\ q.st = "write" /\ q.user \in Teachers =>
       teacher[q.on] \in {q.user, None}

DataInv ==
  /\ TypeOK
  /\ lessons \subseteq ever /\ IsFiniteSet(lessons)
  /\ \A r \in Requests : ReqFits(req[r])
=============================================================================
