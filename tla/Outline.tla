------------------------------- MODULE Outline -------------------------------
(***************************************************************************)
(* courses.Repository.GetOutline and Handler.Outline: five queries of one  *)
(* transaction put together in memory.  The transaction is READ COMMITTED, *)
(* so each query sees what others committed before it.  Lessons are        *)
(* appended to the slice of their module while lessonMap keeps a pointer   *)
(* to each element; when append moves the slice to a larger array, those   *)
(* pointers go on pointing into the old one.                               *)
(*                                                                         *)
(* One course, one caller and its enrollment.  A lesson keeps its module   *)
(* and an attachment its lesson for life.  order_index is abstracted: rows *)
(* of lessons come in any order.                                           *)
(***************************************************************************)
EXTENDS Naturals, Sequences

CONSTANTS
  Modules, Lessons, Attachments,  \* ids
  NoModule, NoLesson,             \* parent of a row that does not exist
  Capacities                      \* of the arrays append can make for a slice of lessons

ASSUME ParentAssumption == NoModule \notin Modules /\ NoLesson \notin Lessons

\* An OutlineLesson is 128 bytes, a size class, so an array can have room for
\* exactly one.
ASSUME CapacityAssumption == Capacities \subseteq Nat /\ 1 \in Capacities

VARIABLES
  \* The database
  course,     \* the course exists
  modules,    \* modules of the course
  parent,     \* the module of each lesson
  lessonOf,   \* the lesson of each attachment
  enrolled,   \* the caller is enrolled
  progress,   \* lessons its enrollment has completed
  \* GetOutline
  pc,         \* the statement GetOutline is at
  student,    \* isStudent
  enrollment, \* it found the enrollment
  moduleIDs,  \* modules it read
  pending,    \* rows <<lesson, module>> of the lessons query not yet scanned
  slice,      \* the Lessons of each module
  cap,        \* the capacity of its array, which identifies the array
  pointer,    \* lessonMap: the slice and the array each lesson's entry points into
  attached,   \* the Attachments of each lesson, in the array of its slice
  completed,  \* lessons with Completed set there
  outcome,    \* the answer
  \* History
  copied,     \* of each slice: the elements its array got by copy
  readAttached, readCompleted,  \* what the last two queries returned
  lasting     \* lessons in the database all the time since the request began

db      == <<course, modules, parent, lessonOf, enrolled, progress>>
built   == <<slice, cap, pointer, copied>>
applied == <<attached, completed, readAttached, readCompleted>>
vars    == <<db, pc, student, enrollment, moduleIDs, pending, built, applied, outcome, lasting>>

Nil == [module |-> NoModule, array |-> 0]

\* The pointer of l leads to the array its slice has now.
Current(l) == pointer[l] # Nil /\ pointer[l].array = cap[pointer[l].module]

Stored     == {l \in Lessons : parent[l] # NoModule}
FilesOf(l) == {a \in Attachments : lessonOf[a] = l}

Init ==
  /\ course = TRUE
  /\ modules \in SUBSET Modules
  /\ parent \in [Lessons -> modules \cup {NoModule}]
  /\ lessonOf \in [Attachments -> Stored \cup {NoLesson}]
  /\ enrolled \in BOOLEAN
  /\ progress \in SUBSET (IF enrolled THEN Stored ELSE {})
  /\ pc = "enrollment"
  /\ student \in BOOLEAN
  /\ enrollment = FALSE
  /\ moduleIDs = {} /\ pending = {}
  /\ slice = [m \in Modules |-> <<>>]
  /\ cap = [m \in Modules |-> 0]
  /\ pointer = [l \in Lessons |-> Nil]
  /\ copied = [m \in Modules |-> 0]
  /\ attached = [l \in Lessons |-> {}] /\ readAttached = attached
  /\ completed = {} /\ readCompleted = {}
  /\ outcome = "none"
  /\ lasting = Stored

-----------------------------------------------------------------------------
(* GetOutline                                                              *)

\* Enrollment (if student)
ReadEnrollment ==
  /\ pc = "enrollment"
  /\ enrollment' = (student /\ enrolled)
  /\ pc' = "modules"
  /\ UNCHANGED <<db, student, moduleIDs, pending, built, applied, outcome, lasting>>

\* A course without modules ends here.
ReadModules ==
  /\ pc = "modules"
  /\ moduleIDs' = modules
  /\ pc' = IF modules = {} THEN "commit" ELSE "lessons"
  /\ UNCHANGED <<db, student, enrollment, pending, built, applied, outcome, lasting>>

\* A fault: JOIN lesson_attachments in the query for lessons.
QueryLessonsJoined ==
  /\ pc = "lessons"
  /\ pending' = {<<l, parent[l]>> : l \in {k \in Lessons : parent[k] \in moduleIDs /\ FilesOf(k) # {}}}
  /\ pc' = "scan"
  /\ UNCHANGED <<db, student, enrollment, moduleIDs, built, applied, outcome, lasting>>

QueryLessons ==
  /\ pc = "lessons"
  /\ pending' = {<<l, parent[l]>> : l \in {k \in Lessons : parent[k] \in moduleIDs}}
  /\ pc' = "scan"
  /\ UNCHANGED <<db, student, enrollment, moduleIDs, built, applied, outcome, lasting>>

\* Room for one more lesson of m: the array it has, or the next larger one.
Room(m, c) ==
  IF Len(slice[m]) < cap[m]
  THEN c = cap[m]
  ELSE c > cap[m] /\ \A d \in Capacities : d > cap[m] => c <= d

\* A fault: the pointer is taken before append moves the slice.
AppendLessonLate(m, l, c) ==
  /\ slice' = [slice EXCEPT ![m] = Append(@, l)]
  /\ cap' = [cap EXCEPT ![m] = c]
  /\ copied' = IF c = cap[m] THEN copied ELSE [copied EXCEPT ![m] = Len(slice[m])]
  /\ pointer' = [pointer EXCEPT ![l] = [module |-> m, array |-> cap[m]]]

\* append; the pointer is taken after it, and those taken before stay as they are.
AppendLesson(m, l, c) ==
  /\ slice' = [slice EXCEPT ![m] = Append(@, l)]
  /\ cap' = [cap EXCEPT ![m] = c]
  /\ copied' = IF c = cap[m] THEN copied ELSE [copied EXCEPT ![m] = Len(slice[m])]
  /\ pointer' = [pointer EXCEPT ![l] = [module |-> m, array |-> c]]

\* One row of the lessons.
ScanLesson(l, m) ==
  /\ pc = "scan" /\ <<l, m>> \in pending
  /\ pending' = pending \ {<<l, m>>}
  /\ \E c \in Capacities : Room(m, c) /\ AppendLesson(m, l, c)
  /\ UNCHANGED <<db, pc, student, enrollment, moduleIDs, applied, outcome, lasting>>

\* No more rows; a course without lessons ends here.
ScanEnds ==
  /\ pc = "scan" /\ pending = {}
  /\ pc' = IF \A l \in Lessons : pointer[l] = Nil THEN "commit" ELSE "attachments"
  /\ UNCHANGED <<db, student, enrollment, moduleIDs, pending, built, applied, outcome, lasting>>

\* Attachments of the lessons in lessonIDs, appended through lessonMap: what
\* goes into an array no slice uses any more is never seen again.
ReadAttachments ==
  /\ pc = "attachments"
  /\ readAttached' = [l \in Lessons |-> IF pointer[l] # Nil THEN FilesOf(l) ELSE {}]
  /\ attached' = [l \in Lessons |-> IF Current(l) THEN attached[l] \cup readAttached'[l]
                                    ELSE attached[l]]
  /\ pc' = IF enrollment THEN "progress" ELSE "commit"
  /\ UNCHANGED <<db, student, enrollment, moduleIDs, pending, built, completed, readCompleted,
                 outcome, lasting>>

\* A fault: no check that lessonMap has the lesson of a row of lesson_progress.
ReadProgressUnchecked ==
  /\ pc = "progress"
  /\ readCompleted' = {l \in progress : pointer[l] # Nil}
  /\ completed' = completed \cup progress
  /\ pc' = "commit"
  /\ UNCHANGED <<db, student, enrollment, moduleIDs, pending, built, attached, readAttached,
                 outcome, lasting>>

\* Progress (if enrolled student), set through lessonMap as well.
ReadProgress ==
  /\ pc = "progress"
  /\ readCompleted' = {l \in progress : pointer[l] # Nil}
  /\ completed' = completed \cup {l \in readCompleted' : Current(l)}
  /\ pc' = "commit"
  /\ UNCHANGED <<db, student, enrollment, moduleIDs, pending, built, attached, readAttached,
                 outcome, lasting>>

Answer(reply) ==
  /\ outcome' = reply
  /\ pc' = "done"
  /\ UNCHANGED <<db, student, enrollment, moduleIDs, pending, built, applied, lasting>>

\* Handler.Outline
Commit ==
  /\ pc = "commit"
  /\ Answer(IF student /\ ~enrollment THEN "forbidden" ELSE "ok")

\* A query or the COMMIT fails, or the course does not exist: 500.
Fail == pc # "done" /\ Answer("error")

-----------------------------------------------------------------------------
(* What other transactions commit between two queries                      *)

reader == <<pc, student, enrollment, moduleIDs, pending, built, applied, outcome>>

CreateModule(m) ==
  /\ course /\ m \notin modules
  /\ modules' = modules \cup {m}
  /\ UNCHANGED <<course, parent, lessonOf, enrolled, progress, lasting>>

CreateLesson(l, m) ==
  /\ m \in modules /\ l \notin Stored
  /\ parent' = [parent EXCEPT ![l] = m]
  /\ UNCHANGED <<course, modules, lessonOf, enrolled, progress, lasting>>

\* A fault: lesson_attachments without ON DELETE CASCADE or a foreign key.
DropNoCascade(gone) ==
  /\ parent' = [l \in Lessons |-> IF l \in gone THEN NoModule ELSE parent[l]]
  /\ progress' = progress \ gone
  /\ lasting' = lasting \ gone
  /\ UNCHANGED <<enrolled, lessonOf>>

\* DELETE of lessons, with ON DELETE CASCADE to attachments and progress.
Drop(gone) ==
  /\ parent' = [l \in Lessons |-> IF l \in gone THEN NoModule ELSE parent[l]]
  /\ lessonOf' = [a \in Attachments |-> IF lessonOf[a] \in gone THEN NoLesson ELSE lessonOf[a]]
  /\ progress' = progress \ gone
  /\ lasting' = lasting \ gone
  /\ UNCHANGED enrolled

DeleteLesson(l) == l \in Stored /\ Drop({l}) /\ UNCHANGED <<course, modules>>

DeleteModule(m) ==
  /\ m \in modules
  /\ modules' = modules \ {m}
  /\ Drop({l \in Lessons : parent[l] = m})
  /\ UNCHANGED course

\* Refused by the foreign key of enrollments while someone is enrolled.
DeleteCourse ==
  /\ course /\ ~enrolled
  /\ course' = FALSE /\ modules' = {}
  /\ Drop(Lessons)

AddAttachment(a, l) ==
  /\ l \in Stored /\ lessonOf[a] = NoLesson
  /\ lessonOf' = [lessonOf EXCEPT ![a] = l]
  /\ UNCHANGED <<course, modules, parent, enrolled, progress, lasting>>

DeleteAttachment(a) ==
  /\ lessonOf[a] # NoLesson
  /\ lessonOf' = [lessonOf EXCEPT ![a] = NoLesson]
  /\ UNCHANGED <<course, modules, parent, enrolled, progress, lasting>>

CompleteLesson(l) ==
  /\ enrolled /\ l \in Stored
  /\ progress' = progress \cup {l}
  /\ UNCHANGED <<course, modules, parent, lessonOf, enrolled, lasting>>

\* No code of the repository inserts enrollments.
Enroll ==
  /\ course /\ ~enrolled
  /\ enrolled' = TRUE
  /\ UNCHANGED <<course, modules, parent, lessonOf, progress, lasting>>

\* After the answer nothing is looked at any more.
Others ==
  /\ pc # "done"
  /\ \/ DeleteCourse \/ Enroll
     \/ \E m \in Modules : CreateModule(m) \/ DeleteModule(m)
     \/ \E l \in Lessons : DeleteLesson(l) \/ CompleteLesson(l) \/ \E m \in Modules : CreateLesson(l, m)
     \/ \E a \in Attachments : DeleteAttachment(a) \/ \E l \in Lessons : AddAttachment(a, l)
  /\ UNCHANGED reader

-----------------------------------------------------------------------------
GetOutline ==
  \/ ReadEnrollment \/ ReadModules \/ QueryLessons
  \/ \E l \in Lessons, m \in Modules : ScanLesson(l, m)
  \/ ScanEnds \/ ReadAttachments \/ ReadProgress

Next == GetOutline \/ Commit \/ Fail \/ Others

Spec == Init /\ [][Next]_vars

-----------------------------------------------------------------------------
(* Properties                                                              *)

Positions(m) == 1 .. Len(slice[m])

\* Every variable has its type, and the foreign keys of the tables hold.
TypeOK ==
  /\ course \in BOOLEAN
  /\ modules \subseteq Modules /\ parent \in [Lessons -> modules \cup {NoModule}]
  /\ lessonOf \in [Attachments -> Stored \cup {NoLesson}]
  /\ enrolled \in BOOLEAN /\ progress \subseteq Stored
  /\ pc \in {"enrollment", "modules", "lessons", "scan", "attachments", "progress", "commit", "done"}
  /\ student \in BOOLEAN /\ enrollment \in BOOLEAN
  /\ moduleIDs \subseteq Modules /\ pending \subseteq Lessons \X Modules
  /\ slice \in [Modules -> Seq(Lessons)]
  /\ cap \in [Modules -> Nat] /\ copied \in [Modules -> Nat]
  /\ pointer \in [Lessons -> [module : Modules \cup {NoModule}, array : Nat]]
  /\ attached \in [Lessons -> SUBSET Attachments]
  /\ readAttached \in [Lessons -> SUBSET Attachments]
  /\ completed \subseteq Lessons /\ readCompleted \subseteq Lessons
  /\ outcome \in {"none", "ok", "forbidden", "error"}
  /\ lasting \subseteq Stored

\* A successful outline lists, once and under its module, every lesson that
\* was there for the whole request, whatever was created or deleted between
\* the query for modules and the one for lessons (outline.go:94, 121).
ListsLasting ==
  outcome = "ok" => \A l \in lasting :
    \E k \in Positions(parent[l]) :
      /\ slice[parent[l]][k] = l
      /\ \A m \in Modules : \A j \in Positions(m) :
           slice[m][j] = l => m = parent[l] /\ j = k

\* Which pointers of lessonMap are good: those to the elements appended since
\* the slice last moved (outline.go:149-151), that is always the last of a
\* module, and never the first of two or more.
FreshSuffix ==
  \A m \in Modules : \A k \in Positions(m) :
    /\ Current(slice[m][k]) <=> (k > copied[m])
    /\ (Len(slice[m]) >= 2) => ~Current(slice[m][1])
    /\ Current(slice[m][Len(slice[m])])

\* A successful outline shows of the elements appended since the slice last
\* moved the attachments and the progress the queries returned, and none of
\* the elements before them; of lessons it does not list, none either.
ShowsFresh ==
  outcome = "ok" => \A l \in Lessons :
    LET fresh == \E m \in Modules : \E k \in Positions(m) : slice[m][k] = l /\ k > copied[m]
    IN  IF fresh
        THEN attached[l] = readAttached[l] /\ (l \in completed) = (l \in readCompleted)
        ELSE attached[l] = {} /\ l \notin completed

\* "Attachments" (outline.go:162) and "Progress (if enrolled student)" (:186):
\* each lesson shows what the queries returned for it.
ShowsRead == outcome = "ok" => attached = readAttached /\ completed = readCompleted
=============================================================================
