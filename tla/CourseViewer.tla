---------------------------- MODULE CourseViewer ----------------------------
(***************************************************************************)
(* The course viewer: one page of one user beside the server of Curriculum *)
(* and everybody else.  markComplete waits for its request; by the answer  *)
(* the user may look at another lesson, and the lesson may be gone.        *)
(***************************************************************************)
EXTENDS Curriculum, SequencesExt

CONSTANT Viewer  \* the user of the page

ASSUME ViewerAssumption == Viewer \in Users

VARIABLES
  outline,  \* outline(): the lessons of the course in order, <<>> before it is loaded
  done,     \* those the page shows as completed
  current,  \* currentLesson(): a lesson or None
  call      \* markComplete: its request and its lesson, None unless completing()

page == <<outline, done, current, call>>
vars == <<db, req, page>>

\* ngOnInit.  A student needs an enrollment; of what they have completed the
\* outline shows a part (Outline!FreshSuffix).
Load(c) ==
  LET of    == {l \in lessons : CourseOfLesson(l) = c}
      known == {l \in of : <<<<Viewer, c>>, l>> \in progress}
  IN
  /\ outline = <<>> /\ teacher[c] # None
  /\ Viewer \in Students => <<Viewer, c>> \in enrolled
  /\ outline' \in SetToSeqs(of) /\ done' \in SUBSET known
  /\ current' \in of \cup {None}
  /\ UNCHANGED <<db, req, call>>

SelectLesson(l) ==
  /\ l \in Range(outline)
  /\ current' = l
  /\ UNCHANGED <<db, req, outline, done, call>>

\* nextLesson, of the outline as it was loaded.
GoNext ==
  /\ \E i \in 1 .. Len(outline) - 1 : outline[i] = current /\ current' = outline[i + 1]
  /\ UNCHANGED <<db, req, outline, done, call>>

MarkComplete(r) ==
  /\ current # None /\ current \notin done /\ call = None
  /\ Ask(r, "complete", Viewer, current)
  /\ call' = [req |-> r, lesson |-> current]
  /\ UNCHANGED <<outline, done, current>>

\* A fault: the lesson is the one shown when the answer comes.
LessonShown == current

\* The lesson of the click.
LessonAsked == call.lesson

\* The answer marks its lesson, and selects it again.
Completed ==
  /\ call # None /\ req[call.req].st = "ok"
  /\ done' = done \cup {LessonAsked}
  /\ current' = LessonAsked
  /\ call' = None
  /\ req' = [req EXCEPT ![call.req] = Idle]
  /\ UNCHANGED <<db, outline>>

\* catch: ignored.
NotCompleted ==
  /\ call # None /\ req[call.req].st \in Final \ {"ok"}
  /\ call' = None
  /\ req' = [req EXCEPT ![call.req] = Idle]
  /\ UNCHANGED <<db, outline, done, current>>

Init == InitDB /\ outline = <<>> /\ done = {} /\ current = None /\ call = None

Server ==
  /\ \/ \E r \in Requests : Arrive(r) \/ Handle(r)
     \/ \E r \in Requests : (call # None => r # call.req) /\ Leave(r)
     \/ Others
  /\ UNCHANGED page

Next ==
  \/ Server
  \/ \E c \in Courses : Load(c)
  \/ \E l \in Lessons : SelectLesson(l)
  \/ \E r \in Requests : MarkComplete(r)
  \/ GoNext \/ Completed \/ NotCompleted

Spec == Init /\ [][Next]_vars

-----------------------------------------------------------------------------
(* Properties                                                              *)

\* The viewer has completed l, unless it was deleted.
Kept(l) == l \in lessons => <<<<Viewer, CourseOfLesson(l)>>, l>> \in progress

\* A lesson the page shows as completed is completed in the database, or was
\* deleted: the answer counts for the lesson of the click, whatever the user
\* selected meanwhile (course-viewer.component.ts:196).
ShownDone == \A l \in done : Kept(l)

\* What makes it inductive: the call of the page is a request for its lesson,
\* which has completed it if it ended well.
Called ==
  LET q == req[call.req] IN
  /\ call.req \in Requests /\ call.lesson \in Lessons \cap ever
  /\ \/ q.op = "complete" /\ q.user = Viewer /\ q.on = call.lesson /\ q.st \in {"read", "write"}
     \/ q.st = "error"
     \/ q.st = "ok" /\ Kept(call.lesson)

ViewInv ==
  /\ DataInv /\ ShownDone
  /\ outline \in Seq(Lessons \cap ever) /\ done \subseteq Lessons \cap ever
  /\ current \in (Lessons \cap ever) \cup {None}
  /\ call # None => Called
=============================================================================
