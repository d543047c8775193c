----------------------------- MODULE BuilderPage -----------------------------
(***************************************************************************)
(* The course builder, one page of one teacher: the list of modules and    *)
(* lessons it shows, the form of the right panel, and the calls to the     *)
(* server it has had no answer to.  Its handlers are asynchronous: what    *)
(* follows an `await` runs when the answer comes, on the page of that      *)
(* moment.  Calls reach the server, and answers the page, in any order.    *)
(*                                                                         *)
(* The server is the content of the course, changed by one call at a time  *)
(* (OrderedContent is about transactions that overlap); an upload is the   *)
(* handler of Upload, statement by statement.  Titles and the fields of a  *)
(* lesson that are saved as its video is are left out; the id of a PDF     *)
(* attachment is that of its file.                                         *)
(***************************************************************************)
EXTENDS Integers, SequencesExt, Upload

\* Files, of Upload, are the videos and PDFs, each chosen once (bound).
CONSTANTS
  Calls,     \* calls unanswered at the same time (bound)
  Modules,   \* ids of modules (bound: how many can be created)
  Lessons,   \* ids of lessons (bound: how many can be created)
  MaxClicks, \* what the teacher does, in all (bound)
  None       \* '', undefined or null

\* What editing() is for a new module, and a file no form has had yet.
New    == "new"
Unused == "unused"

ASSUME BuilderAssumption ==
  /\ None \notin Modules \cup Lessons \cup Files /\ Unused \notin Lessons \cup {None}
  /\ Modules \cap Lessons = {}
ASSUME FiniteAssumption == IsFiniteSet(Modules) /\ IsFiniteSet(Lessons)

VARIABLES
  place,      \* server: order_index of each module, Absent without a row
  row,        \* server: each lesson, NoRow without a row
  drawn,      \* server: the ids it has given out
  order,      \* page: the ids in modules()
  lessonsOf,  \* page: the ids of the lessons in each module of modules()
  lesson,     \* page: the object of each lesson in those lists
  selected,   \* page: selectedLesson(), its id and module_id
  form,       \* page: lessonForm
  editing,    \* page: editingModule(): an id, New or None
  saving, uploading,
  clicks,     \* how often the teacher has done something
  call,       \* each call: operation, arguments, and how far it is
  meant,      \* history: the lesson in whose form each file was chosen
  strays,     \* history: videos that came when another lesson's form was open
  lost,       \* history: an answer was lost after its call took effect
  tangled     \* history: the lists with reorders that overlapped, failed or
              \* were overtaken

server  == <<place, row, drawn>>
lists   == <<order, lessonsOf, lesson>>
panel   == <<selected, form, editing, saving, uploading>>
history == <<meant, strays, lost, tangled>>
page    == <<server, lists, panel, clicks, call, history>>
vars    == <<page, upload>>

Absent   == -1
NoRow    == [mod |-> None, index |-> Absent, video |-> None, pdfs |-> {}]
NoObject == [mod |-> None, video |-> None, pdfs |-> {}]
NoLesson == [lesson |-> None, mod |-> None]

Idle == [op |-> "none", mod |-> None, lesson |-> None, file |-> None, ids |-> <<>>, st |-> "idle"]

\* The calls that set saving, and those that set uploading.
Saves   == {"createModule", "updateModule", "createLesson", "updateLesson", "deleteLesson"}
Uploads == {"uploadVideo", "uploadPdf", "uploadedPdf"}
Ops     == Saves \cup Uploads \cup
  {"none", "deleteModule", "pickVideo", "pickPdf", "pickedPdf", "removeAttachment", "reorder"}

\* The page calls the server, or opens the picker.
Send(c, op, m, x, f, ids) ==
  /\ call[c] = Idle
  /\ call' = [call EXCEPT ![c] = [op |-> op, mod |-> m, lesson |-> x, file |-> f, ids |-> ids, st |-> "sent"]]

Close(c) == call' = [call EXCEPT ![c] = Idle]

\* Where x stands in a list, from 0.
Place(s, x) == (CHOOSE i \in DOMAIN s : s[i] = x) - 1

\* The panel shows the form of a module, or the form of a lesson.
ModuleForm == editing # None /\ selected = NoLesson
LessonForm == selected # NoLesson

-----------------------------------------------------------------------------
(* The teacher: modules                                                    *)

EditModule(m) ==
  /\ m \in Range(order) \cup {New}
  /\ selected' = NoLesson /\ editing' = m
  /\ UNCHANGED <<server, lists, form, saving, uploading, call, history>>

CancelModule ==
  /\ ModuleForm
  /\ editing' = None
  /\ UNCHANGED <<server, lists, selected, form, saving, uploading, call, history>>

\* create for a new module, update for one that has an id.
SaveModule(c) ==
  /\ ModuleForm /\ ~saving
  /\ IF editing = New THEN Send(c, "createModule", None, None, None, <<>>)
                       ELSE Send(c, "updateModule", editing, None, None, <<>>)
  /\ saving' = TRUE
  /\ UNCHANGED <<server, lists, selected, form, editing, uploading, history>>

DeleteModule(c, m) ==
  /\ m \in Range(order)
  /\ Send(c, "deleteModule", m, None, None, <<>>)
  /\ UNCHANGED <<server, lists, panel, history>>

\* moveItemInArray.
Moved(s, i, j) == InsertAt(RemoveAt(s, i), j, s[i])

\* Two reorders of a list are on their way at once.
Tangles(m) == \E q \in Calls : call[q].op = "reorder" /\ call[q].mod = m

\* A fault: the list is sent as it was before.
SentBefore(before, after) == before

\* The list that a drag sends.
Sent(before, after) == after

DropModule(c, i, j) ==
  /\ i \in DOMAIN order /\ j \in DOMAIN order
  /\ order' = Moved(order, i, j)
  /\ Send(c, "reorder", None, None, None, Sent(order, order'))
  /\ tangled' = IF Tangles(None) THEN tangled \cup {None} ELSE tangled
  /\ UNCHANGED <<server, lessonsOf, lesson, panel, meant, strays, lost>>

-----------------------------------------------------------------------------
(* The teacher: lessons                                                    *)

\* A fault: the video of the form before is kept.
FormKeepVideo(x, object, m) == [lesson |-> x, mod |-> m, video |-> form.video, pdfs |-> object.pdfs]

FormOf(x, object, m) == [lesson |-> x, mod |-> m, video |-> object.video, pdfs |-> object.pdfs]

\* selectLesson, of a lesson in the list or of a draft.
OpenForm(x, object, m) ==
  /\ editing' = None
  /\ selected' = [lesson |-> x, mod |-> object.mod]
  /\ form' = FormOf(x, object, m)
  /\ UNCHANGED <<server, lists, saving, uploading, call, history>>

SelectLesson(m, x) ==
  m \in Range(order) /\ x \in Range(lessonsOf[m]) /\ OpenForm(x, lesson[x], m)

AddLesson(m) == m \in Range(order) /\ OpenForm(None, [NoObject EXCEPT !.mod = m], m)

CancelLesson ==
  /\ LessonForm
  /\ selected' = NoLesson
  /\ UNCHANGED <<server, lists, form, editing, saving, uploading, call, history>>

\* A fault: the button stays enabled while saving.
SaveLessonTwice(c) ==
  /\ LessonForm
  /\ LET op == IF form.lesson = None THEN "createLesson" ELSE "updateLesson"
     IN Send(c, op, form.mod, form.lesson, form.video, <<>>)
  /\ saving' = TRUE
  /\ UNCHANGED <<server, lists, selected, form, editing, uploading, history>>

\* create for a draft, update for a lesson: with what the form holds now.
SaveLesson(c) ==
  /\ LessonForm /\ ~saving
  /\ LET op == IF form.lesson = None THEN "createLesson" ELSE "updateLesson"
     IN Send(c, op, form.mod, form.lesson, form.video, <<>>)
  /\ saving' = TRUE
  /\ UNCHANGED <<server, lists, selected, form, editing, uploading, history>>

\* The module is the module_id of the lesson: None when the outline gave it.
DeleteLesson(c) ==
  /\ LessonForm /\ selected.lesson # None /\ ~saving
  /\ Send(c, "deleteLesson", selected.mod, selected.lesson, None, <<>>)
  /\ saving' = TRUE
  /\ UNCHANGED <<server, lists, selected, form, editing, uploading, history>>

DropLesson(c, m, i, j) ==
  /\ m \in Range(order)
  /\ i \in DOMAIN lessonsOf[m] /\ j \in DOMAIN lessonsOf[m]
  /\ lessonsOf' = [lessonsOf EXCEPT ![m] = Moved(@, i, j)]
  /\ Send(c, "reorder", m, None, None, Sent(lessonsOf[m], lessonsOf'[m]))
  /\ tangled' = IF Tangles(m) THEN tangled \cup {m} ELSE tangled
  /\ UNCHANGED <<server, order, lesson, panel, meant, strays, lost>>

-----------------------------------------------------------------------------
(* The teacher: files                                                      *)

Choose(c, op, f) ==
  /\ LessonForm /\ meant[f] = Unused
  /\ Send(c, op, None, form.lesson, f, <<>>)
  /\ meant' = [meant EXCEPT ![f] = form.lesson]
  /\ UNCHANGED <<server, lists, selected, form, editing, saving, strays, lost, tangled>>

PickVideo(c, f)   == ~saving /\ Choose(c, "pickVideo", f) /\ UNCHANGED uploading
UploadVideo(c, f) == ~uploading /\ Choose(c, "uploadVideo", f) /\ uploading' = TRUE

\* "Guarda la clase primero": not for a draft.
PickPdf(c, f)   == form.lesson # None /\ ~saving /\ Choose(c, "pickPdf", f) /\ UNCHANGED uploading
UploadPdf(c, f) == form.lesson # None /\ ~uploading /\ Choose(c, "uploadPdf", f) /\ uploading' = TRUE

\* A draft has none on the server; it shows those that came late.
RemoveAttachment(c, f) ==
  /\ LessonForm /\ ~saving /\ f \in form.pdfs
  /\ IF form.lesson = None
     THEN form' = [form EXCEPT !.pdfs = @ \ {f}] /\ UNCHANGED call
     ELSE Send(c, "removeAttachment", None, form.lesson, f, <<>>) /\ UNCHANGED form
  /\ UNCHANGED <<server, lists, selected, editing, saving, uploading, history>>

-----------------------------------------------------------------------------
(* The server                                                              *)

InModule(m) == {x \in Lessons : row[x].mod = m}

\* COALESCE(MAX(order_index) + 1, 0)
NextIndex(indexes) == IF indexes = {} THEN 0 ELSE Max(indexes) + 1

\* The index a list gives to an id, or the one it has.
Reindexed(ids, x, old) ==
  IF x \in Range(ids) THEN Place(ids, x) ELSE old

\* A call takes effect, and its answer reaches the page or not.
Replies(c, m, x) ==
  /\ \E st \in {"ok", "error"} :
       /\ call' = [call EXCEPT ![c].mod = m, ![c].lesson = x, ![c].st = st]
       /\ lost' = (lost \/ st = "error")
  /\ UNCHANGED <<lists, panel, meant, strays>>

Reply(c, m, x) == Replies(c, m, x) /\ UNCHANGED tangled

Serves(c, ops) == call[c].st = "sent" /\ call[c].op \in ops

ServeCreateModule(c) ==
  /\ Serves(c, {"createModule"})
  /\ \E m \in Modules \ drawn :
       /\ place' = [place EXCEPT ![m] = NextIndex({place[n] : n \in Modules} \ {Absent})]
       /\ drawn' = drawn \cup {m}
       /\ Reply(c, m, None)
  /\ UNCHANGED row

ServeDeleteModule(c) ==
  LET m == call[c].mod IN
  /\ Serves(c, {"deleteModule"})
  /\ place' = [place EXCEPT ![m] = Absent]
  /\ row' = [x \in Lessons |-> IF x \in InModule(m) THEN NoRow ELSE row[x]]
  /\ Reply(c, m, None)
  /\ UNCHANGED drawn

\* The foreign key refuses a lesson of a module that is gone.
ServeCreateLesson(c) ==
  LET m == call[c].mod IN
  /\ Serves(c, {"createLesson"}) /\ place[m] # Absent
  /\ \E x \in Lessons \ drawn :
       /\ row' = [row EXCEPT ![x] = [mod |-> m, video |-> call[c].file, pdfs |-> {},
                                     index |-> NextIndex({row[y].index : y \in InModule(m)})]]
       /\ drawn' = drawn \cup {x}
       /\ Reply(c, m, x)
  /\ UNCHANGED place

\* By id: the module in the path is not looked at.
ServeUpdateLesson(c) ==
  LET x == call[c].lesson IN
  /\ Serves(c, {"updateLesson"}) /\ row[x] # NoRow
  /\ row' = [row EXCEPT ![x].video = call[c].file]
  /\ Reply(c, call[c].mod, x)
  /\ UNCHANGED <<place, drawn>>

ServeDeleteLesson(c) ==
  LET x == call[c].lesson IN
  /\ Serves(c, {"deleteLesson"})
  /\ row' = [row EXCEPT ![x] = NoRow]
  /\ Reply(c, call[c].mod, x)
  /\ UNCHANGED <<place, drawn>>

\* Of a list that was sent something is gone, and something else has come.
Overtaken(c) ==
  LET ids == Range(call[c].ids)
      now == IF call[c].mod = None THEN {m \in Modules : place[m] # Absent} ELSE InModule(call[c].mod)
  IN ~(ids \subseteq now) /\ ~(now \subseteq ids)

\* One UPDATE for each id: those that are gone are no error.
ServeReorder(c) ==
  LET ids == call[c].ids IN
  /\ Serves(c, {"reorder"})
  /\ place' = [m \in Modules |-> IF place[m] = Absent THEN Absent ELSE Reindexed(ids, m, place[m])]
  /\ row' = [x \in Lessons |-> IF row[x] = NoRow THEN NoRow
                               ELSE [row[x] EXCEPT !.index = Reindexed(ids, x, @)]]
  /\ Replies(c, call[c].mod, None)
  /\ tangled' = IF Overtaken(c) THEN tangled \cup {call[c].mod} ELSE tangled
  /\ UNCHANGED drawn

ServeAddAttachment(c) ==
  LET x == call[c].lesson IN
  /\ Serves(c, {"pickedPdf", "uploadedPdf"}) /\ row[x] # NoRow
  /\ row' = [row EXCEPT ![x].pdfs = @ \cup {call[c].file}]
  /\ Reply(c, None, x)
  /\ UNCHANGED <<place, drawn>>

\* By its id, whatever the lesson in the path.
ServeDeleteAttachment(c) ==
  /\ Serves(c, {"removeAttachment"})
  /\ row' = [x \in Lessons |-> [row[x] EXCEPT !.pdfs = @ \ {call[c].file}]]
  /\ Reply(c, None, call[c].lesson)
  /\ UNCHANGED <<place, drawn>>

\* Its title, which is left out.
ServeUpdateModule(c) ==
  /\ Serves(c, {"updateModule"}) /\ place[call[c].mod] # Absent
  /\ call' = [call EXCEPT ![c].st = "ok"]
  /\ UNCHANGED <<server, lists, panel, history>>

\* The picker's choice: a file of the teacher's Drive, shared or not.
ServePick(c) ==
  /\ Serves(c, {"pickVideo", "pickPdf"})
  /\ call' = [call EXCEPT ![c].st = "ok"]
  /\ UNCHANGED <<server, lists, panel, history>>

\* The handler of an upload; a file is uploaded by one call.
Store(c) ==
  LET f == call[c].file IN
  /\ Serves(c, {"uploadVideo", "uploadPdf"})
  /\ \/ (Receive(f) \/ Create(f)) /\ UNCHANGED call
     \/ Permit(f) /\ call' = [call EXCEPT ![c].st = "ok"]
     \/ StoreFails(f) /\ call' = [call EXCEPT ![c].st = "error"]
  /\ UNCHANGED <<server, lists, panel, history>>

\* The server refuses or fails, the network does, or the picker is cancelled.
Refuse(c) ==
  /\ Serves(c, Ops \ {"uploadVideo", "uploadPdf"})
  /\ call' = [call EXCEPT ![c].st = "error"]
  /\ tangled' = IF call[c].op = "reorder" THEN tangled \cup {call[c].mod} ELSE tangled
  /\ UNCHANGED <<server, lists, panel, meant, strays, lost>>

-----------------------------------------------------------------------------
(* The answers: what follows each await                                    *)

Answers(c, ops) == call[c].st = "ok" /\ call[c].op \in ops

\* filter: an id stands once in a list.
Without(s, x) == IF x \in Range(s) THEN RemoveAt(s, Place(s, x) + 1) ELSE s

\* saveModule
SavedModule(c) ==
  /\ Answers(c, {"createModule", "updateModule"})
  /\ IF call[c].op = "createModule"
     THEN /\ order' = Append(order, call[c].mod)
          /\ lessonsOf' = [lessonsOf EXCEPT ![call[c].mod] = <<>>]
     ELSE UNCHANGED <<order, lessonsOf>>
  /\ editing' = None /\ saving' = FALSE
  /\ Close(c)
  /\ UNCHANGED <<server, lesson, selected, form, uploading, history>>

\* deleteModule
DeletedModule(c) ==
  LET m == call[c].mod IN
  /\ Answers(c, {"deleteModule"})
  /\ order' = Without(order, m)
  /\ lessonsOf' = [lessonsOf EXCEPT ![m] = <<>>]
  /\ selected' = IF selected.mod = m THEN NoLesson ELSE selected
  /\ Close(c)
  /\ UNCHANGED <<server, lesson, form, editing, saving, uploading, history>>

\* A fault: a lesson that is new is not put into the list.
ListedIfOld(s, x) == s

Listed(s, x) == IF x \in Range(s) THEN s ELSE Append(s, x)

\* A fault: the panel stays as it is.
AfterSaveStays == selected

AfterSave == NoLesson

\* saveLesson: the answer, with the attachments of the form of this moment.
SavedLesson(c) ==
  LET m == call[c].mod
      x == call[c].lesson
  IN
  /\ Answers(c, {"createLesson", "updateLesson"})
  /\ IF m \in Range(order)
     THEN /\ lesson' = [lesson EXCEPT ![x] = [mod |-> m, video |-> call[c].file, pdfs |-> form.pdfs]]
          /\ lessonsOf' = [lessonsOf EXCEPT ![m] = Listed(@, x)]
     ELSE UNCHANGED <<lesson, lessonsOf>>
  /\ selected' = AfterSave /\ saving' = FALSE
  /\ Close(c)
  /\ UNCHANGED <<server, order, form, editing, uploading, history>>

\* deleteLesson: out of the list of the module_id it had.
DeletedLesson(c) ==
  LET m == call[c].mod IN
  /\ Answers(c, {"deleteLesson"})
  /\ lessonsOf' = IF m = None THEN lessonsOf
                  ELSE [lessonsOf EXCEPT ![m] = Without(@, call[c].lesson)]
  /\ selected' = NoLesson /\ saving' = FALSE
  /\ Close(c)
  /\ UNCHANGED <<server, order, lesson, form, editing, uploading, history>>

\* pickVideo, uploadVideo: into the form of this moment.
GotVideo(c) ==
  LET f == call[c].file IN
  /\ Answers(c, {"pickVideo", "uploadVideo"})
  /\ form' = [form EXCEPT !.video = f]
  /\ strays' = IF form.lesson # meant[f] THEN strays \cup {f} ELSE strays
  /\ uploading' = (uploading /\ call[c].op = "pickVideo")
  /\ Close(c)
  /\ UNCHANGED <<server, lists, selected, editing, saving, meant, lost, tangled>>

\* A fault: the lesson is that of the form of this moment.
AttachToLate(c) == IF form.lesson = None THEN call[c].lesson ELSE form.lesson

AttachTo(c) == call[c].lesson

\* pickPdf, uploadPdf: addAttachment follows, to the lesson of the click.
GotPdf(c) ==
  /\ Answers(c, {"pickPdf", "uploadPdf"})
  /\ call' = [call EXCEPT ![c].op = IF @ = "pickPdf" THEN "pickedPdf" ELSE "uploadedPdf",
                          ![c].lesson = AttachTo(c), ![c].st = "sent"]
  /\ UNCHANGED <<server, lists, panel, history>>

Attached(c) ==
  /\ Answers(c, {"pickedPdf", "uploadedPdf"})
  /\ form' = [form EXCEPT !.pdfs = @ \cup {call[c].file}]
  /\ uploading' = (uploading /\ call[c].op = "pickedPdf")
  /\ Close(c)
  /\ UNCHANGED <<server, lists, selected, editing, saving, history>>

RemovedAttachment(c) ==
  /\ Answers(c, {"removeAttachment"})
  /\ form' = [form EXCEPT !.pdfs = @ \ {call[c].file}]
  /\ Close(c)
  /\ UNCHANGED <<server, lists, selected, editing, saving, uploading, history>>

Reordered(c) ==
  /\ Answers(c, {"reorder"})
  /\ Close(c)
  /\ UNCHANGED <<server, lists, panel, history>>

\* catch and finally; deleteModule and removeAttachment have neither.
Failed(c) ==
  /\ call[c].st = "error"
  /\ saving' = (saving /\ call[c].op \notin Saves)
  /\ uploading' = (uploading /\ call[c].op \notin Uploads)
  /\ Close(c)
  /\ UNCHANGED <<server, lists, selected, form, editing, history>>

-----------------------------------------------------------------------------
\* Lists without repeats.
Lists(S) == UNION {SetToSeqs(T) : T \in SUBSET S}

\* The rows of the lessons that the outline lists as of.
LoadedRows(of) ==
  [x \in Lessons |->
    IF \E m \in Modules : x \in Range(of[m])
    THEN LET m == CHOOSE m \in Modules : x \in Range(of[m])
         IN [NoRow EXCEPT !.mod = m, !.index = Place(of[m], x)]
    ELSE NoRow]

\* ngOnInit: the outline, without module_ids; an empty one when it fails.
Loaded(mo, of, failed) ==
  /\ \A m \in Modules : m \notin Range(mo) => of[m] = <<>>
  /\ \A m, n \in Modules : m # n => Range(of[m]) \cap Range(of[n]) = {}
  /\ place = [m \in Modules |-> IF m \in Range(mo) THEN Place(mo, m) ELSE Absent]
  /\ row = LoadedRows(of)
  /\ drawn = Range(mo) \cup UNION {Range(of[m]) : m \in Modules}
  /\ order = IF failed THEN <<>> ELSE mo
  /\ lessonsOf = IF failed THEN [m \in Modules |-> <<>>] ELSE of
  /\ lost = failed

Init ==
  /\ \E mo \in Lists(Modules), of \in [Modules -> Lists(Lessons)], failed \in BOOLEAN :
       Loaded(mo, of, failed)
  /\ lesson = [x \in Lessons |-> NoObject]
  /\ selected = NoLesson
  /\ form = [lesson |-> None, mod |-> None, video |-> None, pdfs |-> {}]
  /\ editing = None
  /\ saving = FALSE /\ uploading = FALSE
  /\ clicks = 0
  /\ call = [c \in Calls |-> Idle]
  /\ meant = [f \in Files |-> Unused]
  /\ strays = {} /\ tangled = {}
  /\ UploadInit

Click ==
  \/ \E m \in Modules \cup {New} : EditModule(m)
  \/ CancelModule \/ CancelLesson
  \/ \E m \in Modules : AddLesson(m) \/ \E x \in Lessons : SelectLesson(m, x)
  \/ \E c \in Calls :
       \/ SaveModule(c) \/ SaveLesson(c) \/ DeleteLesson(c)
       \/ \E m \in Modules : DeleteModule(c, m)
       \/ \E i, j \in DOMAIN order : DropModule(c, i, j)
       \/ \E m \in Modules : \E i, j \in DOMAIN lessonsOf[m] : DropLesson(c, m, i, j)
       \/ \E f \in Files :
            \/ PickVideo(c, f) \/ UploadVideo(c, f) \/ PickPdf(c, f) \/ UploadPdf(c, f)
            \/ RemoveAttachment(c, f)

Teacher ==
  /\ clicks < MaxClicks /\ clicks' = clicks + 1
  /\ Click

Serve ==
  \E c \in Calls :
    \/ ServeCreateModule(c) \/ ServeDeleteModule(c)
    \/ ServeCreateLesson(c) \/ ServeUpdateLesson(c) \/ ServeDeleteLesson(c)
    \/ ServeReorder(c) \/ ServeAddAttachment(c) \/ ServeDeleteAttachment(c)
    \/ ServeUpdateModule(c) \/ ServePick(c) \/ Refuse(c)

Answer ==
  \E c \in Calls :
    \/ SavedModule(c) \/ DeletedModule(c) \/ SavedLesson(c) \/ DeletedLesson(c)
    \/ GotVideo(c) \/ GotPdf(c) \/ Attached(c) \/ RemovedAttachment(c)
    \/ Reordered(c) \/ Failed(c)

Next ==
  \/ Teacher /\ UNCHANGED upload
  \/ (Serve \/ Answer) /\ UNCHANGED <<clicks, upload>>
  \/ (\E c \in Calls : Store(c)) /\ UNCHANGED clicks

Spec == Init /\ [][Next]_vars

-----------------------------------------------------------------------------
(* Properties                                                              *)

\* Every call has been answered, and no answer was lost.
Settled == ~lost /\ \A c \in Calls : call[c] = Idle

RowType    == [mod : Modules \cup {None}, index : Nat \cup {Absent},
               video : Files \cup {None}, pdfs : SUBSET Files]
ObjectType == [mod : Modules \cup {None}, video : Files \cup {None}, pdfs : SUBSET Files]
FormType   == [lesson : Lessons \cup {None}, mod : Modules \cup {None},
               video : Files \cup {None}, pdfs : SUBSET Files]
CallType   == [op : Ops, mod : Modules \cup {None}, lesson : Lessons \cup {None},
               file : Files \cup {None}, ids : Seq(Modules \cup Lessons),
               st : {"idle", "sent", "ok", "error"}]

Typed ==
  /\ place \in [Modules -> Nat \cup {Absent}] /\ row \in [Lessons -> RowType]
  /\ drawn \subseteq Modules \cup Lessons
  /\ order \in Seq(Modules) /\ lessonsOf \in [Modules -> Seq(Lessons)]
  /\ lesson \in [Lessons -> ObjectType]
  /\ selected \in [lesson : Lessons \cup {None}, mod : Modules \cup {None}]
  /\ form \in FormType /\ editing \in Modules \cup {New, None}
  /\ saving \in BOOLEAN /\ uploading \in BOOLEAN /\ clicks \in Nat
  /\ call \in [Calls -> CallType]
  /\ meant \in [Files -> Lessons \cup {None, Unused}]
  /\ strays \subseteq Files /\ lost \in BOOLEAN /\ tangled \subseteq Modules \cup {None}
  /\ UploadTypeOK

\* Every variable has its type.  One save is on its way when the page says
\* so, and one upload (course-builder.component.ts:303, :360).
TypeOK ==
  /\ Cardinality({c \in Calls : call[c].op \in Saves}) = IF saving THEN 1 ELSE 0
  /\ Cardinality({c \in Calls : call[c].op \in Uploads}) = IF uploading THEN 1 ELSE 0
  /\ Typed

\* A PDF is attached to the lesson whose form it was chosen in, wherever the
\* teacher went while it was picked or uploaded (course-builder.component.ts
\* :379, :397).
PdfOfItsLesson == \A x \in Lessons : \A f \in row[x].pdfs : meant[f] = x

\* The video of a lesson was chosen in its own form, or in that of a draft,
\* unless another form was open when it came (:367).
VideoOfItsLesson ==
  \A x \in Lessons : row[x].video # None =>
    meant[row[x].video] \in {x, None} \/ row[x].video \in strays

\* A video or PDF of a lesson that was uploaded can be read by anyone, as the
\* page that embeds it needs (drive.go:54): no failure, and no answer that
\* came late or not at all, links a file that is not in Drive or not public.
LinkedPublic ==
  \A x \in Lessons : \A f \in row[x].pdfs \cup ({row[x].video} \cap Files) :
    upload[f] \in {"none", "public"}

\* When all is answered the page hides nothing of the course, in whatever
\* order the calls were served and answered (:261, :321, :420).
NothingHidden ==
  Settled =>
    /\ {m \in Modules : place[m] # Absent} \subseteq Range(order)
    /\ \A m \in Modules : InModule(m) \subseteq Range(lessonsOf[m])

\* What the page shows and the server no longer has are deleted lessons that
\* came with the outline: they have no module_id to be found by (:340).
GhostsLoaded ==
  Settled =>
    /\ \A m \in Range(order) : place[m] # Absent
    /\ \A m \in Modules : \A x \in Range(lessonsOf[m]) : row[x] = NoRow => lesson[x].mod = None

\* Modules and lessons stand in the order of their indexes, though reorders,
\* creations and deletions are served in any order, but where two reorders of
\* one list overlapped, one failed, or one came when something it names was
\* gone and something it does not name was there (:414, :421): what is left of
\* its places may then be that of the other.
OrderAgrees ==
  Settled =>
    /\ None \notin tangled =>
         \A i, j \in DOMAIN order : i < j => place[order[i]] < place[order[j]]
    /\ \A m \in Modules \ tangled : \A i, j \in DOMAIN lessonsOf[m] :
         LET x == lessonsOf[m][i]
             y == lessonsOf[m][j]
         IN i < j /\ NoRow \notin {row[x], row[y]} => row[x].index < row[y].index

\* What makes the properties of files inductive.  A call that brings a file.
Picks == {"pickVideo", "uploadVideo", "pickPdf", "uploadPdf", "pickedPdf", "uploadedPdf"}

\* Files that were chosen, can be read if they were uploaded, and are not being
\* uploaded.
Linked ==
  {f \in Files :
    /\ meant[f] # Unused /\ upload[f] \in {"none", "public"}
    /\ \A c \in Calls : call[c].op \in {"uploadVideo", "uploadPdf"} => call[c].file # f}

\* f may be the video of x.
VideoOf(f, x) == f # None => f \in Linked /\ (meant[f] \in {x, None} \/ f \in strays)

\* A file is brought by one call, from the form it was chosen in, and is not
\* in use before it came.
Brings(c) ==
  LET q == call[c]
      f == q.file
  IN
  /\ q.op \in Picks =>
       /\ f \in Files /\ meant[f] = q.lesson /\ meant[f] # Unused
       /\ \A d \in Calls \ {c} : call[d].op \in Picks => call[d].file # f
  /\ q.op \in {"pickVideo", "pickPdf"} => upload[f] = "none"
  /\ q.op \in {"uploadVideo", "uploadPdf"} /\ q.st = "ok" => upload[f] = "public"
  /\ q.op \in {"pickedPdf", "uploadedPdf"} => f \in Linked
  /\ q.op \in {"createLesson", "updateLesson"} => VideoOf(f, q.lesson)
  /\ q.op = "createLesson" /\ q.st = "sent" => q.lesson = None

\* What is set of the files themselves, the calls, the form, the lists and the
\* rows.
FilesFit ==
  /\ meant \in [Files -> Lessons \cup {None, Unused}] /\ UploadTypeOK
  /\ \A f \in Files : meant[f] = Unused => upload[f] = "none"

CallsFit ==
  /\ DOMAIN call = Calls
  /\ \A c \in Calls : DOMAIN call[c] = DOMAIN Idle /\ Brings(c)

FormFits ==
  /\ DOMAIN form = {"lesson", "mod", "video", "pdfs"} /\ form.lesson \in Lessons \cup {None}
  /\ VideoOf(form.video, form.lesson)

ListFits == DOMAIN lesson = Lessons /\ \A x \in Lessons : VideoOf(lesson[x].video, x)

RowFits(x) ==
  /\ DOMAIN row[x] = DOMAIN NoRow /\ row[x].pdfs \subseteq Files
  /\ VideoOf(row[x].video, x)
  /\ \A f \in row[x].pdfs : f \in Linked /\ meant[f] = x

RowsFit == DOMAIN row = Lessons /\ \A x \in Lessons : RowFits(x)

FileInv == FilesFit /\ CallsFit /\ FormFits /\ ListFits /\ RowsFit
=============================================================================
