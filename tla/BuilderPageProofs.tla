-------------------------- MODULE BuilderPageProofs --------------------------
(***************************************************************************)
(* For any modules, lessons, files and calls of the builder page: what is  *)
(* linked is where it was meant and can be read by all (FileInv); when all *)
(* is answered the page hides nothing of the course and shows nothing that *)
(* was deleted, but for what came with the outline (PageInv); and its      *)
(* lists stand in the order of the indexes (Ordered).                      *)
(***************************************************************************)
EXTENDS BuilderPage, SequenceTheorems, FiniteSetTheorems, WellFoundedInduction, TLAPS

-----------------------------------------------------------------------------
(* Files                                                                   *)

\* What no step takes back: a file that is linked stays so, for its lesson.
Keeps ==
  /\ strays \subseteq strays' /\ Linked \subseteq Linked'
  /\ \A f \in Linked : meant'[f] = meant[f]

LEMMA FormKept == Keeps /\ FormFits /\ UNCHANGED form => FormFits'
  BY DEF FormFits, VideoOf, Keeps

LEMMA ListKept == Keeps /\ ListFits /\ UNCHANGED lesson => ListFits'
  BY DEF ListFits, VideoOf, Keeps

\* A row that is left alone, or loses attachments.
LEMMA RowKept ==
  ASSUME Keeps, NEW x \in Lessons, RowFits(x), row'[x].pdfs \subseteq row[x].pdfs,
         row'[x].video = row[x].video, DOMAIN row'[x] = DOMAIN NoRow
  PROVE  RowFits(x)'
  BY DEF RowFits, VideoOf, Keeps, NoRow

LEMMA RowsKept == Keeps /\ RowsFit /\ UNCHANGED row => RowsFit'
  BY RowKept DEF RowsFit, RowFits

LEMMA NoRowFits == \A x \in Lessons : row'[x] = NoRow => RowFits(x)'
  BY DEF RowFits, VideoOf, NoRow

-----------------------------------------------------------------------------
(* Files: calls                                                            *)

\* A step of call c, which becomes q, that chooses and uploads nothing.
Follows(q, c) ==
  /\ DOMAIN q = DOMAIN Idle
  /\ q.op \in Picks => call[c].op \in Picks /\ q.file = call[c].file /\ q.lesson = call[c].lesson
  /\ q.op \in {"pickVideo", "pickPdf"} => call[c].op = q.op
  /\ q.op \in {"uploadVideo", "uploadPdf"} =>
       call[c].op = q.op /\ (q.st = "ok" => call[c].st = "ok")
  /\ q.op \in {"pickedPdf", "uploadedPdf"} =>
       call[c].op \in {"pickedPdf", "uploadedPdf"} \/ call[c].op = "pickPdf"
       \/ (call[c].op = "uploadPdf" /\ call[c].st = "ok")
  /\ q.op \in {"createLesson", "updateLesson"} => VideoOf(q.file, q.lesson)
  /\ q.op = "createLesson" /\ q.st = "sent" => q.lesson = None

FilesStay == UNCHANGED <<meant, upload>>

LEMMA FollowKeeps ==
  ASSUME CallsFit, FilesStay, strays \subseteq strays', NEW c \in Calls, NEW q,
         call' = [call EXCEPT ![c] = q], Follows(q, c)
  PROVE  Keeps
  <1>1. \A d \in Calls : call'[d].op \in {"uploadVideo", "uploadPdf"} =>
          call[d].op \in {"uploadVideo", "uploadPdf"} /\ call'[d].file = call[d].file
    BY DEF CallsFit, Follows, Picks
  <1>2. Linked \subseteq Linked'
    BY <1>1 DEF Linked, FilesStay
  <1> QED BY <1>2 DEF Keeps, FilesStay

\* A file whose call has been answered is linked once the call is over.
LEMMA Arrived ==
  ASSUME CallsFit, NEW c \in Calls, call[c].op \in Picks,
         call[c].op \in {"uploadVideo", "uploadPdf"} => call[c].st = "ok",
         NEW q, call' = [call EXCEPT ![c] = q], q.op \notin {"uploadVideo", "uploadPdf"},
         FilesStay
  PROVE  call[c].file \in Linked'
  <1> DEFINE f == call[c].file
  <1>1. /\ f \in Files /\ meant[f] # Unused
        /\ \A d \in Calls \ {c} : call[d].op \in Picks => call[d].file # f
    BY DEF CallsFit, Brings
  <1>2. upload[f] \in {"none", "public"}
    <2>1. CASE call[c].op \in {"pickedPdf", "uploadedPdf"}
      BY <2>1 DEF CallsFit, Brings, Linked
    <2>2. CASE call[c].op \notin {"pickedPdf", "uploadedPdf"}
      BY <2>2 DEF CallsFit, Brings, Picks
    <2> QED BY <2>1, <2>2
  <1>3. \A d \in Calls : call'[d].op \in {"uploadVideo", "uploadPdf"} => call'[d].file # f
    BY <1>1 DEF CallsFit, Picks
  <1> QED BY <1>1, <1>2, <1>3 DEF Linked, FilesStay

LEMMA FollowFits ==
  ASSUME CallsFit, FilesStay, strays \subseteq strays', NEW c \in Calls, NEW q,
         call' = [call EXCEPT ![c] = q], Follows(q, c)
  PROVE  Keeps /\ CallsFit'
  <1>1. Keeps BY FollowKeeps
  <1>2. /\ DOMAIN call' = Calls /\ call'[c] = q
        /\ \A d \in Calls \ {c} : call'[d] = call[d]
    BY DEF CallsFit
  <1>3. \A d \in Calls : call'[d].op \in Picks =>
          call[d].op \in Picks /\ call'[d].file = call[d].file
    BY <1>2 DEF Follows
  <1>4. ASSUME NEW d \in Calls \ {c} PROVE Brings(d)'
    <2>1. Brings(d) BY DEF CallsFit
    <2>2. call'[d] = call[d] BY <1>2
    <2>3. call[d].op \in Picks => \A e \in Calls \ {d} : call'[e].op \in Picks => call'[e].file # call[d].file
      BY <2>1, <1>3 DEF Brings
    <2>4. VideoOf(call[d].file, call[d].lesson) => VideoOf(call[d].file, call[d].lesson)'
      BY <1>1, <2>2 DEF VideoOf, Keeps
    <2>5. Linked \subseteq Linked' /\ meant' = meant /\ upload' = upload
      BY <1>1 DEF Keeps, FilesStay
    <2> QED BY <2>1, <2>2, <2>3, <2>4, <2>5 DEF Brings
  <1>5. Brings(c)'
    <2>1. Brings(c) BY DEF CallsFit
    <2>2. meant' = meant /\ upload' = upload BY DEF FilesStay
    <2>3. q.op \in Picks =>
            /\ q.file \in Files /\ meant[q.file] = q.lesson /\ meant[q.file] # Unused
            /\ \A e \in Calls \ {c} : call'[e].op \in Picks => call'[e].file # q.file
      BY <2>1, <1>2 DEF Brings, Follows
    <2>4. q.op \in {"pickVideo", "pickPdf"} => upload[q.file] = "none"
      BY <2>1 DEF Brings, Follows, Picks
    <2>5. q.op \in {"uploadVideo", "uploadPdf"} /\ q.st = "ok" => upload[q.file] = "public"
      BY <2>1 DEF Brings, Follows, Picks
    <2>6. q.op \in {"pickedPdf", "uploadedPdf"} => q.file \in Linked'
      <3>1. SUFFICES ASSUME q.op \in {"pickedPdf", "uploadedPdf"} PROVE q.file \in Linked'
        OBVIOUS
      <3>2. /\ q.file = call[c].file /\ call[c].op \in Picks
            /\ call[c].op \in {"uploadVideo", "uploadPdf"} => call[c].st = "ok"
        BY <3>1 DEF Follows, Picks
      <3>3. call[c].file \in Linked'
        BY <3>1, <3>2, Arrived
      <3> QED BY <3>2, <3>3
    <2>7. q.op \in {"createLesson", "updateLesson"} => VideoOf(call[c].file, call[c].lesson)'
      BY <1>1, <1>2 DEF Follows, VideoOf, Keeps
    <2>8. q.op = "createLesson" /\ q.st = "sent" => q.lesson = None
      BY DEF Follows
    <2> QED BY <1>2, <2>2, <2>3, <2>4, <2>5, <2>6, <2>7, <2>8 DEF Brings
  <1>6. \A d \in Calls : DOMAIN call'[d] = DOMAIN Idle'
    BY <1>2 DEF Follows, CallsFit, Idle
  <1> QED BY <1>1, <1>2, <1>4, <1>5, <1>6 DEF CallsFit

LEMMA FilesKept == FilesFit /\ FilesStay => FilesFit'
  BY DEF FilesFit, FilesStay, UploadTypeOK

\* The same, of a step that calls nobody.
LEMMA StillFits ==
  ASSUME CallsFit, FilesStay, strays \subseteq strays', UNCHANGED call
  PROVE  Keeps /\ CallsFit'
  <1>1. Linked' = Linked
    BY DEF Linked, FilesStay
  <1>2. Keeps
    BY <1>1 DEF Keeps, FilesStay
  <1>3. ASSUME NEW c \in Calls PROVE Brings(c)'
    BY <1>1 DEF CallsFit, Brings, VideoOf, FilesStay
  <1> QED BY <1>2, <1>3 DEF CallsFit, Idle

LEMMA IdleFollows == \A c \in Calls : Follows(Idle, c)
  BY DEF Follows, Idle, Picks

\* A call that ends, and one whose state changes.
LEMMA CloseFits ==
  ASSUME CallsFit, FilesStay, strays \subseteq strays', NEW c \in Calls, Close(c)
  PROVE  Keeps /\ CallsFit'
  BY FollowFits, IdleFollows DEF Close

LEMMA StateFits ==
  ASSUME CallsFit, FilesStay, UNCHANGED strays, NEW c \in Calls, NEW st,
         call' = [call EXCEPT ![c].st = st],
         call[c].op \in {"uploadVideo", "uploadPdf"} => st # "ok", st # "sent"
  PROVE  Keeps /\ CallsFit'
  <1> DEFINE q == [call[c] EXCEPT !.st = st]
  <1>1. /\ DOMAIN q = DOMAIN Idle /\ q.op = call[c].op /\ q.file = call[c].file
        /\ q.lesson = call[c].lesson /\ q.st = st
    BY DEF CallsFit, Idle
  <1>2. call[c].op \in {"createLesson", "updateLesson"} => VideoOf(call[c].file, call[c].lesson)
    BY DEF CallsFit, Brings
  <1>3. Follows(q, c)
    BY <1>1, <1>2 DEF Follows, Picks, VideoOf
  <1> QED BY <1>3, FollowFits

LEMMA ReplyFits ==
  ASSUME CallsFit, FilesStay, NEW c \in Calls, NEW m, NEW x, Replies(c, m, x),
         call[c].op \notin {"uploadVideo", "uploadPdf"},
         \/ x = call[c].lesson
         \/ call[c].op = "createLesson" /\ call[c].lesson = None
         \/ call[c].op \notin Picks \cup {"createLesson", "updateLesson"}
  PROVE  Keeps /\ CallsFit'
  <1>1. PICK st \in {"ok", "error"} :
          call' = [call EXCEPT ![c].mod = m, ![c].lesson = x, ![c].st = st]
    BY DEF Replies
  <1>2. UNCHANGED strays
    BY DEF Replies
  <1> DEFINE q == [[[call[c] EXCEPT !.mod = m] EXCEPT !.lesson = x] EXCEPT !.st = st]
  <1>3. DOMAIN call = Calls /\ DOMAIN call[c] = DOMAIN Idle /\ Brings(c)
    BY DEF CallsFit
  <1>4. /\ DOMAIN q = DOMAIN Idle /\ q.op = call[c].op /\ q.file = call[c].file
        /\ q.lesson = x /\ q.st = st
    BY <1>3 DEF Idle
  <1>5. call' = [call EXCEPT ![c] = q]
    BY <1>1, <1>3
  <1> HIDE DEF q
  <1>6. q.op \in {"createLesson", "updateLesson"} => VideoOf(q.file, q.lesson)
    BY <1>3, <1>4 DEF Brings, VideoOf
  <1>7. Follows(q, c)
    BY <1>4, <1>6 DEF Follows, Picks
  <1> QED BY <1>2, <1>5, <1>7, FollowFits

-----------------------------------------------------------------------------
(* Files: the teacher                                                      *)

\* What steps leave alone.
DataStay == UNCHANGED <<form, lesson, row>>

LEMMA StayFits ==
  ASSUME FileInv, FilesStay, DataStay, Keeps, CallsFit' PROVE FileInv'
  <1>1. FilesFit' BY FilesKept DEF FileInv
  <1>2. FormFits' BY FormKept DEF FileInv, DataStay
  <1>3. ListFits' BY ListKept DEF FileInv, DataStay
  <1>4. RowsFit' BY RowsKept DEF FileInv, DataStay
  <1> QED BY <1>1, <1>2, <1>3, <1>4 DEF FileInv

\* A call that brings no file.
LEMMA SendFits ==
  ASSUME CallsFit, FilesStay, UNCHANGED strays, NEW c \in Calls, NEW op, NEW m, NEW x, NEW f, NEW ids,
         Send(c, op, m, x, f, ids), op \notin Picks,
         op \in {"createLesson", "updateLesson"} => VideoOf(f, x),
         op = "createLesson" => x = None
  PROVE  Keeps /\ CallsFit'
  <1> DEFINE q == [op |-> op, mod |-> m, lesson |-> x, file |-> f, ids |-> ids, st |-> "sent"]
  <1>1. Follows(q, c)
    BY DEF Follows, Picks, Idle
  <1>2. call' = [call EXCEPT ![c] = q]
    BY DEF Send
  <1> QED BY <1>1, <1>2, FollowFits

LEMMA OpenFits ==
  ASSUME FileInv, FilesStay, NEW x, NEW m, NEW object, x \in Lessons \cup {None},
         VideoOf(object.video, x), OpenForm(x, object, m)
  PROVE  FileInv'
  <1> USE DEF OpenForm, server, lists, history
  <1>1. Keeps /\ CallsFit'
    BY StillFits DEF FileInv
  <1>2. FormFits'
    BY <1>1 DEF FormFits, FormOf, VideoOf, Keeps
  <1>3. FilesFit' BY FilesKept DEF FileInv
  <1>4. ListFits' BY <1>1, ListKept DEF FileInv
  <1>5. RowsFit' BY <1>1, RowsKept DEF FileInv
  <1> QED BY <1>1, <1>2, <1>3, <1>4, <1>5 DEF FileInv

\* The panel opens a form, or closes.
LEMMA PanelInv ==
  ASSUME FileInv, UNCHANGED upload,
         \/ \E m \in Modules \cup {New} : EditModule(m)
         \/ CancelModule \/ CancelLesson
         \/ \E m \in Modules : AddLesson(m) \/ \E x \in Lessons : SelectLesson(m, x)
  PROVE  FileInv'
  <1>1. CASE (\E m \in Modules \cup {New} : EditModule(m)) \/ CancelModule \/ CancelLesson
    <2>1. FilesStay /\ DataStay /\ UNCHANGED strays /\ UNCHANGED call
      BY <1>1 DEF EditModule, CancelModule, CancelLesson, FilesStay, DataStay, server, lists, history
    <2>2. Keeps /\ CallsFit'
      BY <2>1, StillFits DEF FileInv
    <2> QED BY <2>1, <2>2, StayFits
  <1>2. ASSUME NEW m \in Modules, AddLesson(m) PROVE FileInv'
    <2> DEFINE object == [NoObject EXCEPT !.mod = m]
    <2>1. VideoOf(object.video, None)
      BY DEF VideoOf, NoObject
    <2>2. OpenForm(None, object, m) /\ FilesStay
      BY <1>2 DEF AddLesson, OpenForm, FilesStay, history
    <2> HIDE DEF object
    <2> QED BY <2>1, <2>2, OpenFits
  <1>3. ASSUME NEW m \in Modules, NEW x \in Lessons, SelectLesson(m, x) PROVE FileInv'
    <2>1. PICK object : object = lesson[x] OBVIOUS
    <2>2. VideoOf(object.video, x)
      BY <2>1 DEF FileInv, ListFits
    <2>3. OpenForm(x, object, m) /\ FilesStay
      BY <1>3, <2>1 DEF SelectLesson, OpenForm, FilesStay, history
    <2> QED BY <2>2, <2>3, OpenFits
  <1> QED BY <1>1, <1>2, <1>3

LEMMA SendInv ==
  ASSUME FileInv, UNCHANGED upload, NEW c \in Calls,
         \/ SaveModule(c) \/ SaveLesson(c) \/ DeleteLesson(c)
         \/ \E m \in Modules : DeleteModule(c, m)
         \/ \E i, j \in DOMAIN order : DropModule(c, i, j)
         \/ \E m \in Modules : \E i, j \in DOMAIN lessonsOf[m] : DropLesson(c, m, i, j)
  PROVE  FileInv'
  <1> USE DEF FilesStay, DataStay, server, lists, history, panel
  <1> SUFFICES FilesStay /\ DataStay /\ Keeps /\ CallsFit'
    BY StayFits
  <1>0. CallsFit BY DEF FileInv
  <1>1. CASE SaveModule(c)
    <2>1. FilesStay /\ DataStay /\ UNCHANGED strays
      BY <1>1 DEF SaveModule
    <2>2. PICK op, m : op \in {"createModule", "updateModule"} /\ Send(c, op, m, None, None, <<>>)
      BY <1>1 DEF SaveModule
    <2>3. op \notin Picks \cup {"createLesson", "updateLesson"}
      BY <2>2 DEF Picks
    <2> QED BY <1>0, <2>1, <2>2, <2>3, SendFits
  <1>2. CASE SaveLesson(c)
    <2>1. FilesStay /\ DataStay /\ UNCHANGED strays
      BY <1>2 DEF SaveLesson
    <2>2. PICK op, m, x, f :
            /\ op \in {"createLesson", "updateLesson"}
            /\ Send(c, op, m, x, f, <<>>) /\ x = form.lesson /\ f = form.video
            /\ op = "createLesson" => x = None
      BY <1>2 DEF SaveLesson
    <2>3. op \notin Picks /\ VideoOf(f, x)
      BY <2>2 DEF Picks, FileInv, FormFits
    <2> QED BY <1>0, <2>1, <2>2, <2>3, SendFits
  <1>3. CASE DeleteLesson(c)
    <2>1. FilesStay /\ DataStay /\ UNCHANGED strays
      BY <1>3 DEF DeleteLesson
    <2>2. PICK m, x : Send(c, "deleteLesson", m, x, None, <<>>)
      BY <1>3 DEF DeleteLesson
    <2>3. "deleteLesson" \notin Picks
      BY DEF Picks
    <2> QED BY <1>0, <2>1, <2>2, <2>3, SendFits
  <1>4. ASSUME NEW m \in Modules, DeleteModule(c, m) PROVE FilesStay /\ DataStay /\ Keeps /\ CallsFit'
    <2>1. FilesStay /\ DataStay /\ UNCHANGED strays
      BY <1>4 DEF DeleteModule
    <2>2. Send(c, "deleteModule", m, None, None, <<>>) /\ "deleteModule" \notin Picks
      BY <1>4 DEF DeleteModule, Picks
    <2> QED BY <1>0, <2>1, <2>2, SendFits
  <1>5. CASE \/ \E i, j \in DOMAIN order : DropModule(c, i, j)
             \/ \E m \in Modules : \E i, j \in DOMAIN lessonsOf[m] : DropLesson(c, m, i, j)
    <2>1. FilesStay /\ DataStay /\ UNCHANGED strays
      BY <1>5 DEF DropModule, DropLesson
    <2>2. PICK m, ids : Send(c, "reorder", m, None, None, ids)
      BY <1>5 DEF DropModule, DropLesson
    <2>3. "reorder" \notin Picks
      BY DEF Picks
    <2> QED BY <1>0, <2>1, <2>2, <2>3, SendFits
  <1> QED BY <1>1, <1>2, <1>3, <1>4, <1>5

LEMMA RemoveInv ==
  ASSUME FileInv, UNCHANGED upload, NEW c \in Calls, NEW f \in Files, RemoveAttachment(c, f)
  PROVE  FileInv'
  <1> USE DEF FilesStay, server, lists, history
  <1>1. FilesStay /\ UNCHANGED <<strays, lesson, row>>
    BY DEF RemoveAttachment
  <1>2. Keeps /\ CallsFit'
    <2>1. CASE UNCHANGED call
      BY <1>1, <2>1, StillFits DEF FileInv
    <2>2. CASE Send(c, "removeAttachment", None, form.lesson, f, <<>>)
      <3>1. "removeAttachment" \notin Picks
        BY DEF Picks
      <3>2. PICK x : x = form.lesson OBVIOUS
      <3>3. Send(c, "removeAttachment", None, x, f, <<>>)
        BY <2>2, <3>2
      <3> QED BY <1>1, <3>1, <3>3, SendFits DEF FileInv
    <2> QED BY <2>1, <2>2 DEF RemoveAttachment
  <1>3. FormFits'
    <2>1. FormFits BY DEF FileInv
    <2>2. form' = form \/ form' = [form EXCEPT !.pdfs = @ \ {f}]
      BY DEF RemoveAttachment
    <2>3. DOMAIN form' = DOMAIN form /\ form'.video = form.video /\ form'.lesson = form.lesson
      BY <2>1, <2>2 DEF FormFits
    <2> QED BY <1>2, <2>1, <2>3 DEF FormFits, VideoOf, Keeps
  <1> QED BY <1>1, <1>2, <1>3, FilesKept, ListKept, RowsKept DEF FileInv

\* A file is chosen in the form, and its call sent.
LEMMA ChooseInv ==
  ASSUME FileInv, UNCHANGED upload, NEW c \in Calls, NEW f \in Files, NEW op \in Picks,
         op \notin {"pickedPdf", "uploadedPdf"}, Choose(c, op, f)
  PROVE  FileInv'
  <1> USE DEF server, lists, history
  <1>1. /\ meant[f] = Unused /\ upload[f] = "none" /\ form.lesson \in Lessons \cup {None}
        /\ meant \in [Files -> Lessons \cup {None, Unused}]
    BY DEF Choose, FileInv, FilesFit, FormFits
  <1>2. /\ meant' = [meant EXCEPT ![f] = form.lesson] /\ form.lesson # Unused
        /\ UNCHANGED <<form, lesson, row, strays, upload>>
    BY <1>1, BuilderAssumption DEF Choose
  <1>3. /\ DOMAIN call = Calls /\ call[c] = Idle
        /\ \A d \in Calls : DOMAIN call[d] = DOMAIN Idle /\ Brings(d)
    BY DEF Choose, Send, FileInv, CallsFit
  <1>4. PICK q : /\ call' = [call EXCEPT ![c] = q] /\ DOMAIN q = DOMAIN Idle /\ q.op = op
                 /\ q.lesson = form.lesson /\ q.file = f /\ q.st = "sent"
    <2> DEFINE q == [op |-> op, mod |-> None, lesson |-> form.lesson, file |-> f, ids |-> <<>>, st |-> "sent"]
    <2>1. call' = [call EXCEPT ![c] = q]
      BY DEF Choose, Send
    <2>2. /\ DOMAIN q = DOMAIN Idle /\ q.op = op
          /\ q.lesson = form.lesson /\ q.file = f /\ q.st = "sent"
      BY DEF Idle
    <2> QED BY <2>1, <2>2
  <1>5. call'[c] = q /\ \A d \in Calls \ {c} : call'[d] = call[d]
    BY <1>3, <1>4
  <1>6. \A d \in Calls : call[d].op \in Picks => call[d].file \in Files /\ call[d].file # f
    BY <1>1, <1>3 DEF Brings
  <1>7. f \notin Linked
    BY <1>1 DEF Linked
  <1>8. Keeps
    <2>1. \A g \in Linked : g # f /\ g \in Files /\ meant'[g] = meant[g]
      BY <1>1, <1>2, <1>7 DEF Linked
    <2>2. \A d \in Calls : call'[d].op \in {"uploadVideo", "uploadPdf"} =>
            call'[d].file = f \/ (call[d].op \in {"uploadVideo", "uploadPdf"} /\ call'[d].file = call[d].file)
      BY <1>4, <1>5
    <2>3. Linked \subseteq Linked'
      BY <1>2, <2>1, <2>2 DEF Linked
    <2> QED BY <1>2, <2>1, <2>3 DEF Keeps
  <1>9. Brings(c)'
    <2>1. meant'[f] = form.lesson /\ upload'[f] = "none"
      BY <1>1, <1>2
    <2>2. \A d \in Calls \ {c} : call'[d].op \in Picks => call'[d].file # f
      BY <1>5, <1>6
    <2>3. op \notin {"createLesson", "updateLesson"}
      BY DEF Picks
    <2> QED BY <1>2, <1>4, <1>5, <2>1, <2>2, <2>3 DEF Brings
  <1>10. ASSUME NEW d \in Calls \ {c} PROVE Brings(d)'
    <2>1. Brings(d) /\ call'[d] = call[d]
      BY <1>3, <1>5
    <2>2. call[d].op \in Picks => /\ meant'[call[d].file] = meant[call[d].file]
                                  /\ \A e \in Calls \ {d} : call'[e].op \in Picks => call'[e].file # call[d].file
      BY <1>1, <1>2, <1>4, <1>5, <1>6, <2>1 DEF Brings
    <2>3. VideoOf(call[d].file, call[d].lesson) => VideoOf(call[d].file, call[d].lesson)'
      BY <1>8, <2>1 DEF VideoOf, Keeps
    <2> QED BY <1>2, <1>8, <2>1, <2>2, <2>3 DEF Brings, Keeps
  <1>11. CallsFit'
    <2>1. DOMAIN call' = Calls /\ \A d \in Calls : DOMAIN call'[d] = DOMAIN Idle'
      BY <1>3, <1>4, <1>5 DEF Idle
    <2> QED BY <1>9, <1>10, <2>1 DEF CallsFit
  <1>12. FilesFit'
    BY <1>1, <1>2 DEF FileInv, FilesFit, UploadTypeOK
  <1> QED BY <1>2, <1>8, <1>11, <1>12, FormKept, ListKept, RowsKept DEF FileInv

LEMMA ClickInv ==
  ASSUME FileInv, UNCHANGED upload, Click PROVE FileInv'
  <1>1. ASSUME NEW c \in Calls, NEW f \in Files,
               PickVideo(c, f) \/ UploadVideo(c, f) \/ PickPdf(c, f) \/ UploadPdf(c, f)
        PROVE  FileInv'
    <2>1. PICK op \in {"pickVideo", "uploadVideo", "pickPdf", "uploadPdf"} : Choose(c, op, f)
      BY <1>1 DEF PickVideo, UploadVideo, PickPdf, UploadPdf
    <2>2. op \in Picks /\ op \notin {"pickedPdf", "uploadedPdf"}
      BY <2>1 DEF Picks
    <2> QED BY <2>1, <2>2, ChooseInv
  <1> QED BY <1>1, PanelInv, SendInv, RemoveInv DEF Click

-----------------------------------------------------------------------------
(* Files: the server                                                       *)

LEMMA ReplyStays ==
  ASSUME NEW c, NEW m, NEW x, Replies(c, m, x), UNCHANGED upload
  PROVE  FilesStay /\ UNCHANGED <<strays, form, lesson>>
  BY DEF Replies, lists, panel, FilesStay

\* A call that is served changes rows only.
LEMMA RowsInv ==
  ASSUME FileInv, UNCHANGED upload, NEW c \in Calls, NEW m, NEW x, Replies(c, m, x), Keeps, CallsFit',
         RowsFit'
  PROVE  FileInv'
  BY ReplyStays, FilesKept, FormKept, ListKept DEF FileInv

LEMMA ServeModuleInv ==
  ASSUME FileInv, UNCHANGED upload, NEW c \in Calls, ServeCreateModule(c) \/ ServeDeleteModule(c)
  PROVE  FileInv'
  <1>0. CallsFit /\ RowsFit BY DEF FileInv
  <1>1. CASE ServeCreateModule(c)
    <2>1. PICK m \in Modules : Replies(c, m, None)
      BY <1>1 DEF Reply, ServeCreateModule
    <2>2. call[c].op = "createModule"
      BY <1>1 DEF Reply, ServeCreateModule, Serves
    <2>3. Keeps /\ CallsFit'
      BY <1>0, <2>1, <2>2, ReplyFits, ReplyStays DEF Picks
    <2>4. RowsFit'
      BY <1>0, <1>1, <2>3, RowsKept DEF Reply, ServeCreateModule
    <2> QED BY <2>1, <2>3, <2>4, RowsInv
  <1>2. CASE ServeDeleteModule(c)
    <2>1. PICK m : Replies(c, m, None)
      BY <1>2 DEF Reply, ServeDeleteModule
    <2>2. call[c].op = "deleteModule"
      BY <1>2 DEF Reply, ServeDeleteModule, Serves
    <2>3. Keeps /\ CallsFit'
      BY <1>0, <2>1, <2>2, ReplyFits, ReplyStays DEF Picks
    <2>4. DOMAIN row' = Lessons /\ \A x \in Lessons : row'[x] \in {NoRow, row[x]}
      BY <1>2 DEF Reply, ServeDeleteModule
    <2>5. \A x \in Lessons : RowFits(x)'
      BY <1>0, <2>3, <2>4, RowKept, NoRowFits DEF RowsFit, RowFits
    <2> QED BY <2>1, <2>3, <2>4, <2>5, RowsInv DEF RowsFit
  <1> QED BY <1>1, <1>2

LEMMA ServeCreateLessonInv ==
  ASSUME FileInv, UNCHANGED upload, NEW c \in Calls, ServeCreateLesson(c) PROVE FileInv'
  <1>0. CallsFit /\ RowsFit BY DEF FileInv
  <1>1. PICK x, new :
          /\ x \in Lessons
          /\ row' = [row EXCEPT ![x] = new] /\ DOMAIN new = DOMAIN NoRow
          /\ new.video = call[c].file /\ new.pdfs = {}
          /\ \E m : Replies(c, m, x)
    <2>1. PICK x, m :
            /\ x \in Lessons
            /\ row' = [row EXCEPT ![x] = [mod |-> m, video |-> call[c].file, pdfs |-> {},
                                          index |-> NextIndex({row[y].index : y \in InModule(m)})]]
            /\ Replies(c, m, x)
      BY DEF Reply, ServeCreateLesson
    <2>2. PICK n : n = NextIndex({row[y].index : y \in InModule(m)}) OBVIOUS
    <2> DEFINE new == [mod |-> m, video |-> call[c].file, pdfs |-> {}, index |-> n]
    <2>3. row' = [row EXCEPT ![x] = new]
      BY <2>1, <2>2
    <2>4. DOMAIN new = DOMAIN NoRow /\ new.video = call[c].file /\ new.pdfs = {}
      BY DEF NoRow
    <2> HIDE DEF new
    <2> QED BY <2>1, <2>3, <2>4
  <1>2. PICK m : Replies(c, m, x)
    BY <1>1
  <1>3. call[c].op = "createLesson" /\ call[c].lesson = None /\ VideoOf(call[c].file, None)
    BY <1>0 DEF Reply, ServeCreateLesson, Serves, CallsFit, Brings
  <1>4. Keeps /\ CallsFit'
    BY <1>0, <1>2, <1>3, ReplyFits, ReplyStays
  <1>5. RowFits(x)'
    <2>1. row'[x] = new
      BY <1>0, <1>1 DEF RowsFit
    <2> QED BY <1>1, <1>3, <1>4, <2>1 DEF RowFits, VideoOf, Keeps, NoRow
  <1>6. \A y \in Lessons \ {x} : RowFits(y)'
    BY <1>0, <1>1, <1>4, RowKept DEF RowsFit, RowFits
  <1>7. DOMAIN row' = Lessons
    BY <1>0, <1>1 DEF RowsFit
  <1> QED BY <1>2, <1>4, <1>5, <1>6, <1>7, RowsInv DEF RowsFit

LEMMA ServeUpdateLessonInv ==
  ASSUME FileInv, UNCHANGED upload, NEW c \in Calls, ServeUpdateLesson(c) PROVE FileInv'
  <1>0. CallsFit /\ RowsFit BY DEF FileInv
  <1>1. PICK x, m : /\ x = call[c].lesson /\ Replies(c, m, x)
                    /\ row' = [row EXCEPT ![x].video = call[c].file]
    BY DEF Reply, ServeUpdateLesson
  <1>2. call[c].op = "updateLesson" /\ VideoOf(call[c].file, x)
    BY <1>0, <1>1 DEF Reply, ServeUpdateLesson, Serves, CallsFit, Brings
  <1>3. Keeps /\ CallsFit'
    BY <1>0, <1>1, <1>2, ReplyFits, ReplyStays
  <1>4. DOMAIN row' = Lessons
    BY <1>0, <1>1 DEF RowsFit
  <1>5. ASSUME NEW y \in Lessons, y = x PROVE RowFits(y)'
    <2>1. RowFits(y) BY <1>0 DEF RowsFit
    <2>2. /\ DOMAIN row'[y] = DOMAIN row[y] /\ row'[y].pdfs = row[y].pdfs
          /\ row'[y].video = call[c].file
      BY <1>0, <1>1, <1>5, <2>1 DEF RowsFit, RowFits, NoRow
    <2> QED BY <1>2, <1>3, <1>5, <2>1, <2>2 DEF RowFits, VideoOf, Keeps, NoRow
  <1>6. \A y \in Lessons \ {x} : RowFits(y)'
    BY <1>0, <1>1, <1>3, RowKept DEF RowsFit, RowFits
  <1> QED BY <1>1, <1>3, <1>4, <1>5, <1>6, RowsInv DEF RowsFit

\* One lesson goes, one gets a PDF, all lose one, or none does.
LEMMA ServeDeleteLessonInv ==
  ASSUME FileInv, UNCHANGED upload, NEW c \in Calls, ServeDeleteLesson(c) PROVE FileInv'
  <1>0. CallsFit /\ RowsFit BY DEF FileInv
  <1>1. PICK x, m : /\ x = call[c].lesson /\ Replies(c, m, x)
                    /\ row' = [row EXCEPT ![x] = NoRow]
    BY DEF Reply, ServeDeleteLesson
  <1>2. call[c].op = "deleteLesson"
    BY DEF Reply, ServeDeleteLesson, Serves
  <1>3. Keeps /\ CallsFit'
    BY <1>0, <1>1, <1>2, ReplyFits, ReplyStays
  <1>4. DOMAIN row' = Lessons /\ \A y \in Lessons : row'[y] = NoRow \/ row'[y] = row[y]
    BY <1>0, <1>1 DEF RowsFit
  <1>5. \A y \in Lessons : RowFits(y)'
    BY <1>0, <1>3, <1>4, RowKept, NoRowFits DEF RowsFit, RowFits
  <1> QED BY <1>1, <1>3, <1>4, <1>5, RowsInv DEF RowsFit

LEMMA ServeReorderInv ==
  ASSUME FileInv, UNCHANGED upload, NEW c \in Calls, ServeReorder(c) PROVE FileInv'
  <1>0. CallsFit /\ RowsFit BY DEF FileInv
  <1>1. PICK m : Replies(c, m, None)
    BY DEF ServeReorder
  <1>2. call[c].op = "reorder"
    BY DEF ServeReorder, Serves
  <1>3. Keeps /\ CallsFit'
    BY <1>0, <1>1, <1>2, ReplyFits, ReplyStays DEF Picks
  <1>4. DOMAIN row' = Lessons
    BY DEF ServeReorder
  <1>5. ASSUME NEW y \in Lessons PROVE RowFits(y)'
    <2>1. RowFits(y) BY <1>0 DEF RowsFit
    <2>2. CASE row'[y] = NoRow
      BY <2>2, NoRowFits
    <2>3. CASE row'[y] # NoRow
      <3>1. PICK n : row'[y] = [row[y] EXCEPT !.index = n]
        BY <2>3 DEF ServeReorder
      <3>2. row'[y].pdfs = row[y].pdfs /\ row'[y].video = row[y].video /\ DOMAIN row'[y] = DOMAIN NoRow
        BY <2>1, <3>1 DEF RowFits, NoRow
      <3> QED BY <1>3, <2>1, <3>2, RowKept
    <2> QED BY <2>2, <2>3
  <1> QED BY <1>1, <1>3, <1>4, <1>5, RowsInv DEF RowsFit

LEMMA ServeAddAttachmentInv ==
  ASSUME FileInv, UNCHANGED upload, NEW c \in Calls, ServeAddAttachment(c) PROVE FileInv'
  <1>0. CallsFit /\ RowsFit BY DEF FileInv
  <1>1. PICK x, f : /\ x = call[c].lesson /\ f = call[c].file /\ Replies(c, None, x)
                    /\ row' = [row EXCEPT ![x].pdfs = @ \cup {f}]
    BY DEF Reply, ServeAddAttachment
  <1>2. call[c].op \in {"pickedPdf", "uploadedPdf"}
    BY DEF Reply, ServeAddAttachment, Serves
  <1>3. f \in Files /\ f \in Linked /\ meant[f] = x
    BY <1>0, <1>1, <1>2 DEF CallsFit, Brings, Picks
  <1>4. Keeps /\ CallsFit'
    BY <1>0, <1>1, <1>2, ReplyFits, ReplyStays
  <1>5. DOMAIN row' = Lessons
    BY <1>0, <1>1 DEF RowsFit
  <1>6. ASSUME NEW y \in Lessons, y = x PROVE RowFits(y)'
    <2>1. RowFits(y) BY <1>0 DEF RowsFit
    <2>2. /\ DOMAIN row'[y] = DOMAIN row[y] /\ row'[y].pdfs = row[y].pdfs \cup {f}
          /\ row'[y].video = row[y].video
      BY <1>0, <1>1, <1>6, <2>1 DEF RowsFit, RowFits, NoRow
    <2> QED BY <1>3, <1>4, <1>6, <2>1, <2>2 DEF RowFits, VideoOf, Keeps, NoRow
  <1>7. \A y \in Lessons \ {x} : RowFits(y)'
    BY <1>0, <1>1, <1>4, RowKept DEF RowsFit, RowFits
  <1> QED BY <1>1, <1>4, <1>5, <1>6, <1>7, RowsInv DEF RowsFit

LEMMA ServeDeleteAttachmentInv ==
  ASSUME FileInv, UNCHANGED upload, NEW c \in Calls, ServeDeleteAttachment(c) PROVE FileInv'
  <1>0. CallsFit /\ RowsFit BY DEF FileInv
  <1>1. PICK x, f : /\ x = call[c].lesson /\ f = call[c].file /\ Replies(c, None, x)
                    /\ row' = [y \in Lessons |-> [row[y] EXCEPT !.pdfs = @ \ {f}]]
    BY DEF Reply, ServeDeleteAttachment
  <1>2. call[c].op = "removeAttachment"
    BY DEF Reply, ServeDeleteAttachment, Serves
  <1>3. Keeps /\ CallsFit'
    BY <1>0, <1>1, <1>2, ReplyFits, ReplyStays
  <1>4. ASSUME NEW y \in Lessons PROVE RowFits(y)'
    <2>1. RowFits(y) BY <1>0 DEF RowsFit
    <2>2. /\ DOMAIN row'[y] = DOMAIN row[y] /\ row'[y].pdfs = row[y].pdfs \ {f}
          /\ row'[y].video = row[y].video
      BY <1>1, <2>1 DEF RowFits, NoRow
    <2> QED BY <1>3, <2>1, <2>2, RowKept DEF RowFits
  <1> QED BY <1>1, <1>3, <1>4, RowsInv DEF RowsFit

\* Calls that change no row.
LEMMA NoRowInv ==
  ASSUME FileInv, UNCHANGED upload, NEW c \in Calls,
         ServeUpdateModule(c) \/ ServePick(c) \/ Refuse(c)
  PROVE  FileInv'
  <1> USE DEF FilesStay, DataStay, server, lists, history, panel
  <1>1. FilesStay /\ DataStay /\ UNCHANGED strays
    BY DEF ServeUpdateModule, ServePick, Refuse
  <1>2. PICK st \in {"ok", "error"} : call' = [call EXCEPT ![c].st = st]
    BY DEF ServeUpdateModule, ServePick, Refuse
  <1>3. call[c].op \notin {"uploadVideo", "uploadPdf"}
    BY DEF ServeUpdateModule, ServePick, Refuse, Serves
  <1>4. Keeps /\ CallsFit'
    BY <1>1, <1>2, <1>3, StateFits DEF FileInv
  <1> QED BY <1>1, <1>4, StayFits

LEMMA ServeInv ==
  ASSUME FileInv, UNCHANGED upload, Serve PROVE FileInv'
  BY ServeModuleInv, ServeCreateLessonInv, ServeUpdateLessonInv, ServeDeleteLessonInv, ServeReorderInv,
     ServeAddAttachmentInv, ServeDeleteAttachmentInv, NoRowInv DEF Serve

\* A statement of an upload: its file is nowhere yet.
LEMMA StoreInv ==
  ASSUME FileInv, NEW c \in Calls, Store(c) PROVE FileInv'
  <1> USE DEF server, lists, history, panel
  <1>0. CallsFit /\ FilesFit BY DEF FileInv
  <1>a. PICK f : f = call[c].file OBVIOUS
  <1>b. /\ DOMAIN call = Calls /\ call[c].st = "sent"
        /\ \A d \in Calls : DOMAIN call[d] = DOMAIN Idle /\ Brings(d)
    BY <1>0 DEF CallsFit, Store, Serves
  <1>1. PICK to, q :
          /\ upload' = [upload EXCEPT ![f] = to]
          /\ to \in {"received", "created", "public", "failed"}
          /\ DOMAIN call' = Calls /\ call'[c] = q /\ \A d \in Calls \ {c} : call'[d] = call[d]
          /\ DOMAIN q = DOMAIN Idle /\ q.op = call[c].op /\ q.file = f /\ q.lesson = call[c].lesson
          /\ q.st = "ok" => to = "public"
    <2>2. CASE (Receive(f) \/ Create(f)) /\ UNCHANGED call
      <3>1. PICK to \in {"received", "created"} : upload' = [upload EXCEPT ![f] = to]
        BY <2>2 DEF Receive, Create, Uploaded
      <3> QED BY <1>a, <1>b, <2>2, <3>1
    <2>3. CASE \/ Permit(f) /\ call' = [call EXCEPT ![c].st = "ok"]
               \/ StoreFails(f) /\ call' = [call EXCEPT ![c].st = "error"]
      <3>1. PICK to, st :
              /\ to \in {"public", "failed"} /\ (st = "ok" => to = "public")
              /\ upload' = [upload EXCEPT ![f] = to]
              /\ call' = [call EXCEPT ![c].st = st]
        BY <2>3 DEF Permit, StoreFails, Uploaded
      <3>2. PICK q : q = [call[c] EXCEPT !.st = st] OBVIOUS
      <3>3. /\ DOMAIN q = DOMAIN Idle /\ q.op = call[c].op /\ q.file = call[c].file
            /\ q.lesson = call[c].lesson /\ q.st = st
        BY <1>b, <3>2 DEF Idle
      <3>4. DOMAIN call' = Calls /\ call'[c] = q /\ \A d \in Calls \ {c} : call'[d] = call[d]
        BY <1>b, <3>1, <3>2
      <3>5. to \in {"received", "created", "public", "failed"} /\ (q.st = "ok" => to = "public")
        BY <3>1, <3>3
      <3> QED BY <1>a, <3>1, <3>3, <3>4, <3>5
    <2> QED BY <1>a, <2>2, <2>3 DEF Store
  <1>2. /\ call[c].op \in {"uploadVideo", "uploadPdf"}
        /\ UNCHANGED <<form, lesson, row, meant, strays>>
    BY DEF Store, Serves
  <1>3. /\ DOMAIN call = Calls /\ call'[c] = q /\ \A d \in Calls \ {c} : call'[d] = call[d]
        /\ \A d \in Calls : DOMAIN call[d] = DOMAIN Idle /\ Brings(d)
    BY <1>b, <1>1
  <1>4. /\ f \in Files /\ meant[f] = call[c].lesson /\ meant[f] # Unused
        /\ \A d \in Calls \ {c} : call[d].op \in Picks => call[d].file # f
    BY <1>a, <1>2, <1>3 DEF Brings, Picks
  <1>5. /\ upload'[f] = to /\ \A g \in Files \ {f} : upload'[g] = upload[g]
    BY <1>0, <1>1, <1>4 DEF FilesFit, UploadTypeOK
  <1>6. Keeps
    <2>1. f \notin Linked
      BY <1>a, <1>2 DEF Linked
    <2>2. \A d \in Calls : call'[d].op = call[d].op /\ call'[d].file = call[d].file
      BY <1>a, <1>1, <1>3
    <2>3. Linked \subseteq Linked'
      BY <1>2, <1>5, <2>1, <2>2 DEF Linked
    <2> QED BY <1>2, <2>3 DEF Keeps
  <1>7. Brings(c)'
    <2>1. \A d \in Calls \ {c} : call'[d].op \in Picks => call'[d].file # f
      BY <1>3, <1>4
    <2> QED BY <1>1, <1>2, <1>3, <1>4, <1>5, <2>1 DEF Brings
  <1>8. ASSUME NEW d \in Calls \ {c} PROVE Brings(d)'
    <2>1. Brings(d) /\ call'[d] = call[d]
      BY <1>3
    <2>2. call[d].op \in Picks =>
            \A e \in Calls \ {d} : call'[e].op \in Picks => call'[e].file # call[d].file
      BY <1>a, <1>1, <1>3, <2>1 DEF Brings
    <2>3. VideoOf(call[d].file, call[d].lesson) => VideoOf(call[d].file, call[d].lesson)'
      BY <1>6, <2>1 DEF VideoOf, Keeps
    <2>4. call[d].op \in Picks => upload'[call[d].file] = upload[call[d].file]
      BY <1>4, <1>5, <2>1 DEF Brings
    <2>5. call[d].op \in Picks => meant'[call[d].file] = meant[call[d].file]
      BY <1>2
    <2> QED BY <1>6, <2>1, <2>2, <2>3, <2>4, <2>5 DEF Brings, Keeps, Picks
  <1>9. CallsFit'
    <2>1. DOMAIN call' = Calls /\ \A d \in Calls : DOMAIN call'[d] = DOMAIN Idle'
      BY <1>1, <1>3 DEF Idle
    <2> QED BY <1>7, <1>8, <2>1 DEF CallsFit
  <1>10. FilesFit'
    <2>1. upload' \in [Files -> {"none", "received", "created", "public", "failed"}]
      BY <1>0, <1>1 DEF FilesFit, UploadTypeOK
    <2> QED BY <1>0, <1>2, <1>4, <1>5, <2>1 DEF FilesFit, UploadTypeOK
  <1> QED BY <1>2, <1>6, <1>9, <1>10, FormKept, ListKept, RowsKept DEF FileInv

-----------------------------------------------------------------------------
(* Files: the answers                                                      *)

\* Those that leave the form, the objects and the rows alone.
LEMMA ClosedInv ==
  ASSUME FileInv, UNCHANGED upload, NEW c \in Calls,
         SavedModule(c) \/ DeletedModule(c) \/ DeletedLesson(c) \/ Reordered(c) \/ Failed(c)
  PROVE  FileInv'
  <1> USE DEF FilesStay, DataStay, server, lists, history, panel
  <1>1. FilesStay /\ DataStay /\ UNCHANGED strays /\ Close(c)
    BY DEF SavedModule, DeletedModule, DeletedLesson, Reordered, Failed
  <1>2. Keeps /\ CallsFit'
    BY <1>1, CloseFits DEF FileInv
  <1> QED BY <1>1, <1>2, StayFits

LEMMA SavedLessonInv ==
  ASSUME FileInv, UNCHANGED upload, NEW c \in Calls, SavedLesson(c) PROVE FileInv'
  <1> USE DEF FilesStay, server, lists, history
  <1>1. FilesStay /\ UNCHANGED <<strays, form, row>> /\ Close(c)
    BY DEF SavedLesson
  <1>2. Keeps /\ CallsFit'
    BY <1>1, CloseFits DEF FileInv
  <1>3. ListFits'
    <2>1. CASE UNCHANGED lesson
      BY <1>2, <2>1, ListKept DEF FileInv
    <2>2. CASE lesson' # lesson
      <3>1. PICK x, new : /\ x = call[c].lesson /\ lesson' = [lesson EXCEPT ![x] = new]
                          /\ new.video = call[c].file
        BY <2>2 DEF SavedLesson
      <3>2. VideoOf(call[c].file, x)
        BY <3>1 DEF SavedLesson, Answers, FileInv, CallsFit, Brings
      <3>3. DOMAIN lesson = Lessons /\ \A y \in Lessons : VideoOf(lesson[y].video, y)
        BY DEF FileInv, ListFits
      <3>4. \A y \in Lessons : lesson'[y] = lesson[y] \/ (y = x /\ lesson'[y] = new)
        BY <3>1, <3>3
      <3> QED BY <1>2, <3>1, <3>2, <3>3, <3>4 DEF ListFits, VideoOf, Keeps
    <2> QED BY <2>1, <2>2
  <1> QED BY <1>1, <1>2, <1>3, FilesKept, FormKept, RowsKept DEF FileInv

\* The form gets another video: that of its lesson, or a stray.
LEMMA GotVideoInv ==
  ASSUME FileInv, UNCHANGED upload, NEW c \in Calls, GotVideo(c) PROVE FileInv'
  <1> USE DEF FilesStay, server, lists, history
  <1>0. CallsFit /\ FormFits BY DEF FileInv
  <1>1. FilesStay /\ strays \subseteq strays' /\ UNCHANGED <<lesson, row>> /\ Close(c)
    BY DEF GotVideo
  <1>2. Keeps /\ CallsFit'
    BY <1>0, <1>1, CloseFits
  <1>3. PICK f : f = call[c].file OBVIOUS
  <1>4. call[c].op \in {"pickVideo", "uploadVideo"} /\ call[c].st = "ok"
    BY DEF GotVideo, Answers
  <1>5. f \in Linked'
    <2>1. call' = [call EXCEPT ![c] = Idle] /\ Idle.op \notin {"uploadVideo", "uploadPdf"}
      BY <1>1 DEF Close, Idle
    <2> QED BY <1>0, <1>1, <1>3, <1>4, <2>1, Arrived DEF Picks
  <1>6. meant'[f] = form.lesson \/ f \in strays'
    BY <1>1, <1>3 DEF GotVideo
  <1>7. form' = [form EXCEPT !.video = f]
    BY <1>3 DEF GotVideo
  <1>8. DOMAIN form' = DOMAIN form /\ form'.video = f /\ form'.lesson = form.lesson
    BY <1>0, <1>7 DEF FormFits
  <1>9. FormFits'
    BY <1>0, <1>5, <1>6, <1>8 DEF FormFits, VideoOf
  <1> QED BY <1>1, <1>2, <1>9, FilesKept, ListKept, RowsKept DEF FileInv

\* addAttachment is called for the lesson of the click.
LEMMA GotPdfInv ==
  ASSUME FileInv, UNCHANGED upload, NEW c \in Calls, GotPdf(c) PROVE FileInv'
  <1> USE DEF FilesStay, DataStay, server, lists, history, panel
  <1>0. CallsFit BY DEF FileInv
  <1>1. FilesStay /\ DataStay /\ UNCHANGED strays
    BY DEF GotPdf
  <1>2. call[c].op \in {"pickPdf", "uploadPdf"} /\ call[c].st = "ok" /\ DOMAIN call[c] = DOMAIN Idle
        /\ DOMAIN call = Calls
    BY <1>0 DEF GotPdf, Answers, CallsFit
  <1>3. PICK op, x : /\ op \in {"pickedPdf", "uploadedPdf"} /\ x = call[c].lesson
                     /\ call' = [call EXCEPT ![c].op = op, ![c].lesson = x, ![c].st = "sent"]
    BY DEF GotPdf, AttachTo
  <1> DEFINE q == [[[call[c] EXCEPT !.op = op] EXCEPT !.lesson = x] EXCEPT !.st = "sent"]
  <1>4. /\ DOMAIN q = DOMAIN Idle /\ q.op = op /\ q.file = call[c].file
        /\ q.lesson = x /\ q.st = "sent"
    BY <1>2 DEF Idle
  <1>5. call' = [call EXCEPT ![c] = q]
    BY <1>2, <1>3
  <1> HIDE DEF q
  <1>6. Follows(q, c)
    BY <1>2, <1>3, <1>4 DEF Follows, Picks
  <1>7. Keeps /\ CallsFit'
    BY <1>0, <1>1, <1>5, <1>6, FollowFits
  <1> QED BY <1>1, <1>7, StayFits

LEMMA FormPdfsInv ==
  ASSUME FileInv, UNCHANGED upload, NEW c \in Calls, Attached(c) \/ RemovedAttachment(c)
  PROVE  FileInv'
  <1> USE DEF FilesStay, server, lists, history
  <1>0. CallsFit /\ FormFits BY DEF FileInv
  <1>1. FilesStay /\ UNCHANGED <<strays, lesson, row>> /\ Close(c)
    BY DEF Attached, RemovedAttachment
  <1>2. Keeps /\ CallsFit'
    BY <1>0, <1>1, CloseFits
  <1>3. PICK pdfs : form' = [form EXCEPT !.pdfs = pdfs]
    BY DEF Attached, RemovedAttachment
  <1>4. DOMAIN form' = DOMAIN form /\ form'.video = form.video /\ form'.lesson = form.lesson
    BY <1>0, <1>3 DEF FormFits
  <1>5. FormFits'
    BY <1>0, <1>2, <1>4 DEF FormFits, VideoOf, Keeps
  <1> QED BY <1>1, <1>2, <1>5, FilesKept, ListKept, RowsKept DEF FileInv

LEMMA AnswerInv ==
  ASSUME FileInv, UNCHANGED upload, Answer PROVE FileInv'
  BY ClosedInv, SavedLessonInv, GotVideoInv, GotPdfInv, FormPdfsInv DEF Answer

-----------------------------------------------------------------------------
(* Files: the specification                                                *)

LEMMA InitInv == Init => FileInv
  <1> SUFFICES ASSUME Init PROVE FileInv
    OBVIOUS
  <1>1. /\ meant = [f \in Files |-> Unused] /\ upload = [f \in Files |-> "none"]
        /\ call = [c \in Calls |-> Idle] /\ lesson = [x \in Lessons |-> NoObject]
        /\ form = [lesson |-> None, mod |-> None, video |-> None, pdfs |-> {}]
    BY DEF Init, UploadInit
  <1>2. FilesFit
    BY <1>1 DEF FilesFit, UploadTypeOK
  <1>3. CallsFit
    BY <1>1 DEF CallsFit, Brings, Idle, Picks
  <1>4. FormFits
    BY <1>1 DEF FormFits, VideoOf
  <1>5. ListFits
    BY <1>1 DEF ListFits, VideoOf, NoObject
  <1>6. RowsFit
    <2>1. DOMAIN row = Lessons
      BY DEF Init, Loaded, LoadedRows
    <2>2. ASSUME NEW x \in Lessons
          PROVE  DOMAIN row[x] = DOMAIN NoRow /\ row[x].pdfs = {} /\ row[x].video = None
      <3>1. PICK of : row = LoadedRows(of)
        BY DEF Init, Loaded
      <3>2. row[x] = NoRow \/ \E m, n : row[x] = [NoRow EXCEPT !.mod = m, !.index = n]
        BY <3>1 DEF LoadedRows
      <3>3. CASE row[x] = NoRow
        BY <3>3 DEF NoRow
      <3>4. ASSUME NEW m, NEW n, row[x] = [NoRow EXCEPT !.mod = m, !.index = n]
            PROVE  DOMAIN row[x] = DOMAIN NoRow /\ row[x].pdfs = {} /\ row[x].video = None
        BY <3>4 DEF NoRow
      <3> QED BY <3>2, <3>3, <3>4
    <2> QED BY <2>1, <2>2 DEF RowsFit, RowFits, VideoOf
  <1> QED BY <1>2, <1>3, <1>4, <1>5, <1>6 DEF FileInv

LEMMA NextInv == FileInv /\ [Next]_vars => FileInv'
  <1> SUFFICES ASSUME FileInv, [Next]_vars PROVE FileInv'
    OBVIOUS
  <1>1. CASE UNCHANGED vars
    <2>1. FilesStay /\ DataStay /\ UNCHANGED strays /\ UNCHANGED call
      BY <1>1 DEF vars, page, server, lists, panel, history, FilesStay, DataStay
    <2>2. Keeps /\ CallsFit'
      BY <2>1, StillFits DEF FileInv
    <2> QED BY <2>1, <2>2, StayFits
  <1>2. CASE Teacher /\ UNCHANGED upload
    BY <1>2, ClickInv DEF Teacher
  <1>3. CASE (Serve \/ Answer) /\ UNCHANGED <<clicks, upload>>
    BY <1>3, ServeInv, AnswerInv
  <1>4. CASE \E c \in Calls : Store(c)
    BY <1>4, StoreInv
  <1> QED BY <1>1, <1>2, <1>3, <1>4 DEF Next

\* The inductive invariant about files holds throughout.
THEOREM FileInvariance == Spec => []FileInv
  BY InitInv, NextInv, PTL DEF Spec

\* A PDF is attached to the lesson whose form it was chosen in
\* (course-builder.component.ts:379, :397).
THEOREM PdfsStay == Spec => []PdfOfItsLesson
  <1>1. FileInv => PdfOfItsLesson
    BY DEF FileInv, RowsFit, RowFits, PdfOfItsLesson
  <1> QED BY <1>1, FileInvariance, PTL

\* The video of a lesson was chosen in its own form, in a draft's, or came
\* when another form was open (course-builder.component.ts:367).
THEOREM VideosAccounted == Spec => []VideoOfItsLesson
  <1>1. FileInv => VideoOfItsLesson
    BY DEF FileInv, RowsFit, RowFits, VideoOf, VideoOfItsLesson
  <1> QED BY <1>1, FileInvariance, PTL

\* What a lesson links and was uploaded is in Drive and public (drive.go:54).
THEOREM LinksWork == Spec => []LinkedPublic
  <1>1. ASSUME FileInv, NEW x \in Lessons, NEW f \in row[x].pdfs \cup ({row[x].video} \cap Files)
        PROVE  upload[f] \in {"none", "public"}
    <2>1. f \in Linked
      BY <1>1, BuilderAssumption DEF FileInv, RowsFit, RowFits, VideoOf
    <2> QED BY <2>1 DEF Linked
  <1>2. FileInv => LinkedPublic
    BY <1>1 DEF LinkedPublic
  <1> QED BY <1>2, FileInvariance, PTL

-----------------------------------------------------------------------------
(* Sequences                                                               *)

LEMMA SeqParts ==
  ASSUME NEW S, NEW s \in Seq(S)
  PROVE  /\ Len(s) \in Nat /\ DOMAIN s = 1..Len(s) /\ Range(s) \subseteq S
         /\ \A i \in DOMAIN s : s[i] \in S /\ s[i] \in Range(s)
         /\ \A x \in Range(s) : \E i \in DOMAIN s : s[i] = x
  <1>1. Len(s) \in Nat /\ DOMAIN s = 1..Len(s) /\ s \in [1..Len(s) -> S]
    BY LenProperties
  <1> QED BY <1>1 DEF Range

LEMMA PlaceNat ==
  ASSUME NEW S, NEW s \in Seq(S), NEW x \in Range(s)
  PROVE  Place(s, x) \in Nat
  <1>1. Len(s) \in Nat /\ DOMAIN s = 1..Len(s)
    BY SeqParts
  <1>2. PICK i \in DOMAIN s : i = CHOOSE k \in DOMAIN s : s[k] = x
    BY DEF Range
  <1> QED BY <1>1, <1>2 DEF Place

LEMMA PlaceIs ==
  ASSUME NEW S, NEW s \in Seq(S), IsInjective(s)
  PROVE  /\ \A i \in DOMAIN s : Place(s, s[i]) = i - 1
         /\ \A x \in Range(s) : /\ Place(s, x) \in Nat /\ Place(s, x) < Len(s)
                                /\ Place(s, x) + 1 \in DOMAIN s /\ s[Place(s, x) + 1] = x
         /\ \A x, y \in Range(s) : Place(s, x) = Place(s, y) => x = y
  <1>1. Len(s) \in Nat /\ DOMAIN s = 1..Len(s)
    BY SeqParts
  <1>2. ASSUME NEW x \in Range(s)
        PROVE  /\ Place(s, x) \in Nat /\ Place(s, x) < Len(s)
               /\ Place(s, x) + 1 \in DOMAIN s /\ s[Place(s, x) + 1] = x
    <2>1. PICK i \in DOMAIN s : i = CHOOSE k \in DOMAIN s : s[k] = x
      BY <1>2 DEF Range
    <2>2. s[i] = x /\ Place(s, x) = i - 1
      BY <1>2, <2>1 DEF Range, Place
    <2> QED BY <1>1, <2>2
  <1>3. ASSUME NEW i \in DOMAIN s
        PROVE  Place(s, s[i]) = i - 1
    <2>1. s[i] \in Range(s)
      BY DEF Range
    <2>2. Place(s, s[i]) + 1 = i
      BY <1>2, <2>1 DEF IsInjective
    <2> QED BY <2>1, <2>2, <1>1, <1>2
  <1> QED BY <1>2, <1>3

LEMMA AppendIs ==
  ASSUME NEW S, NEW s \in Seq(S), NEW x \in S
  PROVE  /\ Append(s, x) \in Seq(S) /\ DOMAIN Append(s, x) = 1..(Len(s) + 1)
         /\ \A i \in DOMAIN s : Append(s, x)[i] = s[i]
         /\ Append(s, x)[Len(s) + 1] = x
         /\ Range(Append(s, x)) = Range(s) \cup {x}
         /\ IsInjective(s) /\ x \notin Range(s) => IsInjective(Append(s, x))
  <1>1. Len(s) \in Nat /\ DOMAIN s = 1..Len(s)
    BY SeqParts
  <1>2. /\ Append(s, x) \in Seq(S) /\ Len(Append(s, x)) = Len(s) + 1
        /\ \A i \in DOMAIN s : Append(s, x)[i] = s[i]
        /\ Append(s, x)[Len(s) + 1] = x
    BY <1>1, AppendProperties
  <1>3. DOMAIN Append(s, x) = 1..(Len(s) + 1)
    BY <1>2, SeqParts
  <1>4. \A i \in DOMAIN Append(s, x) : i \in DOMAIN s \/ i = Len(s) + 1
    BY <1>1, <1>3
  <1>5. Range(Append(s, x)) = Range(s) \cup {x}
    BY <1>1, <1>2, <1>3, <1>4 DEF Range
  <1>6. IsInjective(s) /\ x \notin Range(s) => IsInjective(Append(s, x))
    BY <1>1, <1>2, <1>3, <1>4 DEF Range, IsInjective
  <1> QED BY <1>2, <1>3, <1>5, <1>6

LEMMA SubSeqIs ==
  ASSUME NEW S, NEW s \in Seq(S), NEW m \in 1..(Len(s) + 1), NEW n \in Nat, n <= Len(s), m <= n + 1
  PROVE  /\ SubSeq(s, m, n) \in Seq(S) /\ Len(SubSeq(s, m, n)) = n - m + 1
         /\ \A k \in 1..(n - m + 1) : SubSeq(s, m, n)[k] = s[m + k - 1]
  <1>1. Len(s) \in Nat /\ m \in Int /\ n \in Int /\ \A k \in m..n : s[k] \in S
    BY SeqParts
  <1>2. PICK b : b = SubSeq(s, m, n) OBVIOUS
  <1>3. /\ b \in Seq(S) /\ Len(b) = IF m <= n THEN n - m + 1 ELSE 0
        /\ \A k \in 1..(n - m + 1) : b[k] = s[m + k - 1]
    BY <1>1, <1>2, SubSeqProperties
  <1>4. Len(b) = n - m + 1
    BY <1>1, <1>3
  <1> QED BY <1>2, <1>3, <1>4

LEMMA RemoveAtIs ==
  ASSUME NEW S, NEW s \in Seq(S), NEW i \in DOMAIN s
  PROVE  /\ RemoveAt(s, i) \in Seq(S) /\ DOMAIN RemoveAt(s, i) = 1..(Len(s) - 1)
         /\ Len(RemoveAt(s, i)) = Len(s) - 1
         /\ \A k \in 1..(Len(s) - 1) : RemoveAt(s, i)[k] = IF k < i THEN s[k] ELSE s[k + 1]
  <1>1. Len(s) \in Nat /\ i \in 1..Len(s)
    BY SeqParts
  <1>2. PICK a : a = SubSeq(s, 1, i - 1) OBVIOUS
  <1>3. PICK b : b = SubSeq(s, i + 1, Len(s)) OBVIOUS
  <1>4. a \in Seq(S) /\ Len(a) = i - 1 /\ \A k \in 1..(i - 1) : a[k] = s[k]
    <2>1. 1 \in 1..(Len(s) + 1) /\ i - 1 \in Nat /\ i - 1 <= Len(s) /\ 1 <= i - 1 + 1
      BY <1>1
    <2>2. /\ a \in Seq(S) /\ Len(a) = i - 1 - 1 + 1
          /\ \A k \in 1..(i - 1 - 1 + 1) : a[k] = s[1 + k - 1]
      BY <1>2, <2>1, SubSeqIs
    <2> QED BY <1>1, <2>2
  <1>5. b \in Seq(S) /\ Len(b) = Len(s) - i /\ \A k \in 1..(Len(s) - i) : b[k] = s[i + k]
    <2>1. i + 1 \in 1..(Len(s) + 1) /\ Len(s) \in Nat /\ Len(s) <= Len(s) /\ i + 1 <= Len(s) + 1
      BY <1>1
    <2>2. /\ b \in Seq(S) /\ Len(b) = Len(s) - (i + 1) + 1
          /\ \A k \in 1..(Len(s) - (i + 1) + 1) : b[k] = s[i + 1 + k - 1]
      BY <1>3, <2>1, SubSeqIs
    <2>3. Len(s) - (i + 1) + 1 = Len(s) - i /\ \A k \in 1..(Len(s) - i) : i + 1 + k - 1 = i + k
      BY <1>1
    <2> QED BY <2>2, <2>3
  <1>6. PICK d : d = a \o b OBVIOUS
  <1>7. /\ d \in Seq(S) /\ Len(d) = i - 1 + (Len(s) - i)
        /\ \A k \in 1..(i - 1) : d[k] = a[k]
        /\ \A k \in 1..(Len(s) - i) : d[i - 1 + k] = b[k]
    <2>1. PICK p, q : p = i - 1 /\ q = Len(s) - i OBVIOUS
    <2>2. p \in Nat /\ q \in Nat /\ Len(a) = p /\ Len(b) = q /\ a \in Seq(S) /\ b \in Seq(S)
      BY <1>1, <1>4, <1>5, <2>1
    <2>3. /\ a \o b \in Seq(S) /\ Len(a \o b) = p + q
          /\ \A k \in 1..p : (a \o b)[k] = a[k]
          /\ \A k \in 1..q : (a \o b)[p + k] = b[k]
      BY <2>2
    <2> QED BY <1>6, <2>1, <2>3
  <1>8. Len(d) = Len(s) - 1 /\ DOMAIN d = 1..(Len(s) - 1)
    BY <1>1, <1>7, SeqParts
  <1>9. ASSUME NEW k \in 1..(Len(s) - 1) PROVE d[k] = IF k < i THEN s[k] ELSE s[k + 1]
    <2>1. CASE k < i
      BY <2>1, <1>1, <1>4, <1>7
    <2>2. CASE ~(k < i)
      <3>1. PICK l : l = k - (i - 1) OBVIOUS
      <3>2. l \in 1..(Len(s) - i) /\ i - 1 + l = k /\ i + l = k + 1
        BY <2>2, <1>1, <3>1
      <3> QED BY <2>2, <3>2, <1>5, <1>7
    <2> QED BY <2>1, <2>2
  <1> QED BY <1>2, <1>3, <1>6, <1>7, <1>8, <1>9 DEF RemoveAt

LEMMA InsertAtIs ==
  ASSUME NEW S, NEW s \in Seq(S), NEW n \in Nat, Len(s) = n - 1, NEW j \in 1..n, NEW x \in S
  PROVE  /\ InsertAt(s, j, x) \in Seq(S) /\ DOMAIN InsertAt(s, j, x) = 1..n
         /\ \A k \in 1..n :
              InsertAt(s, j, x)[k] = IF k < j THEN s[k] ELSE IF k = j THEN x ELSE s[k - 1]
  <1>1. Len(s) \in Nat /\ j \in 1..(Len(s) + 1) /\ Len(s) + 1 = n
    BY SeqParts
  <1>2. PICK a : a = SubSeq(s, 1, j - 1) OBVIOUS
  <1>3. PICK b : b = SubSeq(s, j, Len(s)) OBVIOUS
  <1>4. PICK e : e = <<x>> OBVIOUS
  <1>5. a \in Seq(S) /\ Len(a) = j - 1 /\ \A k \in 1..(j - 1) : a[k] = s[k]
    <2>1. 1 \in 1..(Len(s) + 1) /\ j - 1 \in Nat /\ j - 1 <= Len(s) /\ 1 <= j - 1 + 1
      BY <1>1
    <2>2. /\ a \in Seq(S) /\ Len(a) = j - 1 - 1 + 1
          /\ \A k \in 1..(j - 1 - 1 + 1) : a[k] = s[1 + k - 1]
      BY <1>2, <2>1, SubSeqIs
    <2> QED BY <1>1, <2>2
  <1>6. b \in Seq(S) /\ Len(b) = Len(s) - j + 1 /\ \A k \in 1..(Len(s) - j + 1) : b[k] = s[j + k - 1]
    <2>1. Len(s) \in Nat /\ Len(s) <= Len(s) /\ j <= Len(s) + 1
      BY <1>1
    <2> QED BY <1>3, <2>1, SubSeqIs
  <1>7. e \in Seq(S) /\ Len(e) = 1 /\ e[1] = x
    BY <1>4
  <1>8. PICK d : d = a \o e OBVIOUS
  <1>9. /\ d \in Seq(S) /\ Len(d) = j /\ d[j] = x
        /\ \A k \in 1..(j - 1) : d[k] = s[k]
    <2>1. PICK p, q : p = j - 1 /\ q = 1 OBVIOUS
    <2>2. p \in Nat /\ q \in Nat /\ Len(a) = p /\ Len(e) = q /\ p + q = j /\ 1 \in 1..q
      BY <1>1, <1>5, <1>7, <2>1
    <2>3. /\ a \o e \in Seq(S) /\ Len(a \o e) = p + q
          /\ \A k \in 1..p : (a \o e)[k] = a[k]
          /\ \A k \in 1..q : (a \o e)[p + k] = e[k]
      BY <1>5, <1>7, <2>2
    <2>4. d[p + 1] = e[1] /\ p + 1 = j
      BY <1>1, <1>8, <2>1, <2>2, <2>3
    <2> QED BY <1>8, <1>5, <1>7, <2>1, <2>2, <2>3, <2>4
  <1>10. PICK g : g = d \o b OBVIOUS
  <1>11. /\ g \in Seq(S) /\ Len(g) = j + (Len(s) - j + 1)
         /\ \A k \in 1..j : g[k] = d[k]
         /\ \A k \in 1..(Len(s) - j + 1) : g[j + k] = b[k]
    <2>1. PICK q : q = Len(s) - j + 1 OBVIOUS
    <2>2. j \in Nat /\ q \in Nat /\ Len(d) = j /\ Len(b) = q /\ d \in Seq(S) /\ b \in Seq(S)
      BY <1>1, <1>6, <1>9, <2>1
    <2>3. /\ d \o b \in Seq(S) /\ Len(d \o b) = j + q
          /\ \A k \in 1..j : (d \o b)[k] = d[k]
          /\ \A k \in 1..q : (d \o b)[j + k] = b[k]
      BY <2>2
    <2> QED BY <1>10, <2>1, <2>3
  <1>12. DOMAIN g = 1..n
    BY <1>1, <1>11, SeqParts
  <1>13. ASSUME NEW k \in 1..n
         PROVE g[k] = IF k < j THEN s[k] ELSE IF k = j THEN x ELSE s[k - 1]
    <2>1. CASE k < j
      BY <2>1, <1>1, <1>9, <1>11
    <2>2. CASE k = j
      BY <2>2, <1>1, <1>9, <1>11
    <2>3. CASE k > j
      <3>1. PICK l : l = k - j OBVIOUS
      <3>2. l \in 1..(Len(s) - j + 1) /\ j + l = k /\ j + l - 1 = k - 1
        BY <2>3, <1>1, <3>1
      <3>3. g[k] = b[l] /\ b[l] = s[k - 1]
        <4>1. \A h \in 1..(Len(s) - j + 1) : j + h - 1 = k - 1 => b[h] = s[k - 1]
          BY <1>6
        <4> QED BY <3>2, <1>11, <4>1
      <3> QED BY <2>3, <3>3, <1>1
    <2> QED BY <2>1, <2>2, <2>3, <1>1
  <1> QED BY <1>2, <1>3, <1>4, <1>8, <1>10, <1>11, <1>12, <1>13 DEF InsertAt

\* moveItemInArray keeps what is in the list, once.
LEMMA MovedIs ==
  ASSUME NEW S, NEW s \in Seq(S), IsInjective(s), NEW i \in DOMAIN s, NEW j \in DOMAIN s
  PROVE  /\ Moved(s, i, j) \in Seq(S) /\ IsInjective(Moved(s, i, j))
         /\ Range(Moved(s, i, j)) = Range(s)
  <1>1. Len(s) \in Nat /\ DOMAIN s = 1..Len(s) /\ i \in 1..Len(s) /\ j \in 1..Len(s) /\ s[i] \in S
    BY SeqParts
  <1>2. PICK n : n = Len(s) OBVIOUS
  <1>3. PICK r : r = RemoveAt(s, i) OBVIOUS
  <1>4. /\ r \in Seq(S) /\ DOMAIN r = 1..(n - 1) /\ Len(r) = n - 1
        /\ \A k \in 1..(n - 1) : r[k] = IF k < i THEN s[k] ELSE s[k + 1]
    BY <1>2, <1>3, RemoveAtIs
  <1>5. n \in Nat /\ j \in 1..n /\ Len(r) = n - 1
    BY <1>1, <1>2, <1>4
  <1>6. PICK y : y = s[i] OBVIOUS
  <1>t. PICK t : t = InsertAt(r, j, y) OBVIOUS
  <1>7. /\ t \in Seq(S) /\ DOMAIN t = 1..n
        /\ \A k \in 1..n : t[k] = IF k < j THEN r[k] ELSE IF k = j THEN y ELSE r[k - 1]
    <2>1. PICK h : h = j OBVIOUS
    <2>2. y \in S /\ h \in 1..n /\ n \in Nat /\ r \in Seq(S) /\ Len(r) = n - 1
      BY <1>1, <1>4, <1>5, <1>6, <2>1
    <2>3. InsertAt(r, h, y) \in Seq(S)
      BY <2>2, InsertAtIs
    <2>4. DOMAIN InsertAt(r, h, y) = 1..n
      BY <2>2, InsertAtIs
    <2>5. \A k \in 1..n : InsertAt(r, h, y)[k] = IF k < h THEN r[k] ELSE IF k = h THEN y ELSE r[k - 1]
      BY <2>2, InsertAtIs
    <2> QED BY <1>t, <2>1, <2>3, <2>4, <2>5
  <1> DEFINE e(k) == IF k < j THEN k ELSE k - 1
             o(k) == IF k = j THEN i ELSE IF e(k) < i THEN e(k) ELSE e(k) + 1
  <1>8. DOMAIN t = 1..n /\ \A k \in 1..n : t[k] = s[o(k)]
    <2>1. ASSUME NEW k \in 1..n, k # j PROVE e(k) \in 1..(n - 1) /\ t[k] = r[e(k)]
      BY <1>1, <1>2, <1>4, <1>5, <1>7, <2>1
    <2>2. ASSUME NEW k \in 1..n, k # j PROVE t[k] = s[o(k)]
      <3>1. PICK l : l = e(k) OBVIOUS
      <3>2. l \in 1..(n - 1) /\ t[k] = r[l]
        BY <2>1, <2>2, <3>1
      <3>3. r[l] = IF l < i THEN s[l] ELSE s[l + 1]
        BY <1>4, <3>2
      <3>4. o(k) = IF l < i THEN l ELSE l + 1
        BY <2>2, <3>1
      <3> HIDE DEF o
      <3> QED BY <3>2, <3>3, <3>4
    <2>3. t[j] = s[o(j)] /\ DOMAIN t = 1..n
      BY <1>1, <1>2, <1>4, <1>5, <1>6, <1>7
    <2> QED BY <2>2, <2>3
  <1>9. \A k \in 1..n : o(k) \in 1..n
    BY <1>1, <1>2
  <1>10. \A k, l \in 1..n : o(k) = o(l) => k = l
    BY <1>1, <1>2
  <1>11. ASSUME NEW h \in 1..n PROVE \E k \in 1..n : o(k) = h
    <2>1. CASE h = i
      <3>1. j \in 1..n /\ o(j) = h
        BY <1>1, <1>2, <2>1
      <3> QED BY <3>1
    <2>2. CASE h # i
      <3>1. PICK l : l = IF h < i THEN h ELSE h - 1 OBVIOUS
      <3>2. PICK k : k = IF l < j THEN l ELSE l + 1 OBVIOUS
      <3>3. k \in 1..n /\ o(k) = h
        BY <1>1, <1>2, <2>2, <3>1, <3>2
      <3> QED BY <3>3
    <2> QED BY <2>1, <2>2
  <1> HIDE DEF o
  <1>12. IsInjective(t)
    BY <1>1, <1>2, <1>8, <1>9, <1>10 DEF IsInjective
  <1>13. Range(t) \subseteq Range(s)
    BY <1>1, <1>2, <1>8, <1>9 DEF Range
  <1>14. Range(s) \subseteq Range(t)
    <2>1. ASSUME NEW x \in Range(s) PROVE x \in Range(t)
      <3>1. PICK h \in 1..n : s[h] = x
        BY <1>1, <1>2, <2>1 DEF Range
      <3>2. PICK k \in 1..n : o(k) = h
        BY <1>11
      <3>3. t[k] = x /\ k \in DOMAIN t
        BY <1>8, <3>1, <3>2
      <3> QED BY <3>3 DEF Range
    <2> QED BY <2>1
  <1> QED BY <1>3, <1>6, <1>t, <1>7, <1>12, <1>13, <1>14 DEF Moved

\* What is left of a list, in its order.
LEMMA WithoutIs ==
  ASSUME NEW S, NEW s \in Seq(S), IsInjective(s), NEW x
  PROVE  /\ Without(s, x) \in Seq(S) /\ IsInjective(Without(s, x))
         /\ Range(Without(s, x)) = Range(s) \ {x}
         /\ \A i, j \in DOMAIN Without(s, x) : i < j =>
              \E k, l \in DOMAIN s : k < l /\ s[k] = Without(s, x)[i] /\ s[l] = Without(s, x)[j]
  <1>1. Len(s) \in Nat /\ DOMAIN s = 1..Len(s)
    BY SeqParts
  <1>2. CASE x \notin Range(s)
    BY <1>2 DEF Without
  <1>3. CASE x \in Range(s)
    <2>1. PICK h : h = Place(s, x) + 1 OBVIOUS
    <2>2. h \in 1..Len(s) /\ s[h] = x
      BY <1>1, <1>3, <2>1, PlaceIs
    <2>3. PICK n : n = Len(s) OBVIOUS
    <2>4. PICK r : r = RemoveAt(s, h) OBVIOUS
    <2>5. /\ r \in Seq(S) /\ DOMAIN r = 1..(n - 1)
          /\ \A k \in 1..(n - 1) : r[k] = IF k < h THEN s[k] ELSE s[k + 1]
      BY <1>1, <2>2, <2>3, <2>4, RemoveAtIs
    <2> DEFINE o(k) == IF k < h THEN k ELSE k + 1
    <2>6. /\ \A k \in 1..(n - 1) : o(k) \in 1..n \ {h} /\ r[k] = s[o(k)]
          /\ \A k, l \in 1..(n - 1) : k < l => o(k) < o(l)
      BY <1>1, <2>2, <2>3, <2>5
    <2>7. ASSUME NEW g \in 1..n \ {h} PROVE \E k \in 1..(n - 1) : o(k) = g
      <3>1. PICK k : k = IF g < h THEN g ELSE g - 1 OBVIOUS
      <3>2. k \in 1..(n - 1) /\ o(k) = g
        BY <1>1, <2>2, <2>3, <3>1
      <3> QED BY <3>2
    <2> HIDE DEF o
    <2>8. \A k, l \in 1..(n - 1) : r[k] = r[l] => k = l
      <3>1. SUFFICES ASSUME NEW k \in 1..(n - 1), NEW l \in 1..(n - 1), r[k] = r[l], k # l PROVE FALSE
        OBVIOUS
      <3>2. o(k) \in 1..n /\ o(l) \in 1..n /\ o(k) = o(l)
        BY <1>1, <2>3, <2>6, <3>1 DEF IsInjective
      <3>3. k < l \/ l < k
        BY <1>1, <2>3, <3>1
      <3> QED BY <1>1, <2>3, <2>6, <3>2, <3>3
    <2>9. Range(r) = Range(s) \ {x}
      <3>1. \A k \in 1..(n - 1) : r[k] \in Range(s) /\ r[k] # x
        BY <1>1, <2>2, <2>3, <2>6 DEF Range, IsInjective
      <3>2. \A y \in Range(s) \ {x} : y \in Range(r)
        <4>1. ASSUME NEW y \in Range(s), y # x PROVE y \in Range(r)
          <5>1. PICK g \in 1..n \ {h} : s[g] = y
            BY <1>1, <2>2, <2>3, <4>1 DEF Range
          <5>2. PICK k \in 1..(n - 1) : o(k) = g
            BY <2>7
          <5>3. r[k] = y /\ k \in DOMAIN r
            BY <2>5, <2>6, <5>1, <5>2
          <5> QED BY <5>3 DEF Range
        <4> QED BY <4>1
      <3> QED BY <2>5, <3>1, <3>2 DEF Range
    <2>10. \A i, j \in DOMAIN r : i < j => \E k, l \in DOMAIN s : k < l /\ s[k] = r[i] /\ s[l] = r[j]
      BY <1>1, <2>3, <2>5, <2>6
    <2>11. Without(s, x) = r
      BY <1>3, <2>1, <2>4 DEF Without
    <2> QED BY <2>5, <2>8, <2>9, <2>10, <2>11 DEF IsInjective
  <1> QED BY <1>2, <1>3

-----------------------------------------------------------------------------
(* Indexes                                                                 *)

LEMMA ImageFinite ==
  ASSUME NEW S, IsFiniteSet(S), NEW T, NEW f \in [S -> T]
  PROVE  IsFiniteSet({f[x] : x \in S})
  <1>1. f \in [S -> {f[x] : x \in S}]
    OBVIOUS
  <1>2. f \in Surjection(S, {f[x] : x \in S})
    BY <1>1 DEF Surjection
  <1> QED BY <1>2, FS_Surjection

LEMMA MaxIs ==
  ASSUME NEW S, IsFiniteSet(S), S \subseteq Int, S # {}
  PROVE  Max(S) \in S /\ \A y \in S : y <= Max(S)
  <1> DEFINE Above(x) == {y \in S : y > x}
             T == {Above(x) : x \in S}
  <1>1. IsWellFoundedOn(StrictSubsetOrdering(S), SUBSET S)
    BY FS_StrictSubsetOrderingWellFounded, FS_FiniteSubsetsOfFinite
  <1>2. T \subseteq SUBSET S /\ T # {}
    OBVIOUS
  <1>3. PICK X \in T : \A Y \in T : ~ (<<Y, X>> \in StrictSubsetOrdering(S))
    BY <1>1, <1>2, WFMin
  <1>4. PICK x \in S : X = Above(x)
    BY <1>3
  <1>5. ASSUME NEW y \in S PROVE x >= y
    <2>1. SUFFICES ASSUME y > x PROVE FALSE
      BY <1>5
    <2>2. Above(y) \in T /\ Above(y) \subseteq X /\ Above(y) # X
      <3>1. y \in Above(x) /\ y \notin Above(y)
        BY <2>1
      <3>2. \A z \in Above(y) : z \in Above(x)
        BY <2>1
      <3>3. Above(y) \in T
        OBVIOUS
      <3> HIDE DEF Above
      <3> QED BY <1>4, <3>1, <3>2, <3>3
    <2>3. <<Above(y), X>> \in StrictSubsetOrdering(S)
      BY <1>2, <2>2 DEF StrictSubsetOrdering
    <2> QED BY <1>3, <2>2, <2>3
  <1>6. \E z \in S : \A y \in S : z >= y
    BY <1>5
  <1>7. PICK m : m = Max(S) OBVIOUS
  <1>8. m \in S /\ \A y \in S : m >= y
    BY <1>6, <1>7 DEF Max
  <1> QED BY <1>7, <1>8

\* COALESCE(MAX(order_index) + 1, 0) is above all indexes.
LEMMA NextIndexIs ==
  ASSUME NEW S, IsFiniteSet(S), S \subseteq Nat
  PROVE  NextIndex(S) \in Nat /\ \A i \in S : i < NextIndex(S)
  <1>1. CASE S = {}
    BY <1>1 DEF NextIndex
  <1>2. CASE S # {}
    <2>1. PICK m : m = Max(S) OBVIOUS
    <2>a. S \subseteq Int
      OBVIOUS
    <2>2. m \in S /\ \A i \in S : i <= m
      BY <1>2, <2>1, <2>a, MaxIs
    <2>3. NextIndex(S) = m + 1
      BY <1>2, <2>1 DEF NextIndex
    <2>4. m \in Nat /\ \A i \in S : i \in Nat
      BY <2>2
    <2> HIDE <1>2
    <2> QED BY <2>2, <2>3, <2>4
  <1> QED BY <1>1, <1>2

-----------------------------------------------------------------------------
(* Types                                                                   *)

\* Call c becomes q; the others stay as they are.
Turns(c, q) ==
  /\ q \in CallType /\ call' \in [Calls -> CallType] /\ call'[c] = q
  /\ \A d \in Calls \ {c} : call'[d] = call[d]

\* What a call names, as far as it is.
ShapeOf(q) ==
  /\ q.op = "none" <=> q.st = "idle"
  /\ q.op \in {"deleteModule", "createLesson", "updateLesson"} => q.mod \in Modules
  /\ q.op = "createModule" /\ q.st = "ok" => q.mod \in Modules
  /\ q.op \in {"updateLesson", "deleteLesson"} => q.lesson \in Lessons
  /\ q.op = "createLesson" /\ q.st = "ok" => q.lesson \in Lessons
  /\ q.op \in {"pickPdf", "uploadPdf", "pickedPdf", "uploadedPdf"} => q.lesson \in Lessons

FormShape == LessonForm => form.mod \in Modules

\* One call at most of those that set a flag, and the flag says so.
OneSave ==
  /\ saving <=> \E c \in Calls : call[c].op \in Saves
  /\ \A c, d \in Calls : call[c].op \in Saves /\ call[d].op \in Saves => c = d

OneUpload ==
  /\ uploading <=> \E c \in Calls : call[c].op \in Uploads
  /\ \A c, d \in Calls : call[c].op \in Uploads /\ call[d].op \in Uploads => c = d

\* A lesson that is there has a module and an index.
Indexed == \A x \in Lessons : row[x] = NoRow \/ (row[x].mod \in Modules /\ row[x].index \in Nat)

Shaped == Typed /\ FormShape /\ Indexed /\ OneSave /\ OneUpload /\ \A c \in Calls : ShapeOf(call[c])

LEMMA TurnCall ==
  ASSUME call \in [Calls -> CallType], NEW c \in Calls, NEW q \in CallType, call' = [call EXCEPT ![c] = q]
  PROVE  Turns(c, q)
  BY DEF Turns

LEMMA IdleIs == Idle \in CallType
  <1>1. <<>> \in Seq(Modules \cup Lessons) OBVIOUS
  <1> QED BY <1>1 DEF Idle, CallType, Ops

LEMMA CloseTurns ==
  ASSUME call \in [Calls -> CallType], NEW c \in Calls, Close(c)
  PROVE  Turns(c, Idle)
  BY IdleIs, TurnCall DEF Close

LEMMA SendTurns ==
  ASSUME call \in [Calls -> CallType], NEW c \in Calls,
         NEW op \in Ops, NEW m \in Modules \cup {None}, NEW x \in Lessons \cup {None},
         NEW f \in Files \cup {None}, NEW ids \in Seq(Modules \cup Lessons), Send(c, op, m, x, f, ids)
  PROVE  /\ call[c] = Idle
         /\ Turns(c, [op |-> op, mod |-> m, lesson |-> x, file |-> f, ids |-> ids, st |-> "sent"])
  <1>1. PICK q : q = [op |-> op, mod |-> m, lesson |-> x, file |-> f, ids |-> ids, st |-> "sent"]
    OBVIOUS
  <1>2. q \in CallType
    BY <1>1 DEF CallType
  <1>3. call[c] = Idle /\ call' = [call EXCEPT ![c] = q]
    BY <1>1 DEF Send
  <1> QED BY <1>1, <1>2, <1>3, TurnCall

\* What is left of q when its state, and what it names, change.
LEMMA ReplyTurns ==
  ASSUME call \in [Calls -> CallType], NEW c \in Calls, NEW m \in Modules \cup {None},
         NEW x \in Lessons \cup {None}, Replies(c, m, x)
  PROVE  \E q : /\ Turns(c, q) /\ q.op = call[c].op /\ q.mod = m /\ q.lesson = x
                /\ q.file = call[c].file /\ q.ids = call[c].ids /\ q.st \in {"ok", "error"}
                /\ lost' = (lost \/ q.st = "error")
  <1>1. PICK st \in {"ok", "error"} :
          /\ call' = [call EXCEPT ![c].mod = m, ![c].lesson = x, ![c].st = st]
          /\ lost' = (lost \/ st = "error")
    BY DEF Replies
  <1>2. PICK q : q = [[[call[c] EXCEPT !.mod = m] EXCEPT !.lesson = x] EXCEPT !.st = st] OBVIOUS
  <1>3. call[c] \in CallType OBVIOUS
  <1>4. /\ q \in CallType /\ q.op = call[c].op /\ q.mod = m /\ q.lesson = x
        /\ q.file = call[c].file /\ q.ids = call[c].ids /\ q.st = st
    BY <1>2, <1>3 DEF CallType
  <1>5. call' = [call EXCEPT ![c] = q]
    BY <1>1, <1>2
  <1> QED BY <1>1, <1>4, <1>5, TurnCall

LEMMA StateTurns ==
  ASSUME call \in [Calls -> CallType], NEW c \in Calls, NEW st \in {"ok", "error"},
         call' = [call EXCEPT ![c].st = st]
  PROVE  \E q : /\ Turns(c, q) /\ q.op = call[c].op /\ q.mod = call[c].mod /\ q.lesson = call[c].lesson
                /\ q.file = call[c].file /\ q.ids = call[c].ids /\ q.st = st
  <1>1. PICK q : q = [call[c] EXCEPT !.st = st] OBVIOUS
  <1>2. call[c] \in CallType OBVIOUS
  <1>3. /\ q \in CallType /\ q.op = call[c].op /\ q.mod = call[c].mod /\ q.lesson = call[c].lesson
        /\ q.file = call[c].file /\ q.ids = call[c].ids /\ q.st = st
    BY <1>1, <1>2 DEF CallType
  <1>4. call' = [call EXCEPT ![c] = q]
    BY <1>1
  <1> QED BY <1>3, <1>4, TurnCall

LEMMA PdfTurns ==
  ASSUME call \in [Calls -> CallType], NEW c \in Calls, GotPdf(c)
  PROVE  \E q : /\ Turns(c, q) /\ q.op = (IF call[c].op = "pickPdf" THEN "pickedPdf" ELSE "uploadedPdf")
                /\ q.mod = call[c].mod /\ q.lesson = call[c].lesson
                /\ q.file = call[c].file /\ q.ids = call[c].ids /\ q.st = "sent"
  <1>1. PICK op, x : /\ op = (IF call[c].op = "pickPdf" THEN "pickedPdf" ELSE "uploadedPdf")
                     /\ x = call[c].lesson
                     /\ call' = [call EXCEPT ![c].op = op, ![c].lesson = x, ![c].st = "sent"]
    BY DEF GotPdf, AttachTo
  <1>2. PICK q : q = [[[call[c] EXCEPT !.op = op] EXCEPT !.lesson = x] EXCEPT !.st = "sent"] OBVIOUS
  <1>3. call[c] \in CallType /\ op \in Ops
    BY <1>1 DEF Ops, Uploads
  <1>4. /\ q \in CallType /\ q.op = op /\ q.mod = call[c].mod /\ q.lesson = x
        /\ q.file = call[c].file /\ q.ids = call[c].ids /\ q.st = "sent"
    BY <1>1, <1>2, <1>3 DEF CallType
  <1>5. call' = [call EXCEPT ![c] = q]
    BY <1>1, <1>2
  <1> QED BY <1>1, <1>4, <1>5, TurnCall

\* One save and one upload, when a call turns and the flags with it.
FlagsTurn(c, q) ==
  /\ saving' = ((saving /\ call[c].op \notin Saves) \/ q.op \in Saves)
  /\ q.op \in Saves => call[c].op \in Saves \/ ~saving
  /\ uploading' = ((uploading /\ call[c].op \notin Uploads) \/ q.op \in Uploads)
  /\ q.op \in Uploads => call[c].op \in Uploads \/ ~uploading

LEMMA FlagsKept ==
  ASSUME OneSave, OneUpload, saving \in BOOLEAN, uploading \in BOOLEAN,
         NEW c \in Calls, NEW q, Turns(c, q), FlagsTurn(c, q)
  PROVE  OneSave' /\ OneUpload'
  <1>1. call'[c] = q /\ \A d \in Calls \ {c} : call'[d] = call[d]
    BY DEF Turns
  <1>2. OneSave'
    BY <1>1 DEF OneSave, FlagsTurn
  <1>3. OneUpload'
    BY <1>1 DEF OneUpload, FlagsTurn
  <1> QED BY <1>2, <1>3

\* Of the other variables, and the form.
Data == <<place, row, drawn, order, lessonsOf, lesson, selected, form, editing, saving, uploading, strays, lost, tangled>>

DataTyped ==
  /\ place \in [Modules -> Nat \cup {Absent}] /\ row \in [Lessons -> RowType]
  /\ drawn \subseteq Modules \cup Lessons
  /\ order \in Seq(Modules) /\ lessonsOf \in [Modules -> Seq(Lessons)]
  /\ lesson \in [Lessons -> ObjectType]
  /\ selected \in [lesson : Lessons \cup {None}, mod : Modules \cup {None}]
  /\ form \in FormType /\ editing \in Modules \cup {New, None}
  /\ saving \in BOOLEAN /\ uploading \in BOOLEAN
  /\ strays \subseteq Files /\ lost \in BOOLEAN /\ tangled \subseteq Modules \cup {None}
  /\ FormShape /\ Indexed

LEMMA ShapedIs ==
  Shaped => /\ DataTyped /\ call \in [Calls -> CallType] /\ OneSave /\ OneUpload
            /\ \A c \in Calls : call[c] \in CallType /\ ShapeOf(call[c])
  BY DEF Shaped, Typed, DataTyped

LEMMA ShapedTurn ==
  ASSUME Shaped, FileInv', clicks' \in Nat, DataTyped', NEW c \in Calls, NEW q,
         Turns(c, q), FlagsTurn(c, q), ShapeOf(q)
  PROVE  Shaped'
  <1>1. OneSave' /\ OneUpload'
    BY ShapedIs, FlagsKept DEF DataTyped
  <1>2. call' \in [Calls -> CallType] /\ call'[c] = q /\ \A d \in Calls \ {c} : call'[d] = call[d]
    BY DEF Turns
  <1>3. \A d \in Calls : ShapeOf(call'[d])
    BY <1>2, ShapedIs
  <1>4. (\A d \in Calls : ShapeOf(call[d]))'
    BY <1>3 DEF ShapeOf
  <1>5. Typed'
    BY <1>2 DEF DataTyped, Typed, FileInv, FilesFit
  <1> QED BY <1>1, <1>4, <1>5 DEF Shaped, DataTyped

LEMMA ShapedStill ==
  ASSUME Shaped, FileInv', clicks' \in Nat, DataTyped', UNCHANGED <<call, saving, uploading>>
  PROVE  Shaped'
  <1>1. OneSave' /\ OneUpload' /\ (\A d \in Calls : ShapeOf(call[d]))' /\ call' \in [Calls -> CallType]
    BY ShapedIs DEF OneSave, OneUpload, ShapeOf
  <1>2. Typed'
    BY <1>1 DEF DataTyped, Typed, FileInv, FilesFit
  <1> QED BY <1>1, <1>2 DEF Shaped, DataTyped

LEMMA DataStill == DataTyped /\ UNCHANGED Data => DataTyped'
  BY DEF DataTyped, Data, FormShape, LessonForm, Indexed

-----------------------------------------------------------------------------
(* Types: the teacher                                                      *)

\* The teacher.
LEMMA PanelShaped ==
  ASSUME Shaped, FileInv', clicks' \in Nat,
         \/ \E m \in Modules \cup {New} : EditModule(m)
         \/ CancelModule \/ CancelLesson
         \/ \E m \in Modules : AddLesson(m) \/ \E x \in Lessons : SelectLesson(m, x)
  PROVE  Shaped'
  <1> USE DEF server, lists, history
  <1>0. DataTyped BY ShapedIs
  <1>1. UNCHANGED <<call, saving, uploading>>
    BY DEF EditModule, CancelModule, CancelLesson, AddLesson, SelectLesson, OpenForm
  <1>2. CASE (\E m \in Modules \cup {New} : EditModule(m)) \/ CancelModule \/ CancelLesson
    <2>1. UNCHANGED <<place, row, drawn, order, lessonsOf, lesson, form, saving, uploading, strays, lost, tangled>>
      BY <1>2 DEF EditModule, CancelModule, CancelLesson
    <2>2. selected' \in {selected, NoLesson} /\ editing' \in Modules \cup {New, None}
      BY <1>0, <1>2 DEF EditModule, CancelModule, CancelLesson, DataTyped
    <2>3. DataTyped'
      BY <1>0, <2>1, <2>2 DEF DataTyped, Indexed, FormShape, LessonForm, NoLesson
    <2> QED BY <1>1, <2>3, ShapedStill
  <1>3. ASSUME NEW m \in Modules, NEW x \in Lessons \cup {None}, NEW object \in ObjectType,
               OpenForm(x, object, m)
        PROVE  Shaped'
    <2>1. UNCHANGED <<place, row, drawn, order, lessonsOf, lesson, saving, uploading, strays, lost, tangled>>
      BY <1>3 DEF OpenForm
    <2>2. /\ selected' \in [lesson : Lessons \cup {None}, mod : Modules \cup {None}]
          /\ editing' = None /\ form' \in FormType /\ form'.mod = m
      BY <1>3 DEF OpenForm, FormOf, ObjectType, FormType
    <2>3. DataTyped'
      BY <1>0, <2>1, <2>2 DEF DataTyped, Indexed, FormShape
    <2> QED BY <1>1, <2>3, ShapedStill
  <1>4. ASSUME NEW m \in Modules, AddLesson(m) PROVE Shaped'
    <2>1. PICK object : object = [NoObject EXCEPT !.mod = m] OBVIOUS
    <2>2. object \in ObjectType
      BY <2>1 DEF NoObject, ObjectType
    <2>3. OpenForm(None, object, m)
      BY <1>4, <2>1 DEF AddLesson
    <2> QED BY <1>3, <2>2, <2>3
  <1>5. ASSUME NEW m \in Modules, NEW x \in Lessons, SelectLesson(m, x) PROVE Shaped'
    <2>1. PICK object : object = lesson[x] OBVIOUS
    <2>2. object \in ObjectType
      BY <1>0, <2>1 DEF DataTyped
    <2>3. OpenForm(x, object, m)
      BY <1>5, <2>1 DEF SelectLesson
    <2> QED BY <1>3, <2>2, <2>3
  <1> QED BY <1>2, <1>4, <1>5

\* A call is sent, and the flags say so.
LEMMA SendShaped ==
  ASSUME Shaped, FileInv', clicks' \in Nat, DataTyped',
         NEW c \in Calls,
         NEW op \in Ops, NEW m \in Modules \cup {None}, NEW x \in Lessons \cup {None},
         NEW f \in Files \cup {None}, NEW ids \in Seq(Modules \cup Lessons), Send(c, op, m, x, f, ids),
         ShapeOf([op |-> op, mod |-> m, lesson |-> x, file |-> f, ids |-> ids, st |-> "sent"]),
         IF op \in Saves THEN ~saving /\ saving' = TRUE ELSE UNCHANGED saving,
         IF op \in Uploads THEN ~uploading /\ uploading' = TRUE ELSE UNCHANGED uploading
  PROVE  Shaped'
  <1>1. PICK q : q = [op |-> op, mod |-> m, lesson |-> x, file |-> f, ids |-> ids, st |-> "sent"]
    OBVIOUS
  <1>2. call[c] = Idle /\ Turns(c, q)
    BY <1>1, ShapedIs, SendTurns
  <1>3. FlagsTurn(c, q)
    BY <1>1, <1>2, ShapedIs DEF FlagsTurn, Idle, Saves, Uploads, DataTyped
  <1> QED BY <1>1, <1>2, <1>3, ShapedTurn

LEMMA EmptyIds == <<>> \in Seq(Modules \cup Lessons) /\ None \in Lessons \cup {None}
  OBVIOUS

LEMMA SavesShaped ==
  ASSUME Shaped, FileInv', clicks' \in Nat, NEW c \in Calls,
         \/ SaveModule(c) \/ SaveLesson(c) \/ DeleteLesson(c)
         \/ \E m \in Modules : DeleteModule(c, m)
  PROVE  Shaped'
  <1> USE DEF server, lists, history, panel
  <1>0. DataTyped BY ShapedIs
  <1>1. UNCHANGED <<place, row, drawn, order, lessonsOf, lesson, selected, form, editing, uploading, strays, lost, tangled>>
    BY DEF SaveModule, SaveLesson, DeleteLesson, DeleteModule
  <1>2. saving' \in BOOLEAN
    BY <1>0 DEF SaveModule, SaveLesson, DeleteLesson, DeleteModule, DataTyped
  <1>3. DataTyped'
    BY <1>0, <1>1, <1>2 DEF DataTyped, Indexed, FormShape, LessonForm
  <1>4. CASE SaveModule(c)
    <2>1. PICK op, m : /\ op \in {"createModule", "updateModule"} /\ m \in Modules \cup {None}
                       /\ Send(c, op, m, None, None, <<>>)
      BY <1>0, <1>4 DEF SaveModule, DataTyped, ModuleForm
    <2>2. op \in Ops /\ op \in Saves /\ op \notin Uploads /\ ~saving /\ saving' = TRUE
      BY <1>4, <2>1 DEF SaveModule, Ops, Saves, Uploads
    <2>3. ShapeOf([op |-> op, mod |-> m, lesson |-> None, file |-> None, ids |-> <<>>, st |-> "sent"])
      BY <2>1 DEF ShapeOf
    <2> QED BY <1>1, <1>3, <2>1, <2>2, <2>3, EmptyIds, SendShaped
  <1>5. CASE SaveLesson(c)
    <2>1. PICK op, m, x, f :
            /\ op = (IF form.lesson = None THEN "createLesson" ELSE "updateLesson")
            /\ m = form.mod /\ x = form.lesson /\ f = form.video
            /\ Send(c, op, m, x, f, <<>>)
      BY <1>5 DEF SaveLesson
    <2>2. op \in Ops /\ op \in Saves /\ op \notin Uploads /\ ~saving /\ saving' = TRUE
      BY <1>5, <2>1 DEF SaveLesson, Ops, Saves, Uploads
    <2>3. m \in Modules /\ x \in Lessons \cup {None} /\ f \in Files \cup {None}
      BY <1>0, <1>5, <2>1 DEF SaveLesson, DataTyped, FormShape, FormType
    <2>4. ShapeOf([op |-> op, mod |-> m, lesson |-> x, file |-> f, ids |-> <<>>, st |-> "sent"])
      BY <2>1, <2>3 DEF ShapeOf
    <2> QED BY <1>1, <1>3, <2>1, <2>2, <2>3, <2>4, EmptyIds, SendShaped
  <1>6. CASE DeleteLesson(c)
    <2>1. PICK m, x : m = selected.mod /\ x = selected.lesson /\ Send(c, "deleteLesson", m, x, None, <<>>)
      BY <1>6 DEF DeleteLesson
    <2>2. m \in Modules \cup {None} /\ x \in Lessons
      BY <1>0, <1>6, <2>1 DEF DeleteLesson, DataTyped
    <2>3. "deleteLesson" \in Ops /\ "deleteLesson" \in Saves /\ "deleteLesson" \notin Uploads /\ ~saving /\ saving' = TRUE
      BY <1>6 DEF DeleteLesson, Ops, Saves, Uploads
    <2>4. ShapeOf([op |-> "deleteLesson", mod |-> m, lesson |-> x, file |-> None, ids |-> <<>>, st |-> "sent"])
      BY <2>2 DEF ShapeOf
    <2> QED BY <1>1, <1>3, <2>1, <2>2, <2>3, <2>4, EmptyIds, SendShaped
  <1>7. ASSUME NEW m \in Modules, DeleteModule(c, m) PROVE Shaped'
    <2>1. Send(c, "deleteModule", m, None, None, <<>>) /\ UNCHANGED saving
      BY <1>7 DEF DeleteModule
    <2>2. "deleteModule" \in Ops /\ "deleteModule" \notin Saves /\ "deleteModule" \notin Uploads
      BY DEF Ops, Saves, Uploads
    <2>3. ShapeOf([op |-> "deleteModule", mod |-> m, lesson |-> None, file |-> None, ids |-> <<>>, st |-> "sent"])
      BY DEF ShapeOf
    <2> QED BY <1>1, <1>3, <2>1, <2>2, <2>3, EmptyIds, SendShaped
  <1> QED BY <1>4, <1>5, <1>6, <1>7

LEMMA DropShaped ==
  ASSUME Shaped, FileInv', clicks' \in Nat, NEW c \in Calls,
         IsInjective(order), \A m \in Modules : IsInjective(lessonsOf[m]),
         \/ \E i, j \in DOMAIN order : DropModule(c, i, j)
         \/ \E m \in Modules : \E i, j \in DOMAIN lessonsOf[m] : DropLesson(c, m, i, j)
  PROVE  Shaped'
  <1> USE DEF server, lists, history, panel
  <1>0. DataTyped BY ShapedIs
  <1>1. UNCHANGED <<place, row, drawn, lesson, selected, form, editing, saving, uploading, strays, lost>>
    BY DEF DropModule, DropLesson
  <1>2. "reorder" \in Ops /\ "reorder" \notin Saves /\ "reorder" \notin Uploads
    BY DEF Ops, Saves, Uploads
  <1>3. \A m, ids : ShapeOf([op |-> "reorder", mod |-> m, lesson |-> None, file |-> None, ids |-> ids, st |-> "sent"])
    BY DEF ShapeOf
  <1>4. ASSUME NEW i \in DOMAIN order, NEW j \in DOMAIN order, DropModule(c, i, j) PROVE Shaped'
    <2>1. PICK ids : /\ ids = order' /\ ids = Moved(order, i, j)
                     /\ Send(c, "reorder", None, None, None, ids)
      BY <1>4 DEF DropModule, Sent
    <2>2. ids \in Seq(Modules)
      BY <1>0, <2>1, MovedIs DEF DataTyped
    <2>3. ids \in Seq(Modules \cup Lessons)
      BY <2>2
    <2>4. UNCHANGED lessonsOf /\ tangled' \subseteq Modules \cup {None}
      BY <1>0, <1>4 DEF DropModule, DataTyped
    <2>5. DataTyped'
      BY <1>0, <1>1, <2>1, <2>2, <2>4 DEF DataTyped, Indexed, FormShape, LessonForm
    <2> QED BY <1>1, <1>2, <1>3, <2>1, <2>3, <2>5, EmptyIds, SendShaped
  <1>5. ASSUME NEW m \in Modules, NEW i \in DOMAIN lessonsOf[m], NEW j \in DOMAIN lessonsOf[m],
               DropLesson(c, m, i, j)
        PROVE  Shaped'
    <2>1. PICK ids : /\ ids = Moved(lessonsOf[m], i, j) /\ lessonsOf' = [lessonsOf EXCEPT ![m] = ids]
                     /\ Send(c, "reorder", m, None, None, ids)
      BY <1>0, <1>5 DEF DropLesson, Sent, DataTyped
    <2>2. ids \in Seq(Lessons)
      BY <1>0, <2>1, MovedIs DEF DataTyped
    <2>3. ids \in Seq(Modules \cup Lessons)
      BY <2>2
    <2>4. UNCHANGED order /\ tangled' \subseteq Modules \cup {None}
      BY <1>0, <1>5 DEF DropLesson, DataTyped
    <2>5. DataTyped'
      BY <1>0, <1>1, <2>1, <2>2, <2>4 DEF DataTyped, Indexed, FormShape, LessonForm
    <2> QED BY <1>1, <1>2, <1>3, <2>1, <2>3, <2>5, EmptyIds, SendShaped
  <1> QED BY <1>4, <1>5

\* Files that are chosen, and an attachment that is removed.
LEMMA FileShaped ==
  ASSUME Shaped, FileInv', clicks' \in Nat, NEW c \in Calls, NEW f \in Files,
         \/ PickVideo(c, f) \/ UploadVideo(c, f) \/ PickPdf(c, f) \/ UploadPdf(c, f)
         \/ RemoveAttachment(c, f)
  PROVE  Shaped'
  <1> USE DEF server, lists, history, panel
  <1>0. DataTyped BY ShapedIs
  <1>1. ASSUME NEW op \in {"pickVideo", "uploadVideo", "pickPdf", "uploadPdf"}, Choose(c, op, f),
               op \in {"pickPdf", "uploadPdf"} => form.lesson # None,
               IF op \in {"uploadVideo", "uploadPdf"} THEN ~uploading /\ uploading' = TRUE ELSE UNCHANGED uploading
        PROVE  Shaped'
    <2>1. UNCHANGED <<place, row, drawn, order, lessonsOf, lesson, selected, form, editing, saving, strays, lost, tangled>>
      BY <1>1 DEF Choose
    <2>2. uploading' \in BOOLEAN
      BY <1>0, <1>1 DEF DataTyped
    <2>3. DataTyped'
      BY <1>0, <2>1, <2>2 DEF DataTyped, Indexed, FormShape, LessonForm
    <2>4. PICK x : x = form.lesson /\ Send(c, op, None, x, f, <<>>)
      BY <1>1 DEF Choose
    <2>5. /\ x \in Lessons \cup {None} /\ None \in Modules \cup {None} /\ f \in Files \cup {None}
          /\ op \in Ops /\ op \notin Saves /\ (op \in Uploads <=> op \in {"uploadVideo", "uploadPdf"})
      BY <1>0, <1>1, <2>4 DEF DataTyped, FormType, Ops, Saves, Uploads
    <2>6. ShapeOf([op |-> op, mod |-> None, lesson |-> x, file |-> f, ids |-> <<>>, st |-> "sent"])
      BY <1>1, <2>4, <2>5 DEF ShapeOf
    <2> QED BY <1>1, <2>1, <2>3, <2>4, <2>5, <2>6, EmptyIds, SendShaped
  <1>2. CASE PickVideo(c, f)
    BY <1>1, <1>2 DEF PickVideo
  <1>3. CASE UploadVideo(c, f)
    BY <1>1, <1>3 DEF UploadVideo
  <1>4. CASE PickPdf(c, f)
    BY <1>1, <1>4 DEF PickPdf
  <1>5. CASE UploadPdf(c, f)
    BY <1>1, <1>5 DEF UploadPdf
  <1>6. CASE RemoveAttachment(c, f)
    <2>1. UNCHANGED <<place, row, drawn, order, lessonsOf, lesson, selected, editing, saving, uploading, strays, lost, tangled>>
      BY <1>6 DEF RemoveAttachment
    <2>2. form' \in FormType /\ form'.mod = form.mod
      <3>1. form' = form \/ form' = [form EXCEPT !.pdfs = @ \ {f}]
        BY <1>6 DEF RemoveAttachment
      <3> QED BY <1>0, <3>1 DEF DataTyped, FormType
    <2>3. DataTyped'
      BY <1>0, <2>1, <2>2 DEF DataTyped, Indexed, FormShape, LessonForm
    <2>4. CASE UNCHANGED call
      BY <2>1, <2>3, <2>4, ShapedStill
    <2>5. CASE Send(c, "removeAttachment", None, form.lesson, f, <<>>)
      <3>1. PICK x : x = form.lesson OBVIOUS
      <3>2. x \in Lessons \cup {None} /\ None \in Modules \cup {None} /\ f \in Files \cup {None}
        BY <1>0, <3>1 DEF DataTyped, FormType
      <3>3. "removeAttachment" \in Ops /\ "removeAttachment" \notin Saves /\ "removeAttachment" \notin Uploads
        BY DEF Ops, Saves, Uploads
      <3>4. ShapeOf([op |-> "removeAttachment", mod |-> None, lesson |-> x, file |-> f, ids |-> <<>>, st |-> "sent"])
        BY DEF ShapeOf
      <3> QED BY <2>1, <2>3, <2>5, <3>1, <3>2, <3>3, <3>4, EmptyIds, SendShaped
    <2> QED BY <1>6, <2>4, <2>5 DEF RemoveAttachment
  <1> QED BY <1>2, <1>3, <1>4, <1>5, <1>6

-----------------------------------------------------------------------------
(* Types: the server                                                       *)

\* What the server sets, and the reply.
LEMMA ReplyShaped ==
  ASSUME Shaped, FileInv', clicks' \in Nat, NEW c \in Calls, NEW m \in Modules \cup {None},
         NEW x \in Lessons \cup {None}, Replies(c, m, x), Serves(c, Ops \ {"none"}),
         call[c].op \in {"createModule", "deleteModule", "createLesson", "updateLesson"} => m \in Modules,
         call[c].op \in Picks \cup {"createLesson", "updateLesson", "deleteLesson"} => x \in Lessons,
         place' \in [Modules -> Nat \cup {Absent}], row' \in [Lessons -> RowType],
         drawn' \subseteq Modules \cup Lessons, tangled' \subseteq Modules \cup {None}, Indexed'
  PROVE  Shaped'
  <1> USE DEF lists, panel
  <1>0. DataTyped /\ OneSave /\ OneUpload BY ShapedIs
  <1>1. PICK q : /\ Turns(c, q) /\ q.op = call[c].op /\ q.mod = m /\ q.lesson = x
                 /\ q.file = call[c].file /\ q.ids = call[c].ids /\ q.st \in {"ok", "error"}
                 /\ lost' = (lost \/ q.st = "error")
    BY ShapedIs, ReplyTurns
  <1>2. DataTyped'
    BY <1>0, <1>1 DEF DataTyped, Replies, FormShape, LessonForm
  <1>3. FlagsTurn(c, q)
    BY <1>0, <1>1 DEF FlagsTurn, OneSave, OneUpload, Replies, DataTyped
  <1>4. ShapeOf(q)
    BY <1>1, ShapedIs DEF ShapeOf, Serves, Picks
  <1> QED BY <1>1, <1>2, <1>3, <1>4, ShapedTurn

LEMMA ServeModulesShaped ==
  ASSUME Shaped, FileInv', clicks' \in Nat, NEW c \in Calls, ServeCreateModule(c) \/ ServeDeleteModule(c)
  PROVE  Shaped'
  <1>0. DataTyped BY ShapedIs
  <1>1. call[c] \in CallType /\ ShapeOf(call[c])
    BY ShapedIs
  <1>2. CASE ServeCreateModule(c)
    <2>1. PICK m, n :
            /\ m \in Modules \ drawn
            /\ n = NextIndex({place[k] : k \in Modules} \ {Absent})
            /\ place' = [place EXCEPT ![m] = n] /\ drawn' = drawn \cup {m} /\ Reply(c, m, None)
      BY <1>2 DEF ServeCreateModule
    <2>2. n \in Nat
      <3>1. PICK S : S = {place[k] : k \in Modules} OBVIOUS
      <3>a. place \in [Modules -> Nat \cup {Absent}] /\ IsFiniteSet(Modules)
        BY <1>0, FiniteAssumption DEF DataTyped
      <3>b. IsFiniteSet(S)
        BY <3>1, <3>a, ImageFinite
      <3>2. IsFiniteSet(S \ {Absent})
        BY <3>b, FS_Difference
      <3>3. S \ {Absent} \subseteq Nat
        BY <1>0, <3>1 DEF DataTyped
      <3> QED BY <2>1, <3>1, <3>2, <3>3, NextIndexIs
    <2>3. Serves(c, Ops \ {"none"}) /\ call[c].op = "createModule"
      BY <1>2 DEF ServeCreateModule, Serves, Ops, Saves
    <2>4. /\ place' \in [Modules -> Nat \cup {Absent}] /\ row' \in [Lessons -> RowType]
          /\ drawn' \subseteq Modules \cup Lessons /\ tangled' \subseteq Modules \cup {None}
      BY <1>0, <1>2, <2>1, <2>2 DEF DataTyped, ServeCreateModule, Reply
    <2>5. Indexed'
      BY <1>0, <1>2 DEF DataTyped, Indexed, ServeCreateModule
    <2> QED BY <2>1, <2>3, <2>4, <2>5, ReplyShaped DEF Reply, Picks
  <1>3. CASE ServeDeleteModule(c)
    <2>1. PICK m : /\ m = call[c].mod /\ Reply(c, m, None)
                   /\ place' = [place EXCEPT ![m] = Absent]
                   /\ row' = [x \in Lessons |-> IF x \in InModule(m) THEN NoRow ELSE row[x]]
      BY <1>3 DEF ServeDeleteModule
    <2>2. Serves(c, Ops \ {"none"}) /\ call[c].op = "deleteModule"
      BY <1>3 DEF ServeDeleteModule, Serves, Ops, Saves
    <2>3. m \in Modules
      BY <1>1, <2>1, <2>2 DEF ShapeOf
    <2>4. NoRow \in RowType
      BY DEF NoRow, RowType
    <2>5. /\ place' \in [Modules -> Nat \cup {Absent}] /\ row' \in [Lessons -> RowType]
          /\ drawn' \subseteq Modules \cup Lessons /\ tangled' \subseteq Modules \cup {None}
      BY <1>0, <1>3, <2>1, <2>4 DEF DataTyped, ServeDeleteModule, Reply
    <2>6. Indexed'
      BY <1>0, <2>1 DEF DataTyped, Indexed, NoRow
    <2> QED BY <2>1, <2>2, <2>3, <2>5, <2>6, ReplyShaped DEF Reply, Picks
  <1> QED BY <1>2, <1>3

\* A lesson has a row when its row has a module.
LEMMA RowIs ==
  ASSUME DataTyped, NEW x \in Lessons
  PROVE  row[x] = NoRow <=> row[x].mod = None
  BY BuilderAssumption DEF DataTyped, Indexed, NoRow

\* COALESCE(MAX(order_index) + 1, 0), of the lessons of a module.
LEMMA NextLessonIndex ==
  ASSUME Shaped, NEW m \in Modules
  PROVE  /\ NextIndex({row[y].index : y \in InModule(m)}) \in Nat
         /\ \A y \in InModule(m) : row[y].index < NextIndex({row[z].index : z \in InModule(m)})
  <1>0. DataTyped BY ShapedIs
  <1>1. PICK X : X = InModule(m) OBVIOUS
  <1>a. Indexed /\ \A y \in Lessons : row[y].mod = m => row[y] # NoRow
    BY <1>0, RowIs, BuilderAssumption DEF DataTyped
  <1>2. X \subseteq Lessons /\ \A y \in X : row[y].index \in Nat
    BY <1>1, <1>a DEF InModule, Indexed
  <1>3. PICK f : f = [y \in X |-> row[y].index] OBVIOUS
  <1>4. f \in [X -> Nat] /\ IsFiniteSet(X)
    BY <1>2, <1>3, FiniteAssumption, FS_Subset
  <1>5. PICK S : S = {f[y] : y \in X} OBVIOUS
  <1>6. IsFiniteSet(S) /\ S \subseteq Nat
    BY <1>4, <1>5, ImageFinite
  <1>7. S = {row[y].index : y \in InModule(m)}
    BY <1>1, <1>3, <1>5
  <1>8. \A y \in InModule(m) : row[y].index \in S
    BY <1>7
  <1> QED BY <1>6, <1>7, <1>8, NextIndexIs

LEMMA ServeLessonsShaped ==
  ASSUME Shaped, FileInv', clicks' \in Nat, NEW c \in Calls,
         ServeCreateLesson(c) \/ ServeUpdateLesson(c) \/ ServeDeleteLesson(c)
  PROVE  Shaped'
  <1>0. DataTyped BY ShapedIs
  <1>1. call[c] \in CallType /\ ShapeOf(call[c]) /\ row \in [Lessons -> RowType]
    BY <1>0, ShapedIs DEF DataTyped
  <1>2. CASE ServeCreateLesson(c)
    <2>a. PICK m, n, f : /\ m = call[c].mod /\ f = call[c].file
                         /\ n = NextIndex({row[y].index : y \in InModule(m)})
      OBVIOUS
    <2>b. PICK x \in Lessons \ drawn :
            /\ row' = [row EXCEPT ![x] = [mod |-> m, video |-> f, pdfs |-> {}, index |-> n]]
            /\ drawn' = drawn \cup {x} /\ Reply(c, m, x)
      BY <1>2, <2>a DEF ServeCreateLesson
    <2>1. PICK new :
            /\ m = call[c].mod /\ f = call[c].file
            /\ n = NextIndex({row[y].index : y \in InModule(m)})
            /\ new = [mod |-> m, video |-> f, pdfs |-> {}, index |-> n]
            /\ row' = [row EXCEPT ![x] = new]
            /\ drawn' = drawn \cup {x} /\ Reply(c, m, x)
      BY <2>a, <2>b
    <2>2. Serves(c, Ops \ {"none"}) /\ call[c].op = "createLesson"
      BY <1>2 DEF ServeCreateLesson, Serves, Ops, Saves
    <2>3. m \in Modules /\ f \in Files \cup {None}
      BY <1>1, <2>1, <2>2 DEF ShapeOf, CallType
    <2>4. n \in Nat
      BY <2>1, <2>3, NextLessonIndex
    <2>5. new \in RowType /\ new.index = n /\ new.mod = m
      BY <2>1, <2>3, <2>4 DEF RowType
    <2>6. /\ place' \in [Modules -> Nat \cup {Absent}] /\ row' \in [Lessons -> RowType]
          /\ drawn' \subseteq Modules \cup Lessons /\ tangled' \subseteq Modules \cup {None}
      BY <1>0, <1>2, <2>1, <2>5 DEF DataTyped, ServeCreateLesson, Reply
    <2>7. Indexed'
      BY <1>0, <2>1, <2>3, <2>4, <2>5 DEF DataTyped, Indexed
    <2> QED BY <2>1, <2>2, <2>3, <2>6, <2>7, ReplyShaped DEF Reply, Picks
  <1>3. CASE ServeUpdateLesson(c)
    <2>1. PICK m, x, f : /\ m = call[c].mod /\ x = call[c].lesson /\ f = call[c].file
                         /\ row' = [row EXCEPT ![x].video = f] /\ Reply(c, m, x)
      BY <1>3 DEF ServeUpdateLesson
    <2>2. Serves(c, Ops \ {"none"}) /\ call[c].op = "updateLesson"
      BY <1>3 DEF ServeUpdateLesson, Serves, Ops, Saves
    <2>3. m \in Modules /\ x \in Lessons /\ f \in Files \cup {None}
      BY <1>1, <2>1, <2>2 DEF ShapeOf, CallType
    <2>4. /\ row' \in [Lessons -> RowType]
          /\ \A y \in Lessons : row'[y].mod = row[y].mod /\ row'[y].index = row[y].index
      BY <1>1, <2>1, <2>3 DEF RowType
    <2>5. /\ place' \in [Modules -> Nat \cup {Absent}]
          /\ drawn' \subseteq Modules \cup Lessons /\ tangled' \subseteq Modules \cup {None} /\ Indexed'
      BY <1>0, <1>3, <2>1, <2>4 DEF DataTyped, ServeUpdateLesson, Reply, Indexed
    <2> QED BY <2>1, <2>2, <2>3, <2>4, <2>5, ReplyShaped DEF Reply, Picks
  <1>4. CASE ServeDeleteLesson(c)
    <2>1. PICK m, x : /\ m = call[c].mod /\ x = call[c].lesson
                      /\ row' = [row EXCEPT ![x] = NoRow] /\ Reply(c, m, x)
      BY <1>4 DEF ServeDeleteLesson
    <2>2. Serves(c, Ops \ {"none"}) /\ call[c].op = "deleteLesson"
      BY <1>4 DEF ServeDeleteLesson, Serves, Ops, Saves
    <2>3. m \in Modules \cup {None} /\ x \in Lessons
      BY <1>1, <2>1, <2>2 DEF ShapeOf, CallType
    <2>4. NoRow \in RowType /\ NoRow.mod = None
      BY DEF NoRow, RowType
    <2>5. /\ place' \in [Modules -> Nat \cup {Absent}] /\ row' \in [Lessons -> RowType]
          /\ drawn' \subseteq Modules \cup Lessons /\ tangled' \subseteq Modules \cup {None} /\ Indexed'
      BY <1>0, <1>4, <2>1, <2>4 DEF DataTyped, ServeDeleteLesson, Reply, Indexed
    <2> QED BY <2>1, <2>2, <2>3, <2>5, ReplyShaped DEF Reply, Picks
  <1> QED BY <1>2, <1>3, <1>4

LEMMA ServeOthersShaped ==
  ASSUME Shaped, FileInv, FileInv', clicks' \in Nat, NEW c \in Calls,
         ServeReorder(c) \/ ServeAddAttachment(c) \/ ServeDeleteAttachment(c)
  PROVE  Shaped'
  <1>0. DataTyped BY ShapedIs
  <1>1. call[c] \in CallType /\ ShapeOf(call[c]) /\ row \in [Lessons -> RowType]
    BY <1>0, ShapedIs DEF DataTyped
  <1>2. CASE ServeReorder(c)
    <2>1. PICK m, ids :
            /\ m = call[c].mod /\ ids = call[c].ids
            /\ place' = [k \in Modules |-> IF place[k] = Absent THEN Absent ELSE Reindexed(ids, k, place[k])]
            /\ row' = [x \in Lessons |-> IF row[x] = NoRow THEN NoRow
                                         ELSE [row[x] EXCEPT !.index = Reindexed(ids, x, @)]]
            /\ Replies(c, m, None)
            /\ tangled' = IF Overtaken(c) THEN tangled \cup {m} ELSE tangled
      BY <1>2 DEF ServeReorder
    <2>2. Serves(c, Ops \ {"none"}) /\ call[c].op = "reorder"
      BY <1>2 DEF ServeReorder, Serves, Ops
    <2>3. m \in Modules \cup {None} /\ ids \in Seq(Modules \cup Lessons)
      BY <1>1, <2>1 DEF CallType
    <2>4. \A x : \A old \in Nat \cup {Absent} :
            /\ Reindexed(ids, x, old) \in Nat \cup {Absent}
            /\ old \in Nat => Reindexed(ids, x, old) \in Nat
      BY <2>3, PlaceNat DEF Reindexed
    <2>5. place' \in [Modules -> Nat \cup {Absent}]
      BY <1>0, <2>1, <2>4 DEF DataTyped
    <2>6. ASSUME NEW x \in Lessons
          PROVE  /\ row'[x] \in RowType /\ row'[x].mod = row[x].mod
                 /\ row'[x] = NoRow \/ (row'[x].mod \in Modules /\ row'[x].index \in Nat)
      <3>1. PICK i : i = Reindexed(ids, x, row[x].index) OBVIOUS
      <3>2. row'[x] = IF row[x] = NoRow THEN NoRow ELSE [row[x] EXCEPT !.index = i]
        BY <2>1, <3>1
      <3>3. row[x] \in RowType /\ (row[x] = NoRow \/ (row[x].mod \in Modules /\ row[x].index \in Nat))
        BY <1>0, <1>1 DEF DataTyped, Indexed
      <3>4. row[x].index \in Nat \cup {Absent}
        BY <3>3 DEF RowType
      <3>5. i \in Nat \cup {Absent} /\ (row[x].index \in Nat => i \in Nat)
        BY <2>4, <3>1, <3>4
      <3>6. CASE row[x] = NoRow
        BY <3>2, <3>3, <3>6 DEF NoRow
      <3>7. CASE row[x] # NoRow
        <4>1. row'[x] = [row[x] EXCEPT !.index = i]
          BY <3>2, <3>7
        <4> QED BY <3>3, <3>5, <3>7, <4>1 DEF RowType
      <3> QED BY <3>6, <3>7
    <2>7. row' \in [Lessons -> RowType] /\ Indexed'
      BY <2>1, <2>6 DEF Indexed
    <2>8. drawn' \subseteq Modules \cup Lessons /\ tangled' \subseteq Modules \cup {None}
      BY <1>0, <1>2, <2>1, <2>3 DEF DataTyped, ServeReorder
    <2> QED BY <2>1, <2>2, <2>3, <2>5, <2>7, <2>8, ReplyShaped DEF Picks
  <1>3. CASE ServeAddAttachment(c)
    <2>1. PICK x, f : /\ x = call[c].lesson /\ f = call[c].file
                      /\ row' = [row EXCEPT ![x].pdfs = @ \cup {f}] /\ Reply(c, None, x)
      BY <1>3 DEF ServeAddAttachment
    <2>2. Serves(c, Ops \ {"none"}) /\ call[c].op \in {"pickedPdf", "uploadedPdf"}
      BY <1>3 DEF ServeAddAttachment, Serves, Ops, Uploads
    <2>3. x \in Lessons /\ f \in Files
      BY <1>1, <2>1, <2>2 DEF ShapeOf, FileInv, CallsFit, Brings, Picks
    <2>4. /\ row' \in [Lessons -> RowType]
          /\ \A y \in Lessons : row'[y].mod = row[y].mod /\ row'[y].index = row[y].index
      BY <1>1, <2>1, <2>3 DEF RowType
    <2>5. /\ place' \in [Modules -> Nat \cup {Absent}]
          /\ drawn' \subseteq Modules \cup Lessons /\ tangled' \subseteq Modules \cup {None} /\ Indexed'
      BY <1>0, <1>3, <2>1, <2>4 DEF DataTyped, ServeAddAttachment, Reply, Indexed
    <2> QED BY <2>1, <2>2, <2>3, <2>4, <2>5, ReplyShaped DEF Reply
  <1>4. CASE ServeDeleteAttachment(c)
    <2>1. PICK x, f : /\ x = call[c].lesson /\ f = call[c].file /\ Reply(c, None, x)
                      /\ row' = [y \in Lessons |-> [row[y] EXCEPT !.pdfs = @ \ {f}]]
      BY <1>4 DEF ServeDeleteAttachment
    <2>2. Serves(c, Ops \ {"none"}) /\ call[c].op = "removeAttachment"
      BY <1>4 DEF ServeDeleteAttachment, Serves, Ops
    <2>3. x \in Lessons \cup {None}
      BY <1>1, <2>1 DEF CallType
    <2>4. ASSUME NEW y \in Lessons
          PROVE  /\ row'[y] \in RowType /\ row'[y].mod = row[y].mod /\ row'[y].index = row[y].index
                 /\ row[y] = NoRow => row'[y] = NoRow
      <3>1. row[y] \in RowType /\ row'[y] = [row[y] EXCEPT !.pdfs = @ \ {f}]
        BY <1>1, <2>1
      <3>2. row[y] = NoRow => row'[y] = NoRow
        BY <3>1 DEF NoRow
      <3> QED BY <3>1, <3>2 DEF RowType
    <2>5. row' \in [Lessons -> RowType]
      BY <2>1, <2>4
    <2>6. /\ place' \in [Modules -> Nat \cup {Absent}]
          /\ drawn' \subseteq Modules \cup Lessons /\ tangled' \subseteq Modules \cup {None} /\ Indexed'
      BY <1>0, <1>4, <2>1, <2>4 DEF DataTyped, ServeDeleteAttachment, Reply, Indexed
    <2> QED BY <2>1, <2>2, <2>3, <2>5, <2>6, ReplyShaped DEF Reply, Picks
  <1> QED BY <1>2, <1>3, <1>4

\* Only the state of a call changes.
LEMMA StateShaped ==
  ASSUME Shaped, FileInv', clicks' \in Nat, NEW c \in Calls,
         ServeUpdateModule(c) \/ ServePick(c) \/ Refuse(c) \/ Store(c)
  PROVE  Shaped'
  <1> USE DEF server, lists, panel, history
  <1>0. DataTyped /\ OneSave /\ OneUpload BY ShapedIs
  <1>1. call[c] \in CallType /\ ShapeOf(call[c])
    BY ShapedIs
  <1>2. UNCHANGED <<place, row, drawn, order, lessonsOf, lesson, selected, form, editing, saving, uploading, strays, lost>>
    BY DEF ServeUpdateModule, ServePick, Refuse, Store
  <1>3. tangled' \subseteq Modules \cup {None}
    BY <1>0, <1>1 DEF ServeUpdateModule, ServePick, Refuse, Store, DataTyped, CallType
  <1>4. DataTyped'
    BY <1>0, <1>2, <1>3 DEF DataTyped, FormShape, LessonForm, Indexed
  <1>5. CASE UNCHANGED call
    BY <1>2, <1>4, <1>5, ShapedStill
  <1>6. CASE ~UNCHANGED call
    <2>1. PICK st \in {"ok", "error"} :
            /\ call' = [call EXCEPT ![c].st = st] /\ call[c].st = "sent"
            /\ st = "ok" => call[c].op \in {"updateModule", "pickVideo", "pickPdf", "uploadVideo", "uploadPdf"}
      BY <1>6 DEF ServeUpdateModule, ServePick, Refuse, Store, Serves
    <2>2. PICK q : /\ Turns(c, q) /\ q.op = call[c].op /\ q.mod = call[c].mod /\ q.lesson = call[c].lesson
                   /\ q.file = call[c].file /\ q.ids = call[c].ids /\ q.st = st
      <3>1. call \in [Calls -> CallType] /\ call' = [call EXCEPT ![c].st = st]
        BY <2>1, ShapedIs
      <3> QED BY <3>1, StateTurns
    <2>3. FlagsTurn(c, q)
      BY <1>0, <1>2, <2>2 DEF FlagsTurn, OneSave, OneUpload, DataTyped
    <2>4. ShapeOf(q)
      BY <1>1, <2>1, <2>2 DEF ShapeOf
    <2> QED BY <1>4, <2>2, <2>3, <2>4, ShapedTurn
  <1> QED BY <1>5, <1>6

-----------------------------------------------------------------------------
(* Types: the answers                                                      *)

\* A call is over.
LEMMA CloseShaped ==
  ASSUME Shaped, FileInv', clicks' \in Nat, NEW c \in Calls, Close(c), DataTyped',
         saving' = (saving /\ call[c].op \notin Saves),
         uploading' = (uploading /\ call[c].op \notin Uploads)
  PROVE  Shaped'
  <1>1. Turns(c, Idle)
    BY ShapedIs, CloseTurns
  <1>2. Idle.op \notin Saves \cup Uploads
    BY DEF Idle, Saves, Uploads
  <1>3. FlagsTurn(c, Idle)
    BY <1>2 DEF FlagsTurn
  <1>4. ShapeOf(Idle)
    BY DEF ShapeOf, Idle
  <1> QED BY <1>1, <1>3, <1>4, ShapedTurn

\* The list after an answer.
LEMMA SavedShaped ==
  ASSUME Shaped, FileInv', clicks' \in Nat, NEW c \in Calls,
         IsInjective(order), \A m \in Modules : IsInjective(lessonsOf[m]),
         SavedModule(c) \/ DeletedModule(c) \/ SavedLesson(c) \/ DeletedLesson(c)
  PROVE  Shaped'
  <1> USE DEF server, history
  <1>0. DataTyped /\ call[c] \in CallType /\ ShapeOf(call[c])
    BY ShapedIs
  <1>a. <<>> \in Seq(Lessons)
    OBVIOUS
  <1>1. CASE SavedModule(c)
    <2>1. PICK m : m = call[c].mod OBVIOUS
    <2>2. /\ Close(c) /\ saving' = FALSE /\ editing' = None
          /\ UNCHANGED <<place, row, drawn, lesson, selected, form, uploading, strays, lost, tangled>>
          /\ call[c].op \in {"createModule", "updateModule"} /\ call[c].st = "ok"
      BY <1>1 DEF SavedModule, Answers
    <2>3. order' \in Seq(Modules) /\ lessonsOf' \in [Modules -> Seq(Lessons)]
      <3>1. CASE call[c].op = "createModule"
        <4>1. m \in Modules
          BY <1>0, <2>1, <2>2, <3>1 DEF ShapeOf
        <4>2. order' = Append(order, m) /\ lessonsOf' = [lessonsOf EXCEPT ![m] = <<>>]
          BY <1>1, <2>1, <3>1 DEF SavedModule
        <4> QED BY <1>0, <1>a, <4>1, <4>2, AppendIs DEF DataTyped
      <3>2. CASE call[c].op # "createModule"
        BY <1>0, <1>1, <3>2 DEF SavedModule, DataTyped
      <3> QED BY <3>1, <3>2
    <2>4. DataTyped'
      BY <1>0, <2>2, <2>3 DEF DataTyped, FormShape, LessonForm, Indexed
    <2>5. call[c].op \in Saves /\ call[c].op \notin Uploads
      BY <2>2 DEF Saves, Uploads
    <2> QED BY <1>0, <2>2, <2>4, <2>5, CloseShaped DEF DataTyped
  <1>2. CASE DeletedModule(c)
    <2>1. PICK m : m = call[c].mod OBVIOUS
    <2>2. /\ Close(c) /\ order' = Without(order, m) /\ lessonsOf' = [lessonsOf EXCEPT ![m] = <<>>]
          /\ selected' \in {selected, NoLesson}
          /\ UNCHANGED <<place, row, drawn, lesson, form, editing, saving, uploading, strays, lost, tangled>>
          /\ call[c].op = "deleteModule"
      BY <1>2, <2>1 DEF DeletedModule, Answers
    <2>3. order' \in Seq(Modules)
      BY <1>0, <2>2, WithoutIs DEF DataTyped
    <2>4. lessonsOf' \in [Modules -> Seq(Lessons)]
      BY <1>0, <1>a, <2>2 DEF DataTyped
    <2>5. DataTyped'
      BY <1>0, <2>2, <2>3, <2>4 DEF DataTyped, FormShape, LessonForm, NoLesson, Indexed
    <2>6. call[c].op \notin Saves /\ call[c].op \notin Uploads
      BY <2>2 DEF Saves, Uploads
    <2> QED BY <1>0, <2>2, <2>5, <2>6, CloseShaped DEF DataTyped
  <1>3. CASE SavedLesson(c)
    <2>1. PICK m, x, f : m = call[c].mod /\ x = call[c].lesson /\ f = call[c].file OBVIOUS
    <2>2. /\ Close(c) /\ saving' = FALSE /\ selected' = NoLesson
          /\ UNCHANGED <<place, row, drawn, order, form, editing, uploading, strays, lost, tangled>>
          /\ call[c].op \in {"createLesson", "updateLesson"} /\ call[c].st = "ok"
      BY <1>3 DEF SavedLesson, Answers, AfterSave
    <2>3. m \in Modules /\ x \in Lessons /\ f \in Files \cup {None}
      BY <1>0, <2>1, <2>2 DEF ShapeOf, CallType
    <2>4. lesson' \in [Lessons -> ObjectType] /\ lessonsOf' \in [Modules -> Seq(Lessons)]
      <3>1. CASE m \notin Range(order)
        BY <1>0, <1>3, <2>1, <3>1 DEF SavedLesson, DataTyped
      <3>2. CASE m \in Range(order)
        <4>1. PICK new, s : /\ new = [mod |-> m, video |-> f, pdfs |-> form.pdfs]
                            /\ s = Listed(lessonsOf[m], x)
          OBVIOUS
        <4>2. lesson' = [lesson EXCEPT ![x] = new] /\ lessonsOf' = [lessonsOf EXCEPT ![m] = s]
          BY <1>0, <1>3, <2>1, <3>2, <4>1 DEF SavedLesson, DataTyped
        <4>3. new \in ObjectType
          BY <1>0, <2>3, <4>1 DEF DataTyped, FormType, ObjectType
        <4>4. s \in Seq(Lessons)
          BY <1>0, <2>3, <4>1, AppendIs DEF DataTyped, Listed
        <4> QED BY <1>0, <4>2, <4>3, <4>4 DEF DataTyped
      <3> QED BY <3>1, <3>2
    <2>5. NoLesson \in [lesson : Lessons \cup {None}, mod : Modules \cup {None}]
      BY DEF NoLesson
    <2>6. DataTyped'
      BY <1>0, <2>2, <2>4, <2>5 DEF DataTyped, FormShape, LessonForm, Indexed
    <2>7. call[c].op \in Saves /\ call[c].op \notin Uploads
      BY <2>2 DEF Saves, Uploads
    <2> QED BY <1>0, <2>2, <2>6, <2>7, CloseShaped DEF DataTyped
  <1>4. CASE DeletedLesson(c)
    <2>1. PICK m, x : m = call[c].mod /\ x = call[c].lesson OBVIOUS
    <2>2. /\ Close(c) /\ saving' = FALSE /\ selected' = NoLesson
          /\ UNCHANGED <<place, row, drawn, order, lesson, form, editing, uploading, strays, lost, tangled>>
          /\ call[c].op = "deleteLesson"
          /\ lessonsOf' = IF m = None THEN lessonsOf ELSE [lessonsOf EXCEPT ![m] = Without(@, x)]
      BY <1>4, <2>1 DEF DeletedLesson, Answers
    <2>3. lessonsOf' \in [Modules -> Seq(Lessons)]
      <3>1. CASE m \notin Modules
        BY <1>0, <2>2, <3>1 DEF DataTyped
      <3>2. CASE m \in Modules
        <4>1. PICK s : s = Without(lessonsOf[m], x) OBVIOUS
        <4>2. lessonsOf' = [lessonsOf EXCEPT ![m] = s]
          BY <1>0, <2>2, <3>2, <4>1, BuilderAssumption DEF DataTyped
        <4>3. s \in Seq(Lessons)
          BY <1>0, <3>2, <4>1, WithoutIs DEF DataTyped
        <4> QED BY <1>0, <4>2, <4>3 DEF DataTyped
      <3> QED BY <3>1, <3>2
    <2>4. NoLesson \in [lesson : Lessons \cup {None}, mod : Modules \cup {None}]
      BY DEF NoLesson
    <2>5. DataTyped'
      BY <1>0, <2>2, <2>3, <2>4 DEF DataTyped, FormShape, LessonForm, Indexed
    <2>6. call[c].op \in Saves /\ call[c].op \notin Uploads
      BY <2>2 DEF Saves, Uploads
    <2> QED BY <1>0, <2>2, <2>5, <2>6, CloseShaped DEF DataTyped
  <1> QED BY <1>1, <1>2, <1>3, <1>4

LEMMA OthersShaped ==
  ASSUME Shaped, FileInv, FileInv', clicks' \in Nat, NEW c \in Calls,
         \/ GotVideo(c) \/ GotPdf(c) \/ Attached(c) \/ RemovedAttachment(c)
         \/ Reordered(c) \/ Failed(c)
  PROVE  Shaped'
  <1> USE DEF server, lists, history, panel
  <1>0. DataTyped /\ call[c] \in CallType /\ ShapeOf(call[c])
    BY ShapedIs
  <1>a. call[c].op \in Picks => call[c].file \in Files
    BY DEF FileInv, CallsFit, Brings
  <1>1. CASE GotPdf(c)
    <2>1. UNCHANGED <<place, row, drawn, order, lessonsOf, lesson, selected, form, editing, saving, uploading, strays, lost, tangled>>
      BY <1>1 DEF GotPdf
    <2>2. DataTyped'
      BY <1>0, <2>1 DEF DataTyped, FormShape, LessonForm, Indexed
    <2>3. PICK q : /\ Turns(c, q) /\ q.op = (IF call[c].op = "pickPdf" THEN "pickedPdf" ELSE "uploadedPdf")
                   /\ q.mod = call[c].mod /\ q.lesson = call[c].lesson
                   /\ q.file = call[c].file /\ q.ids = call[c].ids /\ q.st = "sent"
      BY <1>1, ShapedIs, PdfTurns
    <2>4. call[c].op \in {"pickPdf", "uploadPdf"}
      BY <1>1 DEF GotPdf, Answers
    <2>5. FlagsTurn(c, q)
      BY <2>1, <2>3, <2>4, ShapedIs DEF FlagsTurn, Saves, Uploads, OneUpload, DataTyped
    <2>6. ShapeOf(q)
      BY <1>0, <2>3, <2>4 DEF ShapeOf
    <2> QED BY <1>1, <2>2, <2>3, <2>5, <2>6, ShapedTurn
  <1>2. CASE GotVideo(c) \/ Attached(c) \/ RemovedAttachment(c)
    <2>1. /\ UNCHANGED <<place, row, drawn, order, lessonsOf, lesson, selected, editing, saving, lost, tangled>>
          /\ Close(c)
      BY <1>2 DEF GotVideo, Attached, RemovedAttachment
    <2>2. call[c].op \in {"pickVideo", "uploadVideo", "pickedPdf", "uploadedPdf", "removeAttachment"}
      BY <1>2 DEF GotVideo, Attached, RemovedAttachment, Answers
    <2>3. uploading' = (uploading /\ call[c].op \notin Uploads)
      BY <1>0, <1>2, <2>2 DEF GotVideo, Attached, RemovedAttachment, Answers, Uploads, DataTyped
    <2>4. form' \in FormType /\ form'.mod = form.mod
      <3>1. PICK f : f = call[c].file OBVIOUS
      <3>2. \/ form' = [form EXCEPT !.video = f] /\ f \in Files
            \/ form' = [form EXCEPT !.pdfs = @ \cup {f}] /\ f \in Files
            \/ form' = [form EXCEPT !.pdfs = @ \ {f}]
        BY <1>2, <1>a, <3>1 DEF GotVideo, Attached, RemovedAttachment, Answers, Picks
      <3>3. form \in FormType
        BY <1>0 DEF DataTyped
      <3> QED BY <3>2, <3>3 DEF FormType
    <2>5. strays' \subseteq Files
      BY <1>0, <1>2, <1>a DEF GotVideo, Attached, RemovedAttachment, Answers, Picks, DataTyped
    <2>6. uploading' \in BOOLEAN
      BY <1>0, <2>3 DEF DataTyped
    <2>7. DataTyped'
      BY <1>0, <2>1, <2>4, <2>5, <2>6 DEF DataTyped, FormShape, LessonForm, Indexed
    <2>8. saving' = (saving /\ call[c].op \notin Saves)
      BY <1>0, <2>1, <2>2 DEF Saves, DataTyped
    <2> QED BY <2>1, <2>3, <2>7, <2>8, CloseShaped
  <1>3. CASE Reordered(c) \/ Failed(c)
    <2>1. /\ UNCHANGED <<place, row, drawn, order, lessonsOf, lesson, selected, form, editing, strays, lost, tangled>>
          /\ Close(c)
      BY <1>3 DEF Reordered, Failed
    <2>2. /\ saving' = (saving /\ call[c].op \notin Saves)
          /\ uploading' = (uploading /\ call[c].op \notin Uploads)
      BY <1>0, <1>3 DEF Reordered, Failed, Answers, Saves, Uploads, DataTyped
    <2>3. saving' \in BOOLEAN /\ uploading' \in BOOLEAN
      BY <1>0, <2>2 DEF DataTyped
    <2>4. DataTyped'
      BY <1>0, <2>1, <2>3 DEF DataTyped, FormShape, LessonForm, Indexed
    <2> QED BY <2>1, <2>2, <2>4, CloseShaped
  <1> QED BY <1>1, <1>2, <1>3

-----------------------------------------------------------------------------
(* Lists: what they are about                                              *)

\* On the server: the modules, and the lessons with theirs.
Standing == {m \in Modules : place[m] # Absent}
InCourse == {p \in Lessons \X Modules : row[p[1]].mod = p[2]}

\* On the page: the lessons with the modules they are listed in, with those
\* their objects name, and with that of the form.
Shown  == {p \in Lessons \X Modules : p[1] \in Range(lessonsOf[p[2]])}
Object == {p \in Lessons \X Modules : lesson[p[1]].mod = p[2]}
InForm == {p \in Lessons \X Modules : p = <<form.lesson, form.mod>>}

\* On the way: what a call q has created, is writing, has written, is
\* deleting or has deleted.
CreatedBy(q)  == {m \in Modules : q.op = "createModule" /\ q.st = "ok" /\ q.mod = m}
AimedBy(q)    == {m \in Modules : q.op \in {"createLesson", "updateLesson"} /\ q.mod = m}
WritingBy(q)  == {p \in Lessons \X Modules : q.op \in {"createLesson", "updateLesson"} /\ p = <<q.lesson, q.mod>>}
WrittenBy(q)  == {p \in WritingBy(q) : q.st = "ok"}
ComingBy(q)   == {p \in WrittenBy(q) : q.op = "createLesson"}
DeletingBy(q) == {p \in Lessons \X (Modules \cup {None}) : q.op = "deleteLesson" /\ p = <<q.lesson, q.mod>>}
GoingBy(q)    == {x \in Lessons : q.op = "deleteLesson" /\ q.st = "ok" /\ q.lesson = x}
PartingBy(q)  == {m \in Modules : q.op = "deleteModule" /\ q.mod = m}
LeavingBy(q)  == {m \in PartingBy(q) : q.st = "ok"}

Created  == UNION {CreatedBy(call[c]) : c \in Calls}
Aimed    == UNION {AimedBy(call[c]) : c \in Calls}
Writing  == UNION {WritingBy(call[c]) : c \in Calls}
Written  == UNION {WrittenBy(call[c]) : c \in Calls}
Coming   == UNION {ComingBy(call[c]) : c \in Calls}
Deleting == UNION {DeletingBy(call[c]) : c \in Calls}
Going    == UNION {GoingBy(call[c]) : c \in Calls}
Parting  == UNION {PartingBy(call[c]) : c \in Calls}
Leaving  == UNION {LeavingBy(call[c]) : c \in Calls}

\* The modules that lists, form and calls name, and the lessons with theirs.
Seen == Range(order) \cup ({form.mod} \cap Modules) \cup Aimed \cup Parting
Home == InCourse \cup Shown \cup InForm \cup Writing

\* An id stands once in a list, and a module that is not listed lists nothing.
Distinct ==
  /\ IsInjective(order)
  /\ \A m \in Modules : IsInjective(lessonsOf[m]) /\ (m \notin Range(order) => lessonsOf[m] = <<>>)

\* A lesson has one module, wherever it is named.
OneHome == \A p, q \in Home : p[1] = q[1] => p[2] = q[2]

\* What is named was drawn by the server.
DrawnFits ==
  /\ Standing \subseteq drawn /\ Seen \subseteq drawn
  /\ \A p \in Home \cup Deleting : p[1] \in drawn
  /\ selected.lesson # None => selected.lesson \in drawn

\* The foreign key.
ServerFits == \A p \in InCourse : p[2] \in Standing

\* What has been created, written or deleted, until the page hears of it.
CallFits ==
  /\ Created \subseteq Standing /\ Created \cap Seen = {}
  /\ Leaving \cap Standing = {}
  /\ \A p \in InCourse : p[1] \notin Going
  /\ Coming \cap Shown = {}
  /\ \A p \in Written : p \in InCourse \/ p[2] \notin Standing
  /\ \A p \in Deleting : p[2] = lesson[p[1]].mod

\* The module_id of an object is the module its lesson is listed in, and that
\* of the selected lesson.
ObjectFits ==
  /\ \A p \in Shown, q \in Object : p[1] = q[1] => p[2] = q[2]
  /\ selected.lesson # None => selected.mod = lesson[selected.lesson].mod

Coherent == Distinct /\ OneHome /\ DrawnFits /\ ServerFits /\ CallFits /\ ObjectFits

\* What the server has is on the page or on its way there.
Hides == Standing \subseteq Range(order) \cup Created /\ InCourse \subseteq Shown \cup Coming

\* What the page has is on the server or on its way out.
Ghosts ==
  /\ Range(order) \subseteq Standing \cup Leaving
  /\ \A p \in Shown \cap Object : (\E m \in Modules : <<p[1], m>> \in InCourse) \/ p[1] \in Going \/ p[2] \in Leaving

Complete == ~lost => Hides /\ Ghosts

-----------------------------------------------------------------------------
(* Lists: how a call that turns changes the sets                           *)

\* What only saves are in, and what only deleteModule is in.
SaveSets  == <<Created, Aimed, Writing, Written, Coming, Deleting, Going>>
LeaveSets == <<Parting, Leaving>>

\* A save is the only one, before and after.
LEMMA SavesTurn ==
  ASSUME NEW c \in Calls, NEW q, Turns(c, q), \A d \in Calls \ {c} : call[d].op \notin Saves
  PROVE  /\ Created = CreatedBy(call[c]) /\ Created' = CreatedBy(q)
         /\ Aimed = AimedBy(call[c]) /\ Aimed' = AimedBy(q)
         /\ Writing = WritingBy(call[c]) /\ Writing' = WritingBy(q)
         /\ Written = WrittenBy(call[c]) /\ Written' = WrittenBy(q)
         /\ Coming = ComingBy(call[c]) /\ Coming' = ComingBy(q)
         /\ Deleting = DeletingBy(call[c]) /\ Deleting' = DeletingBy(q)
         /\ Going = GoingBy(call[c]) /\ Going' = GoingBy(q)
  <1>1. call'[c] = q /\ \A d \in Calls \ {c} : call'[d] = call[d] /\ call[d].op \notin Saves
    BY DEF Turns
  <1>2. Created = CreatedBy(call[c]) /\ Created' = CreatedBy(q)
    BY <1>1 DEF Created, CreatedBy, Saves
  <1>3. Aimed = AimedBy(call[c]) /\ Aimed' = AimedBy(q)
    BY <1>1 DEF Aimed, AimedBy, Saves
  <1>4. Writing = WritingBy(call[c]) /\ Writing' = WritingBy(q)
    BY <1>1 DEF Writing, WritingBy, Saves
  <1>5. Written = WrittenBy(call[c]) /\ Written' = WrittenBy(q)
    BY <1>1 DEF Written, WrittenBy, WritingBy, Saves
  <1>6. Coming = ComingBy(call[c]) /\ Coming' = ComingBy(q)
    BY <1>1 DEF Coming, ComingBy, WrittenBy, WritingBy, Saves
  <1>7. Deleting = DeletingBy(call[c]) /\ Deleting' = DeletingBy(q)
    BY <1>1 DEF Deleting, DeletingBy, Saves
  <1>8. Going = GoingBy(call[c]) /\ Going' = GoingBy(q)
    BY <1>1 DEF Going, GoingBy, Saves
  <1> QED BY <1>2, <1>3, <1>4, <1>5, <1>6, <1>7, <1>8

\* A call that is no save.
LEMMA OthersTurn ==
  ASSUME NEW c \in Calls, NEW q, Turns(c, q), call[c].op \notin Saves, q.op \notin Saves
  PROVE  UNCHANGED SaveSets
  <1>1. /\ call[c].op \notin Saves /\ call'[c].op \notin Saves
        /\ \A d \in Calls \ {c} : call'[d] = call[d]
    BY DEF Turns
  <1>2. Created' = Created
    BY <1>1 DEF Created, CreatedBy, Saves
  <1>3. Aimed' = Aimed
    BY <1>1 DEF Aimed, AimedBy, Saves
  <1>4. Writing' = Writing
    BY <1>1 DEF Writing, WritingBy, Saves
  <1>5. Written' = Written
    BY <1>1 DEF Written, WrittenBy, WritingBy, Saves
  <1>6. Coming' = Coming
    BY <1>1 DEF Coming, ComingBy, WrittenBy, WritingBy, Saves
  <1>7. Deleting' = Deleting
    BY <1>1 DEF Deleting, DeletingBy, Saves
  <1>8. Going' = Going
    BY <1>1 DEF Going, GoingBy, Saves
  <1> QED BY <1>2, <1>3, <1>4, <1>5, <1>6, <1>7, <1>8 DEF SaveSets

LEMMA StaysTurn ==
  ASSUME NEW c \in Calls, NEW q, Turns(c, q), call[c].op # "deleteModule", q.op # "deleteModule"
  PROVE  UNCHANGED LeaveSets
  <1>1. /\ call[c].op # "deleteModule" /\ call'[c].op # "deleteModule"
        /\ \A d \in Calls \ {c} : call'[d] = call[d]
    BY DEF Turns
  <1>2. Parting' = Parting
    BY <1>1 DEF Parting, PartingBy
  <1>3. Leaving' = Leaving
    BY <1>1 DEF Leaving, LeavingBy, PartingBy
  <1> QED BY <1>2, <1>3 DEF LeaveSets

LEMMA PartsTurn ==
  ASSUME NEW c \in Calls, NEW q, Turns(c, q)
  PROVE  /\ Parting' \subseteq Parting \cup PartingBy(q) /\ PartingBy(call[c]) \subseteq Parting
         /\ Leaving' \subseteq Leaving \cup LeavingBy(q) /\ LeavingBy(call[c]) \subseteq Leaving
         /\ Leaving \subseteq Leaving' \cup LeavingBy(call[c]) /\ LeavingBy(q) \subseteq Leaving'
  <1>1. call'[c] = q /\ \A d \in Calls \ {c} : call'[d] = call[d]
    BY DEF Turns
  <1>2. Parting' \subseteq Parting \cup PartingBy(q) /\ PartingBy(call[c]) \subseteq Parting
    BY <1>1 DEF Parting, PartingBy
  <1>3. Leaving' \subseteq Leaving \cup LeavingBy(q) /\ LeavingBy(call[c]) \subseteq Leaving
    BY <1>1 DEF Leaving, LeavingBy, PartingBy
  <1>4. Leaving \subseteq Leaving' \cup LeavingBy(call[c]) /\ LeavingBy(q) \subseteq Leaving'
    BY <1>1 DEF Leaving, LeavingBy, PartingBy
  <1> QED BY <1>2, <1>3, <1>4

\* A call that fails, or is no operation on the lists.
LEMMA QuietTurn ==
  ASSUME NEW c \in Calls, NEW q, Turns(c, q),
         q.st = "ok" => q.op \notin {"createModule", "deleteModule", "createLesson", "updateLesson", "deleteLesson"},
         call[c].st = "ok" => call[c].op \notin {"createModule", "deleteModule", "createLesson", "updateLesson", "deleteLesson"},
         q.op \in {"deleteModule", "createLesson", "updateLesson", "deleteLesson"} =>
           q.op = call[c].op /\ q.mod = call[c].mod /\ q.lesson = call[c].lesson
  PROVE  /\ UNCHANGED <<Created, Written, Coming, Going, Leaving>>
         /\ Aimed' \subseteq Aimed /\ Writing' \subseteq Writing
         /\ Deleting' \subseteq Deleting /\ Parting' \subseteq Parting
  <1>1. call'[c] = q /\ \A d \in Calls \ {c} : call'[d] = call[d]
    BY DEF Turns
  <1>2. Created' = Created
    BY <1>1 DEF Created, CreatedBy
  <1>3. Written' = Written
    BY <1>1 DEF Written, WrittenBy, WritingBy
  <1>4. Coming' = Coming
    BY <1>1 DEF Coming, ComingBy, WrittenBy, WritingBy
  <1>5. Going' = Going
    BY <1>1 DEF Going, GoingBy
  <1>6. Leaving' = Leaving
    BY <1>1 DEF Leaving, LeavingBy, PartingBy
  <1>7. Aimed' \subseteq Aimed
    BY <1>1 DEF Aimed, AimedBy
  <1>8. Writing' \subseteq Writing
    BY <1>1 DEF Writing, WritingBy
  <1>9. Deleting' \subseteq Deleting
    BY <1>1 DEF Deleting, DeletingBy
  <1>10. Parting' \subseteq Parting
    BY <1>1 DEF Parting, PartingBy
  <1> QED BY <1>2, <1>3, <1>4, <1>5, <1>6, <1>7, <1>8, <1>9, <1>10

-----------------------------------------------------------------------------
(* Lists: steps that leave them                                            *)

\* New pairs are about lessons that no one knew.
HomeStep == drawn \subseteq drawn' /\ \A p \in Home' : p \in Home \/ p[1] \notin drawn

Kept == Coherent' /\ (Complete => Complete') /\ HomeStep

\* What the sets see of variables that stay.
LEMMA SetsStay ==
  /\ UNCHANGED place => Standing' = Standing
  /\ UNCHANGED row => InCourse' = InCourse
  /\ UNCHANGED lessonsOf => Shown' = Shown
  /\ UNCHANGED lesson => Object' = Object
  /\ form'.lesson = form.lesson /\ form'.mod = form.mod => InForm' = InForm
  /\ UNCHANGED <<order, lessonsOf>> => (Distinct => Distinct')
  <1>1. UNCHANGED place => Standing' = Standing
    BY DEF Standing
  <1>2. UNCHANGED row => InCourse' = InCourse
    BY DEF InCourse
  <1>3. UNCHANGED lessonsOf => Shown' = Shown
    BY DEF Shown
  <1>4. UNCHANGED lesson => Object' = Object
    BY DEF Object
  <1>5. form'.lesson = form.lesson /\ form'.mod = form.mod => InForm' = InForm
    BY DEF InForm
  <1>6. UNCHANGED <<order, lessonsOf>> => (Distinct => Distinct')
    BY DEF Distinct
  <1> QED BY <1>1, <1>2, <1>3, <1>4, <1>5, <1>6

\* A step that leaves the sets, or loses what has failed.
Quiet ==
  /\ Standing' = Standing /\ InCourse' = InCourse /\ Shown' = Shown /\ InForm' = InForm
  /\ UNCHANGED <<drawn, lesson>> /\ Range(order') = Range(order) /\ form'.mod = form.mod
  /\ selected' \in {selected, NoLesson} /\ Distinct' /\ (lost => lost')
  /\ UNCHANGED <<Created, Written, Coming, Going, Leaving>>
  /\ Aimed' \subseteq Aimed /\ Writing' \subseteq Writing
  /\ Deleting' \subseteq Deleting /\ Parting' \subseteq Parting

LEMMA QuietKept ==
  ASSUME Coherent, Quiet PROVE Kept
  <1> USE DEF Coherent, Quiet
  <1>1. Home' \subseteq Home /\ Seen' \subseteq Seen
    BY DEF Home, Seen
  <1>2. OneHome'
    BY <1>1 DEF OneHome
  <1>3. DrawnFits'
    BY <1>1 DEF DrawnFits, NoLesson
  <1>4. ServerFits'
    BY DEF ServerFits
  <1>5. CallFits'
    BY <1>1 DEF CallFits
  <1>6. Object' = Object
    BY SetsStay
  <1>7. ObjectFits'
    BY <1>6 DEF ObjectFits, NoLesson
  <1>8. Complete => Complete'
    BY <1>6 DEF Complete, Hides, Ghosts
  <1> QED BY <1>1, <1>2, <1>3, <1>4, <1>5, <1>7, <1>8 DEF Kept, HomeStep

\* The part of Quiet about calls.
QuietCalls ==
  /\ UNCHANGED <<Created, Written, Coming, Going, Leaving>>
  /\ Aimed' \subseteq Aimed /\ Writing' \subseteq Writing
  /\ Deleting' \subseteq Deleting /\ Parting' \subseteq Parting

LEMMA StillCalls == UNCHANGED call => QuietCalls
  <1> SUFFICES ASSUME UNCHANGED call PROVE QuietCalls
    OBVIOUS
  <1>1. UNCHANGED <<Created, Aimed, Deleting, Going>>
    BY DEF Created, CreatedBy, Aimed, AimedBy, Deleting, DeletingBy, Going, GoingBy
  <1>2. UNCHANGED <<Writing, Written, Coming>>
    BY DEF Writing, Written, Coming, WritingBy, WrittenBy, ComingBy
  <1>3. UNCHANGED <<Parting, Leaving>>
    BY DEF Parting, Leaving, PartingBy, LeavingBy
  <1> QED BY <1>1, <1>2, <1>3 DEF QuietCalls

LEMMA QuietIs ==
  ASSUME Coherent, QuietCalls, UNCHANGED <<place, order, lessonsOf, lesson, drawn>>,
         \A x \in Lessons : row'[x].mod = row[x].mod,
         form'.lesson = form.lesson, form'.mod = form.mod, selected' \in {selected, NoLesson}, lost => lost'
  PROVE  Kept
  <1>1. Standing' = Standing /\ Shown' = Shown /\ InForm' = InForm /\ Distinct'
    BY SetsStay DEF Coherent
  <1>2. InCourse' = InCourse
    BY DEF InCourse
  <1>3. Quiet
    BY <1>1, <1>2 DEF Quiet, QuietCalls
  <1> QED BY <1>3, QuietKept

ListOps == {"createModule", "deleteModule", "createLesson", "updateLesson", "deleteLesson"}

LEMMA QuietPanel ==
  ASSUME Shaped, Coherent, (\E m \in Modules \cup {New} : EditModule(m)) \/ CancelModule \/ CancelLesson
  PROVE  Kept
  <1> USE DEF server, lists, history
  <1>1. /\ UNCHANGED <<place, row, drawn, order, lessonsOf, lesson, form, call, lost>>
        /\ selected' \in {selected, NoLesson}
    BY DEF EditModule, CancelModule, CancelLesson
  <1> QED BY <1>1, StillCalls, QuietIs

\* Sent calls that name nothing of the lists.
LEMMA QuietSent ==
  ASSUME Shaped, Coherent, NEW c \in Calls,
         \/ SaveModule(c)
         \/ \E f \in Files : \/ PickVideo(c, f) \/ UploadVideo(c, f) \/ PickPdf(c, f) \/ UploadPdf(c, f)
                             \/ RemoveAttachment(c, f)
  PROVE  Kept
  <1> USE DEF server, lists, history
  <1>0. DataTyped BY ShapedIs
  <1>1. /\ UNCHANGED <<place, row, drawn, order, lessonsOf, lesson, selected, lost>>
        /\ form'.lesson = form.lesson /\ form'.mod = form.mod
    <2>1. UNCHANGED <<place, row, drawn, order, lessonsOf, lesson, selected, lost>>
      BY DEF SaveModule, PickVideo, UploadVideo, PickPdf, UploadPdf, Choose, RemoveAttachment
    <2>2. form' = form \/ \E f : form' = [form EXCEPT !.pdfs = @ \ {f}]
      BY DEF SaveModule, PickVideo, UploadVideo, PickPdf, UploadPdf, Choose, RemoveAttachment
    <2>3. form \in FormType
      BY <1>0 DEF DataTyped
    <2> QED BY <2>1, <2>2, <2>3 DEF FormType
  <1>2. CASE UNCHANGED call
    BY <1>1, <1>2, StillCalls, QuietIs
  <1>3. ASSUME NEW op, NEW m \in Modules \cup {None}, NEW x \in Lessons \cup {None},
               NEW f \in Files \cup {None}, Send(c, op, m, x, f, <<>>),
               op \in {"createModule", "updateModule", "pickVideo", "uploadVideo", "pickPdf", "uploadPdf", "removeAttachment"}
        PROVE  Kept
    <2>1. op \in Ops
      BY <1>3 DEF Ops, Saves, Uploads
    <2>2. PICK q : q = [op |-> op, mod |-> m, lesson |-> x, file |-> f, ids |-> <<>>, st |-> "sent"]
      OBVIOUS
    <2>3. call[c] = Idle /\ Turns(c, q)
      BY <1>3, <2>1, <2>2, EmptyIds, ShapedIs, SendTurns
    <2>4. QuietCalls
      BY <1>3, <2>2, <2>3, QuietTurn DEF Idle, QuietCalls
    <2> QED BY <1>1, <2>4, QuietIs
  <1>4. CASE SaveModule(c)
    <2>1. \E op \in {"createModule", "updateModule"}, m \in Modules \cup {None} : Send(c, op, m, None, None, <<>>)
      BY <1>0, <1>4 DEF SaveModule, ModuleForm, DataTyped
    <2> QED BY <1>3, <2>1
  <1>5. ASSUME NEW f \in Files,
               \/ PickVideo(c, f) \/ UploadVideo(c, f) \/ PickPdf(c, f) \/ UploadPdf(c, f)
               \/ RemoveAttachment(c, f)
        PROVE  Kept
    <2>1. PICK x \in Lessons \cup {None} : x = form.lesson
      BY <1>0 DEF DataTyped, FormType
    <2>2. \/ UNCHANGED call
          \/ \E op \in {"pickVideo", "uploadVideo", "pickPdf", "uploadPdf", "removeAttachment"} :
               Send(c, op, None, x, f, <<>>)
      BY <1>5, <2>1 DEF PickVideo, UploadVideo, PickPdf, UploadPdf, Choose, RemoveAttachment
    <2> QED BY <1>2, <1>3, <2>2
  <1> QED BY <1>4, <1>5

\* Replies that leave the modules and those of the lessons.
LEMMA QuietServed ==
  ASSUME Shaped, Coherent, NEW c \in Calls,
         ServeReorder(c) \/ ServeAddAttachment(c) \/ ServeDeleteAttachment(c)
  PROVE  Kept
  <1> USE DEF lists, panel
  <1>0. DataTyped /\ call[c] \in CallType /\ row \in [Lessons -> RowType]
    BY ShapedIs DEF DataTyped
  <1>1. PICK m \in Modules \cup {None}, x \in Lessons \cup {None} : Replies(c, m, x)
    BY <1>0 DEF ServeReorder, ServeAddAttachment, ServeDeleteAttachment, Reply, CallType
  <1>2. call[c].op \notin ListOps /\ call[c].st = "sent"
    BY DEF ServeReorder, ServeAddAttachment, ServeDeleteAttachment, Serves, ListOps
  <1>3. PICK q : /\ Turns(c, q) /\ q.op = call[c].op /\ q.mod = m /\ q.lesson = x
                 /\ q.file = call[c].file /\ q.ids = call[c].ids /\ q.st \in {"ok", "error"}
                 /\ lost' = (lost \/ q.st = "error")
    BY <1>1, ShapedIs, ReplyTurns
  <1>4. QuietCalls
    BY <1>2, <1>3, QuietTurn DEF ListOps, QuietCalls
  <1>5. UNCHANGED <<order, lessonsOf, lesson, selected, form, drawn>>
    BY <1>1 DEF Replies, ServeReorder, ServeAddAttachment, ServeDeleteAttachment
  <1>6. \A y \in Lessons : row'[y].mod = row[y].mod
    <2>1. CASE ServeReorder(c)
      <3>1. PICK ids : row' = [y \in Lessons |-> IF row[y] = NoRow THEN NoRow
                                                 ELSE [row[y] EXCEPT !.index = Reindexed(ids, y, @)]]
        BY <2>1 DEF ServeReorder
      <3> QED BY <1>0, <3>1 DEF RowType
    <2>2. CASE ServeAddAttachment(c) \/ ServeDeleteAttachment(c)
      <3>1. \/ \E y, f : row' = [row EXCEPT ![y].pdfs = @ \cup {f}]
            \/ \E f : row' = [y \in Lessons |-> [row[y] EXCEPT !.pdfs = @ \ {f}]]
        BY <2>2 DEF ServeAddAttachment, ServeDeleteAttachment
      <3> QED BY <1>0, <3>1 DEF RowType
    <2> QED BY <2>1, <2>2
  <1>7. Standing' = Standing
    <2>1. CASE UNCHANGED place
      BY <2>1, SetsStay
    <2>2. CASE ServeReorder(c)
      <3>1. PICK ids \in Seq(Modules \cup Lessons) :
              place' = [k \in Modules |-> IF place[k] = Absent THEN Absent ELSE Reindexed(ids, k, place[k])]
        BY <1>0, <2>2 DEF ServeReorder, CallType
      <3>2. \A k \in Modules : place[k] # Absent => Reindexed(ids, k, place[k]) # Absent
        BY PlaceNat DEF Reindexed, Absent
      <3> QED BY <3>1, <3>2 DEF Standing
    <2> QED BY <2>1, <2>2 DEF ServeAddAttachment, ServeDeleteAttachment
  <1>8. /\ InCourse' = InCourse /\ Shown' = Shown /\ InForm' = InForm /\ Distinct'
    BY <1>5, <1>6, SetsStay DEF InCourse, Coherent
  <1>9. Quiet
    BY <1>3, <1>4, <1>5, <1>7, <1>8 DEF Quiet, QuietCalls
  <1> QED BY <1>9, QuietKept

\* Only the state of a call changes, and ok only where lists are not concerned.
LEMMA QuietState ==
  ASSUME Shaped, Coherent, NEW c \in Calls,
         ServeUpdateModule(c) \/ ServePick(c) \/ Refuse(c) \/ Store(c)
  PROVE  Kept
  <1> USE DEF server, lists, panel, history
  <1>1. UNCHANGED <<place, row, drawn, order, lessonsOf, lesson, selected, form, lost>>
    BY DEF ServeUpdateModule, ServePick, Refuse, Store
  <1>2. CASE UNCHANGED call
    BY <1>1, <1>2, StillCalls, QuietIs
  <1>3. CASE ~UNCHANGED call
    <2>1. PICK st \in {"ok", "error"} :
            /\ call' = [call EXCEPT ![c].st = st] /\ call[c].st = "sent"
            /\ st = "ok" => call[c].op \notin ListOps
      BY <1>3 DEF ServeUpdateModule, ServePick, Refuse, Store, Serves, ListOps
    <2>2. call \in [Calls -> CallType]
      BY ShapedIs
    <2>3. PICK q : /\ Turns(c, q) /\ q.op = call[c].op /\ q.mod = call[c].mod /\ q.lesson = call[c].lesson
                   /\ q.file = call[c].file /\ q.ids = call[c].ids /\ q.st = st
      BY <2>1, <2>2, StateTurns
    <2>4. QuietCalls
      BY <2>1, <2>3, QuietTurn DEF ListOps, QuietCalls
    <2> QED BY <1>1, <2>4, QuietIs
  <1> QED BY <1>2, <1>3

\* Answers that change no list.
LEMMA QuietAnswer ==
  ASSUME Shaped, Coherent, NEW c \in Calls,
         \/ SavedModule(c) /\ call[c].op = "updateModule"
         \/ GotVideo(c) \/ GotPdf(c) \/ Attached(c) \/ RemovedAttachment(c)
         \/ Reordered(c) \/ Failed(c)
  PROVE  Kept
  <1> USE DEF server, lists, history
  <1>0. DataTyped /\ call \in [Calls -> CallType] BY ShapedIs
  <1>1. UNCHANGED <<place, row, drawn, order, lessonsOf, lesson, selected, lost>>
    BY DEF SavedModule, GotVideo, GotPdf, Attached, RemovedAttachment, Reordered, Failed, panel
  <1>2. form'.lesson = form.lesson /\ form'.mod = form.mod
    <2>1. \/ form' = form \/ \E f : form' = [form EXCEPT !.video = f]
          \/ \E s : form' = [form EXCEPT !.pdfs = s]
      BY DEF SavedModule, GotVideo, GotPdf, Attached, RemovedAttachment, Reordered, Failed, panel
    <2>2. form \in FormType
      BY <1>0 DEF DataTyped
    <2> QED BY <2>1, <2>2 DEF FormType
  <1>3. call[c].st = "ok" => call[c].op \notin ListOps
    BY DEF SavedModule, GotVideo, GotPdf, Attached, RemovedAttachment, Reordered, Failed, Answers, ListOps
  <1>4. QuietCalls
    <2>1. CASE Close(c)
      <3>1. Turns(c, Idle)
        BY <1>0, <2>1, CloseTurns
      <3>2. Idle.st # "ok" /\ Idle.op \notin ListOps
        BY DEF Idle, ListOps
      <3> QED BY <1>3, <3>1, <3>2, QuietTurn DEF ListOps, QuietCalls
    <2>2. CASE GotPdf(c)
      <3>1. PICK q : /\ Turns(c, q) /\ q.op = (IF call[c].op = "pickPdf" THEN "pickedPdf" ELSE "uploadedPdf")
                     /\ q.mod = call[c].mod /\ q.lesson = call[c].lesson
                     /\ q.file = call[c].file /\ q.ids = call[c].ids /\ q.st = "sent"
        BY <1>0, <2>2, PdfTurns
      <3>2. q.st # "ok" /\ q.op \notin ListOps
        BY <3>1 DEF ListOps
      <3> QED BY <1>3, <3>1, <3>2, QuietTurn DEF ListOps, QuietCalls
    <2> QED BY <2>1, <2>2 DEF SavedModule, GotVideo, Attached, RemovedAttachment, Reordered, Failed
  <1> QED BY <1>1, <1>2, <1>4, QuietIs

\* Drags.
LEMMA QuietDrop ==
  ASSUME Shaped, Coherent, NEW c \in Calls,
         \/ \E i, j \in DOMAIN order : DropModule(c, i, j)
         \/ \E m \in Modules : \E i, j \in DOMAIN lessonsOf[m] : DropLesson(c, m, i, j)
  PROVE  Kept
  <1> USE DEF server, lists, panel, history
  <1>0. DataTyped /\ call \in [Calls -> CallType] /\ Distinct BY ShapedIs DEF Coherent
  <1>1. UNCHANGED <<place, row, drawn, lesson, selected, form, lost>>
    BY DEF DropModule, DropLesson
  <1>2. Standing' = Standing /\ InCourse' = InCourse /\ InForm' = InForm
    BY <1>1, SetsStay
  <1>3. ASSUME NEW m \in Modules \cup {None}, NEW ids \in Seq(Modules \cup Lessons),
               Send(c, "reorder", m, None, None, ids)
        PROVE  QuietCalls
    <2>1. PICK q : q = [op |-> "reorder", mod |-> m, lesson |-> None, file |-> None, ids |-> ids, st |-> "sent"]
      OBVIOUS
    <2>2. call[c] = Idle /\ Turns(c, q)
      <3>1. "reorder" \in Ops /\ None \in Lessons \cup {None} /\ None \in Files \cup {None}
        BY DEF Ops
      <3> QED BY <1>0, <1>3, <2>1, <3>1, SendTurns
    <2> QED BY <2>1, <2>2, QuietTurn DEF Idle, QuietCalls
  <1>4. ASSUME NEW i \in DOMAIN order, NEW j \in DOMAIN order, DropModule(c, i, j) PROVE Kept
    <2>1. PICK ids : /\ ids = order' /\ ids = Moved(order, i, j)
                     /\ Send(c, "reorder", None, None, None, ids) /\ UNCHANGED lessonsOf
      BY <1>4 DEF DropModule, Sent
    <2>2. ids \in Seq(Modules) /\ IsInjective(ids) /\ Range(ids) = Range(order)
      BY <1>0, <2>1, MovedIs DEF DataTyped, Distinct
    <2>3. ids \in Seq(Modules \cup Lessons)
      BY <2>2
    <2>4. Distinct' /\ Shown' = Shown
      BY <1>0, <2>1, <2>2, SetsStay DEF Distinct
    <2>5. QuietCalls
      BY <1>3, <2>1, <2>3
    <2>6. Quiet
      BY <1>1, <1>2, <2>1, <2>2, <2>4, <2>5 DEF Quiet, QuietCalls
    <2> QED BY <2>6, QuietKept
  <1>5. ASSUME NEW m \in Modules, NEW i \in DOMAIN lessonsOf[m], NEW j \in DOMAIN lessonsOf[m],
               DropLesson(c, m, i, j)
        PROVE  Kept
    <2>1. PICK ids : /\ ids = Moved(lessonsOf[m], i, j) /\ lessonsOf' = [lessonsOf EXCEPT ![m] = ids]
                     /\ Send(c, "reorder", m, None, None, ids) /\ UNCHANGED order
      BY <1>0, <1>5 DEF DropLesson, Sent, DataTyped
    <2>2. ids \in Seq(Lessons) /\ IsInjective(ids) /\ Range(ids) = Range(lessonsOf[m])
      BY <1>0, <2>1, MovedIs DEF DataTyped, Distinct
    <2>3. ids \in Seq(Modules \cup Lessons)
      BY <2>2
    <2>4. /\ lessonsOf'[m] = ids /\ \A k \in Modules \ {m} : lessonsOf'[k] = lessonsOf[k]
      BY <1>0, <2>1 DEF DataTyped
    <2>5. m \in Range(order)
      BY <1>5 DEF DropLesson
    <2>6. Distinct'
      BY <1>0, <2>1, <2>2, <2>4, <2>5 DEF Distinct
    <2>7. Shown' = Shown
      <3>1. \A k \in Modules : Range(lessonsOf'[k]) = Range(lessonsOf[k])
        BY <2>2, <2>4
      <3> QED BY <3>1 DEF Shown
    <2>8. QuietCalls
      BY <1>3, <2>1, <2>3
    <2>9. Quiet
      BY <1>1, <1>2, <2>1, <2>6, <2>7, <2>8 DEF Quiet, QuietCalls
    <2> QED BY <2>9, QuietKept
  <1> QED BY <1>4, <1>5

-----------------------------------------------------------------------------
(* Lists: the teacher                                                      *)

\* A form that opens is that of a listed lesson, or a draft in a listed module.
LEMMA OpenKept ==
  ASSUME Shaped, Coherent, NEW m \in Modules, AddLesson(m) \/ \E x \in Lessons : SelectLesson(m, x)
  PROVE  Kept
  <1> USE DEF server, lists, history
  <1>0. DataTyped
    BY ShapedIs
  <1>1. PICK x, object :
          /\ x \in Lessons \cup {None}
          /\ m \in Range(order) /\ OpenForm(x, object, m)
          /\ x # None => x \in Range(lessonsOf[m]) /\ object = lesson[x]
    BY BuilderAssumption DEF AddLesson, SelectLesson
  <1>2. /\ UNCHANGED <<place, row, drawn, order, lessonsOf, lesson, call, lost>>
        /\ selected' = [lesson |-> x, mod |-> object.mod]
        /\ form' = [lesson |-> x, mod |-> m, video |-> object.video, pdfs |-> object.pdfs]
    BY <1>1 DEF OpenForm, FormOf
  <1>3. /\ form'.lesson = x /\ form'.mod = m
        /\ selected'.lesson = x /\ selected'.mod = object.mod
    BY <1>2
  <1>4. QuietCalls
    BY <1>2, StillCalls
  <1>5. /\ Standing' = Standing /\ InCourse' = InCourse /\ Shown' = Shown /\ Object' = Object
        /\ Distinct'
    BY <1>2, SetsStay DEF Coherent
  <1>6. InForm' \subseteq Shown
    BY <1>1, <1>3, BuilderAssumption DEF InForm, Shown
  <1>7. Home' \subseteq Home
    BY <1>4, <1>5, <1>6 DEF Home, QuietCalls
  <1>8. Seen' \subseteq Seen
    BY <1>1, <1>2, <1>3, <1>4 DEF Seen, QuietCalls
  <1>9. OneHome'
    BY <1>7 DEF OneHome, Coherent
  <1>10. x # None => <<x, m>> \in Home
    BY <1>1 DEF Home, Shown
  <1>11. DrawnFits'
    BY <1>2, <1>3, <1>4, <1>5, <1>7, <1>8, <1>10 DEF DrawnFits, Coherent, QuietCalls
  <1>12. ServerFits'
    BY <1>5 DEF ServerFits, Coherent
  <1>13. CallFits'
    BY <1>2, <1>4, <1>5, <1>8 DEF CallFits, Coherent, QuietCalls
  <1>14. ObjectFits'
    BY <1>1, <1>2, <1>3, <1>5 DEF ObjectFits, Coherent
  <1>15. Complete => Complete'
    BY <1>2, <1>4, <1>5 DEF Complete, Hides, Ghosts, QuietCalls
  <1> QED BY <1>2, <1>5, <1>7, <1>9, <1>11, <1>12, <1>13, <1>14, <1>15 DEF Kept, HomeStep, Coherent

\* A call that is sent names what form, panel and list do.
LEMMA SendKept ==
  ASSUME Coherent, UNCHANGED <<place, row, drawn, order, lessonsOf, lesson, selected, form, lost>>,
         UNCHANGED <<Created, Written, Coming, Going, Leaving>>,
         Aimed' \subseteq Aimed \cup ({form.mod} \cap Modules), Writing' \subseteq Writing \cup InForm,
         Parting' \subseteq Parting \cup Range(order),
         \A p \in Deleting' : p \in Deleting \/ (p[1] \in drawn /\ p[2] = lesson[p[1]].mod)
  PROVE  Kept
  <1>1. /\ Standing' = Standing /\ InCourse' = InCourse /\ Shown' = Shown /\ Object' = Object
        /\ InForm' = InForm /\ Distinct'
    BY SetsStay DEF Coherent
  <1>2. Home' \subseteq Home
    BY <1>1 DEF Home
  <1>3. Seen' \subseteq Seen
    BY DEF Seen
  <1>4. OneHome'
    BY <1>2 DEF OneHome, Coherent
  <1>5. DrawnFits'
    BY <1>1, <1>2, <1>3 DEF DrawnFits, Coherent
  <1>6. ServerFits'
    BY <1>1 DEF ServerFits, Coherent
  <1>7. CallFits'
    BY <1>1, <1>3 DEF CallFits, Coherent
  <1>8. ObjectFits'
    BY <1>1 DEF ObjectFits, Coherent
  <1>9. Complete => Complete'
    BY <1>1 DEF Complete, Hides, Ghosts
  <1> QED BY <1>1, <1>2, <1>4, <1>5, <1>6, <1>7, <1>8, <1>9 DEF Kept, HomeStep, Coherent

\* saveLesson, deleteLesson and deleteModule, sent.
LEMMA SentKept ==
  ASSUME Shaped, Coherent, NEW c \in Calls,
         SaveLesson(c) \/ DeleteLesson(c) \/ \E m \in Modules : DeleteModule(c, m)
  PROVE  Kept
  <1> USE DEF server, lists, panel, history
  <1>0. DataTyped /\ call \in [Calls -> CallType] /\ OneSave /\ FormShape
    BY ShapedIs DEF Shaped
  <1>1. UNCHANGED <<place, row, drawn, order, lessonsOf, lesson, selected, form, lost>>
    BY DEF SaveLesson, DeleteLesson, DeleteModule
  <1>2. ~saving => \A d \in Calls \ {c} : call[d].op \notin Saves
    BY <1>0 DEF OneSave
  <1>a. Idle.op = "none" /\ Idle.st = "idle"
    BY DEF Idle
  <1>b. <<>> \in Seq(Modules \cup Lessons) /\ None \in Lessons \cup {None} /\ None \in Files \cup {None}
    OBVIOUS
  <1>3. CASE SaveLesson(c)
    <2>1. PICK op, m, x, f :
            op \in {"createLesson", "updateLesson"} /\ m = form.mod /\ x = form.lesson /\ f = form.video /\ Send(c, op, m, x, f, <<>>)
      BY <1>3 DEF SaveLesson
    <2>2. /\ m \in Modules \cup {None} /\ x \in Lessons \cup {None} /\ f \in Files \cup {None} /\ op \in Ops
          /\ ~saving
      BY <1>0, <1>3, <2>1 DEF DataTyped, FormType, Ops, Saves, SaveLesson
    <2>3. PICK q : q = [op |-> op, mod |-> m, lesson |-> x, file |-> f, ids |-> <<>>, st |-> "sent"]
      OBVIOUS
    <2>4. call[c] = Idle /\ Turns(c, q)
      BY <1>0, <1>b, <2>1, <2>2, <2>3, SendTurns
    <2>5. /\ q.op \in {"createLesson", "updateLesson"} /\ q.mod = m /\ q.lesson = x /\ q.st = "sent"
      BY <2>1, <2>3
    <2>6. UNCHANGED LeaveSets
      BY <1>a, <2>4, <2>5, StaysTurn
    <2>7. /\ UNCHANGED <<Created, Written, Coming, Going>> /\ Deleting' = Deleting
          /\ Aimed' = AimedBy(q) /\ Writing' = WritingBy(q)
      <3>1. /\ CreatedBy(Idle) = {} /\ WrittenBy(Idle) = {} /\ ComingBy(Idle) = {} /\ GoingBy(Idle) = {}
            /\ DeletingBy(Idle) = {}
        BY <1>a DEF CreatedBy, WrittenBy, WritingBy, ComingBy, GoingBy, DeletingBy
      <3>2. /\ CreatedBy(q) = {} /\ WrittenBy(q) = {} /\ ComingBy(q) = {} /\ GoingBy(q) = {}
            /\ DeletingBy(q) = {}
        BY <2>5 DEF CreatedBy, WrittenBy, WritingBy, ComingBy, GoingBy, DeletingBy
      <3> QED BY <1>2, <2>2, <2>4, <3>1, <3>2, SavesTurn
    <2>8. AimedBy(q) \subseteq {form.mod} \cap Modules /\ WritingBy(q) \subseteq InForm
      BY <2>1, <2>5 DEF AimedBy, WritingBy, InForm
    <2> QED BY <1>1, <2>6, <2>7, <2>8, SendKept DEF LeaveSets
  <1>4. CASE DeleteLesson(c)
    <2>1. PICK m, x : m = selected.mod /\ x = selected.lesson /\ Send(c, "deleteLesson", m, x, None, <<>>)
      BY <1>4 DEF DeleteLesson
    <2>2. /\ m \in Modules \cup {None} /\ x \in Lessons \cup {None} /\ "deleteLesson" \in Ops
          /\ ~saving /\ x # None
      BY <1>0, <1>4, <2>1 DEF DataTyped, Ops, Saves, DeleteLesson
    <2>3. PICK q : q = [op |-> "deleteLesson", mod |-> m, lesson |-> x, file |-> None, ids |-> <<>>, st |-> "sent"]
      OBVIOUS
    <2>4. call[c] = Idle /\ Turns(c, q)
      BY <1>0, <1>b, <2>1, <2>2, <2>3, SendTurns
    <2>5. q.op = "deleteLesson" /\ q.mod = m /\ q.lesson = x /\ q.st = "sent"
      BY <2>3
    <2>6. UNCHANGED LeaveSets
      BY <1>a, <2>4, <2>5, StaysTurn
    <2>7. /\ UNCHANGED <<Created, Written, Coming, Going, Aimed, Writing>> /\ Deleting' = DeletingBy(q)
      <3>1. /\ CreatedBy(Idle) = {} /\ WrittenBy(Idle) = {} /\ ComingBy(Idle) = {} /\ GoingBy(Idle) = {}
            /\ AimedBy(Idle) = {} /\ WritingBy(Idle) = {}
        BY <1>a DEF CreatedBy, WrittenBy, WritingBy, ComingBy, GoingBy, AimedBy
      <3>2. /\ CreatedBy(q) = {} /\ WrittenBy(q) = {} /\ ComingBy(q) = {} /\ GoingBy(q) = {}
            /\ AimedBy(q) = {} /\ WritingBy(q) = {}
        BY <2>5 DEF CreatedBy, WrittenBy, WritingBy, ComingBy, GoingBy, AimedBy
      <3> QED BY <1>2, <2>2, <2>4, <3>1, <3>2, SavesTurn
    <2>8. x \in drawn /\ m = lesson[x].mod
      BY <2>1, <2>2 DEF Coherent, DrawnFits, ObjectFits
    <2>9. \A p \in Deleting' : p[1] = x /\ p[2] = m
      BY <2>5, <2>7 DEF DeletingBy
    <2> QED BY <1>1, <2>6, <2>7, <2>8, <2>9, SendKept DEF LeaveSets
  <1>5. ASSUME NEW m \in Modules, DeleteModule(c, m) PROVE Kept
    <2>1. m \in Range(order) /\ Send(c, "deleteModule", m, None, None, <<>>)
      BY <1>5 DEF DeleteModule
    <2>2. "deleteModule" \in Ops /\ "deleteModule" \notin Saves /\ m \in Modules \cup {None}
      BY DEF Ops, Saves
    <2>3. PICK q : q = [op |-> "deleteModule", mod |-> m, lesson |-> None, file |-> None, ids |-> <<>>, st |-> "sent"]
      OBVIOUS
    <2>4. call[c] = Idle /\ Turns(c, q)
      BY <1>0, <1>b, <2>1, <2>2, <2>3, SendTurns
    <2>5. q.op = "deleteModule" /\ q.mod = m /\ q.st = "sent"
      BY <2>3
    <2>6. UNCHANGED SaveSets
      BY <1>a, <2>2, <2>4, <2>5, OthersTurn DEF Saves
    <2>7. LeavingBy(Idle) = {} /\ LeavingBy(q) = {} /\ PartingBy(q) \subseteq Range(order)
      BY <1>a, <2>1, <2>5 DEF LeavingBy, PartingBy
    <2>8. Leaving' = Leaving /\ Parting' \subseteq Parting \cup Range(order)
      BY <2>4, <2>7, PartsTurn
    <2> QED BY <1>1, <2>6, <2>8, SendKept DEF SaveSets
  <1> QED BY <1>3, <1>4, <1>5

-----------------------------------------------------------------------------
(* Lists: the server                                                       *)

\* A save is the only one.
LEMMA OnlySave ==
  ASSUME Shaped, NEW c \in Calls, call[c].op \in Saves
  PROVE  \A d \in Calls \ {c} : call[d].op \notin Saves
  BY ShapedIs DEF OneSave

\* createModule takes effect: the module is new to all.
LEMMA CreateModuleKept ==
  ASSUME Shaped, Coherent, NEW c \in Calls, ServeCreateModule(c)
  PROVE  Kept
  <1> USE DEF lists, panel
  <1>0. DataTyped /\ call \in [Calls -> CallType]
    BY ShapedIs
  <1>1. PICK m, n :
          /\ m \in Modules \ drawn
          /\ n = NextIndex({place[k] : k \in Modules} \ {Absent})
          /\ place' = [place EXCEPT ![m] = n] /\ drawn' = drawn \cup {m} /\ Reply(c, m, None)
    BY DEF ServeCreateModule
  <1>2. n \in Nat
    <2>1. PICK S : S = {place[k] : k \in Modules} OBVIOUS
    <2>2. place \in [Modules -> Nat \cup {Absent}] /\ IsFiniteSet(Modules)
      BY <1>0, FiniteAssumption DEF DataTyped
    <2>3. IsFiniteSet(S)
      BY <2>1, <2>2, ImageFinite
    <2>4. IsFiniteSet(S \ {Absent})
      BY <2>3, FS_Difference
    <2>5. S \ {Absent} \subseteq Nat
      BY <2>1, <2>2
    <2> QED BY <1>1, <2>1, <2>4, <2>5, NextIndexIs
  <1>3. UNCHANGED <<row, order, lessonsOf, lesson, selected, form>>
    BY <1>1 DEF ServeCreateModule, Reply, Replies
  <1>4. Replies(c, m, None) /\ m \in Modules \cup {None}
    BY <1>1 DEF Reply
  <1>5. PICK q : /\ Turns(c, q) /\ q.op = call[c].op /\ q.mod = m /\ q.lesson = None
                 /\ q.st \in {"ok", "error"} /\ lost' = (lost \/ q.st = "error")
    BY <1>0, <1>4, ReplyTurns
  <1>6. call[c].op = "createModule" /\ call[c].op \in Saves /\ call[c].st = "sent"
    BY DEF ServeCreateModule, Serves, Saves
  <1>7. UNCHANGED LeaveSets
    BY <1>5, <1>6, StaysTurn
  <1>8. /\ Created = {} /\ Created' = CreatedBy(q)
        /\ Aimed = {} /\ Aimed' = {} /\ Writing = {} /\ Writing' = {} /\ Written' = {}
        /\ Coming = {} /\ Coming' = {} /\ Deleting' = {} /\ Going = {} /\ Going' = {}
    <2>1. /\ CreatedBy(call[c]) = {} /\ AimedBy(call[c]) = {} /\ WritingBy(call[c]) = {}
          /\ ComingBy(call[c]) = {} /\ GoingBy(call[c]) = {}
      BY <1>6 DEF CreatedBy, AimedBy, WritingBy, ComingBy, WrittenBy, GoingBy
    <2>2. /\ AimedBy(q) = {} /\ WritingBy(q) = {} /\ WrittenBy(q) = {} /\ ComingBy(q) = {}
          /\ DeletingBy(q) = {} /\ GoingBy(q) = {}
      BY <1>5, <1>6 DEF AimedBy, WritingBy, ComingBy, WrittenBy, DeletingBy, GoingBy
    <2>3. \A d \in Calls \ {c} : call[d].op \notin Saves
      BY <1>6, OnlySave
    <2> QED BY <1>5, <2>1, <2>2, <2>3, SavesTurn
  <1>9. CreatedBy(q) = IF q.st = "ok" THEN {m} ELSE {}
    BY <1>1, <1>5, <1>6 DEF CreatedBy
  <1>10. Standing' = Standing \cup {m} /\ m \notin drawn
    <2>1. n # Absent
      BY <1>2 DEF Absent
    <2>2. \A k \in Modules : place'[k] = IF k = m THEN n ELSE place[k]
      BY <1>0, <1>1 DEF DataTyped
    <2> QED BY <1>1, <2>1, <2>2 DEF Standing
  <1>11. InCourse' = InCourse /\ Shown' = Shown /\ Object' = Object /\ InForm' = InForm /\ Distinct'
    BY <1>3, SetsStay DEF Coherent
  <1>12. Home' = Home
    BY <1>8, <1>11 DEF Home
  <1>13. Seen' = Seen
    BY <1>3, <1>7, <1>8 DEF Seen, LeaveSets
  <1>14. OneHome'
    BY <1>12 DEF OneHome, Coherent
  <1>15. DrawnFits'
    BY <1>1, <1>3, <1>8, <1>10, <1>12, <1>13 DEF DrawnFits, Coherent
  <1>16. ServerFits'
    BY <1>10, <1>11 DEF ServerFits, Coherent
  <1>17. CallFits'
    <2>1. Leaving \subseteq Seen
      BY DEF Seen, Parting, Leaving, LeavingBy
    <2>2. m \notin Seen
      BY <1>10 DEF Coherent, DrawnFits
    <2> QED BY <1>7, <1>8, <1>9, <1>10, <1>13, <2>1, <2>2 DEF CallFits, Coherent, LeaveSets
  <1>18. ObjectFits'
    BY <1>3, <1>11 DEF ObjectFits, Coherent
  <1>19. Complete => Complete'
    BY <1>3, <1>5, <1>7, <1>8, <1>9, <1>10, <1>11 DEF Complete, Hides, Ghosts, LeaveSets
  <1> QED BY <1>1, <1>11, <1>12, <1>14, <1>15, <1>16, <1>17, <1>18, <1>19 DEF Kept, HomeStep, Coherent

\* deleteModule takes effect: the lessons go with their module.
LEMMA DeleteModuleKept ==
  ASSUME Shaped, Coherent, NEW c \in Calls, ServeDeleteModule(c)
  PROVE  Kept
  <1> USE DEF lists, panel
  <1>0. DataTyped /\ call \in [Calls -> CallType] /\ ShapeOf(call[c])
    BY ShapedIs
  <1>1. PICK m : /\ m = call[c].mod /\ Reply(c, m, None)
                 /\ place' = [place EXCEPT ![m] = Absent]
                 /\ row' = [x \in Lessons |-> IF x \in InModule(m) THEN NoRow ELSE row[x]]
    BY DEF ServeDeleteModule
  <1>2. call[c].op = "deleteModule" /\ call[c].op \notin Saves /\ call[c].st = "sent"
    BY DEF ServeDeleteModule, Serves, Saves
  <1>3. m \in Modules
    BY <1>0, <1>1, <1>2 DEF ShapeOf
  <1>4. UNCHANGED <<drawn, order, lessonsOf, lesson, selected, form>>
    BY <1>1 DEF ServeDeleteModule, Reply, Replies
  <1>5. Replies(c, m, None) /\ m \in Modules \cup {None}
    BY <1>1, <1>3 DEF Reply
  <1>6. PICK q : /\ Turns(c, q) /\ q.op = call[c].op /\ q.mod = m
                 /\ q.st \in {"ok", "error"} /\ lost' = (lost \/ q.st = "error")
    BY <1>0, <1>5, ReplyTurns
  <1>7. UNCHANGED SaveSets
    BY <1>2, <1>6, OthersTurn
  <1>8. PartingBy(call[c]) = {m} /\ PartingBy(q) = {m} /\ LeavingBy(call[c]) = {}
    BY <1>1, <1>2, <1>3, <1>6 DEF PartingBy, LeavingBy
  <1>9. LeavingBy(q) = IF q.st = "ok" THEN {m} ELSE {}
    BY <1>2, <1>3, <1>6 DEF PartingBy, LeavingBy
  <1>10. /\ Parting' \subseteq Parting /\ m \in Parting
         /\ Leaving' \subseteq Leaving \cup {m} /\ Leaving \subseteq Leaving'
         /\ q.st = "ok" => m \in Leaving'
    BY <1>6, <1>8, <1>9, PartsTurn
  <1>11. Standing' = Standing \ {m}
    BY <1>0, <1>1, <1>3 DEF Standing, DataTyped
  <1>12. InCourse' = {p \in InCourse : p[2] # m}
    <2>1. \A x \in Lessons : row'[x].mod = IF row[x].mod = m THEN None ELSE row[x].mod
      BY <1>1 DEF InModule, NoRow
    <2> QED BY <2>1, <1>3, BuilderAssumption DEF InCourse
  <1>13. Shown' = Shown /\ Object' = Object /\ InForm' = InForm /\ Distinct'
    BY <1>4, SetsStay DEF Coherent
  <1>14. Home' \subseteq Home
    BY <1>7, <1>12, <1>13 DEF Home, SaveSets
  <1>15. Seen' \subseteq Seen /\ m \in Seen
    BY <1>4, <1>7, <1>10 DEF Seen, SaveSets
  <1>16. OneHome'
    BY <1>14 DEF OneHome, Coherent
  <1>17. DrawnFits'
    BY <1>4, <1>7, <1>11, <1>14, <1>15 DEF DrawnFits, Coherent, SaveSets
  <1>18. ServerFits'
    BY <1>11, <1>12 DEF ServerFits, Coherent
  <1>19. CallFits'
    BY <1>4, <1>7, <1>10, <1>11, <1>12, <1>13, <1>15 DEF CallFits, Coherent, SaveSets
  <1>20. ObjectFits'
    BY <1>4, <1>13 DEF ObjectFits, Coherent
  <1>21. Complete => Complete'
    <2> SUFFICES ASSUME Complete, ~lost' PROVE Hides' /\ Ghosts'
      BY DEF Complete
    <2>1. ~lost /\ q.st = "ok" /\ Hides /\ Ghosts
      BY <1>0, <1>6 DEF Complete, DataTyped
    <2>2. Hides'
      BY <1>4, <1>7, <1>11, <1>12, <1>13, <2>1 DEF Hides, SaveSets
    <2>3. Range(order') \subseteq Standing' \cup Leaving'
      BY <1>4, <1>10, <1>11, <2>1 DEF Ghosts
    <2>4. ASSUME NEW p \in Shown \cap Object
          PROVE  (\E k \in Modules : <<p[1], k>> \in InCourse') \/ p[1] \in Going' \/ p[2] \in Leaving'
      <3>1. CASE p[1] \in Going \/ p[2] \in Leaving
        BY <1>7, <1>10, <3>1 DEF SaveSets
      <3>2. ASSUME NEW k \in Modules, <<p[1], k>> \in InCourse
            PROVE  <<p[1], k>> \in InCourse' \/ p[2] \in Leaving'
        <4>1. CASE k # m
          BY <1>12, <3>2, <4>1
        <4>2. CASE k = m
          <5>1. <<p[1], m>> \in Home /\ p \in Home
            BY <3>2, <4>2 DEF Home
          <5>2. p[2] = m
            BY <5>1 DEF OneHome, Coherent
          <5> QED BY <1>10, <2>1, <5>2
        <4> QED BY <4>1, <4>2
      <3> QED BY <2>1, <3>1, <3>2 DEF Ghosts
    <2> QED BY <1>13, <2>2, <2>3, <2>4 DEF Ghosts
  <1> QED BY <1>4, <1>13, <1>14, <1>16, <1>17, <1>18, <1>19, <1>20, <1>21 DEF Kept, HomeStep, Coherent

\* createLesson takes effect: the lesson is new to all, its module is there.
LEMMA CreateLessonKept ==
  ASSUME Shaped, Coherent, NEW c \in Calls, ServeCreateLesson(c)
  PROVE  Kept
  <1> USE DEF lists, panel
  <1>0. DataTyped /\ call \in [Calls -> CallType] /\ ShapeOf(call[c])
    BY ShapedIs
  <1>a. call[c].op = "createLesson" /\ call[c].op \in Saves /\ call[c].st = "sent"
    BY DEF ServeCreateLesson, Serves, Saves
  <1>b. PICK m \in Modules : m = call[c].mod
    BY <1>0, <1>a DEF ShapeOf
  <1>1. PICK x, new :
          /\ x \in Lessons \ drawn /\ new.mod = m
          /\ row' = [row EXCEPT ![x] = new]
          /\ drawn' = drawn \cup {x} /\ Reply(c, m, x)
    <2>1. PICK f, n : f = call[c].file /\ n = NextIndex({row[y].index : y \in InModule(m)})
      OBVIOUS
    <2>2. \E x \in Lessons \ drawn :
            /\ row' = [row EXCEPT ![x] = [mod |-> m, video |-> f, pdfs |-> {}, index |-> n]]
            /\ drawn' = drawn \cup {x} /\ Reply(c, m, x)
      BY <1>b, <2>1 DEF ServeCreateLesson
    <2> QED BY <2>2
  <1>2. UNCHANGED <<place, order, lessonsOf, lesson, selected, form>> /\ m \in Standing
    BY <1>1, <1>b DEF ServeCreateLesson, Reply, Replies, Standing
  <1>3. Replies(c, m, x) /\ m \in Modules \cup {None} /\ x \in Lessons \cup {None}
    BY <1>1 DEF Reply
  <1>4. PICK q : /\ Turns(c, q) /\ q.op = call[c].op /\ q.mod = m /\ q.lesson = x
                 /\ q.st \in {"ok", "error"} /\ lost' = (lost \/ q.st = "error")
    BY <1>0, <1>3, ReplyTurns
  <1>5. UNCHANGED LeaveSets
    BY <1>4, <1>a, StaysTurn
  <1>6. /\ Created' = {} /\ Aimed = {m} /\ Aimed' = {m} /\ Writing' = {<<x, m>>}
        /\ Written' = WrittenBy(q) /\ Coming = {} /\ Coming' = ComingBy(q)
        /\ Deleting' = {} /\ Going = {} /\ Going' = {}
    <2>1. /\ AimedBy(call[c]) = {m} /\ ComingBy(call[c]) = {} /\ GoingBy(call[c]) = {}
      BY <1>a, <1>b DEF AimedBy, ComingBy, WrittenBy, GoingBy
    <2>2. /\ CreatedBy(q) = {} /\ AimedBy(q) = {m} /\ DeletingBy(q) = {} /\ GoingBy(q) = {}
      BY <1>a, <1>4 DEF CreatedBy, AimedBy, DeletingBy, GoingBy
    <2>3. WritingBy(q) = {<<x, m>>}
      BY <1>a, <1>1, <1>4 DEF WritingBy
    <2>4. \A d \in Calls \ {c} : call[d].op \notin Saves
      BY <1>a, OnlySave
    <2> QED BY <1>4, <2>1, <2>2, <2>3, <2>4, SavesTurn
  <1>7. /\ WrittenBy(q) \subseteq {<<x, m>>} /\ ComingBy(q) \subseteq {<<x, m>>}
        /\ q.st = "ok" => <<x, m>> \in ComingBy(q)
    BY <1>a, <1>1, <1>4 DEF WritingBy, WrittenBy, ComingBy
  <1>8. x \notin drawn /\ \A p \in Home : p[1] # x
    BY <1>1 DEF Coherent, DrawnFits
  <1>9. InCourse' = InCourse \cup {<<x, m>>}
    <2>1. \A y \in Lessons : row'[y].mod = IF y = x THEN m ELSE row[y].mod
      BY <1>0, <1>1 DEF DataTyped
    <2>2. \A p \in InCourse : p[1] # x
      BY <1>8 DEF Home
    <2> QED BY <1>1, <2>1, <2>2 DEF InCourse
  <1>10. Standing' = Standing /\ Shown' = Shown /\ Object' = Object /\ InForm' = InForm /\ Distinct'
    BY <1>2, SetsStay DEF Coherent
  <1>11. Home' \subseteq Home \cup {<<x, m>>}
    BY <1>6, <1>9, <1>10 DEF Home
  <1>12. Seen' = Seen
    BY <1>2, <1>5, <1>6 DEF Seen, LeaveSets
  <1>13. OneHome'
    BY <1>8, <1>11 DEF OneHome, Coherent
  <1>14. DrawnFits'
    BY <1>1, <1>2, <1>6, <1>10, <1>11, <1>12 DEF DrawnFits, Coherent
  <1>15. ServerFits'
    BY <1>2, <1>9, <1>10 DEF ServerFits, Coherent
  <1>16. CallFits'
    <2>1. <<x, m>> \notin Shown
      BY <1>8 DEF Home
    <2> QED BY <1>2, <1>5, <1>6, <1>7, <1>9, <1>10, <1>12, <2>1 DEF CallFits, Coherent, LeaveSets
  <1>17. ObjectFits'
    BY <1>2, <1>10 DEF ObjectFits, Coherent
  <1>18. Complete => Complete'
    <2> SUFFICES ASSUME Complete, ~lost' PROVE Hides' /\ Ghosts'
      BY DEF Complete
    <2>1. ~lost /\ q.st = "ok" /\ Hides /\ Ghosts
      BY <1>0, <1>4 DEF Complete, DataTyped
    <2>2. Created = {}
      <3>1. CreatedBy(call[c]) = {} /\ \A d \in Calls \ {c} : call[d].op \notin Saves
        BY <1>a, OnlySave DEF CreatedBy
      <3> QED BY <1>4, <3>1, SavesTurn
    <2>3. Hides'
      BY <1>2, <1>6, <1>7, <1>9, <1>10, <2>1, <2>2 DEF Hides
    <2>4. Ghosts'
      BY <1>2, <1>5, <1>6, <1>9, <1>10, <2>1 DEF Ghosts, LeaveSets
    <2> QED BY <2>3, <2>4
  <1> QED BY <1>1, <1>8, <1>10, <1>11, <1>13, <1>14, <1>15, <1>16, <1>17, <1>18 DEF Kept, HomeStep, Coherent

\* updateLesson takes effect: the lesson stays where it is.
LEMMA UpdateLessonKept ==
  ASSUME Shaped, Coherent, NEW c \in Calls, ServeUpdateLesson(c)
  PROVE  Kept
  <1> USE DEF lists, panel
  <1>0. DataTyped /\ call \in [Calls -> CallType] /\ ShapeOf(call[c]) /\ row \in [Lessons -> RowType]
    BY ShapedIs DEF DataTyped
  <1>a. call[c].op = "updateLesson" /\ call[c].op \in Saves /\ call[c].st = "sent"
    BY DEF ServeUpdateLesson, Serves, Saves
  <1>b. PICK m \in Modules, x \in Lessons : m = call[c].mod /\ x = call[c].lesson
    BY <1>0, <1>a DEF ShapeOf
  <1>1. PICK f : /\ row' = [row EXCEPT ![x].video = f] /\ Reply(c, m, x) /\ row[x] # NoRow
    BY <1>b DEF ServeUpdateLesson
  <1>2. UNCHANGED <<place, drawn, order, lessonsOf, lesson, selected, form>>
    BY <1>1, <1>b DEF ServeUpdateLesson, Reply, Replies
  <1>3. Replies(c, m, x) /\ m \in Modules \cup {None} /\ x \in Lessons \cup {None}
    BY <1>1 DEF Reply
  <1>4. PICK q : /\ Turns(c, q) /\ q.op = call[c].op /\ q.mod = m /\ q.lesson = x
                 /\ q.st \in {"ok", "error"} /\ lost' = (lost \/ q.st = "error")
    BY <1>0, <1>3, ReplyTurns
  <1>5. UNCHANGED LeaveSets
    BY <1>4, <1>a, StaysTurn
  <1>6. /\ Created = {} /\ Created' = {} /\ Aimed' = Aimed /\ Writing = {<<x, m>>} /\ Writing' = {<<x, m>>}
        /\ Written' = WrittenBy(q) /\ Coming = {} /\ Coming' = {}
        /\ Deleting' = {} /\ Going = {} /\ Going' = {}
    <2>1. /\ CreatedBy(call[c]) = {} /\ AimedBy(call[c]) = {m} /\ ComingBy(call[c]) = {} /\ GoingBy(call[c]) = {}
      BY <1>a, <1>b DEF CreatedBy, AimedBy, ComingBy, WrittenBy, GoingBy
    <2>2. /\ CreatedBy(q) = {} /\ AimedBy(q) = {m} /\ DeletingBy(q) = {} /\ GoingBy(q) = {} /\ ComingBy(q) = {}
      BY <1>a, <1>4 DEF CreatedBy, AimedBy, DeletingBy, GoingBy, ComingBy
    <2>3. WritingBy(call[c]) = {<<x, m>>} /\ WritingBy(q) = {<<x, m>>}
      BY <1>a, <1>b, <1>4 DEF WritingBy
    <2>4. \A d \in Calls \ {c} : call[d].op \notin Saves
      BY <1>a, OnlySave
    <2>5. Turns(c, q)
      BY <1>4
    <2>6. Aimed' = Aimed /\ Writing = {<<x, m>>} /\ Writing' = {<<x, m>>}
      BY <2>1, <2>2, <2>3, <2>4, <2>5, SavesTurn
    <2>7. /\ Created = {} /\ Created' = {} /\ Written' = WrittenBy(q) /\ Coming = {} /\ Coming' = {}
          /\ Deleting' = {} /\ Going = {} /\ Going' = {}
      BY <2>1, <2>2, <2>4, <2>5, SavesTurn
    <2> QED BY <2>6, <2>7
  <1>7. WrittenBy(q) \subseteq {<<x, m>>}
    BY <1>a, <1>4 DEF WritingBy, WrittenBy
  <1>8. InCourse' = InCourse
    <2>1. \A y \in Lessons : row'[y].mod = row[y].mod
      BY <1>0, <1>1 DEF RowType
    <2> QED BY <2>1 DEF InCourse
  <1>9. <<x, m>> \in InCourse
    <2>1. PICK k \in Modules : k = row[x].mod
      BY <1>0, <1>1 DEF DataTyped, Indexed
    <2>2. <<x, k>> \in InCourse
      BY <2>1 DEF InCourse
    <2>3. <<x, k>> \in Home /\ <<x, m>> \in Home
      BY <1>6, <2>2 DEF Home
    <2>4. k = m
      BY <2>3 DEF OneHome, Coherent
    <2> QED BY <2>2, <2>4
  <1>10. /\ Standing' = Standing /\ Shown' = Shown /\ Object' = Object /\ InForm' = InForm /\ Distinct'
    BY <1>2, SetsStay DEF Coherent
  <1>11. Home' = Home
    BY <1>6, <1>8, <1>10 DEF Home
  <1>12. Seen' = Seen
    BY <1>2, <1>5, <1>6 DEF Seen, LeaveSets
  <1>13. OneHome'
    BY <1>11 DEF OneHome, Coherent
  <1>14. DrawnFits'
    BY <1>2, <1>6, <1>10, <1>11, <1>12 DEF DrawnFits, Coherent
  <1>15. ServerFits'
    BY <1>8, <1>10 DEF ServerFits, Coherent
  <1>16. CallFits'
    BY <1>2, <1>5, <1>6, <1>7, <1>8, <1>9, <1>10, <1>12 DEF CallFits, Coherent, LeaveSets
  <1>17. ObjectFits'
    BY <1>2, <1>10 DEF ObjectFits, Coherent
  <1>18. Complete => Complete'
    BY <1>2, <1>4, <1>5, <1>6, <1>8, <1>10 DEF Complete, Hides, Ghosts, LeaveSets
  <1> QED BY <1>2, <1>10, <1>11, <1>13, <1>14, <1>15, <1>16, <1>17, <1>18 DEF Kept, HomeStep, Coherent

\* deleteLesson takes effect.
LEMMA DeleteLessonKept ==
  ASSUME Shaped, Coherent, NEW c \in Calls, ServeDeleteLesson(c)
  PROVE  Kept
  <1> USE DEF lists, panel
  <1>0. DataTyped /\ call \in [Calls -> CallType] /\ ShapeOf(call[c]) /\ call[c] \in CallType
    BY ShapedIs
  <1>a. call[c].op = "deleteLesson" /\ call[c].op \in Saves /\ call[c].st = "sent"
    BY DEF ServeDeleteLesson, Serves, Saves
  <1>b. PICK m \in Modules \cup {None} : m = call[c].mod
    BY <1>0 DEF CallType
  <1>c. PICK x \in Lessons : x = call[c].lesson
    BY <1>0, <1>a DEF ShapeOf
  <1>1. row' = [row EXCEPT ![x] = NoRow] /\ Reply(c, m, x)
    BY <1>b, <1>c DEF ServeDeleteLesson
  <1>2. UNCHANGED <<place, drawn, order, lessonsOf, lesson, selected, form>>
    BY <1>1 DEF ServeDeleteLesson, Reply, Replies
  <1>3. Replies(c, m, x) /\ x \in Lessons \cup {None}
    BY <1>1 DEF Reply
  <1>4. PICK q : /\ Turns(c, q) /\ q.op = call[c].op /\ q.mod = m /\ q.lesson = x
                 /\ q.st \in {"ok", "error"} /\ lost' = (lost \/ q.st = "error")
    BY <1>0, <1>3, ReplyTurns
  <1>5. UNCHANGED LeaveSets
    BY <1>4, <1>a, StaysTurn
  <1>6. /\ Created = {} /\ Created' = {} /\ Aimed' = {} /\ Writing' = {}
        /\ Written' = {} /\ Coming = {} /\ Coming' = {}
        /\ Deleting' = Deleting /\ Going = {} /\ Going' = GoingBy(q)
    <2>1. /\ CreatedBy(call[c]) = {} /\ ComingBy(call[c]) = {} /\ GoingBy(call[c]) = {}
      BY <1>a DEF CreatedBy, ComingBy, WrittenBy, GoingBy
    <2>2. /\ CreatedBy(q) = {} /\ AimedBy(q) = {} /\ WritingBy(q) = {} /\ ComingBy(q) = {} /\ WrittenBy(q) = {}
      BY <1>a, <1>4 DEF CreatedBy, AimedBy, ComingBy, WrittenBy, WritingBy
    <2>3. DeletingBy(q) = DeletingBy(call[c])
      BY <1>a, <1>b, <1>c, <1>4 DEF DeletingBy
    <2>4. \A d \in Calls \ {c} : call[d].op \notin Saves
      BY <1>a, OnlySave
    <2> QED BY <1>4, <2>1, <2>2, <2>3, <2>4, SavesTurn
  <1>7. GoingBy(q) = IF q.st = "ok" THEN {x} ELSE {}
    BY <1>a, <1>4 DEF GoingBy
  <1>8. InCourse' = {p \in InCourse : p[1] # x}
    <2>1. \A y \in Lessons : row'[y].mod = IF y = x THEN None ELSE row[y].mod
      BY <1>0, <1>1 DEF DataTyped, NoRow
    <2> QED BY <2>1, BuilderAssumption DEF InCourse
  <1>9. /\ Standing' = Standing /\ Shown' = Shown /\ Object' = Object /\ InForm' = InForm /\ Distinct'
    BY <1>2, SetsStay DEF Coherent
  <1>10. Home' \subseteq Home
    BY <1>6, <1>8, <1>9 DEF Home
  <1>11. Seen' \subseteq Seen
    BY <1>2, <1>5, <1>6 DEF Seen, LeaveSets
  <1>12. OneHome'
    BY <1>10 DEF OneHome, Coherent
  <1>13. DrawnFits'
    BY <1>2, <1>6, <1>9, <1>10, <1>11 DEF DrawnFits, Coherent
  <1>14. ServerFits'
    BY <1>8, <1>9 DEF ServerFits, Coherent
  <1>15. CallFits'
    BY <1>2, <1>5, <1>6, <1>7, <1>8, <1>9, <1>11 DEF CallFits, Coherent, LeaveSets
  <1>16. ObjectFits'
    BY <1>2, <1>9 DEF ObjectFits, Coherent
  <1>17. Complete => Complete'
    <2> SUFFICES ASSUME Complete, ~lost' PROVE Hides' /\ Ghosts'
      BY DEF Complete
    <2>1. ~lost /\ q.st = "ok" /\ Hides /\ Ghosts
      BY <1>0, <1>4 DEF Complete, DataTyped
    <2>2. Hides'
      BY <1>2, <1>6, <1>8, <1>9, <2>1 DEF Hides
    <2>3. Range(order') \subseteq Standing' \cup Leaving'
      BY <1>2, <1>5, <1>9, <2>1 DEF Ghosts, LeaveSets
    <2>4. ASSUME NEW p \in Shown \cap Object
          PROVE  (\E k \in Modules : <<p[1], k>> \in InCourse') \/ p[1] \in Going' \/ p[2] \in Leaving'
      <3>1. CASE p[1] = x
        BY <1>6, <1>7, <2>1, <3>1
      <3>2. CASE p[1] # x
        BY <1>5, <1>6, <1>8, <2>1, <3>2 DEF Ghosts, LeaveSets
      <3> QED BY <3>1, <3>2
    <2> QED BY <1>9, <2>2, <2>3, <2>4 DEF Ghosts
  <1> QED BY <1>2, <1>9, <1>10, <1>12, <1>13, <1>14, <1>15, <1>16, <1>17 DEF Kept, HomeStep, Coherent

-----------------------------------------------------------------------------
(* Lists: the answers                                                      *)

\* A save is over.
LEMMA SaveEnds ==
  ASSUME Shaped, NEW c \in Calls, Close(c), call[c].op \in Saves
  PROVE  /\ Created' = {} /\ Aimed' = {} /\ Writing' = {} /\ Written' = {}
         /\ Coming' = {} /\ Deleting' = {} /\ Going' = {}
         /\ UNCHANGED LeaveSets
  <1>1. Turns(c, Idle)
    BY ShapedIs, CloseTurns
  <1>2. Idle.op = "none" /\ Idle.st = "idle"
    BY DEF Idle
  <1>3. \A d \in Calls \ {c} : call[d].op \notin Saves
    BY OnlySave
  <1>4. /\ CreatedBy(Idle) = {} /\ AimedBy(Idle) = {} /\ WritingBy(Idle) = {} /\ WrittenBy(Idle) = {}
        /\ ComingBy(Idle) = {} /\ DeletingBy(Idle) = {} /\ GoingBy(Idle) = {}
    BY <1>2 DEF CreatedBy, AimedBy, WritingBy, WrittenBy, ComingBy, DeletingBy, GoingBy
  <1>5. /\ Created' = {} /\ Aimed' = {} /\ Writing' = {} /\ Written' = {}
        /\ Coming' = {} /\ Deleting' = {} /\ Going' = {}
    BY <1>1, <1>3, <1>4, SavesTurn
  <1>6. UNCHANGED LeaveSets
    BY <1>1, <1>2, StaysTurn DEF Saves
  <1> QED BY <1>5, <1>6

\* saveModule: the module that was created comes into the list.
LEMMA SavedModuleKept ==
  ASSUME Shaped, Coherent, NEW c \in Calls, SavedModule(c), call[c].op = "createModule"
  PROVE  Kept
  <1> USE DEF server, history
  <1>0. DataTyped /\ call \in [Calls -> CallType] /\ ShapeOf(call[c])
    BY ShapedIs
  <1>1. call[c].st = "ok" /\ call[c].op \in Saves
    BY DEF SavedModule, Answers, Saves
  <1>2. PICK m \in Modules : m = call[c].mod
    BY <1>0, <1>1 DEF ShapeOf
  <1>3. /\ order' = Append(order, m) /\ lessonsOf' = [lessonsOf EXCEPT ![m] = <<>>] /\ Close(c)
        /\ UNCHANGED <<place, row, drawn, lesson, selected, form, lost>>
    BY <1>2 DEF SavedModule
  <1>4. /\ Created' = {} /\ Aimed' = {} /\ Writing' = {} /\ Written' = {}
        /\ Coming' = {} /\ Deleting' = {} /\ Going' = {} /\ UNCHANGED LeaveSets
    BY <1>1, <1>3, SaveEnds
  <1>5. Created = {m} /\ Coming = {} /\ Going = {}
    <2>1. CreatedBy(call[c]) = {m} /\ ComingBy(call[c]) = {} /\ GoingBy(call[c]) = {}
      BY <1>1, <1>2 DEF CreatedBy, ComingBy, WrittenBy, WritingBy, GoingBy
    <2>2. Turns(c, Idle) /\ \A d \in Calls \ {c} : call[d].op \notin Saves
      BY <1>0, <1>1, <1>3, CloseTurns, OnlySave
    <2> QED BY <2>1, <2>2, SavesTurn
  <1>6. m \notin Range(order) /\ m \in Standing /\ m \in drawn
    BY <1>5 DEF Coherent, CallFits, DrawnFits, Seen
  <1>7. lessonsOf' = lessonsOf
    BY <1>0, <1>3, <1>6 DEF Coherent, Distinct, DataTyped
  <1>8. Range(order') = Range(order) \cup {m} /\ IsInjective(order')
    BY <1>0, <1>3, <1>6, AppendIs DEF Coherent, Distinct, DataTyped
  <1>9. Standing' = Standing /\ InCourse' = InCourse /\ Shown' = Shown /\ Object' = Object /\ InForm' = InForm
    BY <1>3, <1>7, SetsStay
  <1>10. Distinct'
    BY <1>7, <1>8 DEF Distinct, Coherent
  <1>11. Home' \subseteq Home
    BY <1>4, <1>9 DEF Home
  <1>12. Seen' \subseteq Seen \cup {m}
    BY <1>3, <1>4, <1>8 DEF Seen, LeaveSets
  <1>13. OneHome'
    BY <1>11 DEF OneHome, Coherent
  <1>14. DrawnFits'
    BY <1>3, <1>4, <1>6, <1>9, <1>11, <1>12 DEF DrawnFits, Coherent
  <1>15. ServerFits'
    BY <1>9 DEF ServerFits, Coherent
  <1>16. CallFits'
    BY <1>3, <1>4, <1>9 DEF CallFits, Coherent, LeaveSets
  <1>17. ObjectFits'
    BY <1>3, <1>9 DEF ObjectFits, Coherent
  <1>18. Complete => Complete'
    BY <1>3, <1>4, <1>5, <1>6, <1>8, <1>9 DEF Complete, Hides, Ghosts, LeaveSets
  <1> QED BY <1>3, <1>10, <1>11, <1>13, <1>14, <1>15, <1>16, <1>17, <1>18 DEF Kept, HomeStep, Coherent

\* deleteModule: the module that is gone goes out of the list.
LEMMA DeletedModuleKept ==
  ASSUME Shaped, Coherent, NEW c \in Calls, DeletedModule(c)
  PROVE  Kept
  <1> USE DEF server, history
  <1>0. DataTyped /\ call \in [Calls -> CallType] /\ ShapeOf(call[c])
    BY ShapedIs
  <1>1. call[c].st = "ok" /\ call[c].op = "deleteModule" /\ call[c].op \notin Saves
    BY DEF DeletedModule, Answers, Saves
  <1>2. PICK m \in Modules : m = call[c].mod
    BY <1>0, <1>1 DEF ShapeOf
  <1>3. /\ order' = Without(order, m) /\ lessonsOf' = [lessonsOf EXCEPT ![m] = <<>>] /\ Close(c)
        /\ selected' \in {selected, NoLesson}
        /\ UNCHANGED <<place, row, drawn, lesson, form, lost>>
    BY <1>2 DEF DeletedModule
  <1>4. Turns(c, Idle) /\ Idle.op = "none" /\ Idle.st = "idle" /\ Idle.op \notin Saves
    BY <1>0, <1>3, CloseTurns DEF Idle, Saves
  <1>5. UNCHANGED SaveSets
    BY <1>1, <1>4, OthersTurn
  <1>6. LeavingBy(call[c]) = {m} /\ LeavingBy(Idle) = {} /\ PartingBy(Idle) = {}
    BY <1>1, <1>2, <1>4 DEF LeavingBy, PartingBy
  <1>7. /\ Parting' \subseteq Parting /\ Leaving' \subseteq Leaving
        /\ Leaving \subseteq Leaving' \cup {m} /\ m \in Leaving
    BY <1>4, <1>6, PartsTurn
  <1>8. m \notin Standing
    BY <1>7 DEF Coherent, CallFits
  <1>9. Range(order') = Range(order) \ {m} /\ IsInjective(order')
    BY <1>0, <1>3, WithoutIs DEF Coherent, Distinct, DataTyped
  <1>10. lessonsOf'[m] = <<>> /\ \A k \in Modules \ {m} : lessonsOf'[k] = lessonsOf[k]
    BY <1>0, <1>3 DEF DataTyped
  <1>11. Distinct'
    <2>1. IsInjective(<<>>)
      BY DEF IsInjective
    <2> QED BY <1>9, <1>10, <2>1 DEF Distinct, Coherent
  <1>12. Standing' = Standing /\ InCourse' = InCourse /\ Object' = Object /\ InForm' = InForm
    BY <1>3, SetsStay
  <1>13. Shown' = {p \in Shown : p[2] # m}
    <2>1. Range(<<>>) = {}
      BY DEF Range
    <2> QED BY <1>10, <2>1 DEF Shown
  <1>14. Home' \subseteq Home
    BY <1>5, <1>12, <1>13 DEF Home, SaveSets
  <1>15. Seen' \subseteq Seen
    BY <1>3, <1>5, <1>7, <1>9 DEF Seen, SaveSets
  <1>16. OneHome'
    BY <1>14 DEF OneHome, Coherent
  <1>17. DrawnFits'
    BY <1>3, <1>5, <1>12, <1>14, <1>15 DEF DrawnFits, Coherent, SaveSets, NoLesson
  <1>18. ServerFits'
    BY <1>12 DEF ServerFits, Coherent
  <1>19. CallFits'
    BY <1>3, <1>5, <1>7, <1>12, <1>13, <1>15 DEF CallFits, Coherent, SaveSets
  <1>20. ObjectFits'
    BY <1>3, <1>12, <1>13 DEF ObjectFits, Coherent, NoLesson
  <1>21. Complete => Complete'
    <2> SUFFICES ASSUME Complete, ~lost' PROVE Hides' /\ Ghosts'
      BY DEF Complete
    <2>1. Hides /\ Ghosts
      BY <1>3 DEF Complete
    <2>2. Hides'
      <3>1. \A p \in InCourse : p[2] # m
        BY <1>8 DEF Coherent, ServerFits
      <3> QED BY <1>5, <1>8, <1>9, <1>12, <1>13, <2>1, <3>1 DEF Hides, SaveSets
    <2>3. Ghosts'
      BY <1>5, <1>7, <1>9, <1>12, <1>13, <2>1 DEF Ghosts, SaveSets
    <2> QED BY <2>2, <2>3
  <1> QED BY <1>3, <1>11, <1>14, <1>16, <1>17, <1>18, <1>19, <1>20, <1>21 DEF Kept, HomeStep, Coherent

\* saveLesson: what was written comes into the list of its module.
LEMMA SavedLessonKept ==
  ASSUME Shaped, Coherent, NEW c \in Calls, SavedLesson(c)
  PROVE  Kept
  <1> USE DEF server, history
  <1>0. DataTyped /\ call \in [Calls -> CallType] /\ ShapeOf(call[c])
    BY ShapedIs
  <1>1. call[c].st = "ok" /\ call[c].op \in {"createLesson", "updateLesson"} /\ call[c].op \in Saves
    BY DEF SavedLesson, Answers, Saves
  <1>2. PICK m \in Modules, x \in Lessons : m = call[c].mod /\ x = call[c].lesson
    BY <1>0, <1>1 DEF ShapeOf
  <1>3. /\ Close(c) /\ selected' = NoLesson
        /\ UNCHANGED <<place, row, drawn, order, form, lost>>
    BY DEF SavedLesson, AfterSave
  <1>4. /\ Created' = {} /\ Aimed' = {} /\ Writing' = {} /\ Written' = {}
        /\ Coming' = {} /\ Deleting' = {} /\ Going' = {} /\ UNCHANGED LeaveSets
    BY <1>1, <1>3, SaveEnds
  <1>5. Created = {} /\ Writing = {<<x, m>>} /\ Written = {<<x, m>>} /\ Coming \subseteq {<<x, m>>} /\ Going = {}
    <2>1. /\ CreatedBy(call[c]) = {} /\ WritingBy(call[c]) = {<<x, m>>} /\ GoingBy(call[c]) = {}
      BY <1>1, <1>2 DEF CreatedBy, WritingBy, GoingBy
    <2>2. WrittenBy(call[c]) = {<<x, m>>} /\ ComingBy(call[c]) \subseteq {<<x, m>>}
      BY <1>1, <2>1 DEF WrittenBy, ComingBy
    <2>3. Turns(c, Idle) /\ \A d \in Calls \ {c} : call[d].op \notin Saves
      BY <1>0, <1>1, <1>3, CloseTurns, OnlySave
    <2> QED BY <2>1, <2>2, <2>3, SavesTurn
  <1>6. Standing' = Standing /\ InCourse' = InCourse /\ InForm' = InForm
    BY <1>3, SetsStay
  <1>7. <<x, m>> \in Home /\ \A p \in Home : p[1] = x => p[2] = m
    <2>1. <<x, m>> \in Home
      BY <1>5 DEF Home
    <2> QED BY <2>1 DEF OneHome, Coherent
  <1>8. <<x, m>> \in InCourse \/ m \notin Standing
    BY <1>5 DEF CallFits, Coherent
  <1>9. /\ Distinct' /\ Shown \subseteq Shown' /\ Shown' \subseteq Shown \cup {<<x, m>>}
        /\ m \in Range(order) => <<x, m>> \in Shown'
        /\ \A p \in Object' : p \in Object \/ (p = <<x, m>> /\ m \in Range(order))
        /\ m \in Range(order) => \A p \in Object' : p[1] = x => p[2] = m
        /\ m \notin Range(order) => Shown' = Shown
    <2>1. CASE m \notin Range(order)
      <3>1. UNCHANGED <<lesson, lessonsOf>>
        BY <1>2, <2>1 DEF SavedLesson
      <3> QED BY <1>3, <2>1, <3>1, SetsStay DEF Coherent
    <2>2. CASE m \in Range(order)
      <3>1. PICK new, s : /\ new.mod = m /\ s = Listed(lessonsOf[m], x)
                          /\ lesson' = [lesson EXCEPT ![x] = new] /\ lessonsOf' = [lessonsOf EXCEPT ![m] = s]
        <4>1. PICK f : f = call[c].file OBVIOUS
        <4>2. /\ lesson' = [lesson EXCEPT ![x] = [mod |-> m, video |-> f, pdfs |-> form.pdfs]]
              /\ lessonsOf' = [lessonsOf EXCEPT ![m] = Listed(@, x)]
          BY <1>2, <2>2, <4>1 DEF SavedLesson
        <4> QED BY <1>0, <4>2 DEF DataTyped
      <3>2. IsInjective(s) /\ Range(s) = Range(lessonsOf[m]) \cup {x}
        BY <1>0, <3>1, AppendIs DEF Listed, Coherent, Distinct, DataTyped
      <3>3. lessonsOf'[m] = s /\ \A k \in Modules \ {m} : lessonsOf'[k] = lessonsOf[k]
        BY <1>0, <3>1 DEF DataTyped
      <3>4. lesson'[x].mod = m /\ \A y \in Lessons \ {x} : lesson'[y] = lesson[y]
        BY <1>0, <3>1 DEF DataTyped
      <3>5. Distinct'
        BY <1>3, <2>2, <3>2, <3>3 DEF Distinct, Coherent
      <3>6. Shown' = Shown \cup {<<x, m>>}
        BY <3>2, <3>3 DEF Shown
      <3>7. \A p \in Object' : (p \in Object \/ p = <<x, m>>) /\ (p[1] = x => p[2] = m)
        BY <3>4 DEF Object
      <3> QED BY <2>2, <3>5, <3>6, <3>7
    <2> QED BY <2>1, <2>2
  <1>10. Home' \subseteq Home
    BY <1>4, <1>6, <1>7, <1>9 DEF Home
  <1>11. Seen' \subseteq Seen
    BY <1>3, <1>4 DEF Seen, LeaveSets
  <1>12. OneHome'
    BY <1>10 DEF OneHome, Coherent
  <1>13. DrawnFits'
    BY <1>3, <1>4, <1>6, <1>10, <1>11 DEF DrawnFits, Coherent, NoLesson
  <1>14. ServerFits'
    BY <1>6 DEF ServerFits, Coherent
  <1>15. CallFits'
    BY <1>4, <1>6 DEF CallFits, Coherent, LeaveSets
  <1>16. ObjectFits'
    <2>1. ASSUME NEW p \in Shown', NEW q \in Object', p[1] = q[1] PROVE p[2] = q[2]
      <3>1. CASE m \in Range(order) /\ p[1] = x
        <4>1. p[2] = m
          BY <1>7, <1>9, <3>1 DEF Home
        <4> QED BY <1>9, <2>1, <3>1, <4>1
      <3>2. CASE m \notin Range(order) \/ p[1] # x
        <4>1. p \in Shown /\ q \in Object
          BY <1>9, <2>1, <3>2
        <4> QED BY <2>1, <4>1 DEF ObjectFits, Coherent
      <3> QED BY <3>1, <3>2
    <2> QED BY <1>3, <2>1 DEF ObjectFits, NoLesson
  <1>17. Complete => Complete'
    <2> SUFFICES ASSUME Complete, ~lost' PROVE Hides' /\ Ghosts'
      BY DEF Complete
    <2>1. Hides /\ Ghosts
      BY <1>3 DEF Complete
    <2>2. <<x, m>> \in InCourse => m \in Range(order)
      <3>1. <<x, m>> \in InCourse => m \in Standing
        BY DEF Coherent, ServerFits
      <3> QED BY <1>5, <2>1, <3>1 DEF Hides
    <2>3. Hides'
      BY <1>3, <1>4, <1>5, <1>6, <1>9, <2>1, <2>2 DEF Hides
    <2>4. Range(order') \subseteq Standing' \cup Leaving'
      BY <1>3, <1>4, <1>6, <2>1 DEF Ghosts, LeaveSets
    <2>5. ASSUME NEW p \in Shown' \cap Object'
          PROVE  (\E k \in Modules : <<p[1], k>> \in InCourse') \/ p[1] \in Going' \/ p[2] \in Leaving'
      <3>1. CASE p = <<x, m>> /\ m \in Range(order)
        <4>1. <<x, m>> \in InCourse \/ m \in Leaving
          BY <1>8, <2>1, <3>1 DEF Ghosts
        <4> QED BY <1>4, <1>6, <3>1, <4>1 DEF LeaveSets
      <3>2. CASE p \in Shown /\ p \in Object
        BY <1>4, <1>5, <1>6, <2>1, <3>2 DEF Ghosts, LeaveSets
      <3>3. CASE p = <<x, m>> /\ p \in Object /\ m \notin Range(order)
        <4>1. UNCHANGED lessonsOf
          BY <1>2, <3>3 DEF SavedLesson
        <4>2. p \in Shown
          BY <4>1 DEF Shown
        <4> QED BY <3>2, <3>3, <4>2
      <3> QED BY <1>9, <3>1, <3>2, <3>3
    <2> QED BY <2>3, <2>4, <2>5 DEF Ghosts
  <1> QED BY <1>3, <1>9, <1>10, <1>12, <1>13, <1>14, <1>15, <1>16, <1>17 DEF Kept, HomeStep, Coherent

\* deleteLesson: out of the list of the module_id it had.
LEMMA DeletedLessonKept ==
  ASSUME Shaped, Coherent, NEW c \in Calls, DeletedLesson(c)
  PROVE  Kept
  <1> USE DEF server, history
  <1>0. DataTyped /\ call \in [Calls -> CallType] /\ ShapeOf(call[c]) /\ call[c] \in CallType
    BY ShapedIs
  <1>1. call[c].st = "ok" /\ call[c].op = "deleteLesson" /\ call[c].op \in Saves
    BY DEF DeletedLesson, Answers, Saves
  <1>2. PICK m \in Modules \cup {None} : m = call[c].mod
    BY <1>0 DEF CallType
  <1>a. PICK x \in Lessons : x = call[c].lesson
    BY <1>0, <1>1 DEF ShapeOf
  <1>3. /\ Close(c) /\ selected' = NoLesson
        /\ UNCHANGED <<place, row, drawn, order, lesson, form, lost>>
    BY DEF DeletedLesson
  <1>4. /\ Created' = {} /\ Aimed' = {} /\ Writing' = {} /\ Written' = {}
        /\ Coming' = {} /\ Deleting' = {} /\ Going' = {} /\ UNCHANGED LeaveSets
    BY <1>1, <1>3, SaveEnds
  <1>5. Created = {} /\ Deleting = {<<x, m>>} /\ Coming = {} /\ Going = {x}
    <2>1. /\ CreatedBy(call[c]) = {} /\ DeletingBy(call[c]) = {<<x, m>>} /\ GoingBy(call[c]) = {x}
          /\ ComingBy(call[c]) = {}
      BY <1>1, <1>2, <1>a DEF CreatedBy, DeletingBy, GoingBy, ComingBy, WrittenBy, WritingBy
    <2>2. Turns(c, Idle) /\ \A d \in Calls \ {c} : call[d].op \notin Saves
      BY <1>0, <1>1, <1>3, CloseTurns, OnlySave
    <2> QED BY <2>1, <2>2, SavesTurn
  <1>6. m = lesson[x].mod
    BY <1>5 DEF CallFits, Coherent
  <1>7. Standing' = Standing /\ InCourse' = InCourse /\ InForm' = InForm /\ Object' = Object
    BY <1>3, SetsStay
  <1>8. Distinct' /\ Shown' = {p \in Shown : p # <<x, m>>}
    <2>1. CASE m = None
      <3>1. UNCHANGED lessonsOf
        BY <1>2, <2>1 DEF DeletedLesson
      <3>2. \A p \in Shown : p # <<x, m>>
        BY <2>1, BuilderAssumption DEF Shown
      <3>3. Distinct' /\ Shown' = Shown
        BY <1>3, <3>1, SetsStay DEF Coherent
      <3> QED BY <3>2, <3>3
    <2>2. CASE m \in Modules
      <3>1. PICK s : s = Without(lessonsOf[m], x) OBVIOUS
      <3>2. lessonsOf' = [lessonsOf EXCEPT ![m] = s]
        BY <1>0, <1>2, <1>a, <2>2, <3>1, BuilderAssumption DEF DeletedLesson, DataTyped
      <3>3. lessonsOf[m] \in Seq(Lessons) /\ IsInjective(lessonsOf[m])
        BY <1>0, <2>2 DEF DataTyped, Coherent, Distinct
      <3>4. IsInjective(s) /\ Range(s) = Range(lessonsOf[m]) \ {x}
        BY <3>1, <3>3, WithoutIs
      <3>5. lessonsOf'[m] = s /\ \A k \in Modules \ {m} : lessonsOf'[k] = lessonsOf[k]
        BY <1>0, <2>2, <3>2 DEF DataTyped
      <3>6. m \notin Range(order) => s = <<>>
        <4>1. Range(<<>>) = {}
          BY DEF Range
        <4> QED BY <2>2, <3>1, <4>1 DEF Without, Coherent, Distinct
      <3>7. Distinct'
        BY <1>3, <3>4, <3>5, <3>6 DEF Distinct, Coherent
      <3>8. Shown' = {p \in Shown : p # <<x, m>>}
        BY <3>4, <3>5 DEF Shown
      <3> QED BY <3>7, <3>8
    <2> QED BY <2>1, <2>2
  <1>9. Home' \subseteq Home
    BY <1>4, <1>7, <1>8 DEF Home
  <1>10. Seen' \subseteq Seen
    BY <1>3, <1>4 DEF Seen, LeaveSets
  <1>11. OneHome'
    BY <1>9 DEF OneHome, Coherent
  <1>12. DrawnFits'
    BY <1>3, <1>4, <1>7, <1>9, <1>10 DEF DrawnFits, Coherent, NoLesson
  <1>13. ServerFits'
    BY <1>7 DEF ServerFits, Coherent
  <1>14. CallFits'
    BY <1>4, <1>7 DEF CallFits, Coherent, LeaveSets
  <1>15. ObjectFits'
    BY <1>3, <1>7, <1>8 DEF ObjectFits, NoLesson, Coherent
  <1>16. Complete => Complete'
    <2> SUFFICES ASSUME Complete, ~lost' PROVE Hides' /\ Ghosts'
      BY DEF Complete
    <2>1. Hides /\ Ghosts
      BY <1>3 DEF Complete
    <2>2. <<x, m>> \notin InCourse
      BY <1>5 DEF CallFits, Coherent
    <2>3. Hides'
      BY <1>3, <1>4, <1>5, <1>7, <1>8, <2>1, <2>2 DEF Hides
    <2>4. Range(order') \subseteq Standing' \cup Leaving'
      BY <1>3, <1>4, <1>7, <2>1 DEF Ghosts, LeaveSets
    <2>5. ASSUME NEW p \in Shown' \cap Object'
          PROVE  (\E k \in Modules : <<p[1], k>> \in InCourse') \/ p[1] \in Going' \/ p[2] \in Leaving'
      <3>1. p[1] # x
        <4>1. p[1] = x => p[2] = m /\ p = <<p[1], p[2]>>
          BY <1>6, <1>7 DEF Object
        <4> QED BY <1>8, <4>1
      <3>2. p \in Shown /\ p \in Object
        BY <1>7, <1>8
      <3> QED BY <1>4, <1>5, <1>7, <2>1, <3>1, <3>2 DEF Ghosts, LeaveSets
    <2> QED BY <2>3, <2>4, <2>5 DEF Ghosts
  <1> QED BY <1>3, <1>8, <1>9, <1>11, <1>12, <1>13, <1>14, <1>15, <1>16 DEF Kept, HomeStep, Coherent

-----------------------------------------------------------------------------
(* Lists: the page that loads                                              *)

\* A list without repeats is one.
LEMMA ListsAre ==
  ASSUME NEW S, IsFiniteSet(S), NEW s \in Lists(S)
  PROVE  s \in Seq(S) /\ IsInjective(s)
  <1>1. PICK T \in SUBSET S : s \in SetToSeqs(T)
    BY DEF Lists
  <1>2. PICK n : n = Cardinality(T) OBVIOUS
  <1>3. n \in Nat
    BY <1>1, <1>2, FS_Subset, FS_CardinalityType
  <1>4. s \in [1..n -> T] /\ \A i, j \in 1..n : i # j => s[i] # s[j]
    BY <1>1, <1>2 DEF SetToSeqs
  <1>5. s \in [1..n -> S]
    BY <1>1, <1>4
  <1>6. s \in Seq(S)
    BY <1>3, <1>5
  <1> QED BY <1>4, <1>6 DEF IsInjective

\* The rows are those of the lessons that are listed, with the module that
\* lists them.
LEMMA LoadedRowsAre ==
  ASSUME NEW of \in [Modules -> Seq(Lessons)], row = LoadedRows(of),
         \A m, n \in Modules : m # n => Range(of[m]) \cap Range(of[n]) = {}
  PROVE  /\ row \in [Lessons -> RowType] /\ Indexed
         /\ \A x \in Lessons : \A m \in Modules : row[x].mod = m <=> x \in Range(of[m])
  <1>1. ASSUME NEW x \in Lessons
        PROVE  /\ row[x] \in RowType /\ (row[x] = NoRow \/ (row[x].mod \in Modules /\ row[x].index \in Nat))
               /\ \A m \in Modules : row[x].mod = m <=> x \in Range(of[m])
    <2>1. CASE \A m \in Modules : x \notin Range(of[m])
      <3>1. row[x] = NoRow
        BY <2>1 DEF LoadedRows
      <3> QED BY <2>1, <3>1, BuilderAssumption DEF NoRow, RowType
    <2>2. CASE \E m \in Modules : x \in Range(of[m])
      <3>1. PICK m \in Modules : /\ x \in Range(of[m])
                                 /\ row[x] = [NoRow EXCEPT !.mod = m, !.index = Place(of[m], x)]
        BY <2>2 DEF LoadedRows
      <3>2. PICK s, i : s = of[m] /\ i = Place(s, x) OBVIOUS
      <3>3. i \in Nat
        BY <3>1, <3>2, PlaceNat
      <3>4. row[x] = [[NoRow EXCEPT !.mod = m] EXCEPT !.index = i]
        BY <3>1, <3>2
      <3>5. row[x] \in RowType /\ row[x].mod = m /\ row[x].index = i
        BY <3>3, <3>4 DEF NoRow, RowType
      <3>6. \A n \in Modules : x \in Range(of[n]) => n = m
        BY <3>1
      <3> QED BY <3>1, <3>3, <3>5, <3>6
    <2> QED BY <2>1, <2>2
  <1>2. row = [x \in Lessons |-> row[x]]
    BY DEF LoadedRows
  <1> QED BY <1>1, <1>2 DEF Indexed

\* What the outline brings, and what it does not.
LEMMA LoadedIs ==
  ASSUME Init
  PROVE  \E mo, of :
           /\ mo \in Seq(Modules) /\ IsInjective(mo) /\ of \in [Modules -> Seq(Lessons)]
           /\ \A m \in Modules : IsInjective(of[m]) /\ (m \notin Range(mo) => of[m] = <<>>)
           /\ \A m, n \in Modules : m # n => Range(of[m]) \cap Range(of[n]) = {}
           /\ place = [m \in Modules |-> IF m \in Range(mo) THEN Place(mo, m) ELSE Absent]
           /\ row = LoadedRows(of)
           /\ drawn = Range(mo) \cup UNION {Range(of[m]) : m \in Modules}
           /\ lost \in BOOLEAN
           /\ order = IF lost THEN <<>> ELSE mo
           /\ lessonsOf = IF lost THEN [m \in Modules |-> <<>>] ELSE of
  <1>1. PICK mo \in Lists(Modules), of \in [Modules -> Lists(Lessons)], failed \in BOOLEAN :
          Loaded(mo, of, failed)
    BY DEF Init
  <1>2. mo \in Seq(Modules) /\ IsInjective(mo)
    BY FiniteAssumption, ListsAre
  <1>3. \A m \in Modules : of[m] \in Seq(Lessons) /\ IsInjective(of[m])
    BY FiniteAssumption, ListsAre
  <1>4. of \in [Modules -> Seq(Lessons)]
    BY <1>3
  <1> QED BY <1>1, <1>2, <1>3, <1>4 DEF Loaded

LEMMA InitShaped == Init => Shaped
  <1> SUFFICES ASSUME Init PROVE Shaped
    OBVIOUS
  <1>1. PICK mo, of :
          /\ mo \in Seq(Modules) /\ IsInjective(mo) /\ of \in [Modules -> Seq(Lessons)]
          /\ \A m, n \in Modules : m # n => Range(of[m]) \cap Range(of[n]) = {}
          /\ place = [m \in Modules |-> IF m \in Range(mo) THEN Place(mo, m) ELSE Absent]
          /\ row = LoadedRows(of)
          /\ drawn = Range(mo) \cup UNION {Range(of[m]) : m \in Modules}
          /\ lost \in BOOLEAN
          /\ order = IF lost THEN <<>> ELSE mo
          /\ lessonsOf = IF lost THEN [m \in Modules |-> <<>>] ELSE of
    BY LoadedIs
  <1>2. /\ lesson = [x \in Lessons |-> NoObject] /\ selected = NoLesson
        /\ form = [lesson |-> None, mod |-> None, video |-> None, pdfs |-> {}]
        /\ editing = None /\ saving = FALSE /\ uploading = FALSE /\ clicks = 0
        /\ call = [c \in Calls |-> Idle] /\ strays = {} /\ tangled = {}
    BY DEF Init
  <1>3. FileInv
    BY InitInv
  <1>4. row \in [Lessons -> RowType] /\ Indexed
    BY <1>1, LoadedRowsAre
  <1>5. place \in [Modules -> Nat \cup {Absent}]
    <2>1. \A m \in Range(mo) : Place(mo, m) \in Nat
      BY <1>1, PlaceNat
    <2> QED BY <1>1, <2>1
  <1>6. <<>> \in Seq(Modules) /\ <<>> \in Seq(Lessons)
    OBVIOUS
  <1>7. order \in Seq(Modules) /\ lessonsOf \in [Modules -> Seq(Lessons)]
    BY <1>1, <1>6
  <1>8. drawn \subseteq Modules \cup Lessons
    <2>1. Range(mo) \subseteq Modules
      BY <1>1, SeqParts
    <2>2. \A m \in Modules : Range(of[m]) \subseteq Lessons
      BY <1>1, SeqParts
    <2> QED BY <1>1, <2>1, <2>2
  <1>9. /\ lesson \in [Lessons -> ObjectType] /\ form \in FormType
        /\ selected \in [lesson : Lessons \cup {None}, mod : Modules \cup {None}]
    BY <1>2 DEF NoObject, ObjectType, FormType, NoLesson
  <1>10. call \in [Calls -> CallType] /\ \A c \in Calls : ShapeOf(call[c])
    BY <1>2, IdleIs DEF ShapeOf, Idle
  <1>11. OneSave /\ OneUpload
    BY <1>2 DEF OneSave, OneUpload, Idle, Saves, Uploads
  <1>12. Typed
    BY <1>1, <1>2, <1>3, <1>4, <1>5, <1>7, <1>8, <1>9, <1>10 DEF Typed, FileInv, FilesFit
  <1> QED BY <1>2, <1>4, <1>10, <1>11, <1>12 DEF Shaped, FormShape, LessonForm

LEMMA InitCoherent == Init => Coherent /\ Complete
  <1> SUFFICES ASSUME Init PROVE Coherent /\ Complete
    OBVIOUS
  <1>1. PICK mo, of :
          /\ mo \in Seq(Modules) /\ IsInjective(mo) /\ of \in [Modules -> Seq(Lessons)]
          /\ \A m \in Modules : IsInjective(of[m]) /\ (m \notin Range(mo) => of[m] = <<>>)
          /\ \A m, n \in Modules : m # n => Range(of[m]) \cap Range(of[n]) = {}
          /\ place = [m \in Modules |-> IF m \in Range(mo) THEN Place(mo, m) ELSE Absent]
          /\ row = LoadedRows(of)
          /\ drawn = Range(mo) \cup UNION {Range(of[m]) : m \in Modules}
          /\ lost \in BOOLEAN
          /\ order = IF lost THEN <<>> ELSE mo
          /\ lessonsOf = IF lost THEN [m \in Modules |-> <<>>] ELSE of
    BY LoadedIs
  <1>2. /\ lesson = [x \in Lessons |-> NoObject] /\ selected = NoLesson
        /\ form.lesson = None /\ form.mod = None /\ call = [c \in Calls |-> Idle]
    BY DEF Init
  <1>3. \A x \in Lessons : \A m \in Modules : row[x].mod = m <=> x \in Range(of[m])
    BY <1>1, LoadedRowsAre
  <1>4. Standing = Range(mo)
    <2>1. \A m \in Range(mo) : m \in Modules /\ Place(mo, m) # Absent
      BY <1>1, PlaceNat, SeqParts DEF Absent
    <2> QED BY <1>1, <2>1 DEF Standing
  <1>5. Range(<<>>) = {} /\ IsInjective(<<>>)
    BY DEF Range, IsInjective
  <1>6. /\ Range(order) \subseteq Range(mo) /\ (~lost => order = mo)
        /\ \A m \in Modules : Range(lessonsOf[m]) \subseteq Range(of[m])
        /\ ~lost => lessonsOf = of
    BY <1>1, <1>5
  <1>7. InCourse = {p \in Lessons \X Modules : p[1] \in Range(of[p[2]])}
    BY <1>3 DEF InCourse
  <1>8. Shown \subseteq InCourse /\ (~lost => Shown = InCourse)
    BY <1>6, <1>7 DEF Shown
  <1>9. Object = {} /\ InForm = {}
    BY <1>2, BuilderAssumption DEF Object, InForm, NoObject
  <1>10. /\ Created = {} /\ Aimed = {} /\ Writing = {} /\ Written = {} /\ Coming = {} /\ Deleting = {}
         /\ Going = {} /\ Parting = {} /\ Leaving = {}
    <2>1. \A c \in Calls : call[c].op = "none"
      BY <1>2 DEF Idle
    <2>2. Created = {} /\ Aimed = {} /\ Deleting = {} /\ Going = {}
      BY <2>1 DEF Created, CreatedBy, Aimed, AimedBy, Deleting, DeletingBy, Going, GoingBy
    <2>3. Writing = {} /\ Written = {} /\ Coming = {}
      BY <2>1 DEF Writing, Written, Coming, WritingBy, WrittenBy, ComingBy
    <2>4. Parting = {} /\ Leaving = {}
      BY <2>1 DEF Parting, Leaving, PartingBy, LeavingBy
    <2> QED BY <2>2, <2>3, <2>4
  <1>11. Home = InCourse
    BY <1>8, <1>9, <1>10 DEF Home
  <1>12. Seen = Range(order)
    BY <1>2, <1>10, BuilderAssumption DEF Seen
  <1>13. Distinct
    <2>1. CASE lost
      BY <1>1, <1>5, <2>1 DEF Distinct
    <2>2. CASE ~lost
      BY <1>1, <2>2 DEF Distinct
    <2> QED BY <2>1, <2>2
  <1>14. OneHome
    BY <1>1, <1>7, <1>11 DEF OneHome
  <1>15. DrawnFits
    <2>1. \A p \in InCourse : p[1] \in drawn
      BY <1>1, <1>7
    <2> QED BY <1>1, <1>2, <1>4, <1>6, <1>10, <1>11, <1>12, <2>1 DEF DrawnFits, NoLesson
  <1>16. ServerFits
    <2>1. \A p \in InCourse : p[2] \in Range(mo)
      BY <1>1, <1>5, <1>7
    <2> QED BY <1>4, <2>1 DEF ServerFits
  <1>17. CallFits
    BY <1>10 DEF CallFits
  <1>18. ObjectFits
    BY <1>2, <1>9 DEF ObjectFits, NoLesson
  <1>19. Complete
    <2> SUFFICES ASSUME ~lost PROVE Hides /\ Ghosts
      BY DEF Complete
    <2>1. Hides
      BY <1>4, <1>6, <1>8, <1>10 DEF Hides
    <2>2. Ghosts
      BY <1>4, <1>6, <1>9, <1>10 DEF Ghosts
    <2> QED BY <2>1, <2>2
  <1> QED BY <1>13, <1>14, <1>15, <1>16, <1>17, <1>18, <1>19 DEF Coherent

-----------------------------------------------------------------------------
(* Lists: the specification                                                *)

\* The page, its calls and the course of the server agree.
PageInv == FileInv /\ Shaped /\ Coherent /\ Complete

LEMMA ClickKept ==
  ASSUME FileInv, FileInv', clicks' \in Nat, Shaped, Coherent, Click
  PROVE  Shaped' /\ Kept
  <1>1. CASE (\E m \in Modules \cup {New} : EditModule(m)) \/ CancelModule \/ CancelLesson
    BY <1>1, PanelShaped, QuietPanel
  <1>2. CASE \E m \in Modules : AddLesson(m) \/ \E x \in Lessons : SelectLesson(m, x)
    BY <1>2, PanelShaped, OpenKept
  <1>3. ASSUME NEW c \in Calls, SaveModule(c) PROVE Shaped' /\ Kept
    BY <1>3, SavesShaped, QuietSent
  <1>4. ASSUME NEW c \in Calls, SaveLesson(c) \/ DeleteLesson(c) \/ \E m \in Modules : DeleteModule(c, m)
        PROVE Shaped' /\ Kept
    BY <1>4, SavesShaped, SentKept
  <1>5. ASSUME NEW c \in Calls,
               \/ \E i, j \in DOMAIN order : DropModule(c, i, j)
               \/ \E m \in Modules : \E i, j \in DOMAIN lessonsOf[m] : DropLesson(c, m, i, j)
        PROVE Shaped' /\ Kept
    BY <1>5, DropShaped, QuietDrop DEF Coherent, Distinct
  <1>6. ASSUME NEW c \in Calls, NEW f \in Files,
               \/ PickVideo(c, f) \/ UploadVideo(c, f) \/ PickPdf(c, f) \/ UploadPdf(c, f)
               \/ RemoveAttachment(c, f)
        PROVE Shaped' /\ Kept
    BY <1>6, FileShaped, QuietSent
  <1> QED BY <1>1, <1>2, <1>3, <1>4, <1>5, <1>6 DEF Click

LEMMA ServeKept ==
  ASSUME FileInv, FileInv', clicks' \in Nat, Shaped, Coherent, Serve
  PROVE  Shaped' /\ Kept
  <1>1. ASSUME NEW c \in Calls, ServeCreateModule(c) \/ ServeDeleteModule(c) PROVE Shaped' /\ Kept
    BY <1>1, ServeModulesShaped, CreateModuleKept, DeleteModuleKept
  <1>2. ASSUME NEW c \in Calls, ServeCreateLesson(c) \/ ServeUpdateLesson(c) \/ ServeDeleteLesson(c)
        PROVE Shaped' /\ Kept
    BY <1>2, ServeLessonsShaped, CreateLessonKept, UpdateLessonKept, DeleteLessonKept
  <1>3. ASSUME NEW c \in Calls, ServeReorder(c) \/ ServeAddAttachment(c) \/ ServeDeleteAttachment(c)
        PROVE Shaped' /\ Kept
    BY <1>3, ServeOthersShaped, QuietServed
  <1>4. ASSUME NEW c \in Calls, ServeUpdateModule(c) \/ ServePick(c) \/ Refuse(c) PROVE Shaped' /\ Kept
    BY <1>4, StateShaped, QuietState
  <1> QED BY <1>1, <1>2, <1>3, <1>4 DEF Serve

LEMMA AnswerKept ==
  ASSUME FileInv, FileInv', clicks' \in Nat, Shaped, Coherent, Answer
  PROVE  Shaped' /\ Kept
  <1>1. ASSUME NEW c \in Calls, SavedModule(c) \/ DeletedModule(c) \/ SavedLesson(c) \/ DeletedLesson(c)
        PROVE  Shaped' /\ Kept
    <2>1. Shaped'
      BY <1>1, SavedShaped DEF Coherent, Distinct
    <2>2. CASE SavedModule(c)
      <3>1. call[c].op \in {"createModule", "updateModule"}
        BY <2>2 DEF SavedModule, Answers
      <3> QED BY <2>1, <2>2, <3>1, SavedModuleKept, QuietAnswer
    <2> QED BY <1>1, <2>1, <2>2, DeletedModuleKept, SavedLessonKept, DeletedLessonKept
  <1>2. ASSUME NEW c \in Calls,
               \/ GotVideo(c) \/ GotPdf(c) \/ Attached(c) \/ RemovedAttachment(c)
               \/ Reordered(c) \/ Failed(c)
        PROVE  Shaped' /\ Kept
    BY <1>2, OthersShaped, QuietAnswer
  <1> QED BY <1>1, <1>2 DEF Answer

LEMMA StepKept ==
  ASSUME FileInv, FileInv', Shaped, Coherent, [Next]_vars
  PROVE  Shaped' /\ Kept
  <1>0. clicks \in Nat
    BY DEF Shaped, Typed
  <1>1. CASE UNCHANGED vars
    <2>1. /\ UNCHANGED <<place, row, drawn, order, lessonsOf, lesson, selected, form, editing>>
          /\ UNCHANGED <<saving, uploading, clicks, call, strays, lost, tangled>>
      BY <1>1 DEF vars, page, server, lists, panel, history
    <2>2. Shaped'
      BY <1>0, <2>1, ShapedIs, DataStill, ShapedStill DEF Data
    <2>3. Kept
      BY <2>1, StillCalls, QuietIs
    <2> QED BY <2>2, <2>3
  <1>2. CASE Teacher
    <2>1. clicks' \in Nat /\ Click
      BY <1>0, <1>2 DEF Teacher
    <2> QED BY <2>1, ClickKept
  <1>3. CASE (Serve \/ Answer) /\ UNCHANGED clicks
    BY <1>0, <1>3, ServeKept, AnswerKept
  <1>4. CASE (\E c \in Calls : Store(c)) /\ UNCHANGED clicks
    BY <1>0, <1>4, StateShaped, QuietState
  <1> QED BY <1>1, <1>2, <1>3, <1>4 DEF Next

\* The inductive invariant about the lists holds throughout.
THEOREM PageInvariance == Spec => []PageInv
  <1>1. Init => PageInv
    BY InitInv, InitShaped, InitCoherent DEF PageInv
  <1>2. PageInv /\ [Next]_vars => PageInv'
    BY NextInv, StepKept DEF PageInv, Kept
  <1> QED BY <1>1, <1>2, PTL DEF Spec

\* One of a set, or none.
LEMMA OneOrNone ==
  ASSUME NEW S, NEW b \in BOOLEAN, b <=> S # {}, \A x, y \in S : x = y
  PROVE  Cardinality(S) = IF b THEN 1 ELSE 0
  <1>1. CASE S = {}
    BY <1>1, FS_EmptySet
  <1>2. CASE S # {}
    <2>1. PICK x \in S : TRUE
      BY <1>2
    <2>2. S = {x}
      BY <2>1
    <2> QED BY <1>2, <2>2, FS_Singleton
  <1> QED BY <1>1, <1>2

\* One save is on its way when the page says so, and one upload
\* (course-builder.component.ts:303, :360), and every variable has its type.
THEOREM TypeCorrect == Spec => []TypeOK
  <1>1. ASSUME Shaped PROVE TypeOK
    <2>1. Cardinality({c \in Calls : call[c].op \in Saves}) = IF saving THEN 1 ELSE 0
      <3>1. PICK S : S = {c \in Calls : call[c].op \in Saves} OBVIOUS
      <3>2. saving \in BOOLEAN /\ (saving <=> S # {}) /\ \A x, y \in S : x = y
        BY <1>1, <3>1 DEF Shaped, Typed, OneSave
      <3> QED BY <3>1, <3>2, OneOrNone
    <2>2. Cardinality({c \in Calls : call[c].op \in Uploads}) = IF uploading THEN 1 ELSE 0
      <3>1. PICK S : S = {c \in Calls : call[c].op \in Uploads} OBVIOUS
      <3>2. uploading \in BOOLEAN /\ (uploading <=> S # {}) /\ \A x, y \in S : x = y
        BY <1>1, <3>1 DEF Shaped, Typed, OneUpload
      <3> QED BY <3>1, <3>2, OneOrNone
    <2> QED BY <1>1, <2>1, <2>2 DEF TypeOK, Shaped
  <1>2. PageInv => TypeOK
    BY <1>1 DEF PageInv
  <1> QED BY <1>2, PageInvariance, PTL

LEMMA SettledIs ==
  Settled => ~lost /\ Created = {} /\ Coming = {} /\ Going = {} /\ Leaving = {}
  <1> SUFFICES ASSUME Settled PROVE ~lost /\ Created = {} /\ Coming = {} /\ Going = {} /\ Leaving = {}
    OBVIOUS
  <1>1. ~lost /\ \A c \in Calls : call[c].op = "none"
    BY DEF Settled, Idle
  <1> QED BY <1>1 DEF Created, CreatedBy, Coming, ComingBy, WrittenBy, WritingBy, Going, GoingBy,
       Leaving, LeavingBy, PartingBy

\* When all is answered the page hides nothing of the course, in whatever
\* order the calls were served and answered (course-builder.component.ts:261,
\* :321, :420).
THEOREM ListsWhole == Spec => []NothingHidden
  <1>1. ASSUME PageInv, Settled
        PROVE  /\ {m \in Modules : place[m] # Absent} \subseteq Range(order)
               /\ \A m \in Modules : InModule(m) \subseteq Range(lessonsOf[m])
    <2>1. Standing \subseteq Range(order) /\ InCourse \subseteq Shown
      BY <1>1, SettledIs DEF PageInv, Complete, Hides
    <2>2. ASSUME NEW m \in Modules, NEW x \in InModule(m) PROVE x \in Range(lessonsOf[m])
      <3>1. <<x, m>> \in InCourse
        BY DEF InModule, InCourse
      <3> QED BY <2>1, <3>1 DEF Shown
    <2> QED BY <2>1, <2>2 DEF Standing
  <1>2. PageInv => NothingHidden
    BY <1>1 DEF NothingHidden
  <1> QED BY <1>2, PageInvariance, PTL

\* What the page shows and the server no longer has are deleted lessons that
\* came with the outline (course-builder.component.ts:340).
THEOREM GhostsCameLoaded == Spec => []GhostsLoaded
  <1>1. ASSUME PageInv, Settled
        PROVE  /\ \A m \in Range(order) : place[m] # Absent
               /\ \A m \in Modules : \A x \in Range(lessonsOf[m]) : row[x] = NoRow => lesson[x].mod = None
    <2>1. Ghosts /\ Going = {} /\ Leaving = {}
      BY <1>1, SettledIs DEF PageInv, Complete
    <2>2. \A m \in Range(order) : place[m] # Absent
      BY <2>1 DEF Ghosts, Standing
    <2>3. ASSUME NEW m \in Modules, NEW x \in Range(lessonsOf[m]), row[x] = NoRow, lesson[x].mod # None
          PROVE  FALSE
      <3>0. DataTyped
        BY <1>1, ShapedIs DEF PageInv
      <3>1. x \in Lessons
        BY <3>0, SeqParts DEF DataTyped
      <3>2. PICK k \in Modules : k = lesson[x].mod
        BY <2>3, <3>0, <3>1 DEF DataTyped, ObjectType
      <3>3. <<x, m>> \in Shown /\ <<x, k>> \in Object
        BY <3>1, <3>2 DEF Shown, Object
      <3>4. m = k
        BY <1>1, <3>3 DEF PageInv, Coherent, ObjectFits
      <3>5. PICK n \in Modules : <<x, n>> \in InCourse
        BY <2>1, <3>3, <3>4 DEF Ghosts
      <3> QED BY <2>3, <3>5, BuilderAssumption DEF InCourse, NoRow
    <2> QED BY <2>2, <2>3
  <1>2. PageInv => GhostsLoaded
    BY <1>1 DEF GhostsLoaded
  <1> QED BY <1>2, PageInvariance, PTL

-----------------------------------------------------------------------------
(* Order: one list                                                         *)

\* a stands before b.
Before(ids, a, b) == \E i, j \in DOMAIN ids : i < j /\ ids[i] = a /\ ids[j] = b

\* The list ids was sent: of what stands in P, it and what came after it have
\* the order of the list L, and its indexes will be below those of what it
\* does not name.
SentFits(L, P, ix, Q, ids) ==
  /\ IsInjective(ids) /\ Q \cap Range(ids) = {}
  /\ \A i, j \in DOMAIN L : i < j /\ L[i] \in P /\ L[j] \in P =>
       Before(ids, L[i], L[j]) \/ (L[j] \notin Range(ids) /\ ix[L[i]] < ix[L[j]])
  /\ \A a \in P \cap Range(ids), b \in P \ Range(ids) : ix[a] < ix[b]

\* The list L of what stands in P, with the indexes ix, when Q is on its way
\* into the list and the lists in R are on their way to the server.
Fits(L, P, ix, Q, R) ==
  /\ \A a, b \in P : a # b => ix[a] # ix[b]
  /\ \A a \in Q \cap P : \A b \in P \ {a} : ix[b] < ix[a]
  /\ R = {} => \A i, j \in DOMAIN L : i < j /\ L[i] \in P /\ L[j] \in P => ix[L[i]] < ix[L[j]]
  /\ \A ids \in R : SentFits(L, P, ix, Q, ids)

\* L2 is L, but for what left it.
Within(L2, L) ==
  \A i, j \in DOMAIN L2 : i < j => \E k, l \in DOMAIN L : k < l /\ L[k] = L2[i] /\ L[l] = L2[j]

LEMMA FitsWithin ==
  ASSUME NEW L, NEW L2, NEW P, NEW P2, NEW ix, NEW ix2, NEW Q, NEW Q2, NEW R,
         Fits(L, P, ix, Q, R), Within(L2, L), P2 \subseteq P, Q2 \subseteq Q, \A a \in P2 : ix2[a] = ix[a]
  PROVE  Fits(L2, P2, ix2, Q2, R)
  <1>1. \A a, b \in P2 : a # b => ix2[a] # ix2[b]
    BY DEF Fits
  <1>2. \A a \in Q2 \cap P2 : \A b \in P2 \ {a} : ix2[b] < ix2[a]
    BY DEF Fits
  <1>3. ASSUME NEW i \in DOMAIN L2, NEW j \in DOMAIN L2, i < j, L2[i] \in P2, L2[j] \in P2
        PROVE  /\ R = {} => ix2[L2[i]] < ix2[L2[j]]
               /\ \A ids \in R : Before(ids, L2[i], L2[j]) \/ (L2[j] \notin Range(ids) /\ ix2[L2[i]] < ix2[L2[j]])
    <2>1. PICK k \in DOMAIN L, l \in DOMAIN L : k < l /\ L[k] = L2[i] /\ L[l] = L2[j]
      BY <1>3 DEF Within
    <2> QED BY <1>3, <2>1 DEF Fits, SentFits
  <1>4. ASSUME NEW ids \in R PROVE SentFits(L2, P2, ix2, Q2, ids)
    <2>1. IsInjective(ids) /\ Q2 \cap Range(ids) = {}
      BY DEF Fits, SentFits
    <2>2. \A a \in P2 \cap Range(ids), b \in P2 \ Range(ids) : ix2[a] < ix2[b]
      BY DEF Fits, SentFits
    <2> QED BY <1>3, <2>1, <2>2 DEF SentFits
  <1> QED BY <1>1, <1>2, <1>3, <1>4 DEF Fits

\* What is created gets an index above all, and was in no list.
LEMMA FitsCreated ==
  ASSUME NEW S, NEW L \in Seq(S), NEW P, NEW ix, NEW ix2, NEW R, NEW a,
         Fits(L, P, ix, {}, R), a \notin P, a \notin Range(L), \A ids \in R : a \notin Range(ids),
         \A b \in P : ix2[b] = ix[b] /\ ix2[b] < ix2[a] /\ ix2[b] # ix2[a]
  PROVE  Fits(L, P \cup {a}, ix2, {a}, R)
  <1>1. \A b, d \in P \cup {a} : b # d => ix2[b] # ix2[d]
    BY DEF Fits
  <1>2. \A b \in {a} \cap (P \cup {a}) : \A d \in (P \cup {a}) \ {b} : ix2[d] < ix2[b]
    OBVIOUS
  <1>3. \A i \in DOMAIN L : L[i] # a
    BY SeqParts
  <1>4. R = {} => \A i, j \in DOMAIN L :
                    i < j /\ L[i] \in P \cup {a} /\ L[j] \in P \cup {a} => ix2[L[i]] < ix2[L[j]]
    BY <1>3 DEF Fits
  <1>5. ASSUME NEW ids \in R PROVE SentFits(L, P \cup {a}, ix2, {a}, ids)
    <2>1. IsInjective(ids) /\ {a} \cap Range(ids) = {}
      BY DEF Fits, SentFits
    <2>2. \A i, j \in DOMAIN L : i < j /\ L[i] \in P \cup {a} /\ L[j] \in P \cup {a} =>
            Before(ids, L[i], L[j]) \/ (L[j] \notin Range(ids) /\ ix2[L[i]] < ix2[L[j]])
      BY <1>3 DEF Fits, SentFits
    <2>3. \A b \in (P \cup {a}) \cap Range(ids), d \in (P \cup {a}) \ Range(ids) : ix2[b] < ix2[d]
      BY DEF Fits, SentFits
    <2> QED BY <2>1, <2>2, <2>3 DEF SentFits
  <1> QED BY <1>1, <1>2, <1>4, <1>5 DEF Fits

\* What was created comes to the end of the list.
LEMMA FitsAppended ==
  ASSUME NEW S, NEW L \in Seq(S), NEW P, NEW ix, NEW Q, NEW Q2, NEW R, NEW a \in S,
         Fits(L, P, ix, Q, R), a \in P => a \in Q, a \notin Range(L), Q2 \subseteq Q
  PROVE  Fits(Append(L, a), P, ix, Q2, R)
  <1>1. PICK L2 : L2 = Append(L, a) OBVIOUS
  <1>2. DOMAIN L2 = 1..(Len(L) + 1) /\ DOMAIN L = 1..Len(L) /\ Len(L) \in Nat
    BY <1>1, AppendIs, SeqParts
  <1>3. (\A i \in DOMAIN L : L2[i] = L[i]) /\ L2[Len(L) + 1] = a
    BY <1>1, AppendIs
  <1>4. \A i \in DOMAIN L : L[i] # a
    BY SeqParts
  <1>5. ASSUME NEW i \in DOMAIN L2, NEW j \in DOMAIN L2, i < j, L2[i] \in P, L2[j] \in P
        PROVE  /\ R = {} => ix[L2[i]] < ix[L2[j]]
               /\ \A ids \in R : Before(ids, L2[i], L2[j]) \/ (L2[j] \notin Range(ids) /\ ix[L2[i]] < ix[L2[j]])
    <2>1. i \in DOMAIN L
      BY <1>2, <1>5
    <2>2. CASE j \in DOMAIN L
      BY <1>3, <1>5, <2>1, <2>2 DEF Fits, SentFits
    <2>3. CASE j = Len(L) + 1
      <3>1. L2[j] = a /\ a \in Q /\ a \in P /\ L2[i] \in P \ {a}
        BY <1>3, <1>4, <1>5, <2>1, <2>3
      <3>2. ix[L2[i]] < ix[a]
        BY <3>1 DEF Fits
      <3> QED BY <3>1, <3>2 DEF Fits, SentFits
    <2> QED BY <1>2, <2>2, <2>3
  <1>6. ASSUME NEW ids \in R PROVE SentFits(L2, P, ix, Q2, ids)
    <2>1. IsInjective(ids) /\ Q2 \cap Range(ids) = {}
      BY DEF Fits, SentFits
    <2>2. \A b \in P \cap Range(ids), d \in P \ Range(ids) : ix[b] < ix[d]
      BY DEF Fits, SentFits
    <2> QED BY <1>5, <2>1, <2>2 DEF SentFits
  <1>7. \A b \in Q2 \cap P : \A d \in P \ {b} : ix[d] < ix[b]
    BY DEF Fits
  <1>8. Fits(L2, P, ix, Q2, R)
    BY <1>5, <1>6, <1>7 DEF Fits
  <1> QED BY <1>1, <1>8

\* A list that was dragged is sent.
LEMMA FitsDragged ==
  ASSUME NEW S, NEW L2 \in Seq(S), IsInjective(L2), NEW L, NEW P, NEW ix, NEW Q, NEW R,
         Fits(L, P, ix, Q, R), P \subseteq Range(L2) \cup Q, Q \cap Range(L2) = {}
  PROVE  Fits(L2, P, ix, Q, {L2})
  <1>1. \A i, j \in DOMAIN L2 : i < j => Before(L2, L2[i], L2[j])
    BY DEF Before
  <1>2. \A a \in P \cap Range(L2), b \in P \ Range(L2) : ix[a] < ix[b]
    BY DEF Fits
  <1>3. SentFits(L2, P, ix, Q, L2)
    BY <1>1, <1>2 DEF SentFits
  <1> QED BY <1>3 DEF Fits

\* An index above those of all of a list is not below its length.
LEMMA Above ==
  ASSUME NEW S, NEW ids \in Seq(S), IsInjective(ids), NEW n \in Nat, NEW ix,
         \A a \in Range(ids) : ix[a] \in Nat /\ ix[a] < n,
         \A a, b \in Range(ids) : a # b => ix[a] # ix[b]
  PROVE  Len(ids) <= n
  <1>1. Len(ids) \in Nat /\ DOMAIN ids = 1..Len(ids) /\ \A i \in DOMAIN ids : ids[i] \in Range(ids)
    BY SeqParts
  <1>2. PICK f : f = [i \in 1..Len(ids) |-> ix[ids[i]]] OBVIOUS
  <1>3. ASSUME NEW i \in 1..Len(ids) PROVE f[i] \in 0..(n - 1)
    <2>1. PICK a, k : a = ids[i] /\ k = ix[a] OBVIOUS
    <2>2. a \in Range(ids)
      BY <1>1, <2>1
    <2>3. k \in Nat /\ k < n
      BY <2>1, <2>2
    <2> QED BY <1>2, <2>1, <2>3
  <1>4. f \in [1..Len(ids) -> 0..(n - 1)]
    BY <1>2, <1>3
  <1>5. \A i, j \in 1..Len(ids) : i # j => f[i] # f[j]
    BY <1>1, <1>2 DEF IsInjective
  <1>6. IsFiniteSet(1..Len(ids)) /\ Cardinality(1..Len(ids)) = Len(ids)
    <2>1. PICK k : k = Len(ids) OBVIOUS
    <2>2. k \in Nat /\ k \in Int /\ 1 \in Int
      BY <1>1, <2>1
    <2>3. IsFiniteSet(1..k) /\ Cardinality(1..k) = IF 1 > k THEN 0 ELSE k - 1 + 1
      BY <2>2, FS_Interval
    <2> QED BY <2>1, <2>2, <2>3
  <1>7. IsFiniteSet(0..(n - 1)) /\ Cardinality(0..(n - 1)) = n
    <2>1. PICK k : k = n - 1 OBVIOUS
    <2>2. k \in Int
      BY <2>1
    <2>3. IsFiniteSet(0..k) /\ Cardinality(0..k) = IF 0 > k THEN 0 ELSE k - 0 + 1
      BY <2>2, FS_Interval
    <2> QED BY <2>1, <2>3
  <1>8. ~(Cardinality(0..(n - 1)) < Cardinality(1..Len(ids)))
    BY <1>4, <1>5, <1>6, <1>7, FS_PigeonHole
  <1> QED BY <1>1, <1>6, <1>7, <1>8

\* A list takes effect that names only what stands, or all of it.
LEMMA FitsServed ==
  ASSUME NEW S, NEW ids \in Seq(S), NEW L, NEW P, NEW ix, NEW ix2, NEW Q,
         Fits(L, P, ix, Q, {ids}), Range(ids) \subseteq P \/ P \subseteq Range(ids),
         \A a \in P : ix[a] \in Nat /\ ix2[a] = Reindexed(ids, a, ix[a])
  PROVE  Fits(L, P, ix2, Q, {})
  <1>0. SentFits(L, P, ix, Q, ids)
    BY DEF Fits
  <1>1. /\ \A i \in DOMAIN ids : Place(ids, ids[i]) = i - 1
        /\ \A a \in Range(ids) : Place(ids, a) \in Nat /\ Place(ids, a) < Len(ids)
        /\ \A a, b \in Range(ids) : Place(ids, a) = Place(ids, b) => a = b
    BY <1>0, PlaceIs DEF SentFits
  <1>2. /\ \A a \in P \cap Range(ids) : ix2[a] = Place(ids, a)
        /\ \A a \in P \ Range(ids) : ix2[a] = ix[a]
    BY DEF Reindexed
  <1>3. ASSUME NEW b \in P \ Range(ids) PROVE Len(ids) <= ix[b]
    <2>1. Range(ids) \subseteq P
      BY <1>3
    <2>2. PICK n \in Nat : n = ix[b]
      OBVIOUS
    <2>3. \A a \in Range(ids) : ix[a] \in Nat /\ ix[a] < n
      BY <1>0, <2>1, <2>2 DEF SentFits
    <2>4. \A a, d \in Range(ids) : a # d => ix[a] # ix[d]
      BY <2>1 DEF Fits
    <2>5. IsInjective(ids)
      BY <1>0 DEF SentFits
    <2> QED BY <2>2, <2>3, <2>4, <2>5, Above
  <1>4. Len(ids) \in Nat
    BY SeqParts
  <1>5. ASSUME NEW a \in P \cap Range(ids), NEW b \in P \ Range(ids) PROVE ix2[a] < ix2[b]
    <2>1. PICK k, n : k = Place(ids, a) /\ n = ix[b] OBVIOUS
    <2>2. k \in Nat /\ k < Len(ids) /\ n \in Nat /\ Len(ids) <= n
      BY <1>1, <1>3, <2>1
    <2> QED BY <1>2, <1>4, <2>1, <2>2
  <1>6. ASSUME NEW a \in P, NEW b \in P, a # b PROVE ix2[a] # ix2[b]
    <2>1. CASE a \in Range(ids) /\ b \in Range(ids)
      BY <1>1, <1>2, <1>6, <2>1
    <2>2. CASE a \notin Range(ids) /\ b \notin Range(ids)
      BY <1>2, <1>6, <2>2 DEF Fits
    <2>3. ASSUME NEW d \in P \cap Range(ids), NEW e \in P \ Range(ids) PROVE ix2[d] # ix2[e]
      <3>1. PICK k, n : k = Place(ids, d) /\ n = ix[e] OBVIOUS
      <3>2. k \in Nat /\ k < Len(ids) /\ n \in Nat /\ Len(ids) <= n
        BY <1>1, <1>3, <3>1
      <3> QED BY <1>2, <1>4, <3>1, <3>2
    <2> QED BY <2>1, <2>2, <2>3
  <1>7. ASSUME NEW a \in Q \cap P, NEW b \in P \ {a} PROVE ix2[b] < ix2[a]
    <2>1. a \notin Range(ids)
      BY <1>0 DEF SentFits
    <2> QED BY <1>2, <1>5, <2>1 DEF Fits
  <1>8. ASSUME NEW i \in DOMAIN L, NEW j \in DOMAIN L, i < j, L[i] \in P, L[j] \in P
        PROVE  ix2[L[i]] < ix2[L[j]]
    <2>1. CASE Before(ids, L[i], L[j])
      <3>1. PICK k \in DOMAIN ids, l \in DOMAIN ids : k < l /\ ids[k] = L[i] /\ ids[l] = L[j]
        BY <2>1 DEF Before
      <3>2. Place(ids, L[i]) = k - 1 /\ Place(ids, L[j]) = l - 1 /\ k \in Nat /\ l \in Nat
        BY <1>1, <3>1, SeqParts
      <3>3. L[i] \in Range(ids) /\ L[j] \in Range(ids)
        BY <3>1, SeqParts
      <3> QED BY <1>2, <1>8, <3>1, <3>2, <3>3
    <2>2. CASE L[j] \notin Range(ids) /\ ix[L[i]] < ix[L[j]]
      BY <1>2, <1>5, <1>8, <2>2
    <2> QED BY <1>0, <1>8, <2>1, <2>2 DEF SentFits
  <1> QED BY <1>6, <1>7, <1>8 DEF Fits

-----------------------------------------------------------------------------
(* Order: the lists                                                        *)

\* The lists: of modules, None, and of the lessons of each module.
Keys == Modules \cup {None}

\* A list, what the server has for it, with which indexes, what has yet to come
\* into it, the drags of it that have no answer, and what they sent.
ListOf(k)  == IF k = None THEN order ELSE lessonsOf[k]
On(k)      == IF k = None THEN Standing ELSE InModule(k)
Index(k)   == IF k = None THEN place ELSE [x \in Lessons |-> row[x].index]
Pending(k) == IF k = None THEN Created ELSE {x \in Lessons : <<x, k>> \in Coming}
Drags(k)   == {c \in Calls : call[c].op = "reorder" /\ call[c].mod = k}
SentIds(k) == {call[c].ids : c \in {d \in Drags(k) : call[d].st = "sent"}}

InOrder(k) ==
  /\ Fits(ListOf(k), On(k), Index(k), Pending(k), SentIds(k))
  /\ \A c, d \in Drags(k) : c = d
  /\ \A c \in Drags(k) : call[c].st # "error"

OrderFits == ~lost => \A k \in Keys \ tangled : InOrder(k)

\* What a drag sent was drawn, and belongs to its list.
DragFits ==
  \A c \in Calls : call[c].op = "reorder" =>
    IF call[c].mod = None THEN Range(call[c].ids) \subseteq Modules \cap drawn
    ELSE /\ Range(call[c].ids) \subseteq Lessons \cap drawn
         /\ \A p \in Home : p[1] \in Range(call[c].ids) => p[2] = call[c].mod

-----------------------------------------------------------------------------
(* Order: what a step leaves of it                                         *)

DragsStay(k) ==
  /\ Drags(k)' \subseteq Drags(k) /\ SentIds(k)' = SentIds(k)
  /\ \A c \in Drags(k)' : call'[c].st = "error" => call[c].st = "error"

\* List k loses something at most.
Steady(k) ==
  /\ Within(ListOf(k)', ListOf(k)) /\ On(k)' \subseteq On(k) /\ Pending(k)' \subseteq Pending(k)
  /\ \A a \in On(k)' : Index(k)'[a] = Index(k)[a]
  /\ DragsStay(k)

LEMMA SteadyOrder ==
  ASSUME NEW k, InOrder(k), Steady(k) PROVE InOrder(k)'
  <1>1. PICK L2, P2, ix2, Q2 : L2 = ListOf(k)' /\ P2 = On(k)' /\ ix2 = Index(k)' /\ Q2 = Pending(k)'
    OBVIOUS
  <1>2. Fits(L2, P2, ix2, Q2, SentIds(k))
    BY <1>1, FitsWithin DEF InOrder, Steady
  <1>3. Fits(ListOf(k), On(k), Index(k), Pending(k), SentIds(k))'
    BY <1>1, <1>2 DEF Steady, DragsStay, Fits, SentFits, Before
  <1> QED BY <1>3 DEF InOrder, Steady, DragsStay

LEMMA OrderKept ==
  ASSUME lost => lost', tangled \subseteq tangled', OrderFits,
         \A k \in Keys \ tangled' : ~lost /\ ~lost' /\ InOrder(k) => InOrder(k)'
  PROVE  OrderFits'
  BY DEF OrderFits, Keys

LEMMA WithinItself == \A L : Within(L, L)
  BY DEF Within

\* Calls other than c stay.
Only(c) == \A d \in Calls \ {c} : call'[d] = call[d]

LEMMA DragsTurn ==
  ASSUME NEW c \in Calls, NEW k, Only(c), c \notin Drags(k), c \notin Drags(k)'
  PROVE  DragsStay(k)
  <1>1. Drags(k)' = Drags(k)
    BY DEF Drags, Only
  <1>2. \A d \in Drags(k) : call'[d] = call[d]
    BY DEF Drags, Only
  <1>3. SentIds(k)' = SentIds(k)
    BY <1>1, <1>2 DEF SentIds
  <1> QED BY <1>1, <1>2, <1>3 DEF DragsStay

LEMMA DragsClose ==
  ASSUME NEW c \in Calls, NEW k, Only(c), call'[c] = Idle, call[c].st # "sent"
  PROVE  DragsStay(k)
  <1>1. Drags(k)' = Drags(k) \ {c}
    BY DEF Drags, Only, Idle
  <1>2. \A d \in Drags(k) \ {c} : call'[d] = call[d]
    BY DEF Drags, Only
  <1>3. {d \in Drags(k) : call[d].st = "sent"}' = {d \in Drags(k) : call[d].st = "sent"}
    BY <1>1, <1>2
  <1>4. SentIds(k)' = SentIds(k)
    BY <1>1, <1>2, <1>3 DEF SentIds
  <1> QED BY <1>1, <1>2, <1>4 DEF DragsStay

LEMMA DragsStill ==
  ASSUME UNCHANGED call, NEW k PROVE DragsStay(k)
  BY DEF DragsStay, Drags, SentIds

\* No call has created anything, and nothing stays that had gone.
LEMMA ComesNot ==
  ASSUME NEW c \in Calls, Only(c), call'[c].st = "ok" => call'[c].op \notin {"createModule", "createLesson"}
  PROVE  Created' \subseteq Created /\ Coming' \subseteq Coming
  <1>1. Created' \subseteq Created
    BY DEF Created, CreatedBy, Only
  <1>2. Coming' \subseteq Coming
    BY DEF Coming, ComingBy, WrittenBy, WritingBy, Only
  <1> QED BY <1>1, <1>2

LEMMA TurnsOnly ==
  ASSUME NEW c \in Calls, NEW q, Turns(c, q) PROVE Only(c) /\ call'[c] = q
  BY DEF Turns, Only

LEMMA CloseOnly ==
  ASSUME Shaped, NEW c \in Calls, Close(c)
  PROVE  Only(c) /\ call'[c] = Idle /\ Created' \subseteq Created /\ Coming' \subseteq Coming
  <1>1. Only(c) /\ call'[c] = Idle
    BY ShapedIs, CloseTurns, TurnsOnly
  <1> QED BY <1>1, ComesNot DEF Idle

LEMMA SendOnly ==
  ASSUME Shaped, NEW c \in Calls, NEW op, NEW m, NEW x, NEW f, NEW ids, Send(c, op, m, x, f, ids)
  PROVE  /\ Only(c) /\ call[c] = Idle /\ Created' \subseteq Created /\ Coming' \subseteq Coming
         /\ call'[c] = [op |-> op, mod |-> m, lesson |-> x, file |-> f, ids |-> ids, st |-> "sent"]
  <1>1. call \in [Calls -> CallType]
    BY ShapedIs
  <1>2. PICK q : q = [op |-> op, mod |-> m, lesson |-> x, file |-> f, ids |-> ids, st |-> "sent"]
    OBVIOUS
  <1>3. Only(c) /\ call[c] = Idle /\ call'[c] = q
    BY <1>1, <1>2 DEF Send, Only
  <1> QED BY <1>2, <1>3, ComesNot

\* Lists, modules and the modules and indexes of lessons stay.
LEMMA SteadyQuiet ==
  ASSUME UNCHANGED <<place, order, lessonsOf>>,
         \A x \in Lessons : row'[x].mod = row[x].mod /\ row'[x].index = row[x].index,
         Created' \subseteq Created, Coming' \subseteq Coming, NEW k \in Keys, DragsStay(k)
  PROVE  Steady(k)
  <1>1. Within(ListOf(k)', ListOf(k))
    BY WithinItself DEF ListOf
  <1>2. On(k)' = On(k)
    BY DEF On, Standing, InModule
  <1>3. Pending(k)' \subseteq Pending(k)
    BY DEF Pending
  <1>4. \A a \in On(k)' : Index(k)'[a] = Index(k)[a]
    <2>1. CASE k = None
      BY <2>1 DEF Index
    <2>2. CASE k # None
      <3>1. \A a \in On(k)' : a \in Lessons
        BY <2>2 DEF On, InModule
      <3> QED BY <2>2, <3>1 DEF Index
    <2> QED BY <2>1, <2>2
  <1> QED BY <1>1, <1>2, <1>3, <1>4 DEF Steady

\* Drags belong to the list they were made in.
LEMMA DragFitsKept ==
  ASSUME DragFits, HomeStep,
         \A c \in Calls : call'[c].op = "reorder" =>
           call[c].op = "reorder" /\ call'[c].mod = call[c].mod /\ call'[c].ids = call[c].ids
  PROVE  DragFits'
  <1>1. ASSUME NEW c \in Calls, call'[c].op = "reorder"
        PROVE  IF call'[c].mod = None THEN Range(call'[c].ids) \subseteq Modules \cap drawn'
               ELSE /\ Range(call'[c].ids) \subseteq Lessons \cap drawn'
                    /\ \A p \in Home' : p[1] \in Range(call'[c].ids) => p[2] = call'[c].mod
    <2>1. PICK m, R : m = call[c].mod /\ R = Range(call[c].ids) OBVIOUS
    <2>2. call'[c].mod = m /\ Range(call'[c].ids) = R
      BY <1>1, <2>1
    <2>3. IF m = None THEN R \subseteq Modules \cap drawn
          ELSE R \subseteq Lessons \cap drawn /\ \A p \in Home : p[1] \in R => p[2] = m
      BY <1>1, <2>1 DEF DragFits
    <2> QED BY <2>2, <2>3 DEF HomeStep
  <1> QED BY <1>1 DEF DragFits

-----------------------------------------------------------------------------
(* Order: steps that leave it                                              *)

Ordered == OrderFits /\ DragFits

\* No drag and no creation is new, and what drags sent stays, but for lists
\* that are tangled.
Calm ==
  /\ \A c \in Calls : call'[c].op = "reorder" =>
       call[c].op = "reorder" /\ call'[c].mod = call[c].mod /\ call'[c].ids = call[c].ids
  /\ Created' \subseteq Created /\ Coming' \subseteq Coming
  /\ \A k \in Keys \ tangled' : DragsStay(k)

LEMMA CalmStill == UNCHANGED call => Calm
  <1> SUFFICES ASSUME UNCHANGED call PROVE Calm
    OBVIOUS
  <1>1. QuietCalls
    BY StillCalls
  <1>2. \A k : DragsStay(k)
    BY DragsStill
  <1> QED BY <1>1, <1>2 DEF Calm, QuietCalls

LEMMA CalmTurn ==
  ASSUME NEW c \in Calls, Only(c), call[c].op # "reorder", call'[c].op # "reorder",
         call'[c].st = "ok" => call'[c].op \notin {"createModule", "createLesson"}
  PROVE  Calm
  <1>1. Created' \subseteq Created /\ Coming' \subseteq Coming
    BY ComesNot
  <1>2. ASSUME NEW k PROVE DragsStay(k)
    <2>1. c \notin Drags(k) /\ c \notin Drags(k)'
      BY DEF Drags
    <2> QED BY <2>1, DragsTurn
  <1> QED BY <1>1, <1>2 DEF Calm, Only

LEMMA CalmClose ==
  ASSUME Shaped, NEW c \in Calls, Close(c), call[c].st # "sent"
  PROVE  Calm
  <1>1. Only(c) /\ call'[c] = Idle /\ Created' \subseteq Created /\ Coming' \subseteq Coming
    BY CloseOnly
  <1>2. \A k : DragsStay(k)
    BY <1>1, DragsClose
  <1>3. call'[c].op # "reorder"
    BY <1>1 DEF Idle
  <1> QED BY <1>1, <1>2, <1>3 DEF Calm, Only

LEMMA CalmSend ==
  ASSUME Shaped, NEW c \in Calls, NEW op, NEW m, NEW x, NEW f, NEW ids, Send(c, op, m, x, f, ids),
         op # "reorder"
  PROVE  Calm
  <1>1. PICK q : q = [op |-> op, mod |-> m, lesson |-> x, file |-> f, ids |-> ids, st |-> "sent"]
    OBVIOUS
  <1>2. Only(c) /\ call[c] = Idle /\ call'[c] = q
    BY <1>1, SendOnly
  <1> QED BY <1>1, <1>2, CalmTurn DEF Idle

\* Neither lists, nor modules, nor what orders the lessons.
LEMMA CalmOrdered ==
  ASSUME Ordered, HomeStep, Calm, UNCHANGED <<place, order, lessonsOf>>,
         \A x \in Lessons : row'[x].mod = row[x].mod /\ row'[x].index = row[x].index,
         lost => lost', tangled \subseteq tangled'
  PROVE  Ordered'
  <1>1. ASSUME NEW k \in Keys \ tangled', InOrder(k) PROVE InOrder(k)'
    <2>1. Steady(k)
      BY SteadyQuiet DEF Calm
    <2> QED BY <1>1, <2>1, SteadyOrder
  <1>2. OrderFits'
    BY <1>1, OrderKept DEF Ordered
  <1>3. DragFits'
    BY DragFitsKept DEF Ordered, Calm
  <1> QED BY <1>2, <1>3 DEF Ordered

\* Lists are left by the forms, the files, and the calls that are sent, but for
\* drags.
LEMMA ClickOrdered ==
  ASSUME Shaped, Ordered, HomeStep,
         \/ \E m \in Modules \cup {New} : EditModule(m)
         \/ CancelModule \/ CancelLesson
         \/ \E m \in Modules : AddLesson(m) \/ \E x \in Lessons : SelectLesson(m, x)
         \/ \E c \in Calls :
              \/ SaveModule(c) \/ SaveLesson(c) \/ DeleteLesson(c)
              \/ \E m \in Modules : DeleteModule(c, m)
              \/ \E f \in Files :
                   \/ PickVideo(c, f) \/ UploadVideo(c, f) \/ PickPdf(c, f) \/ UploadPdf(c, f)
                   \/ RemoveAttachment(c, f)
  PROVE  Ordered'
  <1> USE DEF server, lists, history
  <1>1. UNCHANGED <<place, row, order, lessonsOf, lost, tangled>>
    BY DEF EditModule, CancelModule, CancelLesson, AddLesson, SelectLesson, OpenForm, SaveModule, SaveLesson,
           DeleteLesson, DeleteModule, PickVideo, UploadVideo, PickPdf, UploadPdf, Choose, RemoveAttachment
  <1>2. \/ UNCHANGED call
        \/ \E c \in Calls : \E op, m, x, f, ids : op # "reorder" /\ Send(c, op, m, x, f, ids)
    BY DEF EditModule, CancelModule, CancelLesson, AddLesson, SelectLesson, OpenForm, SaveModule, SaveLesson,
           DeleteLesson, DeleteModule, PickVideo, UploadVideo, PickPdf, UploadPdf, Choose, RemoveAttachment
  <1>3. Calm
    BY <1>2, CalmStill, CalmSend
  <1> QED BY <1>1, <1>3, CalmOrdered

\* Calls whose state changes.
LEMMA StateOrdered ==
  ASSUME Shaped, Ordered, HomeStep, NEW c \in Calls,
         ServeUpdateModule(c) \/ ServePick(c) \/ Refuse(c) \/ Store(c) \/ GotPdf(c)
  PROVE  Ordered'
  <1> USE DEF server, lists, panel, history
  <1>0. call \in [Calls -> CallType]
    BY ShapedIs
  <1>1. UNCHANGED <<place, row, order, lessonsOf, lost>> /\ tangled \subseteq tangled'
    BY DEF ServeUpdateModule, ServePick, Refuse, Store, GotPdf
  <1>2. CASE UNCHANGED call
    BY <1>1, <1>2, CalmStill, CalmOrdered
  <1>3. CASE GotPdf(c)
    <2>1. PICK q : Turns(c, q) /\ q.op \in {"pickedPdf", "uploadedPdf"}
      BY <1>0, <1>3, PdfTurns
    <2>2. Only(c) /\ call'[c] = q
      BY <2>1, TurnsOnly
    <2>3. call[c].op # "reorder"
      BY <1>3 DEF GotPdf, Answers
    <2> QED BY <1>1, <2>1, <2>2, <2>3, CalmTurn, CalmOrdered
  <1>4. CASE Refuse(c) /\ call[c].op = "reorder"
    <2>1. PICK q : /\ Turns(c, q) /\ q.op = call[c].op /\ q.mod = call[c].mod
                   /\ q.ids = call[c].ids /\ q.st = "error"
      BY <1>0, <1>4, StateTurns DEF Refuse
    <2>2. Only(c) /\ call'[c] = q /\ call[c].mod \in tangled'
      BY <1>4, <2>1, TurnsOnly DEF Refuse
    <2>3. ASSUME NEW k \in Keys \ tangled' PROVE DragsStay(k)
      <3>1. c \notin Drags(k) /\ c \notin Drags(k)'
        BY <2>1, <2>2, <2>3 DEF Drags
      <3> QED BY <2>2, <3>1, DragsTurn
    <2>4. Created' \subseteq Created /\ Coming' \subseteq Coming
      BY <2>1, <2>2, ComesNot
    <2>5. Calm
      BY <2>1, <2>2, <2>3, <2>4 DEF Calm, Only
    <2> QED BY <1>1, <2>5, CalmOrdered
  <1>5. CASE /\ ServeUpdateModule(c) \/ ServePick(c) \/ Refuse(c) \/ Store(c)
             /\ ~UNCHANGED call /\ call[c].op # "reorder"
    <2>1. PICK st \in {"ok", "error"} :
            /\ call' = [call EXCEPT ![c].st = st]
            /\ st = "ok" => call[c].op \notin {"createModule", "createLesson"}
      BY <1>5 DEF ServeUpdateModule, ServePick, Refuse, Store, Serves
    <2>2. PICK q : /\ Turns(c, q) /\ q.op = call[c].op /\ q.mod = call[c].mod /\ q.lesson = call[c].lesson
                   /\ q.file = call[c].file /\ q.ids = call[c].ids /\ q.st = st
      BY <1>0, <2>1, StateTurns
    <2>3. Only(c) /\ call'[c] = q
      BY <2>2, TurnsOnly
    <2> QED BY <1>1, <1>5, <2>1, <2>2, <2>3, CalmTurn, CalmOrdered
  <1>6. call[c].op = "reorder" => Refuse(c) \/ UNCHANGED call \/ GotPdf(c)
    BY DEF ServeUpdateModule, ServePick, Store, Serves
  <1>7. CASE call[c].op = "reorder"
    BY <1>2, <1>3, <1>4, <1>6, <1>7
  <1>8. CASE call[c].op # "reorder"
    BY <1>2, <1>3, <1>5, <1>8
  <1> QED BY <1>7, <1>8

\* Answers that change no list.
LEMMA AnswerOrdered ==
  ASSUME Shaped, Ordered, HomeStep, NEW c \in Calls,
         \/ SavedModule(c) /\ call[c].op = "updateModule"
         \/ GotVideo(c) \/ Attached(c) \/ RemovedAttachment(c)
         \/ Reordered(c) \/ Failed(c)
  PROVE  Ordered'
  <1> USE DEF server, lists, panel, history
  <1>1. UNCHANGED <<place, row, order, lessonsOf, lost, tangled>> /\ Close(c)
    BY DEF SavedModule, GotVideo, Attached, RemovedAttachment, Reordered, Failed
  <1>2. call[c].st # "sent"
    BY DEF SavedModule, GotVideo, Attached, RemovedAttachment, Reordered, Failed, Answers
  <1> QED BY <1>1, <1>2, CalmClose, CalmOrdered

\* Replies that leave the order of lessons.
LEMMA ReplyOrdered ==
  ASSUME Shaped, Ordered, HomeStep, NEW c \in Calls,
         ServeUpdateLesson(c) \/ ServeAddAttachment(c) \/ ServeDeleteAttachment(c)
  PROVE  Ordered'
  <1> USE DEF lists, panel
  <1>0. DataTyped /\ call \in [Calls -> CallType] /\ call[c] \in CallType /\ row \in [Lessons -> RowType]
    BY ShapedIs DEF DataTyped
  <1>1. PICK m \in Modules \cup {None}, x \in Lessons \cup {None} : Reply(c, m, x)
    BY <1>0 DEF ServeUpdateLesson, ServeAddAttachment, ServeDeleteAttachment, CallType
  <1>2. call[c].op \notin {"reorder", "createModule", "createLesson"}
    BY DEF ServeUpdateLesson, ServeAddAttachment, ServeDeleteAttachment, Serves
  <1>3. PICK q : Turns(c, q) /\ q.op = call[c].op /\ lost' = (lost \/ q.st = "error")
    BY <1>0, <1>1, ReplyTurns DEF Reply
  <1>4. Only(c) /\ call'[c] = q
    BY <1>3, TurnsOnly
  <1>5. Calm
    BY <1>2, <1>3, <1>4, CalmTurn
  <1>6. UNCHANGED <<place, order, lessonsOf, tangled>>
    BY <1>1 DEF ServeUpdateLesson, ServeAddAttachment, ServeDeleteAttachment, Reply, Replies
  <1>7. \A y \in Lessons : row'[y].mod = row[y].mod /\ row'[y].index = row[y].index
    <2>1. \/ \E y, f : row' = [row EXCEPT ![y].video = f]
          \/ \E y, f : row' = [row EXCEPT ![y].pdfs = @ \cup {f}]
          \/ \E f : row' = [y \in Lessons |-> [row[y] EXCEPT !.pdfs = @ \ {f}]]
      BY DEF ServeUpdateLesson, ServeAddAttachment, ServeDeleteAttachment
    <2> QED BY <1>0, <2>1 DEF RowType
  <1> QED BY <1>3, <1>5, <1>6, <1>7, CalmOrdered

-----------------------------------------------------------------------------
(* Order: deletions and additions                                          *)

\* Lists lose something at most.
LEMMA LossOrdered ==
  ASSUME Ordered, HomeStep, Calm, lost => lost', tangled \subseteq tangled',
         \A k \in Keys : /\ Within(ListOf(k)', ListOf(k)) /\ On(k)' \subseteq On(k)
                         /\ \A a \in On(k)' : Index(k)'[a] = Index(k)[a]
  PROVE  Ordered'
  <1>1. ASSUME NEW k \in Keys \ tangled', InOrder(k) PROVE InOrder(k)'
    <2>1. Pending(k)' \subseteq Pending(k)
      BY DEF Pending, Calm
    <2>2. Steady(k)
      BY <2>1 DEF Steady, Calm
    <2> QED BY <1>1, <2>2, SteadyOrder
  <1>2. OrderFits'
    BY <1>1, OrderKept DEF Ordered
  <1>3. DragFits'
    BY DragFitsKept DEF Ordered, Calm
  <1> QED BY <1>2, <1>3 DEF Ordered

LEMMA GoneOrdered ==
  ASSUME Shaped, Ordered, HomeStep, NEW c \in Calls, ServeDeleteModule(c) \/ ServeDeleteLesson(c)
  PROVE  Ordered'
  <1> USE DEF lists, panel
  <1>0. DataTyped /\ call \in [Calls -> CallType] /\ ShapeOf(call[c]) /\ call[c] \in CallType
    BY ShapedIs
  <1>1. PICK m \in Modules \cup {None}, x \in Lessons \cup {None} : m = call[c].mod /\ Reply(c, m, x)
    BY <1>0 DEF ServeDeleteModule, ServeDeleteLesson, CallType
  <1>2. call[c].op \in {"deleteModule", "deleteLesson"}
    BY DEF ServeDeleteModule, ServeDeleteLesson, Serves
  <1>3. PICK q : Turns(c, q) /\ q.op = call[c].op /\ lost' = (lost \/ q.st = "error")
    BY <1>0, <1>1, ReplyTurns DEF Reply
  <1>4. Only(c) /\ call'[c] = q
    BY <1>3, TurnsOnly
  <1>5. Calm
    BY <1>2, <1>3, <1>4, CalmTurn
  <1>6. UNCHANGED <<order, lessonsOf, tangled>>
    BY <1>1 DEF ServeDeleteModule, ServeDeleteLesson, Reply, Replies
  <1>7. \A k \in Modules : place'[k] = place[k] \/ place'[k] = Absent
    BY <1>0 DEF ServeDeleteModule, ServeDeleteLesson, DataTyped
  <1>8. \A y \in Lessons : row'[y] = row[y] \/ row'[y] = NoRow
    BY <1>0 DEF ServeDeleteModule, ServeDeleteLesson, DataTyped
  <1>9. ASSUME NEW k \in Keys
        PROVE  /\ Within(ListOf(k)', ListOf(k)) /\ On(k)' \subseteq On(k)
               /\ \A a \in On(k)' : Index(k)'[a] = Index(k)[a]
    <2>1. Within(ListOf(k)', ListOf(k))
      BY <1>6, WithinItself DEF ListOf
    <2>2. CASE k = None
      <3>1. \A a \in On(k)' : a \in Modules /\ place'[a] # Absent
        BY <2>2 DEF On, Standing
      <3>2. On(k)' \subseteq On(k)
        BY <1>7, <2>2, <3>1 DEF On, Standing
      <3>3. \A a \in On(k)' : Index(k)'[a] = Index(k)[a]
        BY <1>7, <2>2, <3>1 DEF Index
      <3> QED BY <2>1, <3>2, <3>3
    <2>3. CASE k # None
      <3>1. \A a \in On(k)' : a \in Lessons /\ row'[a].mod = k /\ row'[a] # NoRow
        BY <2>3 DEF On, InModule, NoRow
      <3>2. On(k)' \subseteq On(k)
        BY <1>8, <2>3, <3>1 DEF On, InModule
      <3>3. \A a \in On(k)' : Index(k)'[a] = Index(k)[a]
        BY <1>8, <2>3, <3>1 DEF Index
      <3> QED BY <2>1, <3>2, <3>3
    <2> QED BY <2>2, <2>3
  <1> QED BY <1>3, <1>5, <1>6, <1>9, LossOrdered

LEMMA EmptyWithin == \A L : Within(<<>>, L)
  BY DEF Within

LEMMA WithoutWithin ==
  ASSUME NEW S, NEW s \in Seq(S), IsInjective(s), NEW x
  PROVE  Within(Without(s, x), s)
  BY WithoutIs DEF Within

LEMMA RemovedOrdered ==
  ASSUME Shaped, Coherent, Ordered, HomeStep, NEW c \in Calls, DeletedModule(c) \/ DeletedLesson(c)
  PROVE  Ordered'
  <1> USE DEF server, history
  <1>0. DataTyped /\ ShapeOf(call[c]) /\ Distinct
    BY ShapedIs DEF Coherent
  <1>1. UNCHANGED <<place, row, lost, tangled>> /\ Close(c) /\ call[c].st # "sent"
    BY DEF DeletedModule, DeletedLesson, Answers
  <1>2. Calm
    BY <1>1, CalmClose
  <1>3. Within(order', order)
    BY <1>0, WithinItself, WithoutWithin DEF DeletedModule, DeletedLesson, DataTyped, Distinct
  <1>4. ASSUME NEW k \in Modules PROVE Within(lessonsOf'[k], lessonsOf[k])
    <2>1. \/ lessonsOf'[k] \in {lessonsOf[k], <<>>}
          \/ \E x : lessonsOf'[k] = Without(lessonsOf[k], x)
      BY <1>0 DEF DeletedModule, DeletedLesson, DataTyped
    <2> QED BY <1>0, <2>1, WithinItself, EmptyWithin, WithoutWithin DEF DataTyped, Distinct
  <1>5. ASSUME NEW k \in Keys
        PROVE  /\ Within(ListOf(k)', ListOf(k)) /\ On(k)' \subseteq On(k)
               /\ \A a \in On(k)' : Index(k)'[a] = Index(k)[a]
    <2>1. Within(ListOf(k)', ListOf(k))
      BY <1>3, <1>4 DEF ListOf, Keys
    <2>2. On(k)' = On(k) /\ Index(k)' = Index(k)
      BY <1>1 DEF On, Standing, InModule, Index
    <2> QED BY <2>1, <2>2
  <1> QED BY <1>1, <1>2, <1>5, LossOrdered

\* What was created comes into its list.
LEMMA AppendedOrder ==
  ASSUME NEW k, NEW S, NEW a \in S, InOrder(k), ListOf(k) \in Seq(S),
         ListOf(k)' = Append(ListOf(k), a), a \notin Range(ListOf(k)), a \in On(k) => a \in Pending(k),
         On(k)' = On(k), Index(k)' = Index(k), Pending(k)' \subseteq Pending(k), DragsStay(k)
  PROVE  InOrder(k)'
  <1>1. PICK L, Q2 : L = ListOf(k) /\ Q2 = Pending(k)'
    OBVIOUS
  <1>2. Fits(Append(L, a), On(k), Index(k), Q2, SentIds(k))
    BY <1>1, FitsAppended DEF InOrder
  <1>3. Fits(ListOf(k), On(k), Index(k), Pending(k), SentIds(k))'
    BY <1>1, <1>2 DEF DragsStay, Fits, SentFits, Before
  <1> QED BY <1>3 DEF InOrder, DragsStay

LEMMA SavedModuleOrdered ==
  ASSUME Shaped, Coherent, Ordered, HomeStep, NEW c \in Calls, SavedModule(c), call[c].op = "createModule"
  PROVE  Ordered'
  <1> USE DEF server, history
  <1>0. DataTyped /\ ShapeOf(call[c]) /\ Distinct
    BY ShapedIs DEF Coherent
  <1>1. call[c].st = "ok"
    BY DEF SavedModule, Answers
  <1>2. PICK m \in Modules : m = call[c].mod
    BY <1>0, <1>1 DEF ShapeOf
  <1>3. /\ order' = Append(order, m) /\ lessonsOf' = [lessonsOf EXCEPT ![m] = <<>>] /\ Close(c)
        /\ UNCHANGED <<place, row, lost, tangled>>
    BY <1>2 DEF SavedModule
  <1>4. Calm
    BY <1>1, <1>3, CalmClose
  <1>5. m \in Created
    BY <1>1, <1>2 DEF Created, CreatedBy
  <1>6. m \notin Range(order)
    BY <1>5 DEF Coherent, CallFits, Seen
  <1>7. lessonsOf' = lessonsOf
    BY <1>0, <1>3, <1>6 DEF Distinct, DataTyped
  <1>8. ASSUME NEW k \in Keys \ tangled', InOrder(k) PROVE InOrder(k)'
    <2>1. On(k)' = On(k) /\ Index(k)' = Index(k)
      BY <1>3 DEF On, Standing, InModule, Index
    <2>2. Pending(k)' \subseteq Pending(k) /\ DragsStay(k)
      BY <1>4, <1>8 DEF Calm, Pending
    <2>3. CASE k = None
      <3>1. ListOf(k) = order /\ ListOf(k)' = order' /\ Pending(k) = Created
        BY <2>3 DEF ListOf, Pending
      <3>2. order \in Seq(Modules)
        BY <1>0 DEF DataTyped
      <3> QED BY <1>3, <1>5, <1>6, <1>8, <2>1, <2>2, <3>1, <3>2, AppendedOrder
    <2>4. CASE k # None
      <3>1. Within(ListOf(k)', ListOf(k))
        BY <1>7, <2>4, WithinItself DEF ListOf
      <3>2. Steady(k)
        BY <2>1, <2>2, <3>1 DEF Steady
      <3> QED BY <1>8, <3>2, SteadyOrder
    <2> QED BY <2>3, <2>4
  <1>9. OrderFits'
    BY <1>3, <1>8, OrderKept DEF Ordered
  <1>10. DragFits'
    BY <1>4, DragFitsKept DEF Ordered, Calm
  <1> QED BY <1>9, <1>10 DEF Ordered

LEMMA SavedLessonOrdered ==
  ASSUME Shaped, Coherent, Complete, Ordered, HomeStep, NEW c \in Calls, SavedLesson(c)
  PROVE  Ordered'
  <1> USE DEF server, history
  <1>0. DataTyped /\ ShapeOf(call[c]) /\ Distinct
    BY ShapedIs DEF Coherent
  <1>1. call[c].st = "ok" /\ call[c].op \in {"createLesson", "updateLesson"}
    BY DEF SavedLesson, Answers
  <1>2. PICK m \in Modules, x \in Lessons : m = call[c].mod /\ x = call[c].lesson
    BY <1>0, <1>1 DEF ShapeOf
  <1>3. Close(c) /\ UNCHANGED <<place, row, order, lost, tangled>>
    BY DEF SavedLesson
  <1>4. Calm
    BY <1>1, <1>3, CalmClose
  <1>5. CASE UNCHANGED lessonsOf
    BY <1>3, <1>4, <1>5, CalmOrdered
  <1>6. CASE ~UNCHANGED lessonsOf
    <2>1. lessonsOf' = [lessonsOf EXCEPT ![m] = Listed(lessonsOf[m], x)]
      BY <1>0, <1>2, <1>6 DEF SavedLesson, DataTyped
    <2>2. x \notin Range(lessonsOf[m])
      BY <1>0, <1>6, <2>1 DEF Listed, DataTyped
    <2>3. /\ lessonsOf'[m] = Append(lessonsOf[m], x)
          /\ \A k \in Modules \ {m} : lessonsOf'[k] = lessonsOf[k]
      BY <1>0, <2>1, <2>2 DEF Listed, DataTyped
    <2>4. ~lost /\ x \in InModule(m) => <<x, m>> \in Coming
      <3>1. x \in InModule(m) => <<x, m>> \in InCourse
        BY DEF InModule, InCourse
      <3>2. <<x, m>> \notin Shown
        BY <2>2 DEF Shown
      <3> QED BY <3>1, <3>2 DEF Complete, Hides
    <2>5. ASSUME NEW k \in Keys \ tangled', ~lost, InOrder(k) PROVE InOrder(k)'
      <3>1. On(k)' = On(k) /\ Index(k)' = Index(k)
        BY <1>3 DEF On, Standing, InModule, Index
      <3>2. Pending(k)' \subseteq Pending(k) /\ DragsStay(k)
        BY <1>4, <2>5 DEF Calm, Pending
      <3>3. CASE k = m
        <4>1. ListOf(k) = lessonsOf[m] /\ ListOf(k)' = lessonsOf'[m] /\ On(k) = InModule(m)
          BY <3>3, BuilderAssumption DEF ListOf, On
        <4>2. <<x, m>> \in Coming => x \in Pending(k)
          BY <3>3, BuilderAssumption DEF Pending
        <4>3. lessonsOf[m] \in Seq(Lessons)
          BY <1>0 DEF DataTyped
        <4> QED BY <2>2, <2>3, <2>4, <2>5, <3>1, <3>2, <4>1, <4>2, <4>3, AppendedOrder
      <3>4. CASE k # m
        <4>1. Within(ListOf(k)', ListOf(k))
          BY <1>3, <2>3, <3>4, WithinItself DEF ListOf, Keys
        <4>2. Steady(k)
          BY <3>1, <3>2, <4>1 DEF Steady
        <4> QED BY <2>5, <4>2, SteadyOrder
      <3> QED BY <3>3, <3>4
    <2>6. OrderFits'
      BY <1>3, <2>5, OrderKept DEF Ordered
    <2>7. DragFits'
      BY <1>4, DragFitsKept DEF Ordered, Calm
    <2> QED BY <2>6, <2>7 DEF Ordered
  <1> QED BY <1>5, <1>6

-----------------------------------------------------------------------------
(* Order: creations                                                        *)

\* What list k gets that no list has, no drag sent and nothing will get.
LEMMA CreatedOrder ==
  ASSUME NEW k, NEW S, NEW a, InOrder(k), ListOf(k) \in Seq(S), ListOf(k)' = ListOf(k),
         Pending(k) = {}, Pending(k)' \subseteq {a}, On(k)' = On(k) \cup {a},
         a \notin On(k), a \notin Range(ListOf(k)), \A ids \in SentIds(k) : a \notin Range(ids),
         \A b \in On(k) : /\ Index(k)'[b] = Index(k)[b]
                          /\ Index(k)'[b] < Index(k)'[a] /\ Index(k)'[b] # Index(k)'[a],
         DragsStay(k)
  PROVE  InOrder(k)'
  <1>1. PICK L, P2, ix2, Q2, R : /\ L = ListOf(k) /\ P2 = On(k)' /\ ix2 = Index(k)' /\ Q2 = Pending(k)'
                                 /\ R = SentIds(k)
    OBVIOUS
  <1>2. Fits(L, P2, ix2, {a}, R)
    BY <1>1, FitsCreated DEF InOrder
  <1>3. Fits(L, P2, ix2, Q2, R)
    BY <1>1, <1>2, FitsWithin, WithinItself
  <1>4. Fits(ListOf(k), On(k), Index(k), Pending(k), SentIds(k))'
    BY <1>1, <1>3 DEF DragsStay, Fits, SentFits, Before
  <1> QED BY <1>4 DEF InOrder, DragsStay

\* A save says nothing of drags.
LEMMA SaveDrags ==
  ASSUME DragFits, HomeStep, NEW c \in Calls, Only(c), call[c].op # "reorder", call'[c].op # "reorder"
  PROVE  DragFits' /\ \A k : DragsStay(k)
  <1>1. ASSUME NEW k PROVE DragsStay(k)
    <2>1. c \notin Drags(k) /\ c \notin Drags(k)'
      BY DEF Drags
    <2> QED BY <2>1, DragsTurn
  <1> QED BY <1>1, DragFitsKept DEF Only

\* What drags sent was drawn.
LEMMA SentDrawn ==
  ASSUME DragFits, NEW k, NEW ids \in SentIds(k)
  PROVE  Range(ids) \subseteq drawn
  <1>1. PICK c \in Calls : call[c].op = "reorder" /\ ids = call[c].ids
    BY DEF SentIds, Drags
  <1> QED BY <1>1 DEF DragFits

LEMMA CreateModuleOrdered ==
  ASSUME Shaped, Coherent, Ordered, HomeStep, NEW c \in Calls, ServeCreateModule(c)
  PROVE  Ordered'
  <1> USE DEF lists, panel
  <1>0. DataTyped /\ call \in [Calls -> CallType]
    BY ShapedIs
  <1>1. PICK m, n :
          /\ m \in Modules \ drawn
          /\ n = NextIndex({place[k] : k \in Modules} \ {Absent})
          /\ place' = [place EXCEPT ![m] = n] /\ Reply(c, m, None)
    BY DEF ServeCreateModule
  <1>2. n \in Nat /\ \A b \in Standing : place[b] < n
    <2>1. PICK S : S = {place[k] : k \in Modules} OBVIOUS
    <2>2. place \in [Modules -> Nat \cup {Absent}] /\ IsFiniteSet(Modules)
      BY <1>0, FiniteAssumption DEF DataTyped
    <2>a. IsFiniteSet(S)
      BY <2>1, <2>2, ImageFinite
    <2>3. IsFiniteSet(S \ {Absent})
      BY <2>a, FS_Difference
    <2>4. S \ {Absent} \subseteq Nat
      BY <2>1, <2>2
    <2>5. NextIndex(S \ {Absent}) \in Nat /\ \A i \in S \ {Absent} : i < NextIndex(S \ {Absent})
      BY <2>3, <2>4, NextIndexIs
    <2>6. \A b \in Standing : place[b] \in S \ {Absent}
      BY <2>1 DEF Standing
    <2> QED BY <1>1, <2>1, <2>5, <2>6
  <1>3. UNCHANGED <<row, order, lessonsOf, tangled>>
    BY <1>1 DEF ServeCreateModule, Reply, Replies
  <1>4. PICK q : /\ Turns(c, q) /\ q.op = call[c].op /\ q.mod = m
                 /\ q.st \in {"ok", "error"} /\ lost' = (lost \/ q.st = "error")
    <2>1. Replies(c, m, None) /\ m \in Modules \cup {None}
      BY <1>1 DEF Reply
    <2> QED BY <1>0, <2>1, ReplyTurns
  <1>5. call[c].op = "createModule" /\ call[c].op \in Saves /\ call[c].st = "sent"
    BY DEF ServeCreateModule, Serves, Saves
  <1>6. Only(c) /\ call'[c] = q
    BY <1>4, TurnsOnly
  <1>7. DragFits' /\ \A k : DragsStay(k)
    BY <1>4, <1>5, <1>6, SaveDrags DEF Ordered
  <1>8. Created = {} /\ Created' \subseteq {m} /\ Coming' = {}
    <2>1. CreatedBy(call[c]) = {} /\ CreatedBy(q) \subseteq {m} /\ ComingBy(q) = {}
      BY <1>4, <1>5 DEF CreatedBy, ComingBy, WrittenBy, WritingBy
    <2>2. \A d \in Calls \ {c} : call[d].op \notin Saves
      BY <1>5, OnlySave
    <2> QED BY <1>4, <2>1, <2>2, SavesTurn
  <1>9. Standing' = Standing \cup {m} /\ m \notin Standing
    <2>1. n # Absent
      BY <1>2 DEF Absent
    <2>2. \A k \in Modules : place'[k] = IF k = m THEN n ELSE place[k]
      BY <1>0, <1>1 DEF DataTyped
    <2>3. m \notin Standing
      BY <1>1 DEF Coherent, DrawnFits
    <2> QED BY <1>1, <2>1, <2>2, <2>3 DEF Standing
  <1>10. m \notin Range(order) /\ \A k : \A ids \in SentIds(k) : m \notin Range(ids)
    BY <1>1, SentDrawn DEF Coherent, DrawnFits, Seen, Ordered
  <1>11. ASSUME NEW k \in Keys \ tangled', InOrder(k) PROVE InOrder(k)'
    <2>1. CASE k = None
      <3>1. /\ ListOf(k) = order /\ ListOf(k)' = order' /\ On(k) = Standing /\ On(k)' = Standing'
            /\ Pending(k) = Created /\ Pending(k)' = Created' /\ Index(k) = place /\ Index(k)' = place'
        BY <2>1 DEF ListOf, On, Index, Pending
      <3>2. \A b \in Standing : place'[b] = place[b] /\ place'[b] < place'[m] /\ place'[b] # place'[m]
        <4>1. place'[m] = n /\ \A b \in Standing : place'[b] = place[b] /\ place[b] \in Nat \cup {Absent}
          BY <1>0, <1>1, <1>9 DEF Standing, DataTyped
        <4> QED BY <1>2, <4>1 DEF Absent
      <3>3. order \in Seq(Modules)
        BY <1>0 DEF DataTyped
      <3> QED BY <1>3, <1>7, <1>8, <1>9, <1>10, <1>11, <3>1, <3>2, <3>3, CreatedOrder
    <2>2. CASE k # None
      <3>1. Within(ListOf(k)', ListOf(k)) /\ On(k)' = On(k) /\ Index(k)' = Index(k)
        BY <1>3, <2>2, WithinItself DEF ListOf, On, InModule, Index
      <3>2. Pending(k)' \subseteq Pending(k)
        BY <1>8, <2>2 DEF Pending
      <3>3. Steady(k)
        BY <1>7, <3>1, <3>2 DEF Steady
      <3> QED BY <1>11, <3>3, SteadyOrder
    <2> QED BY <2>1, <2>2
  <1>12. OrderFits'
    BY <1>3, <1>4, <1>11, OrderKept DEF Ordered
  <1> QED BY <1>7, <1>12 DEF Ordered

LEMMA CreateLessonOrdered ==
  ASSUME Shaped, Coherent, Ordered, HomeStep, NEW c \in Calls, ServeCreateLesson(c)
  PROVE  Ordered'
  <1> USE DEF lists, panel
  <1>0. DataTyped /\ call \in [Calls -> CallType] /\ ShapeOf(call[c])
    BY ShapedIs
  <1>1. call[c].op = "createLesson" /\ call[c].op \in Saves /\ call[c].st = "sent"
    BY DEF ServeCreateLesson, Serves, Saves
  <1>2. PICK m \in Modules : m = call[c].mod
    BY <1>0, <1>1 DEF ShapeOf
  <1>3. PICK n : n = NextIndex({row[y].index : y \in InModule(m)})
    OBVIOUS
  <1>4. n \in Nat /\ \A y \in InModule(m) : row[y].index < n
    BY <1>3, NextLessonIndex
  <1>5. PICK x, new :
          /\ x \in Lessons \ drawn /\ new.mod = m /\ new.index = n
          /\ row' = [row EXCEPT ![x] = new] /\ Reply(c, m, x)
    <2>1. PICK f : f = call[c].file
      OBVIOUS
    <2>2. \E x \in Lessons \ drawn :
            /\ row' = [row EXCEPT ![x] = [mod |-> m, video |-> f, pdfs |-> {}, index |-> n]]
            /\ Reply(c, m, x)
      BY <1>2, <1>3, <2>1 DEF ServeCreateLesson
    <2> QED BY <2>2
  <1>6. UNCHANGED <<place, order, lessonsOf, tangled>>
    BY <1>5 DEF ServeCreateLesson, Reply, Replies
  <1>7. PICK q : /\ Turns(c, q) /\ q.op = call[c].op /\ q.mod = m /\ q.lesson = x
                 /\ q.st \in {"ok", "error"} /\ lost' = (lost \/ q.st = "error")
    <2>1. Replies(c, m, x) /\ m \in Modules \cup {None} /\ x \in Lessons \cup {None}
      BY <1>5 DEF Reply
    <2> QED BY <1>0, <2>1, ReplyTurns
  <1>8. Only(c) /\ call'[c] = q
    BY <1>7, TurnsOnly
  <1>9. DragFits' /\ \A k : DragsStay(k)
    BY <1>1, <1>7, <1>8, SaveDrags DEF Ordered
  <1>10. Created' = {} /\ Coming = {} /\ Coming' \subseteq {<<x, m>>}
    <2>1. CreatedBy(q) = {} /\ ComingBy(call[c]) = {} /\ ComingBy(q) \subseteq {<<x, m>>}
      BY <1>1, <1>7 DEF CreatedBy, ComingBy, WrittenBy, WritingBy
    <2>2. \A d \in Calls \ {c} : call[d].op \notin Saves
      BY <1>1, OnlySave
    <2> QED BY <1>7, <2>1, <2>2, SavesTurn
  <1>11. /\ row'[x] = new /\ \A y \in Lessons \ {x} : row'[y] = row[y]
         /\ \A k \in Modules : x \notin InModule(k) /\ x \notin Range(lessonsOf[k])
    <2>1. \A p \in Home : p[1] # x
      BY <1>5 DEF Coherent, DrawnFits
    <2>2. ASSUME NEW k \in Modules PROVE x \notin InModule(k) /\ x \notin Range(lessonsOf[k])
      <3>1. <<x, k>> \in Lessons \X Modules /\ <<x, k>> \notin Home
        BY <1>5, <2>1
      <3> QED BY <3>1 DEF Home, InCourse, Shown, InModule
    <2> QED BY <1>0, <1>5, <2>2 DEF DataTyped
  <1>12. ASSUME NEW k \in Keys \ tangled', InOrder(k) PROVE InOrder(k)'
    <2>1. CASE k = m
      <3>0. m # None
        BY BuilderAssumption
      <3>1. /\ ListOf(k) = lessonsOf[m] /\ ListOf(k)' = lessonsOf'[m] /\ On(k) = InModule(m) /\ On(k)' = InModule(m)'
            /\ \A y \in Lessons : Index(k)[y] = row[y].index /\ Index(k)'[y] = row'[y].index
        BY <2>1, <3>0 DEF ListOf, On, Index
      <3>2. Pending(k) = {} /\ Pending(k)' \subseteq {x}
        BY <1>10, <2>1, <3>0 DEF Pending
      <3>3. On(k)' = On(k) \cup {x} /\ x \notin On(k) /\ x \notin Range(ListOf(k))
        BY <1>5, <1>11, <3>1 DEF InModule
      <3>4. \A ids \in SentIds(k) : x \notin Range(ids)
        BY <1>5, SentDrawn DEF Ordered
      <3>5. ASSUME NEW b \in On(k)
            PROVE  /\ Index(k)'[b] = Index(k)[b]
                   /\ Index(k)'[b] < Index(k)'[x] /\ Index(k)'[b] # Index(k)'[x]
        <4>1. b \in InModule(m) /\ b \in Lessons /\ b # x
          BY <3>1, <3>3, <3>5 DEF InModule
        <4>2. row[b].index \in Nat
          BY <1>0, <4>1, BuilderAssumption DEF DataTyped, Indexed, InModule, NoRow
        <4>3. Index(k)'[b] = row[b].index /\ Index(k)[b] = row[b].index /\ Index(k)'[x] = n
          BY <1>5, <1>11, <3>1, <4>1
        <4> QED BY <1>4, <4>1, <4>2, <4>3
      <3>6. lessonsOf[m] \in Seq(Lessons)
        BY <1>0 DEF DataTyped
      <3> QED BY <1>6, <1>9, <1>12, <3>1, <3>2, <3>3, <3>4, <3>5, <3>6, CreatedOrder
    <2>2. CASE k # m
      <3>1. Within(ListOf(k)', ListOf(k))
        BY <1>6, WithinItself DEF ListOf
      <3>2. On(k)' = On(k)
        <4>1. CASE k = None
          BY <1>6, <4>1 DEF On, Standing
        <4>2. CASE k # None
          <5>1. \A y \in Lessons : row'[y].mod = k <=> row[y].mod = k
            BY <1>5, <1>11, <2>2, <4>2 DEF InModule, Keys
          <5> QED BY <4>2, <5>1 DEF On, InModule
        <4> QED BY <4>1, <4>2
      <3>3. \A a \in On(k)' : Index(k)'[a] = Index(k)[a]
        <4>1. CASE k = None
          BY <1>6, <4>1 DEF Index
        <4>2. CASE k # None
          <5>1. \A a \in On(k)' : a \in Lessons /\ a # x
            BY <1>5, <1>11, <2>2, <4>2 DEF On, InModule
          <5> QED BY <1>11, <4>2, <5>1 DEF Index
        <4> QED BY <4>1, <4>2
      <3>4. Pending(k)' \subseteq Pending(k)
        BY <1>10, <2>2 DEF Pending
      <3>5. Steady(k)
        BY <1>9, <3>1, <3>2, <3>3, <3>4 DEF Steady
      <3> QED BY <1>12, <3>5, SteadyOrder
    <2> QED BY <2>1, <2>2
  <1>13. OrderFits'
    BY <1>6, <1>7, <1>12, OrderKept DEF Ordered
  <1> QED BY <1>9, <1>13 DEF Ordered

-----------------------------------------------------------------------------
(* Order: drags                                                            *)

\* The only drag of a list sends all that stands in it, but what will come to
\* its end.
LEMMA DraggedOrder ==
  ASSUME NEW k, NEW S, NEW ids \in Seq(S), IsInjective(ids), InOrder(k), Drags(k) = {},
         NEW c \in Calls, Only(c), call'[c].op = "reorder", call'[c].mod = k, call'[c].ids = ids,
         call'[c].st = "sent", ListOf(k)' = ids, On(k)' = On(k), Index(k)' = Index(k),
         Pending(k)' \subseteq Pending(k), On(k) \subseteq Range(ids) \cup Pending(k),
         Pending(k) \cap Range(ids) = {}
  PROVE  InOrder(k)'
  <1>1. PICK L, P, ix, Q, Q2 : L = ListOf(k) /\ P = On(k) /\ ix = Index(k) /\ Q = Pending(k) /\ Q2 = Pending(k)'
    OBVIOUS
  <1>2. Fits(ids, P, ix, Q, {ids})
    BY <1>1, FitsDragged DEF InOrder
  <1>3. Fits(ids, P, ix, Q2, {ids})
    BY <1>1, <1>2, FitsWithin, WithinItself
  <1>4. Drags(k)' = {c}
    BY DEF Drags, Only
  <1>5. SentIds(k)' = {ids}
    BY <1>4 DEF SentIds
  <1>6. Fits(ListOf(k), On(k), Index(k), Pending(k), SentIds(k))'
    BY <1>1, <1>3, <1>5 DEF Fits, SentFits, Before
  <1> QED BY <1>4, <1>6 DEF InOrder

LEMMA DragFitsSent ==
  ASSUME DragFits, HomeStep, NEW c \in Calls, Only(c), NEW k, NEW R,
         call'[c].mod = k, Range(call'[c].ids) = R,
         IF k = None THEN R \subseteq Modules \cap drawn
         ELSE R \subseteq Lessons \cap drawn /\ \A p \in Home : p[1] \in R => p[2] = k
  PROVE  DragFits'
  <1>1. ASSUME NEW d \in Calls, call'[d].op = "reorder"
        PROVE  IF call'[d].mod = None THEN Range(call'[d].ids) \subseteq Modules \cap drawn'
               ELSE /\ Range(call'[d].ids) \subseteq Lessons \cap drawn'
                    /\ \A p \in Home' : p[1] \in Range(call'[d].ids) => p[2] = call'[d].mod
    <2>1. PICK m, T : m = call'[d].mod /\ T = Range(call'[d].ids) OBVIOUS
    <2>2. IF m = None THEN T \subseteq Modules \cap drawn
          ELSE T \subseteq Lessons \cap drawn /\ \A p \in Home : p[1] \in T => p[2] = m
      <3>1. CASE d = c
        BY <2>1, <3>1
      <3>2. CASE d # c
        <4>1. call'[d] = call[d]
          BY <3>2 DEF Only
        <4> QED BY <1>1, <2>1, <4>1 DEF DragFits
      <3> QED BY <3>1, <3>2
    <2> QED BY <2>1, <2>2 DEF HomeStep
  <1> QED BY <1>1 DEF DragFits

\* The other lists, when list k is dragged.
LEMMA OtherKept ==
  ASSUME NEW c \in Calls, Only(c), call[c] = Idle, NEW k, call'[c].mod = k,
         NEW m \in Keys, m # k, InOrder(m), UNCHANGED <<place, row>>, ListOf(m)' = ListOf(m),
         Created' \subseteq Created, Coming' \subseteq Coming
  PROVE  InOrder(m)'
  <1>1. DragsStay(m)
    <2>1. c \notin Drags(m) /\ c \notin Drags(m)'
      BY DEF Drags, Idle
    <2> QED BY <2>1, DragsTurn
  <1>2. Within(ListOf(m)', ListOf(m)) /\ On(m)' = On(m) /\ Index(m)' = Index(m)
    BY WithinItself DEF On, Standing, InModule, Index
  <1>3. Pending(m)' \subseteq Pending(m)
    BY DEF Pending
  <1>4. Steady(m)
    BY <1>1, <1>2, <1>3 DEF Steady
  <1> QED BY <1>4, SteadyOrder

LEMMA DropModuleOrdered ==
  ASSUME Shaped, Coherent, Complete, Ordered, HomeStep, NEW c \in Calls,
         NEW i \in DOMAIN order, NEW j \in DOMAIN order, DropModule(c, i, j)
  PROVE  Ordered'
  <1> USE DEF server, panel
  <1>0. DataTyped /\ Distinct
    BY ShapedIs DEF Coherent
  <1>1. PICK ids : /\ ids = order' /\ ids = Moved(order, i, j)
                   /\ Send(c, "reorder", None, None, None, ids) /\ UNCHANGED <<place, row, lessonsOf, lost>>
                   /\ tangled' = IF Tangles(None) THEN tangled \cup {None} ELSE tangled
    BY DEF DropModule, Sent
  <1>2. ids \in Seq(Modules) /\ IsInjective(ids) /\ Range(ids) = Range(order)
    BY <1>0, <1>1, MovedIs DEF DataTyped, Distinct
  <1>3. PICK q : q = [op |-> "reorder", mod |-> None, lesson |-> None, file |-> None, ids |-> ids, st |-> "sent"]
    OBVIOUS
  <1>4. /\ Only(c) /\ call[c] = Idle /\ call'[c] = q
        /\ Created' \subseteq Created /\ Coming' \subseteq Coming
    BY <1>1, <1>3, SendOnly
  <1>5. DragFits'
    <2>1. Range(ids) \subseteq Modules \cap drawn
      BY <1>0, <1>2, SeqParts DEF DataTyped, Coherent, DrawnFits, Seen
    <2>2. call'[c].mod = None /\ Range(call'[c].ids) = Range(ids)
      BY <1>3, <1>4
    <2> QED BY <1>4, <2>1, <2>2, DragFitsSent DEF Ordered
  <1>6. ASSUME NEW k \in Keys \ tangled', ~lost, InOrder(k) PROVE InOrder(k)'
    <2>1. CASE k = None
      <3>1. Drags(k) = {}
        BY <1>1, <1>6, <2>1 DEF Tangles, Drags
      <3>2. /\ ListOf(k)' = ids /\ On(k) = Standing /\ On(k)' = On(k) /\ Index(k)' = Index(k)
            /\ Pending(k) = Created /\ Pending(k)' = Created'
        BY <1>1, <2>1 DEF ListOf, On, Standing, Index, Pending
      <3>3. Standing \subseteq Range(ids) \cup Created /\ Created \cap Range(ids) = {}
        BY <1>2, <1>6 DEF Complete, Hides, Coherent, CallFits, Seen
      <3> QED BY <1>2, <1>3, <1>4, <1>6, <2>1, <3>1, <3>2, <3>3, DraggedOrder
    <2>2. CASE k # None
      <3>1. ListOf(k)' = ListOf(k) /\ call'[c].mod = None
        BY <1>1, <1>3, <1>4, <2>2 DEF ListOf
      <3> QED BY <1>1, <1>4, <1>6, <2>2, <3>1, OtherKept
    <2> QED BY <2>1, <2>2
  <1>7. OrderFits'
    <2>1. tangled \subseteq tangled'
      BY <1>1
    <2> QED BY <1>1, <1>6, <2>1, OrderKept DEF Ordered
  <1> QED BY <1>5, <1>7 DEF Ordered

LEMMA DropLessonOrdered ==
  ASSUME Shaped, Coherent, Complete, Ordered, HomeStep, NEW c \in Calls, NEW m \in Modules,
         NEW i \in DOMAIN lessonsOf[m], NEW j \in DOMAIN lessonsOf[m], DropLesson(c, m, i, j)
  PROVE  Ordered'
  <1> USE DEF server, panel
  <1>0. DataTyped /\ Distinct /\ m # None
    BY ShapedIs, BuilderAssumption DEF Coherent
  <1>1. PICK ids : /\ ids = Moved(lessonsOf[m], i, j) /\ lessonsOf' = [lessonsOf EXCEPT ![m] = ids]
                   /\ Send(c, "reorder", m, None, None, ids) /\ UNCHANGED <<place, row, order, lost>>
                   /\ tangled' = IF Tangles(m) THEN tangled \cup {m} ELSE tangled
    BY <1>0 DEF DropLesson, Sent, DataTyped
  <1>2. ids \in Seq(Lessons) /\ IsInjective(ids) /\ Range(ids) = Range(lessonsOf[m])
    BY <1>0, <1>1, MovedIs DEF DataTyped, Distinct
  <1>3. PICK q : q = [op |-> "reorder", mod |-> m, lesson |-> None, file |-> None, ids |-> ids, st |-> "sent"]
    OBVIOUS
  <1>4. /\ Only(c) /\ call[c] = Idle /\ call'[c] = q
        /\ Created' \subseteq Created /\ Coming' \subseteq Coming
    BY <1>1, <1>3, SendOnly
  <1>5. lessonsOf'[m] = ids /\ \A k \in Modules \ {m} : lessonsOf'[k] = lessonsOf[k]
    BY <1>0, <1>1 DEF DataTyped
  <1>6. DragFits'
    <2>1. ASSUME NEW x \in Range(ids)
          PROVE  x \in Lessons \cap drawn /\ \A p \in Home : p[1] = x => p[2] = m
      <3>1. x \in Lessons
        BY <1>2, SeqParts
      <3>2. <<x, m>> \in Home
        BY <1>2, <3>1 DEF Home, Shown
      <3> QED BY <3>1, <3>2 DEF Coherent, DrawnFits, OneHome
    <2>2. call'[c].mod = m /\ Range(call'[c].ids) = Range(ids)
      BY <1>3, <1>4
    <2> QED BY <1>0, <1>4, <2>1, <2>2, DragFitsSent DEF Ordered
  <1>7. ASSUME NEW k \in Keys \ tangled', ~lost, InOrder(k) PROVE InOrder(k)'
    <2>1. CASE k = m
      <3>1. Drags(k) = {}
        BY <1>1, <1>7, <2>1 DEF Tangles, Drags
      <3>2. /\ ListOf(k)' = ids /\ On(k) = InModule(m) /\ On(k)' = On(k) /\ Index(k)' = Index(k)
            /\ Pending(k) = {x \in Lessons : <<x, m>> \in Coming} /\ Pending(k)' \subseteq Pending(k)
        BY <1>0, <1>1, <1>4, <1>5, <2>1 DEF ListOf, On, InModule, Index, Pending
      <3>3. ASSUME NEW x \in InModule(m) PROVE x \in Range(ids) \/ x \in Pending(k)
        <4>1. <<x, m>> \in InCourse
          BY DEF InModule, InCourse
        <4>2. x \in Lessons /\ (<<x, m>> \in Shown \/ <<x, m>> \in Coming)
          BY <1>7, <4>1 DEF Complete, Hides, InModule
        <4> QED BY <1>2, <3>2, <4>2 DEF Shown
      <3>4. ASSUME NEW x \in Range(ids) PROVE x \notin Pending(k)
        <4>1. x \in Lessons
          BY <1>2, SeqParts
        <4>2. <<x, m>> \in Shown
          BY <1>2, <4>1 DEF Shown
        <4> QED BY <3>2, <4>2 DEF Coherent, CallFits
      <3>5. On(k) \subseteq Range(ids) \cup Pending(k) /\ Pending(k) \cap Range(ids) = {}
        BY <3>2, <3>3, <3>4
      <3>6. call'[c].op = "reorder" /\ call'[c].mod = k /\ call'[c].ids = ids /\ call'[c].st = "sent"
        BY <1>3, <1>4, <2>1
      <3> QED BY <1>2, <1>4, <1>7, <3>1, <3>2, <3>5, <3>6, DraggedOrder
    <2>2. CASE k # m
      <3>1. ListOf(k)' = ListOf(k) /\ call'[c].mod = m
        BY <1>1, <1>3, <1>4, <1>5, <2>2 DEF ListOf, Keys
      <3> QED BY <1>1, <1>4, <1>7, <2>2, <3>1, OtherKept
    <2> QED BY <2>1, <2>2
  <1>8. OrderFits'
    <2>1. tangled \subseteq tangled'
      BY <1>1
    <2> QED BY <1>1, <1>7, <2>1, OrderKept DEF Ordered
  <1> QED BY <1>6, <1>8 DEF Ordered

-----------------------------------------------------------------------------
(* Order: reorders                                                         *)

\* What stands where stays there, and the list gives its places.
LEMMA ReorderIs ==
  ASSUME Shaped, NEW c \in Calls, NEW ids, ids = call[c].ids, ServeReorder(c)
  PROVE  /\ Standing' = Standing /\ \A m \in Modules : InModule(m)' = InModule(m)
         /\ \A m \in Standing : place[m] \in Nat /\ place'[m] = Reindexed(ids, m, place[m])
         /\ \A m \in Modules : \A x \in InModule(m) :
              row[x].index \in Nat /\ row'[x].index = Reindexed(ids, x, row[x].index)
  <1>0. DataTyped /\ call[c] \in CallType
    BY ShapedIs
  <1>1. ids \in Seq(Modules \cup Lessons)
    BY <1>0 DEF CallType
  <1>2. place' = [m \in Modules |-> IF place[m] = Absent THEN Absent ELSE Reindexed(ids, m, place[m])]
    BY DEF ServeReorder
  <1>3. \A m \in Modules : place[m] # Absent => Reindexed(ids, m, place[m]) # Absent
    BY <1>1, PlaceNat DEF Reindexed, Absent
  <1>4. Standing' = Standing
    BY <1>2, <1>3 DEF Standing
  <1>5. \A m \in Standing : place[m] \in Nat /\ place'[m] = Reindexed(ids, m, place[m])
    BY <1>0, <1>2 DEF Standing, DataTyped
  <1>6. row' = [x \in Lessons |-> IF row[x] = NoRow THEN NoRow
                                  ELSE [row[x] EXCEPT !.index = Reindexed(ids, x, @)]]
    BY DEF ServeReorder
  <1>7. \A x \in Lessons : /\ row'[x].mod = row[x].mod
                           /\ row[x] # NoRow => row'[x].index = Reindexed(ids, x, row[x].index)
    BY <1>0, <1>6 DEF DataTyped, RowType
  <1>8. \A m \in Modules : InModule(m)' = InModule(m)
    BY <1>7 DEF InModule
  <1>9. ASSUME NEW m \in Modules, NEW x \in InModule(m)
        PROVE  row[x].index \in Nat /\ row'[x].index = Reindexed(ids, x, row[x].index)
    <2>1. x \in Lessons /\ row[x] # NoRow
      BY <1>9, BuilderAssumption DEF InModule, NoRow
    <2> QED BY <1>0, <1>7, <2>1 DEF DataTyped, Indexed
  <1> QED BY <1>4, <1>5, <1>8, <1>9

LEMMA ReorderOrdered ==
  ASSUME Shaped, Ordered, HomeStep, NEW c \in Calls, ServeReorder(c)
  PROVE  Ordered'
  <1> USE DEF lists, panel
  <1>0. DataTyped /\ call \in [Calls -> CallType] /\ call[c] \in CallType
    BY ShapedIs
  <1>1. PICK m \in Keys, ids \in Seq(Modules \cup Lessons) : m = call[c].mod /\ ids = call[c].ids
    BY <1>0 DEF CallType, Keys
  <1>2. call[c].op = "reorder" /\ call[c].st = "sent"
    BY DEF ServeReorder, Serves
  <1>3. Replies(c, m, None) /\ UNCHANGED <<order, lessonsOf>>
    BY <1>1 DEF ServeReorder, Replies
  <1>a. m \in Modules \cup {None} /\ None \in Lessons \cup {None}
    BY DEF Keys
  <1>4. PICK q : /\ Turns(c, q) /\ q.op = call[c].op /\ q.mod = m /\ q.lesson = None
                 /\ q.file = call[c].file /\ q.ids = call[c].ids /\ q.st \in {"ok", "error"} /\ lost' = (lost \/ q.st = "error")
    BY <1>0, <1>3, <1>a, ReplyTurns
  <1>5. /\ Only(c) /\ call'[c] = q /\ Created' \subseteq Created /\ Coming' \subseteq Coming
    BY <1>2, <1>4, TurnsOnly, ComesNot
  <1>6. DragFits'
    BY <1>1, <1>2, <1>4, <1>5, DragFitsKept DEF Ordered, Only
  <1>7. tangled' = IF Overtaken(c) THEN tangled \cup {m} ELSE tangled
    BY <1>1 DEF ServeReorder
  <1>8. /\ Standing' = Standing /\ \A k \in Modules : InModule(k)' = InModule(k)
        /\ \A k \in Standing : place[k] \in Nat /\ place'[k] = Reindexed(ids, k, place[k])
        /\ \A k \in Modules : \A x \in InModule(k) :
             row[x].index \in Nat /\ row'[x].index = Reindexed(ids, x, row[x].index)
    BY <1>1, ReorderIs
  <1>9. ASSUME NEW k \in Keys
        PROVE  /\ ListOf(k)' = ListOf(k) /\ On(k)' = On(k) /\ Pending(k)' \subseteq Pending(k)
               /\ \A a \in On(k) : Index(k)[a] \in Nat /\ Index(k)'[a] = Reindexed(ids, a, Index(k)[a])
    <2>1. CASE k = None
      BY <1>3, <1>5, <1>8, <2>1 DEF ListOf, On, Pending, Index
    <2>2. CASE k # None
      <3>1. k \in Modules /\ \A a \in On(k) : a \in Lessons /\ a \in InModule(k)
        BY <2>2 DEF Keys, On, InModule
      <3> QED BY <1>3, <1>5, <1>8, <2>2, <3>1 DEF ListOf, On, Pending, Index
    <2> QED BY <2>1, <2>2
  <1>10. ASSUME NEW k \in Keys \ tangled', ~lost', InOrder(k) PROVE InOrder(k)'
    <2>0. q.st = "ok"
      BY <1>0, <1>4, <1>10 DEF DataTyped
    <2>1. CASE k = m
      <3>1. Drags(k) = {c} /\ Drags(k)' = {c}
        <4>1. c \in Drags(k) /\ c \in Drags(k)'
          BY <1>1, <1>2, <1>4, <1>5, <2>1 DEF Drags
        <4>2. \A d \in Drags(k)' : d \in Drags(k) \/ d = c
          BY <1>5 DEF Drags, Only
        <4> QED BY <1>10, <4>1, <4>2 DEF InOrder
      <3>2. SentIds(k) = {ids} /\ SentIds(k)' = {}
        BY <1>1, <1>2, <1>5, <2>0, <3>1 DEF SentIds
      <3>3. Range(ids) \subseteq On(k) \/ On(k) \subseteq Range(ids)
        BY <1>1, <1>7, <1>10, <2>1 DEF Overtaken, On, Standing
      <3>4. PICK L, P, ix, ix2, Q, Q2 : /\ L = ListOf(k) /\ P = On(k) /\ ix = Index(k) /\ ix2 = Index(k)'
                                        /\ Q = Pending(k) /\ Q2 = Pending(k)'
        OBVIOUS
      <3>5. Fits(L, P, ix, Q, {ids}) /\ \A a \in P : ix[a] \in Nat /\ ix2[a] = Reindexed(ids, a, ix[a])
        BY <1>9, <1>10, <3>2, <3>4 DEF InOrder
      <3>6. Fits(L, P, ix2, Q, {})
        BY <3>3, <3>4, <3>5, FitsServed
      <3>7. Fits(L, P, ix2, Q2, {})
        BY <1>9, <3>4, <3>6, FitsWithin, WithinItself
      <3>8. Fits(ListOf(k), On(k), Index(k), Pending(k), SentIds(k))'
        BY <1>9, <3>2, <3>4, <3>7 DEF Fits, SentFits, Before
      <3> QED BY <1>5, <2>0, <3>1, <3>8 DEF InOrder
    <2>2. CASE k # m
      <3>1. \A a \in On(k) : a \notin Range(ids)
        <4>1. CASE k = None \/ m = None
          BY <1>1, <1>2, <2>2, <4>1, BuilderAssumption DEF Ordered, DragFits, On, Standing, InModule, Keys
        <4>2. CASE k # None /\ m # None
          <5>1. \A p \in Home : p[1] \in Range(ids) => p[2] = m
            BY <1>1, <1>2, <4>2 DEF Ordered, DragFits
          <5>2. \A a \in On(k) : <<a, k>> \in Home
            BY <4>2 DEF On, InModule, Home, InCourse, Keys
          <5> QED BY <2>2, <5>1, <5>2
        <4> QED BY <4>1, <4>2
      <3>2. \A a \in On(k)' : Index(k)'[a] = Index(k)[a]
        BY <1>9, <3>1 DEF Reindexed
      <3>3. DragsStay(k)
        <4>1. c \notin Drags(k) /\ c \notin Drags(k)'
          BY <1>1, <1>4, <1>5, <2>2 DEF Drags
        <4> QED BY <1>5, <4>1, DragsTurn
      <3>4. Steady(k)
        BY <1>9, <3>2, <3>3, WithinItself DEF Steady
      <3> QED BY <1>10, <3>4, SteadyOrder
    <2> QED BY <2>1, <2>2
  <1>11. OrderFits'
    <2>1. tangled \subseteq tangled'
      BY <1>7
    <2> QED BY <1>4, <1>10, <2>1, OrderKept DEF Ordered
  <1> QED BY <1>6, <1>11 DEF Ordered

-----------------------------------------------------------------------------
(* Order: the specification                                                *)

\* The places of a list are in its order.
LEMMA PlacesFit ==
  ASSUME NEW S, NEW s \in Seq(S), IsInjective(s), NEW P, P \subseteq Range(s), NEW ix,
         \A x \in Range(s) : ix[x] = Place(s, x)
  PROVE  Fits(s, P, ix, {}, {})
  <1>1. /\ \A i \in DOMAIN s : s[i] \in Range(s) /\ Place(s, s[i]) = i - 1 /\ i \in Nat
        /\ \A x, y \in Range(s) : Place(s, x) = Place(s, y) => x = y
    BY PlaceIs, SeqParts
  <1>2. \A a, b \in P : a # b => ix[a] # ix[b]
    BY <1>1
  <1>3. ASSUME NEW i \in DOMAIN s, NEW j \in DOMAIN s, i < j PROVE ix[s[i]] < ix[s[j]]
    <2>1. ix[s[i]] = i - 1 /\ ix[s[j]] = j - 1 /\ i \in Nat /\ j \in Nat
      BY <1>1
    <2> QED BY <1>3, <2>1
  <1> QED BY <1>2, <1>3 DEF Fits

\* The index of a lesson that is loaded is its place in the list of its module.
LEMMA LoadedIndex ==
  ASSUME NEW of \in [Modules -> Seq(Lessons)], row = LoadedRows(of),
         \A m, n \in Modules : m # n => Range(of[m]) \cap Range(of[n]) = {},
         NEW m \in Modules, NEW x \in Range(of[m])
  PROVE  row[x].index = Place(of[m], x)
  <1>1. x \in Lessons
    BY SeqParts
  <1>2. PICK n \in Modules : /\ x \in Range(of[n])
                             /\ row[x] = [NoRow EXCEPT !.mod = n, !.index = Place(of[n], x)]
    BY <1>1 DEF LoadedRows
  <1>3. n = m
    BY <1>2
  <1>4. PICK i : i = Place(of[m], x)
    OBVIOUS
  <1>5. row[x] = [[NoRow EXCEPT !.mod = m] EXCEPT !.index = i]
    BY <1>2, <1>3, <1>4
  <1>6. row[x].index = i
    BY <1>5 DEF NoRow
  <1> QED BY <1>4, <1>6

LEMMA InitOrdered == Init => Ordered
  <1> SUFFICES ASSUME Init PROVE Ordered
    OBVIOUS
  <1>1. PICK mo, of :
          /\ mo \in Seq(Modules) /\ IsInjective(mo) /\ of \in [Modules -> Seq(Lessons)]
          /\ \A m \in Modules : IsInjective(of[m]) /\ (m \notin Range(mo) => of[m] = <<>>)
          /\ \A m, n \in Modules : m # n => Range(of[m]) \cap Range(of[n]) = {}
          /\ place = [m \in Modules |-> IF m \in Range(mo) THEN Place(mo, m) ELSE Absent]
          /\ row = LoadedRows(of)
          /\ drawn = Range(mo) \cup UNION {Range(of[m]) : m \in Modules}
          /\ lost \in BOOLEAN
          /\ order = IF lost THEN <<>> ELSE mo
          /\ lessonsOf = IF lost THEN [m \in Modules |-> <<>>] ELSE of
    BY LoadedIs
  <1>2. \A c \in Calls : call[c] = Idle /\ call[c].op = "none"
    BY DEF Init, Idle
  <1>3. DragFits /\ \A k : Drags(k) = {} /\ SentIds(k) = {}
    BY <1>2 DEF DragFits, Drags, SentIds
  <1>4. Created = {} /\ Coming = {}
    BY <1>2 DEF Created, CreatedBy, Coming, ComingBy, WrittenBy, WritingBy
  <1>5. \A k : Pending(k) = {}
    BY <1>4 DEF Pending
  <1>6. ASSUME ~lost, NEW k \in Keys PROVE InOrder(k)
    <2>1. CASE k = None
      <3>1. Standing \subseteq Range(mo)
        BY <1>1 DEF Standing
      <3>2. \A m \in Range(mo) : place[m] = Place(mo, m)
        BY <1>1, SeqParts
      <3>3. Fits(mo, Standing, place, {}, {})
        BY <1>1, <3>1, <3>2, PlacesFit
      <3> QED BY <1>1, <1>3, <1>5, <1>6, <2>1, <3>3 DEF InOrder, ListOf, On, Index
    <2>2. CASE k # None
      <3>1. PICK m \in Modules : m = k /\ m # None
        BY <2>2 DEF Keys
      <3>2. PICK s, P, ix : s = of[m] /\ P = InModule(m) /\ ix = [x \in Lessons |-> row[x].index]
        OBVIOUS
      <3>3. s \in Seq(Lessons) /\ IsInjective(s)
        BY <1>1, <3>2
      <3>4. P \subseteq Range(s)
        BY <1>1, <3>2, LoadedRowsAre DEF InModule
      <3>5. ASSUME NEW x \in Range(s) PROVE ix[x] = Place(s, x)
        <4>1. x \in Lessons
          BY <3>3, SeqParts
        <4>2. row[x].index = Place(of[m], x)
          BY <1>1, <3>2, LoadedIndex
        <4> QED BY <3>2, <4>1, <4>2
      <3>6. Fits(s, P, ix, {}, {})
        BY <3>3, <3>4, <3>5, PlacesFit
      <3>7. ListOf(k) = s /\ On(k) = P /\ Index(k) = ix
        BY <1>1, <1>6, <3>1, <3>2 DEF ListOf, On, Index
      <3> QED BY <1>3, <1>5, <3>6, <3>7 DEF InOrder
    <2> QED BY <2>1, <2>2
  <1> QED BY <1>3, <1>6 DEF Ordered, OrderFits

LEMMA StepOrdered ==
  ASSUME Shaped, Coherent, Complete, HomeStep, Ordered, [Next]_vars
  PROVE  Ordered'
  <1>1. CASE UNCHANGED vars
    <2>1. UNCHANGED <<place, row, order, lessonsOf, lost, tangled, call>>
      BY <1>1 DEF vars, page, server, lists, panel, history
    <2> QED BY <2>1, CalmStill, CalmOrdered
  <1>2. CASE Click
    <2>1. ASSUME NEW c \in Calls, NEW i \in DOMAIN order, NEW j \in DOMAIN order, DropModule(c, i, j)
          PROVE  Ordered'
      BY <2>1, DropModuleOrdered
    <2>2. ASSUME NEW c \in Calls, NEW m \in Modules, NEW i \in DOMAIN lessonsOf[m], NEW j \in DOMAIN lessonsOf[m],
                 DropLesson(c, m, i, j)
          PROVE  Ordered'
      BY <2>2, DropLessonOrdered
    <2> QED BY <1>2, <2>1, <2>2, ClickOrdered DEF Click
  <1>3. CASE Serve
    <2>1. ASSUME NEW c \in Calls,
                 \/ ServeCreateModule(c) \/ ServeDeleteModule(c)
                 \/ ServeCreateLesson(c) \/ ServeDeleteLesson(c) \/ ServeReorder(c)
          PROVE  Ordered'
      BY <2>1, CreateModuleOrdered, CreateLessonOrdered, GoneOrdered, ReorderOrdered
    <2>2. ASSUME NEW c \in Calls,
                 \/ ServeUpdateLesson(c) \/ ServeAddAttachment(c) \/ ServeDeleteAttachment(c)
                 \/ ServeUpdateModule(c) \/ ServePick(c) \/ Refuse(c)
          PROVE  Ordered'
      BY <2>2, ReplyOrdered, StateOrdered
    <2> QED BY <1>3, <2>1, <2>2 DEF Serve
  <1>4. CASE Answer
    <2>1. ASSUME NEW c \in Calls, SavedModule(c) PROVE Ordered'
      <3>1. call[c].op \in {"createModule", "updateModule"}
        BY <2>1 DEF SavedModule, Answers
      <3> QED BY <2>1, <3>1, SavedModuleOrdered, AnswerOrdered
    <2>2. ASSUME NEW c \in Calls, DeletedModule(c) \/ DeletedLesson(c) \/ SavedLesson(c) PROVE Ordered'
      BY <2>2, RemovedOrdered, SavedLessonOrdered
    <2>3. ASSUME NEW c \in Calls,
                 GotVideo(c) \/ GotPdf(c) \/ Attached(c) \/ RemovedAttachment(c) \/ Reordered(c) \/ Failed(c)
          PROVE  Ordered'
      BY <2>3, AnswerOrdered, StateOrdered
    <2> QED BY <1>4, <2>1, <2>2, <2>3 DEF Answer
  <1>5. CASE \E c \in Calls : Store(c)
    BY <1>5, StateOrdered
  <1> QED BY <1>1, <1>2, <1>3, <1>4, <1>5 DEF Next, Teacher

\* The inductive invariant about the order holds throughout.
THEOREM OrderInvariance == Spec => [](PageInv /\ Ordered)
  <1>1. Init => PageInv /\ Ordered
    BY InitInv, InitShaped, InitCoherent, InitOrdered DEF PageInv
  <1>2. PageInv /\ Ordered /\ [Next]_vars => PageInv' /\ Ordered'
    BY NextInv, StepKept, StepOrdered DEF PageInv, Kept
  <1> QED BY <1>1, <1>2, PTL DEF Spec

\* Modules and lessons stand in the order of their indexes, though reorders,
\* creations and deletions are served in any order, but where two reorders of
\* one list overlapped, one failed or one was overtaken
\* (course-builder.component.ts:414, :421).
THEOREM OrdersAgree == Spec => []OrderAgrees
  <1>1. ASSUME PageInv, Ordered, Settled PROVE OrderAgrees
    <2>1. ~lost /\ Leaving = {} /\ \A k : SentIds(k) = {}
      <3>1. \A c \in Calls : call[c].op = "none"
        BY <1>1 DEF Settled, Idle
      <3> QED BY <1>1, <3>1, SettledIs DEF SentIds, Drags
    <2>2. ASSUME NEW k \in Keys \ tangled, NEW i \in DOMAIN ListOf(k), NEW j \in DOMAIN ListOf(k), i < j,
                 ListOf(k)[i] \in On(k), ListOf(k)[j] \in On(k)
          PROVE  Index(k)[ListOf(k)[i]] < Index(k)[ListOf(k)[j]]
      BY <1>1, <2>1, <2>2 DEF Ordered, OrderFits, InOrder, Fits
    <2>3. DataTyped
      BY <1>1, ShapedIs DEF PageInv
    <2>4. ASSUME None \notin tangled, NEW i \in DOMAIN order, NEW j \in DOMAIN order, i < j
          PROVE  place[order[i]] < place[order[j]]
      <3>1. Range(order) \subseteq Standing
        BY <1>1, <2>1 DEF PageInv, Complete, Ghosts
      <3>2. order[i] \in Standing /\ order[j] \in Standing
        BY <2>3, <3>1, SeqParts DEF DataTyped
      <3>3. None \in Keys /\ ListOf(None) = order /\ On(None) = Standing /\ Index(None) = place
        BY DEF Keys, ListOf, On, Index
      <3> QED BY <2>2, <2>4, <3>2, <3>3
    <2>5. ASSUME NEW m \in Modules \ tangled, NEW i \in DOMAIN lessonsOf[m], NEW j \in DOMAIN lessonsOf[m],
                 NEW x, NEW y, x = lessonsOf[m][i], y = lessonsOf[m][j], i < j, NoRow \notin {row[x], row[y]}
          PROVE  row[x].index < row[y].index
      <3>1. ASSUME NEW z \in Range(lessonsOf[m]), row[z] # NoRow PROVE z \in Lessons /\ z \in InModule(m)
        <4>1. z \in Lessons
          BY <2>3, SeqParts DEF DataTyped
        <4>2. PICK n \in Modules : n = row[z].mod
          BY <2>3, <3>1, <4>1 DEF DataTyped, Indexed
        <4>3. <<z, m>> \in Home /\ <<z, n>> \in Home
          BY <4>1, <4>2 DEF Home, Shown, InCourse
        <4>4. m = n
          BY <1>1, <4>3 DEF PageInv, Coherent, OneHome
        <4> QED BY <4>1, <4>2, <4>4 DEF InModule
      <3>2. x \in Range(lessonsOf[m]) /\ y \in Range(lessonsOf[m])
        BY <2>3, <2>5, SeqParts DEF DataTyped
      <3>3. x \in Lessons /\ y \in Lessons /\ x \in InModule(m) /\ y \in InModule(m)
        BY <2>5, <3>1, <3>2
      <3>4. /\ m \in Keys \ tangled /\ ListOf(m) = lessonsOf[m] /\ On(m) = InModule(m)
            /\ Index(m)[x] = row[x].index /\ Index(m)[y] = row[y].index
        BY <3>3, BuilderAssumption DEF Keys, ListOf, On, Index
      <3> QED BY <2>2, <2>5, <3>3, <3>4
    <2> QED BY <2>4, <2>5 DEF OrderAgrees
  <1>2. PageInv /\ Ordered => OrderAgrees
    BY <1>1 DEF OrderAgrees
  <1> QED BY <1>2, OrderInvariance, PTL
=============================================================================
