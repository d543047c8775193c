------------------------------- MODULE Upload -------------------------------
(***************************************************************************)
(* storage.Handler.Upload and DriveClient.Upload: a file goes through a    *)
(* temporary file to Google Drive, and is then made public.  Each          *)
(* statement can fail, the client can go away, which cancels the calls to  *)
(* Drive, and the server can die.                                          *)
(*                                                                         *)
(* One handler for each file: a file is uploaded once.  What a failure     *)
(* leaves in Drive is a file whose id nobody was told; it is left out, as  *)
(* is the temporary file, which every end but the server's removes.        *)
(***************************************************************************)
CONSTANT Files  \* what is uploaded

VARIABLE upload  \* each file: how far its handler is, or how it ended

Uploaded(f, from, to) == upload[f] = from /\ upload' = [upload EXCEPT ![f] = to]

UploadInit == upload = [f \in Files |-> "none"]

\* The body of the request is read and copied to /tmp: whole, or up to an
\* error of reading it, which is taken for its end.
Receive(f) == Uploaded(f, "none", "received")

\* Files.Create
Create(f) == Uploaded(f, "received", "created")

\* A fault: the error of Permissions.Create is dropped.
PermitUnchecked(f) == Uploaded(f, "created", "public") \/ Uploaded(f, "created", "failed")

\* Permissions.Create: the file's id is answered.
Permit(f) == Uploaded(f, "created", "public")

\* The handler fails, or its client does not hear of its end: whatever Drive
\* did or will do, nobody has the id.
StoreFails(f) == \E at \in {"none", "received", "created"} : Uploaded(f, at, "failed")

UploadTypeOK == upload \in [Files -> {"none", "received", "created", "public", "failed"}]
=============================================================================
