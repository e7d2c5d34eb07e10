--------------------------------- MODULE Uploads --------------------------------
(***************************************************************************)
(* Uploading a reference (ingest/service.py, by the route upload_reference *)
(* on the event loop) and deleting one (routes/workspace.py, on a thread   *)
(* of its own).  The route waits for the file between finding the project  *)
(* and taking the upload in; taking it in does not wait for anything, so   *)
(* the event loop does one at a time.                                      *)
(***************************************************************************)
EXTENDS SceneReads

CONSTANT
  Forms      \* what an upload may look like: [named, holds, declared, size]

VARIABLES
  uploading,  \* where each upload is
  deleting    \* where the deletion of each upload is

requests == <<uploading, deleting>>
otherRows == <<deliveries, facts, transcript, clarifications, approvals, jobs,
               scene, artifacts>>
elsewhere == <<pc, grounding, workerSide>>

UploadsInit ==
  /\ uploading = [u \in Uploads |-> "no"]
  /\ deleting = [u \in Uploads |-> [at |-> "no"]]

-------------------------------------------------------------------------------
(* _require_project, then the wait for the body of the request. *)
BeginUpload(u) ==
  /\ uploading[u] = "no" /\ loop = Free
  /\ IF KnownProject THEN EnsureProject ELSE UNCHANGED project
  /\ uploading' = [uploading EXCEPT ![u] = IF KnownProject THEN "waits" ELSE "over"]
  /\ UNCHANGED <<references, otherRows, bytes, elsewhere, loop, deleting>>

(* validate_upload.  The name's extension and the leading bytes must agree, a *)
(* file whose bytes say nothing must be text and be named so, the declared   *)
(* type may not contradict, and each kind has its limit.                     *)
Sniffed(form) == form.holds \in {"image", "pdf"}
KindOfForm(form) == IF Sniffed(form) THEN form.holds ELSE "document"
WithinLimit(form) == form.size # "large"

Acceptable(form) ==
  /\ form.size # "none"
  /\ form.named # "unknown"
  /\ IF Sniffed(form) THEN form.named = form.holds
                     ELSE form.named = "document" /\ form.holds = "text"
  /\ form.declared \in {"nothing", KindOfForm(form)}
  /\ WithinLimit(form)

(* ingest: a file that is refused, or whose bytes the project has already. *)
TurnAway(u) ==
  /\ uploading[u] = "waits" /\ loop = Free
  /\ SameBytes(u) # {} \/ \E form \in Forms : ~Acceptable(form)
  /\ uploading' = [uploading EXCEPT ![u] = "over"]
  /\ UNCHANGED <<store, elsewhere, loop, deleting>>

(* ingest: new bytes, or what find_by_hash overlooked. *)
TakeIn(u) ==
  /\ uploading[u] = "waits" /\ loop = Free
  /\ \E form \in Forms : Acceptable(form) /\ KindOfForm(form) = KindOf[ContentOf[u]]
  /\ SameBytes(u) = {}
  /\ uploading' = [uploading EXCEPT ![u] = "over"]
  /\ loop' = [at |-> "write", upload |-> u, page |-> 0]
  /\ UNCHANGED <<store, elsewhere, deleting>>

IngestStep == UNCHANGED <<elsewhere, requests>>

WriteUpload ==
  /\ loop.at = "write"
  /\ WriteFile(Id(loop.upload, loop.page))
  /\ loop' = [loop EXCEPT !.at = "derive"]
  /\ UNCHANGED <<rows, copies, artifactBytes>> /\ IngestStep

(* A DocumentError removes the bytes just written; pages were rendered     *)
(* before the PDF had a row, so it cannot come later.                      *)
CannotDerive ==
  /\ loop.at = "derive" /\ loop.page = 0
  /\ DeleteFiles({Id(loop.upload, 0)})
  /\ loop' = Free
  /\ UNCHANGED <<rows, copies, artifactBytes>> /\ IngestStep

MorePages == KindOf[ContentOf[loop.upload]] = "pdf" /\ loop.page < Pages

AddRow ==
  /\ loop.at = "derive"
  /\ AddReference(Id(loop.upload, loop.page))
  /\ loop' = IF MorePages
               THEN [loop EXCEPT !.at = "write", !.page = @ + 1]
               ELSE Free
  /\ UNCHANGED <<project, otherRows, bytes>> /\ IngestStep

(* The disk refuses a write: the request fails with what was done so far. *)
WriteFails ==
  /\ loop.at = "write"
  /\ loop' = Free
  /\ UNCHANGED store /\ IngestStep

-------------------------------------------------------------------------------
(* Mutant of Transact: the bytes go first, the rows when that is done. *)
TransactFilesFirst(u) ==
  /\ deleting[u].at = "reading"
  /\ DeleteFiles(deleting[u].ids)
  /\ deleting' = [deleting EXCEPT ![u].at = "unlinking"]
  /\ UNCHANGED <<rows, copies, artifactBytes, elsewhere, loop, uploading>>

(* ReferenceRepository.delete reads the pages it knows of and the reference. *)
BeginDelete(u) ==
  /\ deleting[u].at = "no" /\ KnownProject /\ HasRow(Id(u, 0))
  /\ EnsureProject
  /\ deleting' = [deleting EXCEPT ![u] =
       [at |-> "reading",
        ids |-> {Id(u, 0)} \cup {r.id : r \in PagesOf(u)}]]
  /\ UNCHANGED <<references, otherRows, bytes, elsewhere, loop, uploading>>

(* Its transaction takes the rows, of pages added meanwhile as well. *)
Transact(u) ==
  /\ deleting[u].at = "reading"
  /\ DropReference(u)
  /\ deleting' = [deleting EXCEPT ![u].at = "unlinking"]
  /\ UNCHANGED <<project, otherRows, bytes, elsewhere, loop, uploading>>

(* ReferenceIngestService.delete: the bytes of what was read.  The copies     *)
(* made for the model stay.                                                  *)
Unlink(u) ==
  /\ deleting[u].at = "unlinking"
  /\ DeleteFiles(deleting[u].ids)
  /\ deleting' = [deleting EXCEPT ![u] = [at |-> "over"]]
  /\ UNCHANGED <<rows, copies, artifactBytes, elsewhere, loop, uploading>>

-------------------------------------------------------------------------------
Ingest == WriteUpload \/ CannotDerive \/ AddRow \/ WriteFails

UploadStep(u) ==
  \/ BeginUpload(u) \/ TurnAway(u) \/ TakeIn(u)
  \/ BeginDelete(u) \/ Transact(u) \/ Unlink(u)
===============================================================================
