------------------------------- MODULE Artifacts -------------------------------
(***************************************************************************)
(* The files of one project: its Blender file, created by the worker on    *)
(* first use (provisioning.py), and the artifacts of its jobs, rendered or *)
(* exported by the worker, written by LocalArtifactStore.put, indexed by   *)
(* the control plane when they are reported, served by routes/artifacts.py *)
(* and removed by delete_project.                                          *)
(*                                                                         *)
(* Worker, control plane and browser share the disk and nothing else: a    *)
(* step is one write, one unlink or one read of a file.  The worker may    *)
(* die between any two of its steps, and what it rendered then differs     *)
(* from what it renders on the next attempt.  A job it has completed may   *)
(* be delivered again at any time, also after its project was deleted.     *)
(***************************************************************************)
EXTENDS Naturals, Sequences, FiniteSets, SequencesExt

CONSTANTS
  Jobs,        \* jobs the worker carries out, one at a time
  MoveJobs,    \* those of the move_object executor: a preview, no model
  Browsers,    \* each fetches an artifact at a time
  Absent,
  MaxRenders, MaxCrashes, MaxFetches   \* bounds

Types == {"preview", "model"}

(* derive_artifact_id: one identity per project, job and type. *)
Ids == Jobs \X Types

Metadata == [checksum : Nat, at : Nat]
Requests == [id : Ids, etag : Nat]

ASSUME ArtifactsAssumption ==
  /\ MoveJobs \subseteq Jobs
  /\ Absent \notin Nat /\ \A refs \in SUBSET Ids : refs # Absent
  /\ Absent \notin Metadata /\ Absent \notin Requests
  /\ MaxRenders \in Nat /\ MaxCrashes \in Nat /\ MaxFetches \in Nat

VARIABLES
  files,     \* the staged and the project file: "none", "empty", "partial", "whole"
  data,      \* the bytes of each artifact, named by their checksum
  sidecar,   \* the metadata beside them: the checksum and created_at
  journal,   \* the artifacts each execution record refers to
  work,      \* what the worker is doing
  index,     \* ArtifactIndexRepository: the artifacts that were reported
  project,   \* does the control plane know the project?
  doomed,    \* the files delete_project has still to remove
  browser,   \* what each browser fetches
  served,    \* every answer of get_artifact: identity, ETag and body
  again,     \* history: what a reported job rendered after the deletion
  latest,    \* the last answer of get_latest_preview
  renders, crashes, fetches

vars == <<files, data, sidecar, journal, work, index, project, doomed, browser,
          served, again, latest, renders, crashes, fetches>>
disk == <<data, sidecar>>
plane == <<index, project, doomed, browser, served, latest, fetches>>
bounds == <<renders, crashes>>

Idle == [job |-> Absent, at |-> "idle", type |-> "preview", bytes |-> Absent, refs |-> {}]

Init ==
  /\ files = [f \in {"staged", "project"} |-> "none"]
  /\ data = [id \in Ids |-> Absent] /\ sidecar = [id \in Ids |-> Absent]
  /\ journal = [j \in Jobs |-> Absent] /\ work = Idle
  /\ index = {} /\ project = TRUE /\ doomed = <<>>
  /\ browser = [b \in Browsers |-> Absent] /\ served = {} /\ latest = Absent
  /\ again = {} /\ renders = 0 /\ crashes = 0 /\ fetches = 0

-------------------------------------------------------------------------------
(* LocalArtifactStore. *)

(* get: metadata without bytes is not an artifact, nor are bytes without it. *)
Exists(id) == sidecar[id] # Absent /\ data[id] # Absent

(* list_for_project: what get reports, oldest first. *)
Listed == {id \in Ids : Exists(id)}
Newest == CHOOSE id \in Listed : \A other \in Listed : sidecar[other].at <= sidecar[id].at

PutBytes(id, bytes) == data' = [data EXCEPT ![id] = bytes]
PutSidecar(id, bytes) ==
  sidecar' = [sidecar EXCEPT ![id] = [checksum |-> bytes, at |-> renders]]

-------------------------------------------------------------------------------
(* The worker. *)
Working(at) == work.at = at
Current == <<work.job, work.type>>
Then(at) == work' = [work EXCEPT !.at = at]

(* A job that has no record of its completion is carried out; one that has   *)
(* is only attached what its record does not refer to.                       *)
Take(j) ==
  /\ Working("idle")
  /\ work' = [Idle EXCEPT !.job = j, !.at = "open",
                          !.refs = IF journal[j] = Absent THEN {} ELSE journal[j]]
  /\ UNCHANGED <<files, disk, journal, plane, again, bounds>>

(* blend_path_for: an existing file is the project, whatever is in it. *)
Open ==
  /\ Working("open") /\ files["project"] # "none"
  /\ Then("attach")
  /\ UNCHANGED <<files, disk, journal, plane, again, bounds>>

(* create_empty_project: another is created under a fresh name beside it.    *)
Stage ==
  /\ Working("open") /\ files["project"] = "none"
  /\ files' = [files EXCEPT !["staged"] = "empty"]
  /\ Then("creating")
  /\ UNCHANGED <<disk, journal, plane, again, bounds>>

(* Mutant: Blender is told the project's own name. *)
SavesInPlace == "project"

(* STUDIO_PROJECT_PATH: where Blender saves. *)
SavesAt == "staged"

Save ==
  /\ Working("creating") /\ files[SavesAt] # "whole"
  /\ files' = [files EXCEPT ![SavesAt] = IF @ = "partial" THEN "whole" ELSE "partial"]
  /\ UNCHANGED <<disk, journal, work, plane, again, bounds>>

(* Blender's result and a file that is not empty: it is moved into place. *)
Install ==
  /\ Working("creating") /\ files[SavesAt] = "whole"
  /\ files' = [files EXCEPT !["staged"] = "none", !["project"] = "whole"]
  /\ Then("attach")
  /\ UNCHANGED <<disk, journal, plane, again, bounds>>

(* Blender failed, took too long or wrote nothing: what was staged goes, and *)
(* the job fails.                                                            *)
CreationFails ==
  /\ Working("creating")
  /\ files' = [files EXCEPT !["staged"] = "none"] /\ work' = Idle
  /\ UNCHANGED <<disk, journal, plane, again, bounds>>

(* After the preview the model, after the model the journal; the record in   *)
(* hand refers to what was attached.                                         *)
AfterArtifact(refs) ==
  work' = IF work.type = "preview" /\ work.job \notin MoveJobs
            THEN [work EXCEPT !.at = "attach", !.type = "model", !.refs = refs]
            ELSE [work EXCEPT !.at = "journal", !.refs = refs]
Attached == work.refs \cup {Current}
NotAttached == work.refs \ {Current}

(* _attach_preview, _attach_model: what a plan's record refers to is not     *)
(* looked for, a move trusts the store only; an artifact of this job that is *)
(* there is the artifact, and only otherwise is it rendered or exported.     *)
HasOne == Exists(Current) \/ (work.job \notin MoveJobs /\ Current \in work.refs)

Reuse ==
  /\ Working("attach") /\ HasOne
  /\ AfterArtifact(Attached)
  /\ UNCHANGED <<files, disk, journal, plane, again, bounds>>

(* Mutant: what is there is not looked at. *)
MustRenderAlways == TRUE

MustRender == ~HasOne

Render ==
  /\ Working("attach") /\ MustRender /\ renders < MaxRenders
  /\ renders' = renders + 1
  /\ work' = [work EXCEPT !.at = "put", !.bytes = renders + 1]
  /\ again' = IF project \/ journal[work.job] = Absent THEN again
              ELSE again \cup {Current}
  /\ UNCHANGED <<files, disk, journal, plane, crashes>>

(* Mutant: the record refers to the artifact all the same. *)
AttachFailsUnnoticed ==
  /\ (Working("attach") /\ MustRender) \/ Working("put") \/ Working("describe")
  /\ AfterArtifact(Attached)
  /\ UNCHANGED <<files, disk, journal, plane, again, bounds>>

(* No Blender, a timeout, no image, an empty one, one that is no PNG or no   *)
(* glTF file, a file that cannot be written: the job keeps its success and   *)
(* has no such artifact.                                                     *)
AttachFails ==
  /\ (Working("attach") /\ MustRender) \/ Working("put") \/ Working("describe")
  /\ AfterArtifact(NotAttached)
  /\ UNCHANGED <<files, disk, journal, plane, again, bounds>>

(* put: each file is staged and moved into place, the bytes first. *)
Put ==
  /\ Working("put")
  /\ PutBytes(Current, work.bytes)
  /\ Then("describe")
  /\ UNCHANGED <<files, sidecar, journal, plane, again, bounds>>

Describe ==
  /\ Working("describe")
  /\ PutSidecar(Current, work.bytes)
  /\ AfterArtifact(Attached)
  /\ UNCHANGED <<files, data, journal, plane, again, bounds>>

(* The record is saved with what was stored, and the result reported; the    *)
(* control plane indexes what it is told (SceneReporter._record_artifact).   *)
Report ==
  /\ Working("journal")
  /\ journal' = [journal EXCEPT ![work.job] = work.refs]
  /\ index' = index \cup work.refs
  /\ work' = Idle
  /\ UNCHANGED <<files, disk, project, doomed, browser, served, latest, fetches, again,
                 bounds>>

(* What was staged stays behind, under a name that is not asked for again. *)
Crash ==
  /\ ~Working("idle") /\ crashes < MaxCrashes
  /\ crashes' = crashes + 1 /\ work' = Idle
  /\ files' = [files EXCEPT !["staged"] = "none"]
  /\ UNCHANGED <<disk, journal, plane, again, renders>>

-------------------------------------------------------------------------------
(* The control plane and the browsers. *)

(* get_artifact: the metadata is read, and then (read_bytes) the bytes. *)
Fetch(b, id) ==
  /\ browser[b] = Absent /\ project /\ Exists(id) /\ fetches < MaxFetches
  /\ browser' = [browser EXCEPT ![b] = [id |-> id, etag |-> sidecar[id].checksum]]
  /\ fetches' = fetches + 1
  /\ UNCHANGED <<files, disk, journal, work, index, project, doomed, served, latest, again,
                 bounds>>

(* No such artifact any more is a 404. *)
Answer(b) ==
  /\ browser[b] # Absent
  /\ LET id == browser[b].id IN
     served' = IF Exists(id) THEN served \cup {[id |-> id, etag |-> browser[b].etag,
                                                 body |-> data[id]]}
               ELSE served
  /\ browser' = [browser EXCEPT ![b] = Absent]
  /\ UNCHANGED <<files, disk, journal, work, index, project, doomed, latest, fetches, again,
                 bounds>>

(* get_latest_preview. *)
GetLatest ==
  /\ project /\ Listed # {}
  /\ latest' = Newest
  /\ UNCHANGED <<files, disk, journal, work, index, project, doomed, browser, served,
                 fetches, again, bounds>>

(* delete_project: the rows, then the files of the artifacts they named;     *)
(* LocalArtifactStore.delete unlinks the bytes and then the sidecar.         *)
DeleteProject ==
  /\ project
  /\ project' = FALSE /\ index' = {}
  /\ doomed' = SetToSeq(index)
  /\ UNCHANGED <<files, disk, journal, work, browser, served, latest, fetches, again,
                 bounds>>

Unlink ==
  /\ doomed # <<>>
  /\ LET id == Head(doomed) IN
     IF Exists(id)
       THEN data' = [data EXCEPT ![id] = Absent] /\ UNCHANGED <<sidecar, doomed>>
       ELSE /\ sidecar' = [sidecar EXCEPT ![id] = Absent]
            /\ doomed' = Tail(doomed)
            /\ UNCHANGED data
  /\ UNCHANGED <<files, journal, work, index, project, browser, served, latest, fetches,
                 again, bounds>>

WorkerStep ==
  \/ \E j \in Jobs : Take(j)
  \/ Open \/ Stage \/ Save \/ Install \/ CreationFails
  \/ Reuse \/ Render \/ AttachFails \/ Put \/ Describe \/ Report \/ Crash

Next ==
  \/ WorkerStep
  \/ \E b \in Browsers : Answer(b) \/ \E id \in Ids : Fetch(b, id)
  \/ GetLatest \/ DeleteProject \/ Unlink

Spec == Init /\ [][Next]_vars

-------------------------------------------------------------------------------
(* "Previews are immutable ... a given id always denotes the same image"     *)
(* (routes/artifacts.py, which lets browsers cache it for a year): every     *)
(* answer for one identity has the same body, and the ETag of that body,     *)
(* however often its job was attempted and delivered and whatever was        *)
(* rewritten meanwhile - save an artifact that was deleted with its project, *)
(* and that the move it belongs to rendered again when it was delivered      *)
(* once more: an answer begun before may end with the new bytes.             *)
ServedIsImmutable ==
  \A x, y \in served : x.id = y.id /\ x.id \notin again => x = y /\ x.etag = x.body

(* What a job reported can be fetched until its project is deleted, also     *)
(* when its job is delivered again: the record names an artifact only once   *)
(* its bytes and its metadata are there.                                     *)
ReportedIsServable ==
  project =>
    /\ \A id \in index : Exists(id)
    /\ \A j \in Jobs : journal[j] # Absent => \A id \in journal[j] : Exists(id)

(* Whatever file an attempt took for the project, which asks no more than    *)
(* whether there is one, Blender finished writing, though it and the worker  *)
(* may have died at any moment of an earlier attempt.                        *)
ProjectFileIsWhole ==
  work.at \in {"attach", "put", "describe", "journal"} => files["project"] = "whole"

===============================================================================
