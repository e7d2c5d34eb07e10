----------------------------- MODULE WorkspaceStore -----------------------------
(***************************************************************************)
(* What the control plane keeps of one project: the tables of the          *)
(* workspace database (storage/repositories.py) and the bytes on disk      *)
(* (storage/files.py, ingest/model_copies.py, the artifact store).  The    *)
(* database runs one statement at a time under its lock; a transaction is  *)
(* one step.  The turn threads, the routes' threads and the event loop     *)
(* share all of it: DesignTurns, SceneReads, Uploads and Workspace say     *)
(* what they do with it.                                                   *)
(***************************************************************************)
EXTENDS Integers, Sequences, FiniteSets, SequencesExt

CONSTANTS
  Turns,       \* turn threads, one for each time a message is sent
  Requests,    \* request ids
  RequestOf,   \* the request each turn is for
  Sessions,
  Uploads,     \* times a file is uploaded
  ContentOf,   \* the bytes of each upload
  KindOf,      \* "image", "document" or "pdf", by content
  Pages,       \* BOUND: pages of a PDF
  MaxImages,   \* images one turn may attach
  MaxScene,    \* BOUND: versions of the Blender scene
  Configured,  \* whether the project is one of STUDIO_API_PROJECT_IDS
  Nobody       \* no turn, no row

VARIABLES
  project,        \* whether the project has a row
  references,     \* project_references: the rows
  deliveries,     \* reference_deliveries
  facts,          \* design_facts: who set them
  transcript,     \* conversation_turns, oldest first
  clarifications, \* clarifications, oldest first
  approvals,      \* approvals, by the turn that parked its plan
  jobs,           \* job_records, by the request that identifies the job
  scene,          \* project_scenes: the cached version, 0 for no row
  artifacts,      \* project_artifacts
  files,          \* stored uploads and rendered pages
  copies,         \* model_copies: downscaled images
  artifactBytes   \* the artifact store's files

rows == <<project, references, deliveries, facts, transcript, clarifications,
          approvals, jobs, scene, artifacts>>
bytes == <<files, copies, artifactBytes>>
store == <<rows, bytes>>

-------------------------------------------------------------------------------
(* A reference: an upload (page 0) or a page rendered from it.  Its row says *)
(* when it was created, and where that is in the transcript: how many        *)
(* messages of the assistant precede it.                                     *)
Id(upload, page) == [upload |-> upload, page |-> page]
Ids == [upload : Uploads, page : 0 .. Pages]

Spoken == Len(SelectSeq(transcript, LAMBDA m : m.role = "assistant"))

Now == 1 + Max({0} \cup {r.created : r \in references})

Row(id) == [id |-> id, after |-> Spoken, created |-> Now]

Kind(id) == IF id.page > 0 THEN "page" ELSE KindOf[ContentOf[id.upload]]

(* A plan the model proposed: whose it is, and whether a step of it needs    *)
(* approval ("flagged"), cannot be understood ("refused"), or both.          *)
Kinds == {"safe", "flagged", "refused", "both"}
Plans == [turn : Turns, kind : Kinds]
Flagged(plan) == plan.kind \in {"flagged", "both"}
Refused(plan) == plan.kind \in {"refused", "both"}

(* A plan parked for the user's decision, and what was decided.              *)
Approvals == [plan : Plans, decision : {"pending", "approved", "rejected"}]

ASSUME StoreAssumption ==
  /\ RequestOf \in [Turns -> Requests]
  /\ Pages \in Nat /\ Configured \in BOOLEAN
  /\ Nobody \notin Turns /\ Nobody \notin Approvals

(* job_{request}_0, and of an approved plan job_{request}_approved_0. *)
Identities == Requests \X BOOLEAN

StoreInit ==
  /\ project \in {Configured, TRUE}
  /\ references = {} /\ deliveries = {} /\ facts = {} /\ transcript = <<>>
  /\ clarifications = <<>> /\ approvals = [t \in Turns |-> Nobody]
  /\ jobs = [j \in Identities |-> Nobody]
  /\ scene = 0 /\ artifacts = {}
  /\ files = {} /\ copies = {} /\ artifactBytes = {}

-------------------------------------------------------------------------------
(* ProjectRepository, DatabaseProjectRegistry. *)

(* get: a configured project is adopted on first use. *)
KnownProject == project \/ Configured
AdoptProject == project' = KnownProject

(* ensure: whoever was told the project exists puts its row back. *)
EnsureProject == project' = TRUE

(* ReferenceRepository. *)
HasRow(id) == \E r \in references : r.id = id
AddReference(id) == references' = references \cup {Row(id)}

Parents == {r \in references : r.id.page = 0}
PagesOf(upload) == {r \in references : r.id.upload = upload /\ r.id.page > 0}

(* list_for_project: ORDER BY created_at.  pages_of orders by page number,    *)
(* which for the pages of one upload comes to the same.                      *)
Oldest(rs) == SetToSortSeq(rs, LAMBDA a, b : a.created < b.created)

(* GET .../content: the row is read, then the file it names. *)
HasContent(id) == HasRow(id) /\ id \in files

(* find_by_hash: a reference with these bytes, pages apart. *)
SameBytes(upload) == {r \in Parents : ContentOf[r.id.upload] = ContentOf[upload]}

(* delete: the row and those of its pages go in one transaction. *)
DropReference(upload) ==
  references' = {r \in references : r.id.upload # upload}

(* ReferenceDeliveryRepository.record, delivered_ids. *)
RecordDeliveries(session, ids) == deliveries' = deliveries \cup ({session} \X ids)
Delivered(session) == {d[2] : d \in {x \in deliveries : x[1] = session}}

(* DesignFactRepository.set_many: what a turn learnt. *)
RecordFacts(turn) == facts' = facts \cup {turn}

(* ConversationRepository.append. *)
AppendMessage(speaker, request) ==
  transcript' = Append(transcript, [role |-> speaker, request |-> request])

(* ClarificationRepository: the newest open question; resolve closes one. *)
OpenQuestions == {i \in DOMAIN clarifications : clarifications[i].open}
PendingQuestion ==
  IF OpenQuestions = {} THEN Nobody
  ELSE clarifications[CHOOSE i \in OpenQuestions :
                        \A j \in OpenQuestions : j <= i].turn

AddQuestion(turn) ==
  clarifications' = Append(clarifications, [turn |-> turn, open |-> TRUE])

ResolveQuestion(turn) ==
  clarifications' = [i \in DOMAIN clarifications |->
                       IF clarifications[i].turn = turn
                         THEN [clarifications[i] EXCEPT !.open = FALSE]
                         ELSE clarifications[i]]

(* ApprovalRepository: add, and the update decide makes of a pending row. *)
Parked(plan) == [plan |-> plan, decision |-> "pending"]
Undecided(turn) == approvals[turn] # Nobody /\ approvals[turn].decision = "pending"

AddApproval(turn, plan) == approvals' = [approvals EXCEPT ![turn] = Parked(plan)]

WriteDecision(turn, decision) ==
  approvals' = IF Undecided(turn)
                 THEN [approvals EXCEPT ![turn].decision = decision]
                 ELSE approvals

(* SceneRepository.put, ArtifactIndexRepository.record. *)
PutScene(version) == scene' = version
RecordArtifact(version) == artifacts' = artifacts \cup {version}

(* Mutant of DeleteRows: a table PROJECT_TABLES does not list. *)
DeleteRowsButOne ==
  /\ project' = FALSE
  /\ references' = {} /\ deliveries' = {} /\ facts' = {} /\ transcript' = <<>>
  /\ clarifications' = <<>> /\ approvals' = approvals
  /\ jobs' = [j \in Identities |-> Nobody]
  /\ scene' = 0 /\ artifacts' = {}

(* StudioRepositories.delete_project: every table of PROJECT_TABLES. *)
DeleteRows ==
  /\ project' = FALSE
  /\ references' = {} /\ deliveries' = {} /\ facts' = {} /\ transcript' = <<>>
  /\ clarifications' = <<>> /\ approvals' = [t \in Turns |-> Nobody]
  /\ jobs' = [j \in Identities |-> Nobody]
  /\ scene' = 0 /\ artifacts' = {}

-------------------------------------------------------------------------------
(* ReferenceFileStore: write replaces a finished sibling; delete_project     *)
(* walks the project's directory and the copies one level down.              *)
WriteFile(id) == files' = files \cup {id}
DeleteFiles(ids) == files' = files \ ids
DeleteProjectFiles == files' = {} /\ copies' = {}

(* ModelCopyMaker.copy_of, for the images a turn sends. *)
MakeCopies(ids) == copies' = copies \cup ids

(* No row, upload or copy of the project. *)
Nothing ==
  /\ references = {} /\ deliveries = {} /\ facts = {} /\ transcript = <<>>
  /\ clarifications = <<>> /\ (\A t \in Turns : approvals[t] = Nobody)
  /\ (\A j \in Identities : jobs[j] = Nobody)
  /\ scene = 0 /\ artifacts = {}
  /\ files = {} /\ copies = {}

StoreTypeOK ==
  /\ project \in BOOLEAN
  /\ references \subseteq [id : Ids, after : Nat, created : Nat]
  /\ deliveries \subseteq Sessions \X Ids
  /\ facts \subseteq Turns
  /\ transcript \in Seq([role : {"user", "assistant"}, request : Requests])
  /\ clarifications \in Seq([turn : Turns, open : BOOLEAN])
  /\ approvals \in [Turns -> Approvals \cup {Nobody}]
  /\ jobs \in [Identities -> {"queued", "held", Nobody}]
  /\ scene \in 0 .. MaxScene /\ artifacts \subseteq 1 .. MaxScene
  /\ files \subseteq Ids /\ copies \subseteq Ids
  /\ artifactBytes \subseteq 1 .. MaxScene
===============================================================================
