---------------------------- MODULE Artifacts_proofs ----------------------------
(***************************************************************************)
(* Theorems about what a plan leaves behind: about Artifacts, for any      *)
(* number of jobs and browsers and any bounds; in the second part, about   *)
(* Assistant, for any names, replies and providers; and last, about        *)
(* CodexLogin, for any number of attempts to sign in.                      *)
(***************************************************************************)
EXTENDS Artifacts, Assistant, CodexLogin, FiniteSetTheorems, TLAPS

-------------------------------------------------------------------------------
(* Every variable has its type; what get_latest_preview answered is left     *)
(* out, nothing depends on it.                                               *)
Ats == {"idle", "open", "creating", "attach", "put", "describe", "journal"}
Works == [job : Jobs \cup {Absent}, at : Ats, type : Types,
          bytes : Nat \cup {Absent}, refs : SUBSET Ids]

TypeInv ==
  /\ files \in [{"staged", "project"} -> {"none", "empty", "partial", "whole"}]
  /\ data \in [Ids -> Nat \cup {Absent}]
  /\ sidecar \in [Ids -> Metadata \cup {Absent}]
  /\ journal \in [Jobs -> (SUBSET Ids) \cup {Absent}]
  /\ work \in Works
  /\ index \subseteq Ids /\ IsFiniteSet(index)
  /\ project \in BOOLEAN
  /\ doomed \in Seq(Ids)
  /\ browser \in [Browsers -> Requests \cup {Absent}]
  /\ served \subseteq [id : Ids, etag : Nat, body : Nat]
  /\ renders \in Nat

(* Blender writes the staged file only. *)
ProjectInv == files["project"] \in {"none", "whole"} /\ ProjectFileIsWhole

(* A record refers to artifacts of its own job. *)
RefsInv ==
  /\ \A j \in Jobs : journal[j] # Absent => journal[j] \subseteq {j} \X Types
  /\ work.refs \subseteq {work.job} \X Types
  /\ project => \A id \in work.refs : Exists(id)

Writing == Working("put") \/ Working("describe")

(* Nobody has seen an artifact that is being written for the first time, and *)
(* no deletion is about to remove it.                                        *)
Fresh(id) ==
  /\ sidecar[id] = Absent
  /\ \A b \in Browsers : browser[b] # Absent => browser[b].id # id
  /\ \A x \in served : x.id # id
  /\ \A n \in 1 .. Len(doomed) : doomed[n] # id

WorkerInv ==
  /\ ~Working("idle") => work.job \in Jobs
  /\ Writing => work.bytes \in Nat /\ (Current \notin again => Fresh(Current))
  /\ Working("describe") /\ Current \notin again => data[Current] = work.bytes

Recorded(id) == journal[id[1]] # Absent
Gone(id) == project = FALSE /\ Recorded(id)

(* Metadata lies beside the bytes it describes, or where a deletion took the *)
(* bytes of a job that was reported.                                         *)
FilesInv ==
  \A id \in Ids : sidecar[id] # Absent /\ id \notin again =>
    IF data[id] = Absent THEN Gone(id) ELSE sidecar[id].checksum = data[id]

(* Files are removed only after the project is gone, and only those of jobs  *)
(* that have a record.                                                       *)
RemovalInv ==
  /\ project => doomed = <<>> /\ again = {}
  /\ \A id \in index : Recorded(id)
  /\ \A n \in 1 .. Len(doomed) : Recorded(doomed[n])

(* An identity that was shown once means those bytes: they are complete, or  *)
(* deleted and never rendered again.                                         *)
Denotes(id, bytes) ==
  IF data[id] = Absent THEN Gone(id) ELSE sidecar[id] # Absent /\ data[id] = bytes

ReadersInv ==
  /\ \A b \in Browsers : browser[b] # Absent /\ browser[b].id \notin again =>
       Denotes(browser[b].id, browser[b].etag)
  /\ \A x \in served : x.id \notin again => Denotes(x.id, x.body)

IndInv ==
  /\ TypeInv /\ ProjectInv /\ RefsInv /\ WorkerInv /\ FilesInv /\ RemovalInv /\ ReadersInv
  /\ ServedIsImmutable /\ ReportedIsServable

-------------------------------------------------------------------------------
(* Sets of artifacts as the model builds them. *)

LEMMA TypesFinite == IsFiniteSet(Types)
<1>1. Types = {"preview"} \cup {"model"}
  BY DEF Types
<1>2. IsFiniteSet({"preview"}) /\ IsFiniteSet({"model"})
  BY FS_Singleton
<1> QED  BY <1>1, <1>2, FS_Union

LEMMA RefsFinite ==
  ASSUME NEW j, NEW refs, refs \subseteq {j} \X Types
  PROVE  IsFiniteSet(refs)
<1>1. IsFiniteSet({j})
  BY FS_Singleton
<1>2. IsFiniteSet({j} \X Types)
  BY <1>1, TypesFinite, FS_Product
<1> QED  BY <1>2, FS_Subset

(* The order in which delete_project meets the rows adds no file to them. *)
LEMMA SetToSeqElements ==
  ASSUME NEW S, IsFiniteSet(S)
  PROVE  /\ SetToSeq(S) \in Seq(S)
         /\ \A n \in 1 .. Len(SetToSeq(S)) : SetToSeq(S)[n] \in S
<1> DEFINE C == 1 .. Cardinality(S)
<1>1. Cardinality(S) \in Nat /\ ExistsBijection(C, S)
  BY FS_CardinalityType
<1>2. \E f \in [C -> S] : IsInjective(f)
  BY <1>1 DEF ExistsBijection, Bijection, Injection
<1>3. SetToSeq(S) \in [C -> S]
  BY <1>2 DEF SetToSeq
<1> QED  BY <1>1, <1>3

LEMMA InitInv == Init => IndInv
<1> SUFFICES ASSUME Init PROVE IndInv
  OBVIOUS
<1>1. IsFiniteSet({})
  BY FS_EmptySet
<1>2. doomed \in Seq(Ids) /\ Len(doomed) = 0
  BY DEF Init
<1>3. Idle \in Works
  BY DEF Idle, Types, Works, Ats
<1>4. TypeInv
  <2>1. data \in [Ids -> Nat \cup {Absent}] /\ sidecar \in [Ids -> Metadata \cup {Absent}]
    BY DEF Init
  <2>3. journal \in [Jobs -> (SUBSET Ids) \cup {Absent}]
    BY DEF Init
  <2>4. browser \in [Browsers -> Requests \cup {Absent}]
    BY DEF Init
  <2>2. project \in BOOLEAN
    BY DEF Init
  <2>5. files \in [{"staged", "project"} -> {"none", "empty", "partial", "whole"}]
    BY DEF Init
  <2> QED  BY <1>1, <1>2, <1>3, <2>1, <2>2, <2>3, <2>4, <2>5 DEF Init, TypeInv
<1>5. WorkerInv /\ FilesInv /\ ReadersInv
  BY <1>2 DEF Init, WorkerInv, FilesInv, ReadersInv, Working, Writing, Idle
<1>7. RemovalInv
  BY <1>2 DEF Init, RemovalInv
<1>8. ProjectInv /\ RefsInv
  BY DEF Init, ProjectInv, ProjectFileIsWhole, RefsInv, Idle
<1>6. ServedIsImmutable /\ ReportedIsServable
  BY DEF Init, ServedIsImmutable, ReportedIsServable
<1> QED  BY <1>4, <1>5, <1>6, <1>7, <1>8 DEF IndInv

-------------------------------------------------------------------------------
(* What a step writes: the worker two files of the artifact it is at, the    *)
(* deletion two files of the first doomed one; the record of one job; and    *)
(* what is rendered again is noted.                                          *)
LEMMA Writes ==
  ASSUME [Next]_vars
  PROVE  /\ UNCHANGED disk \/ Put \/ Describe \/ Unlink
         /\ UNCHANGED journal \/ Report
         /\ UNCHANGED again \/ Render
<1>1. CASE UNCHANGED vars
  BY <1>1 DEF vars, disk
<1>2. CASE WorkerStep
  BY <1>2 DEF WorkerStep, Take, Open, Stage, Save, Install, CreationFails, Reuse, Render,
     AttachFails, Put, Describe, Report, Crash, disk
<1>3. CASE \E b \in Browsers : Answer(b) \/ \E id \in Ids : Fetch(b, id)
  BY <1>3 DEF Answer, Fetch, disk
<1>4. CASE GetLatest \/ DeleteProject \/ Unlink
  BY <1>4 DEF GetLatest, DeleteProject, Unlink, disk
<1> QED  BY <1>1, <1>2, <1>3, <1>4 DEF Next

(* What is not written by the other steps. *)
LEMMA Leaves ==
  ASSUME [Next]_vars
  PROVE  /\ UNCHANGED index \/ Report \/ DeleteProject
         /\ UNCHANGED doomed \/ DeleteProject \/ Unlink
         /\ UNCHANGED project \/ DeleteProject
         /\ UNCHANGED browser \/ \E b \in Browsers : Answer(b) \/ \E id \in Ids : Fetch(b, id)
         /\ UNCHANGED served \/ \E b \in Browsers : Answer(b)
         /\ UNCHANGED renders \/ Render
         /\ UNCHANGED work \/ WorkerStep
<1>1. CASE UNCHANGED vars
  BY <1>1 DEF vars
<1>2. CASE WorkerStep
  BY <1>2 DEF WorkerStep, Take, Open, Stage, Save, Install, CreationFails, Reuse, Render,
     AttachFails, Put, Describe, Report, Crash, plane, bounds
<1>3. CASE \E b \in Browsers : Answer(b) \/ \E id \in Ids : Fetch(b, id)
  BY <1>3 DEF Answer, Fetch, bounds
<1>4. CASE GetLatest \/ DeleteProject \/ Unlink
  BY <1>4 DEF GetLatest, DeleteProject, Unlink, bounds
<1> QED  BY <1>1, <1>2, <1>3, <1>4 DEF Next

(* How the worker's attention moves. *)
LEMMA WorkStep ==
  ASSUME TypeInv, RefsInv, WorkerInv, [Next]_vars
  PROVE  /\ work' \in Works
         /\ work'.refs \subseteq {work'.job} \X Types
<1>0. work \in Works /\ work.refs \subseteq {work.job} \X Types
  BY DEF TypeInv, RefsInv
<1>2. Idle \in Works /\ Idle.refs = {}
  BY DEF Idle, Types, Works, Ats
<1>3. ASSUME NEW j \in Jobs, Take(j)
      PROVE  work' \in Works /\ work'.refs \subseteq {work'.job} \X Types
  <2> DEFINE refs == IF journal[j] = Absent THEN {} ELSE journal[j]
  <2>1. refs \subseteq {j} \X Types /\ refs \in SUBSET Ids
    BY DEF RefsInv, Ids
  <2>2. work' = [Idle EXCEPT !.job = j, !.at = "open", !.refs = refs]
    BY <1>3 DEF Take
  <2> HIDE DEF refs
  <2>3. work' = [job |-> j, at |-> "open", type |-> "preview", bytes |-> Absent, refs |-> refs]
    BY <2>2 DEF Idle
  <2> QED  BY <2>1, <2>3 DEF Works, Ats, Types
<1>4. ASSUME Current \in Ids, NEW refs, refs \in {Attached, NotAttached}, AfterArtifact(refs)
      PROVE  work' \in Works /\ work'.refs \subseteq {work'.job} \X Types
  <2>1. Current \in {work.job} \X Types
    BY <1>0 DEF Current, Works
  <2>2. refs \subseteq {work.job} \X Types /\ refs \in SUBSET Ids
    BY <1>0, <1>4, <2>1 DEF Attached, NotAttached, Works
  <2>3. CASE work' = [work EXCEPT !.at = "attach", !.type = "model", !.refs = refs]
    BY <1>0, <2>2, <2>3 DEF Works, Ats, Types
  <2>4. CASE work' = [work EXCEPT !.at = "journal", !.refs = refs]
    BY <1>0, <2>2, <2>4 DEF Works, Ats
  <2> QED  BY <1>4, <2>3, <2>4 DEF AfterArtifact
<1>5. CASE Render
  <2>1. renders + 1 \in Nat /\ work' = [work EXCEPT !.at = "put", !.bytes = renders + 1]
    BY <1>5 DEF Render, TypeInv
  <2> QED  BY <1>0, <2>1 DEF Works, Ats
<1>7. CASE Open \/ Stage \/ Install \/ Put
  <2>1. \E at \in Ats : work' = [work EXCEPT !.at = at]
    BY <1>7 DEF Open, Stage, Install, Put, Then, Ats
  <2> QED  BY <1>0, <2>1 DEF Works
<1>8. CASE CreationFails \/ Report \/ Crash
  BY <1>2, <1>8 DEF CreationFails, Report, Crash
<1>9. CASE Save \/ UNCHANGED work
  BY <1>0, <1>9 DEF Save
<1>10. work.job \in Jobs => Current \in Ids
  BY <1>0 DEF Current, Ids, Works
<1> QED
  BY <1>3, <1>4, <1>5, <1>7, <1>8, <1>9, <1>10, Leaves
  DEF WorkerStep, Reuse, AttachFails, Describe, WorkerInv, Working

LEMMA TypeStep ==
  ASSUME TypeInv, RefsInv, WorkerInv, [Next]_vars
  PROVE  TypeInv'
<1>1. data' \in [Ids -> Nat \cup {Absent}] /\ sidecar' \in [Ids -> Metadata \cup {Absent}]
  <2>1. CASE Put
    BY <2>1 DEF Put, PutBytes, TypeInv, WorkerInv, Writing
  <2>2. CASE Describe
    <3>1. [checksum |-> work.bytes, at |-> renders] \in Metadata
      BY <2>2 DEF Describe, TypeInv, WorkerInv, Writing, Metadata
    <3> QED  BY <2>2, <3>1 DEF Describe, PutSidecar, TypeInv
  <2>3. CASE Unlink
    BY <2>3 DEF Unlink, TypeInv
  <2> QED  BY <2>1, <2>2, <2>3, Writes DEF disk, TypeInv
<1>2. journal' \in [Jobs -> (SUBSET Ids) \cup {Absent}] /\ index' \subseteq Ids /\ IsFiniteSet(index')
  <2>1. CASE Report
    <3>1. work.refs \subseteq Ids /\ IsFiniteSet(work.refs)
      BY RefsFinite DEF TypeInv, RefsInv, Works
    <3>2. IsFiniteSet(index')
      BY <2>1, <3>1, FS_Union DEF Report, TypeInv
    <3> QED  BY <2>1, <3>1, <3>2 DEF Report, TypeInv
  <2>2. CASE DeleteProject
    BY <2>2, FS_EmptySet DEF DeleteProject, TypeInv
  <2>3. CASE UNCHANGED <<journal, index>>
    BY <2>3 DEF TypeInv
  <2> QED  BY <2>1, <2>2, <2>3, Writes, Leaves DEF TypeInv
<1>3. work' \in Works
  BY WorkStep
<1>4. doomed' \in Seq(Ids)
  <2>1. CASE DeleteProject
    BY <2>1, SetToSeqElements DEF DeleteProject, TypeInv
  <2>2. CASE Unlink
    <3>1. doomed \in Seq(Ids) /\ doomed # <<>> /\ doomed' \in {doomed, Tail(doomed)}
      BY <2>2 DEF Unlink, TypeInv
    <3> QED  BY <3>1
  <2> QED  BY <2>1, <2>2, Leaves DEF TypeInv
<1>5. browser' \in [Browsers -> Requests \cup {Absent}]
  <2>1. ASSUME NEW b \in Browsers, NEW id \in Ids, Fetch(b, id)
        PROVE  browser' \in [Browsers -> Requests \cup {Absent}]
    <3>1. [id |-> id, etag |-> sidecar[id].checksum] \in Requests
      BY <2>1 DEF Fetch, Exists, TypeInv, Requests, Metadata
    <3> QED  BY <2>1, <3>1 DEF Fetch, TypeInv
  <2>2. CASE \E b \in Browsers : Answer(b)
    BY <2>2 DEF Answer, TypeInv
  <2> QED  BY <2>1, <2>2, Leaves DEF TypeInv
<1>6. served' \subseteq [id : Ids, etag : Nat, body : Nat]
  <2>1. ASSUME NEW b \in Browsers, Answer(b)
        PROVE  served' \subseteq [id : Ids, etag : Nat, body : Nat]
    <3>1. browser[b] \in Requests
      BY <2>1 DEF Answer, TypeInv
    <3>2. browser[b].id \in Ids /\ browser[b].etag \in Nat
      BY <3>1 DEF Requests
    <3>3. Exists(browser[b].id) => data[browser[b].id] \in Nat
      BY <3>2 DEF Exists, TypeInv
    <3> QED  BY <2>1, <3>2, <3>3 DEF Answer, TypeInv
  <2> QED  BY <2>1, Leaves DEF TypeInv
<1>7. files' \in [{"staged", "project"} -> {"none", "empty", "partial", "whole"}]
  BY DEF Next, WorkerStep, Take, Open, Stage, Save, SavesAt, Install, CreationFails, Reuse,
     Render, AttachFails, Put, Describe, Report, Crash, Answer, Fetch, GetLatest,
     DeleteProject, Unlink, vars, TypeInv
<1>8. project' \in BOOLEAN
  BY Leaves DEF DeleteProject, TypeInv
<1>9. renders' \in Nat
  BY Leaves DEF Render, TypeInv
<1> QED  BY <1>1, <1>2, <1>3, <1>4, <1>5, <1>6, <1>7, <1>8, <1>9 DEF TypeInv

-------------------------------------------------------------------------------
(* The project file: only what Blender finished is moved into place. *)
LEMMA ProjectStep ==
  ASSUME TypeInv, ProjectInv, [Next]_vars
  PROVE  ProjectInv'
<1> DEFINE whole == files["project"] = "whole"
<1> USE DEF ProjectInv, ProjectFileIsWhole, TypeInv, Works
<1>1. CASE \E j \in Jobs : Take(j)
  BY <1>1 DEF Take, Idle
<1>2. CASE Open \/ Stage \/ Install \/ Save
  BY <1>2 DEF Open, Stage, Install, Save, SavesAt, Working, Then
<1>3. CASE CreationFails \/ Crash \/ Report
  BY <1>3 DEF CreationFails, Crash, Report, Idle
<1>4. CASE Reuse \/ AttachFails \/ Describe
  BY <1>4 DEF Reuse, AttachFails, Describe, AfterArtifact, Working
<1>5. CASE Render \/ Put
  BY <1>5 DEF Render, Put, Then, Working
<1>6. CASE UNCHANGED <<files, work>>
  BY <1>6
<1> QED
  BY <1>1, <1>2, <1>3, <1>4, <1>5, <1>6
  DEF Next, WorkerStep, Answer, Fetch, GetLatest, DeleteProject, Unlink, vars

(* A record is for good. *)
LEMMA RecordsStay ==
  ASSUME TypeInv, WorkerInv, [Next]_vars, NEW j \in Jobs, journal[j] # Absent
  PROVE  journal'[j] # Absent
<1>1. CASE Report
  <2>1. work.job \in Jobs
    BY <1>1 DEF Report, Working, WorkerInv
  <2>2. work.refs # Absent
    BY ArtifactsAssumption DEF TypeInv, Works
  <2> QED  BY <1>1, <2>1, <2>2 DEF Report, TypeInv
<1>2. CASE UNCHANGED journal
  BY <1>2
<1> QED  BY <1>1, <1>2, Writes

LEMMA GoneStays ==
  ASSUME TypeInv, WorkerInv, [Next]_vars, NEW id \in Ids, Gone(id)
  PROVE  Gone(id)'
<1>1. project' = FALSE
  BY Leaves DEF Gone, DeleteProject
<1> QED  BY <1>1, RecordsStay DEF Gone, Recorded, Ids

(* The artifact the worker is at is one of its job. *)
LEMMA CurrentIsOpen ==
  ASSUME TypeInv, WorkerInv, ~Working("idle")
  PROVE  Current \in Ids
BY DEF TypeInv, WorkerInv, Current, Ids, Works

(* An artifact that a step unlinks is one of a job with a record. *)
LEMMA UnlinkedIsGone ==
  ASSUME TypeInv, RemovalInv, Unlink
  PROVE  /\ Head(doomed) \in Ids /\ Gone(Head(doomed))
         /\ Head(doomed) = doomed[1] /\ 1 \in 1 .. Len(doomed)
<1>1. doomed \in Seq(Ids) /\ doomed # <<>>
  BY DEF Unlink, TypeInv
<1>2. 1 \in 1 .. Len(doomed) /\ Head(doomed) = doomed[1]
  BY <1>1
<1>3. project = FALSE
  BY <1>1 DEF RemovalInv, TypeInv
<1> QED  BY <1>1, <1>2, <1>3 DEF RemovalInv, Gone

(* What is written is not yet seen, or was rendered again. *)
LEMMA WrittenIsFresh ==
  ASSUME TypeInv, WorkerInv, Put \/ Describe
  PROVE  /\ Current \in Ids /\ work.bytes \in Nat
         /\ Current \notin again => Fresh(Current)
BY CurrentIsOpen DEF Put, Describe, Working, WorkerInv, Writing

LEMMA FilesStep ==
  ASSUME TypeInv, WorkerInv, FilesInv, RemovalInv, [Next]_vars
  PROVE  FilesInv'
<1>0. again \subseteq again'
  BY Writes DEF Render
<1> SUFFICES ASSUME NEW id \in Ids, sidecar'[id] # Absent, id \notin again
             PROVE  IF data'[id] = Absent THEN Gone(id)'
                    ELSE sidecar'[id].checksum = data'[id]
  BY <1>0 DEF FilesInv
<1>00. Gone(id) => Gone(id)'
  BY GoneStays
<1>1. CASE Put
  <2>1. Current \in Ids /\ (Current \notin again => sidecar[Current] = Absent)
    BY <1>1, WrittenIsFresh DEF Fresh
  <2>2. sidecar' = sidecar /\ data' = [data EXCEPT ![Current] = work.bytes]
    BY <1>1 DEF Put, PutBytes
  <2>3. id # Current
    BY <2>1, <2>2
  <2>4. data'[id] = data[id]
    BY <2>2, <2>3 DEF TypeInv
  <2> QED  BY <2>2, <2>4, <1>00 DEF FilesInv
<1>2. CASE Describe
  <2>1. Current \in Ids /\ work.bytes \in Nat
    BY <1>2, WrittenIsFresh
  <2>2. data' = data /\ sidecar' = [sidecar EXCEPT ![Current] =
                                      [checksum |-> work.bytes, at |-> renders]]
    BY <1>2 DEF Describe, PutSidecar
  <2>3. CASE id = Current
    <3>1. data[Current] = work.bytes
      BY <1>2, <2>3 DEF Describe, WorkerInv
    <3> QED  BY <2>1, <2>2, <2>3, <3>1, ArtifactsAssumption DEF TypeInv
  <2>4. CASE id # Current
    BY <2>1, <2>2, <2>4, <1>00 DEF FilesInv, TypeInv
  <2> QED  BY <2>3, <2>4
<1>3. CASE Unlink
  <2>1. Head(doomed) \in Ids /\ Gone(Head(doomed))
    BY <1>3, UnlinkedIsGone
  <2>2. CASE Exists(Head(doomed))
    BY <1>00, <1>3, <2>1, <2>2 DEF Unlink, FilesInv, TypeInv
  <2>3. CASE ~Exists(Head(doomed))
    BY <1>00, <1>3, <2>1, <2>3 DEF Unlink, FilesInv, TypeInv
  <2> QED  BY <2>2, <2>3
<1>4. CASE UNCHANGED disk
  BY <1>00, <1>4 DEF disk, FilesInv
<1> QED  BY <1>1, <1>2, <1>3, <1>4, Writes

LEMMA RemovalStep ==
  ASSUME TypeInv, RefsInv, WorkerInv, RemovalInv, TypeInv', [Next]_vars
  PROVE  RemovalInv'
<1>0. \A id \in Ids : Recorded(id) => Recorded(id)'
  BY RecordsStay DEF Recorded, Ids
<1>00. again' = again \/ ~project
  BY Writes DEF Render
<1>01. \A n \in 1 .. Len(doomed) : doomed[n] \in Ids
  BY DEF TypeInv
<1>1. CASE Report
  <2>1. work.job \in Jobs /\ work.refs \subseteq {work.job} \X Types
    BY <1>1 DEF Report, Working, WorkerInv, RefsInv
  <2>2. work.refs # Absent
    BY ArtifactsAssumption DEF TypeInv, Works
  <2>3. \A id \in work.refs : Recorded(id)'
    BY <1>1, <2>1, <2>2 DEF Report, Recorded, TypeInv
  <2>4. \A id \in index' : Recorded(id)'
    BY <1>0, <1>1, <2>3 DEF Report, RemovalInv, TypeInv
  <2>5. doomed' = doomed /\ project' = project /\ again' = again
    BY <1>1 DEF Report
  <2> QED  BY <1>0, <2>4, <2>5, <1>01 DEF RemovalInv
<1>2. CASE DeleteProject
  <2>1. \A n \in 1 .. Len(doomed') : doomed'[n] \in index
    BY <1>2, SetToSeqElements DEF DeleteProject, TypeInv
  <2> QED  BY <1>0, <1>2, <2>1 DEF DeleteProject, RemovalInv, TypeInv
<1>3. CASE Unlink
  <2>1. doomed \in Seq(Ids) /\ doomed # <<>> /\ doomed' \in {doomed, Tail(doomed)}
    BY <1>3 DEF Unlink, TypeInv
  <2>2. \A n \in 1 .. Len(doomed') : doomed'[n] \in Ids /\ Recorded(doomed'[n])
    BY <2>1 DEF RemovalInv
  <2>3. ~project /\ project' = project /\ index' = index
    BY <1>3 DEF Unlink, RemovalInv
  <2> QED  BY <1>0, <2>2, <2>3 DEF RemovalInv, TypeInv
<1>4. CASE UNCHANGED <<index, doomed, project>>
  BY <1>0, <1>00, <1>01, <1>4 DEF RemovalInv, TypeInv
<1> QED  BY <1>1, <1>2, <1>3, <1>4, Leaves DEF Report, DeleteProject, Unlink

(* No later step changes what an identity denotes: complete bytes are not    *)
(* rendered again, deleted ones only where it is noted.                      *)
LEMMA DenotesStays ==
  ASSUME TypeInv, WorkerInv, RemovalInv, [Next]_vars,
         NEW id \in Ids, NEW bytes \in Nat, Denotes(id, bytes),
         Put \/ Describe => id # Current
  PROVE  Denotes(id, bytes)'
<1>0. Gone(id) => Gone(id)'
  BY GoneStays
<1>1. CASE Put \/ Describe
  <2>1. Current \in Ids
    BY <1>1, WrittenIsFresh
  <2>2. id # Current
    BY <1>1
  <2>3. data'[id] = data[id] /\ sidecar'[id] = sidecar[id]
    BY <1>1, <2>1, <2>2 DEF Put, PutBytes, Describe, PutSidecar, TypeInv
  <2> QED  BY <1>0, <2>3 DEF Denotes
<1>2. CASE Unlink
  <2>1. Head(doomed) \in Ids /\ Gone(Head(doomed))
    BY <1>2, UnlinkedIsGone
  <2>2. CASE Exists(Head(doomed))
    BY <1>0, <1>2, <2>1, <2>2 DEF Unlink, Denotes, TypeInv
  <2>3. CASE ~Exists(Head(doomed))
    BY <1>0, <1>2, <2>1, <2>3 DEF Unlink, Exists, Denotes, TypeInv
  <2> QED  BY <2>2, <2>3
<1>3. CASE UNCHANGED disk
  BY <1>0, <1>3 DEF disk, Denotes
<1> QED  BY <1>1, <1>2, <1>3, Writes

LEMMA ReadersStep ==
  ASSUME TypeInv, WorkerInv, FilesInv, RemovalInv, ReadersInv, [Next]_vars
  PROVE  ReadersInv'
<1>0. again \subseteq again'
  BY Writes DEF Render
<1>1. ASSUME NEW b \in Browsers, browser[b] # Absent, browser[b].id \notin again,
             NEW id, NEW etag, id = browser[b].id, etag = browser[b].etag
      PROVE  Denotes(id, etag)'
  <2>1. browser[b] \in Requests
    BY <1>1 DEF TypeInv
  <2>2. id \in Ids /\ etag \in Nat
    BY <1>1, <2>1 DEF Requests
  <2>3. Denotes(id, etag)
    BY <1>1 DEF ReadersInv
  <2>4. Put \/ Describe => id # Current
    BY <1>1, WrittenIsFresh DEF Fresh
  <2> QED  BY <2>2, <2>3, <2>4, DenotesStays
<1>2. ASSUME NEW x \in served, x.id \notin again
      PROVE  Denotes(x.id, x.body)'
  <2>1. x.id \in Ids /\ x.body \in Nat /\ Denotes(x.id, x.body)
    BY <1>2 DEF TypeInv, ReadersInv
  <2>2. Put \/ Describe => x.id # Current
    BY <1>2, WrittenIsFresh DEF Fresh
  <2> QED  BY <2>1, <2>2, DenotesStays
<1>3. ASSUME NEW b \in Browsers, NEW id \in Ids, Fetch(b, id)
      PROVE  ReadersInv'
  <2>1. /\ sidecar[id] # Absent /\ data[id] # Absent
        /\ id \notin again => sidecar[id].checksum = data[id]
    BY <1>3 DEF Fetch, Exists, FilesInv
  <2>2. /\ browser' = [browser EXCEPT ![b] = [id |-> id, etag |-> sidecar[id].checksum]]
        /\ data' = data /\ sidecar' = sidecar /\ served' = served
    BY <1>3 DEF Fetch, disk
  <2>3. \A c \in Browsers : c # b => browser'[c] = browser[c]
    BY <2>2 DEF TypeInv
  <2>4. browser'[b].id = id /\ browser'[b].etag = sidecar[id].checksum
    BY <2>2 DEF TypeInv
  <2>5. id \notin again => Denotes(id, sidecar[id].checksum)
    BY <2>1 DEF Denotes
  <2>6. ASSUME id \notin again, NEW etag, etag = sidecar[id].checksum  PROVE Denotes(id, etag)'
    BY <2>2, <2>5, <2>6, <1>3 DEF Denotes, Fetch, Gone, Recorded
  <2> QED  BY <1>0, <1>1, <1>2, <2>2, <2>3, <2>4, <2>6 DEF ReadersInv
<1>4. ASSUME NEW b \in Browsers, Answer(b)
      PROVE  ReadersInv'
  <2>1. data' = data /\ sidecar' = sidecar
    BY <1>4 DEF Answer, disk
  <2>2. \A c \in Browsers : browser'[c] # Absent => browser[c] # Absent /\ browser'[c] = browser[c]
    BY <1>4 DEF Answer, TypeInv
  <2>3. ASSUME NEW x \in served', x.id \notin again
        PROVE  Denotes(x.id, x.body)'
    <3>1. CASE x \in served
      BY <1>2, <2>3, <3>1
    <3>2. CASE x \notin served
      <4>1. Exists(browser[b].id)
        BY <1>4, <3>2 DEF Answer
      <4>2. x.id = browser[b].id /\ x.body = data[browser[b].id]
        BY <1>4, <3>2, <4>1 DEF Answer
      <4> QED  BY <2>1, <4>1, <4>2 DEF Denotes, Exists
    <3> QED  BY <3>1, <3>2
  <2> QED  BY <1>0, <1>1, <2>2, <2>3 DEF ReadersInv
<1>5. CASE UNCHANGED <<browser, served>>
  BY <1>0, <1>1, <1>2, <1>5 DEF ReadersInv
<1> QED
  <2>1. \/ UNCHANGED <<browser, served>>
        \/ \E b \in Browsers : Answer(b) \/ \E id \in Ids : Fetch(b, id)
    BY Leaves
  <2> QED  BY <2>1, <1>3, <1>4, <1>5

(* A first rendering begins where nothing is to be seen. *)
LEMMA RenderedIsFresh ==
  ASSUME TypeInv, WorkerInv, FilesInv, RemovalInv, ReadersInv, Render, Current \notin again'
  PROVE  Fresh(Current)
<1>1. Current \in Ids /\ Current \notin again /\ ~Exists(Current)
  BY CurrentIsOpen DEF Render, MustRender, HasOne, Working
<1>2. ~Gone(Current) /\ (project \/ ~Recorded(Current))
  BY DEF Render, Gone, Recorded, Current
<1>3. sidecar[Current] = Absent
  BY <1>1, <1>2 DEF FilesInv, Exists
<1>4. \A bytes : ~Denotes(Current, bytes)
  BY <1>2, <1>3 DEF Denotes
<1>5. \A n \in 1 .. Len(doomed) : doomed[n] # Current
  <2>1. CASE project
    <3>1. doomed = <<>>
      BY <2>1 DEF RemovalInv
    <3> QED  BY <3>1
  <2>2. CASE ~Recorded(Current)
    BY <2>2 DEF RemovalInv
  <2> QED  BY <1>2, <2>1, <2>2
<1> QED  BY <1>1, <1>3, <1>4, <1>5 DEF Fresh, ReadersInv

(* It stays unseen until its metadata is written. *)
LEMMA FreshStays ==
  ASSUME TypeInv, RemovalInv, ReportedIsServable, [Next]_vars,
         NEW id \in Ids, Fresh(id), ~Describe
  PROVE  Fresh(id)'
<1>1. sidecar'[id] = Absent
  <2>1. CASE Unlink
    <3>1. Head(doomed) \in Ids
      BY <2>1, UnlinkedIsGone
    <3> QED  BY <2>1, <3>1 DEF Unlink, Fresh, TypeInv
  <2> QED  BY <2>1, Writes DEF Put, disk, Fresh
<1>2. \A b \in Browsers : browser'[b] # Absent => browser'[b].id # id
  <2>1. ASSUME NEW b \in Browsers, NEW other \in Ids, Fetch(b, other)
        PROVE  \A c \in Browsers : browser'[c] # Absent => browser'[c].id # id
    <3>1. other # id
      BY <2>1 DEF Fetch, Exists, Fresh
    <3>2. browser' = [browser EXCEPT ![b] = [id |-> other, etag |-> sidecar[other].checksum]]
      BY <2>1 DEF Fetch
    <3>3. browser'[b].id = other /\ \A c \in Browsers : c # b => browser'[c] = browser[c]
      BY <3>2 DEF TypeInv
    <3> QED  BY <3>1, <3>3 DEF Fresh
  <2>2. CASE \E b \in Browsers : Answer(b)
    BY <2>2 DEF Answer, Fresh, TypeInv
  <2> QED  BY <2>1, <2>2, Leaves DEF Fresh
<1>3. \A x \in served' : x.id # id
  <2>1. ASSUME NEW b \in Browsers, Answer(b)
        PROVE  \A x \in served' : x.id # id
    BY <2>1 DEF Answer, Fresh
  <2> QED  BY <2>1, Leaves DEF Fresh
<1>4. \A n \in 1 .. Len(doomed') : doomed'[n] # id
  <2>1. CASE DeleteProject
    <3>1. \A n \in 1 .. Len(doomed') : doomed'[n] \in index
      BY <2>1, SetToSeqElements DEF DeleteProject, TypeInv
    <3>2. \A other \in index : sidecar[other] # Absent
      BY <2>1 DEF DeleteProject, ReportedIsServable, Exists
    <3> QED  BY <3>1, <3>2 DEF Fresh
  <2>2. CASE Unlink
    <3>1. doomed \in Seq(Ids) /\ doomed # <<>> /\ doomed' \in {doomed, Tail(doomed)}
      BY <2>2 DEF Unlink, TypeInv
    <3>2. \A n \in 1 .. Len(doomed) : doomed[n] # id
      BY DEF Fresh
    <3> QED  BY <3>1, <3>2
  <2> QED  BY <2>1, <2>2, Leaves DEF Fresh
<1> QED  BY <1>1, <1>2, <1>3, <1>4 DEF Fresh

LEMMA WorkerInvStep ==
  ASSUME TypeInv, RefsInv, WorkerInv, FilesInv, RemovalInv, ReadersInv, ReportedIsServable,
         [Next]_vars
  PROVE  WorkerInv'
<1>1. CASE \E j \in Jobs : Take(j)
  BY <1>1 DEF Take, WorkerInv, Working, Writing, Idle
<1>2. CASE Open \/ Stage \/ Install
  BY <1>2 DEF Open, Stage, Install, Then, TypeInv, Works, WorkerInv, Working, Writing
<1>3. CASE CreationFails \/ Report \/ Crash
  BY <1>3 DEF CreationFails, Report, Crash, Idle, WorkerInv, Working, Writing
<1>4. CASE Reuse \/ AttachFails \/ Describe
  <2>1. work.job \in Jobs
    BY <1>4 DEF Reuse, AttachFails, Describe, WorkerInv, Working
  <2>2. work'.job = work.job /\ work'.at \in {"attach", "journal"}
    BY <1>4 DEF Reuse, AttachFails, Describe, AfterArtifact, TypeInv, Works
  <2> QED  BY <2>1, <2>2 DEF WorkerInv, Working, Writing
<1>5. CASE Render
  <2>1. work' = [work EXCEPT !.at = "put", !.bytes = renders + 1] /\ renders + 1 \in Nat
    BY <1>5 DEF Render, TypeInv
  <2>2. Current' = Current /\ work'.at = "put" /\ work'.bytes \in Nat /\ work'.job = work.job
    BY <2>1 DEF TypeInv, Works, Current
  <2>3. work.job \in Jobs /\ Current \in Ids
    BY <1>5, CurrentIsOpen DEF Render, WorkerInv, Working
  <2>4. Current \notin again' => Fresh(Current)
    BY <1>5, RenderedIsFresh
  <2>5. ~Describe
    BY <1>5 DEF Render, Describe, Working
  <2>6. Current \notin again' => Fresh(Current)'
    <3>1. ASSUME NEW id, id = Current, id \notin again'  PROVE Fresh(id)'
      BY <2>3, <2>4, <2>5, <3>1, FreshStays
    <3> QED  BY <2>2, <3>1 DEF Fresh
  <2> QED  BY <2>2, <2>3, <2>6 DEF WorkerInv, Working, Writing
<1>6. CASE UNCHANGED work \/ Put
  <2>1. /\ work' = work \/ work' = [work EXCEPT !.at = "describe"]
        /\ Put => work' = [work EXCEPT !.at = "describe"]
    BY <1>6 DEF Put, Then
  <2>2. /\ Current' = Current /\ work'.job = work.job /\ work'.bytes = work.bytes
        /\ work'.at = work.at \/ (Put /\ work'.at = "describe")
    BY <1>6, <2>1 DEF TypeInv, Works, Current
  <2>3. Put => Writing /\ ~Working("idle")
    BY DEF Put, Writing, Working
  <2>4. Writing' => Writing /\ work'.bytes \in Nat
    BY <2>2, <2>3 DEF WorkerInv, Writing, Working
  <2>5. again \subseteq again'
    BY Writes DEF Render
  <2>6. ~Describe
    <3>1. Describe => work'.at \in {"attach", "journal"} /\ work.at = "describe"
      BY DEF Describe, AfterArtifact, TypeInv, Works, Working
    <3> QED  BY <3>1, <2>2 DEF Put, Working
  <2>7. ASSUME Writing, Current \notin again
        PROVE  Fresh(Current)'
    <3>1. Current \in Ids /\ Fresh(Current)
      BY <2>7, CurrentIsOpen DEF WorkerInv, Writing, Working
    <3>2. ASSUME NEW id, id = Current  PROVE Fresh(id)'
      BY <2>6, <3>1, <3>2, FreshStays
    <3> QED  BY <2>2, <3>2 DEF Fresh
  <2>8. ASSUME Working("describe")', Current \notin again
        PROVE  data'[Current] = work.bytes
    <3>1. CASE Put
      <4>1. Current \in Ids
        BY <3>1, WrittenIsFresh
      <4> QED  BY <3>1, <4>1 DEF Put, PutBytes, TypeInv
    <3>2. CASE ~Put
      <4>1. Working("describe")
        BY <2>2, <2>8, <3>2 DEF Working
      <4>2. Fresh(Current) /\ data[Current] = work.bytes /\ Current \in Ids
        BY <2>8, <4>1, CurrentIsOpen DEF WorkerInv, Writing, Working
      <4>3. CASE Unlink
        <5>1. Head(doomed) \in Ids /\ Head(doomed) # Current
          BY <4>2, <4>3, UnlinkedIsGone DEF Fresh
        <5> QED  BY <4>2, <4>3, <5>1 DEF Unlink, TypeInv
      <4> QED  BY <2>6, <3>2, <4>2, <4>3, Writes DEF disk
    <3> QED  BY <3>1, <3>2
  <2>9. ~Working("idle")' => work'.job \in Jobs
    BY <2>2, <2>3 DEF WorkerInv, Working
  <2>10. Current' = Current
    BY <2>2
  <2>11. Current' \notin again' => Current \notin again
    BY <2>5, <2>10
  <2>12. Writing' => Writing
    BY <2>4
  <2> QED  BY <2>2, <2>4, <2>7, <2>8, <2>9, <2>11 DEF WorkerInv
<1> QED
  BY <1>1, <1>2, <1>3, <1>4, <1>5, <1>6, Leaves DEF WorkerStep, Save

(* Two answers for one identity: what it denotes at the second is the body   *)
(* of the first and the ETag the second began with.                          *)
LEMMA ImmutableStep ==
  ASSUME TypeInv, ReadersInv, ServedIsImmutable, [Next]_vars
  PROVE  ServedIsImmutable'
<1>0. again \subseteq again'
  BY Writes DEF Render
<1>1. ASSUME NEW b \in Browsers, Answer(b), Exists(browser[b].id)
      PROVE  ServedIsImmutable'
  <2> DEFINE id == browser[b].id
             new == [id |-> id, etag |-> browser[b].etag, body |-> data[id]]
  <2>1. served' = served \cup {new}
    BY <1>1 DEF Answer
  <2>2. id \notin again => new.etag = data[id]
    BY <1>1 DEF Answer, ReadersInv, Denotes, Exists
  <2>3. ASSUME NEW x \in served, x.id = id, id \notin again  PROVE x = new
    <3>1. x.etag = x.body /\ x.body = data[id]
      BY <1>1, <2>3 DEF ServedIsImmutable, ReadersInv, Denotes, Exists
    <3> QED  BY <2>2, <2>3, <3>1 DEF TypeInv
  <2> QED  BY <1>0, <2>1, <2>2, <2>3 DEF ServedIsImmutable
<1>2. ASSUME NEW b \in Browsers, Answer(b), ~Exists(browser[b].id)
      PROVE  ServedIsImmutable'
  BY <1>0, <1>2 DEF Answer, ServedIsImmutable
<1>3. CASE UNCHANGED served
  BY <1>0, <1>3 DEF ServedIsImmutable
<1> QED  BY <1>1, <1>2, <1>3, Leaves

(* While the project is there no file is removed, and what is written is     *)
(* complete when it is referred to.                                          *)
LEMMA ExistsStays ==
  ASSUME TypeInv, WorkerInv, RemovalInv, project, [Next]_vars, NEW id \in Ids, Exists(id)
  PROVE  Exists(id)'
<1>1. ~Unlink
  BY DEF Unlink, RemovalInv
<1>2. CASE Put
  BY <1>2, WrittenIsFresh, ArtifactsAssumption DEF Put, PutBytes, Exists, TypeInv
<1>3. CASE Describe
  <2>1. [checksum |-> work.bytes, at |-> renders] \in Metadata
    BY <1>3, WrittenIsFresh DEF TypeInv, Metadata
  <2> QED
    BY <1>3, <2>1, WrittenIsFresh, ArtifactsAssumption DEF Describe, PutSidecar, Exists, TypeInv
<1> QED  BY <1>1, <1>2, <1>3, Writes DEF disk, Exists

LEMMA RefsStep ==
  ASSUME TypeInv, RefsInv, WorkerInv, RemovalInv, ReportedIsServable, [Next]_vars
  PROVE  RefsInv'
<1>1. work'.refs \subseteq {work'.job} \X Types
  BY WorkStep
<1>2. \A j \in Jobs : journal'[j] # Absent => journal'[j] \subseteq {j} \X Types
  BY Writes DEF Report, RefsInv, TypeInv
<1>3. ASSUME project', NEW id \in work'.refs
      PROVE  Exists(id)'
  <2>0. project
    BY <1>3, Leaves DEF DeleteProject
  <2>1. id \in Ids
    <3>1. work' \in Works
      BY WorkStep
    <3> QED  BY <1>3, <3>1 DEF Works
  <2>2. CASE id \in work.refs
    <3>1. Exists(id)
      BY <2>0, <2>2 DEF RefsInv
    <3> QED  BY <2>0, <2>1, <3>1, ExistsStays
  <2>3. ASSUME NEW j \in Jobs, Take(j)  PROVE Exists(id)'
    <3>1. work'.refs = IF journal[j] = Absent THEN {} ELSE journal[j]
      BY <2>3 DEF Take, Idle
    <3>2. Exists(id)
      BY <1>3, <2>0, <3>1 DEF ReportedIsServable
    <3> QED  BY <2>0, <2>1, <3>2, ExistsStays
  <2>4. CASE id \notin work.refs /\ (Reuse \/ AttachFails \/ Describe)
    <3>1. work'.refs \in {Attached, NotAttached}
      BY <2>4 DEF Reuse, AttachFails, Describe, AfterArtifact, TypeInv, Works
    <3>2. id = Current
      BY <1>3, <2>4, <3>1 DEF Attached, NotAttached
    <3>3. CASE Reuse
      <4>1. Exists(id)
        BY <2>4, <3>2, <3>3 DEF Reuse, HasOne
      <4> QED  BY <2>0, <2>1, <4>1, ExistsStays
    <3>4. CASE AttachFails
      <4>1. work'.refs = NotAttached
        BY <3>4 DEF AttachFails, AfterArtifact, TypeInv, Works
      <4> QED  BY <1>3, <2>4, <4>1 DEF NotAttached
    <3>5. CASE Describe
      <4>1. again = {}
        BY <2>0 DEF RemovalInv
      <4>2. data[Current] = work.bytes /\ work.bytes \in Nat
        BY <3>5, <4>1, WrittenIsFresh DEF Describe, WorkerInv
      <4>3. [checksum |-> work.bytes, at |-> renders] \in Metadata
        BY <4>2 DEF TypeInv, Metadata
      <4> QED
        BY <2>1, <3>2, <3>5, <4>2, <4>3, ArtifactsAssumption
        DEF Describe, PutSidecar, Exists, TypeInv
    <3> QED  BY <2>4, <3>3, <3>4, <3>5
  <2>5. CASE Open \/ Stage \/ Install \/ Put \/ Render
    <3>1. work'.refs = work.refs
      BY <2>5 DEF Open, Stage, Install, Put, Render, Then, TypeInv, Works
    <3> QED  BY <1>3, <2>2, <3>1
  <2>6. CASE CreationFails \/ Report \/ Crash
    <3>1. work' = Idle /\ Idle.refs = {}
      BY <2>6 DEF CreationFails, Report, Crash, Idle
    <3> QED  BY <1>3, <3>1
  <2>7. CASE Save \/ UNCHANGED work
    BY <1>3, <2>2, <2>7 DEF Save
  <2> QED  BY <2>2, <2>3, <2>4, <2>5, <2>6, <2>7, Leaves DEF WorkerStep
<1> QED  BY <1>1, <1>2, <1>3 DEF RefsInv

LEMMA ServableStep ==
  ASSUME TypeInv, RefsInv, WorkerInv, RemovalInv, ReportedIsServable, [Next]_vars
  PROVE  ReportedIsServable'
<1> SUFFICES ASSUME project'
             PROVE  /\ \A id \in index' : Exists(id)'
                    /\ \A j \in Jobs : journal'[j] # Absent => \A id \in journal'[j] : Exists(id)'
  BY DEF ReportedIsServable
<1>0. project
  BY Leaves DEF DeleteProject
<1>1. \A id \in Ids : Exists(id) => Exists(id)'
  BY <1>0, ExistsStays
<1>2. /\ \A id \in index : Exists(id)'
      /\ \A j \in Jobs : journal[j] # Absent => \A id \in journal[j] : Exists(id)'
  BY <1>0, <1>1 DEF ReportedIsServable, TypeInv
<1>3. CASE Report
  <2>1. \A id \in work.refs : Exists(id)'
    BY <1>0, <1>1 DEF RefsInv, TypeInv, Works
  <2> QED  BY <1>2, <1>3, <2>1 DEF Report, TypeInv
<1>4. CASE UNCHANGED <<index, journal>>
  BY <1>2, <1>4
<1>5. ~DeleteProject
  BY DEF DeleteProject
<1> QED  BY <1>3, <1>4, <1>5, Writes, Leaves

-------------------------------------------------------------------------------
(* Disk, records, index and readers agree in every reachable state. *)
THEOREM Invariance == Spec => []IndInv
<1>1. IndInv /\ [Next]_vars => IndInv'
  <2> SUFFICES ASSUME IndInv, [Next]_vars PROVE IndInv'
    OBVIOUS
  <2>1. TypeInv'
    BY TypeStep DEF IndInv
  <2>2. /\ ProjectInv' /\ RefsInv' /\ WorkerInv' /\ FilesInv' /\ RemovalInv' /\ ReadersInv'
        /\ ServedIsImmutable' /\ ReportedIsServable'
    BY <2>1, ProjectStep, RefsStep, WorkerInvStep, FilesStep, RemovalStep, ReadersStep,
       ImmutableStep, ServableStep DEF IndInv
  <2> QED  BY <2>1, <2>2 DEF IndInv
<1> QED  BY InitInv, <1>1, PTL DEF Spec

(* What a browser got for an identity, it and every other browser will       *)
(* always get, whatever is attempted or delivered again, reported or deleted *)
(* meanwhile, but for what is rendered again after its deletion.             *)
THEOREM ArtifactsAreImmutable == Spec => []ServedIsImmutable
BY Invariance, PTL DEF IndInv

(* Until its project is deleted, what a job reported can be fetched. *)
THEOREM ReportsCanBeFetched == Spec => []ReportedIsServable
BY Invariance, PTL DEF IndInv

(* No attempt works on a project file that another left half made, wherever  *)
(* Blender or the worker stopped.                                            *)
THEOREM ProjectsAreWhole == Spec => []ProjectFileIsWhole
<1>1. IndInv => ProjectFileIsWhole
  BY DEF IndInv, ProjectInv
<1> QED  BY <1>1, Invariance, PTL

-------------------------------------------------------------------------------
(* The two tables of arguments. *)

Kinds == {"vec2", "vec3", "rgba", "polygon", "positive", "number", "code"}

(* Whatever value the agent takes of one kind, the back end coerces.          *)
Suits(kind, coerced) == \A value \in Taken[kind] : Canonical(value) \in Coerced[coerced]

LEMMA KindsSuit ==
  /\ \A kind \in Kinds : Suits(kind, kind)
  /\ Suits("positive", "number")
<1>1. \A text \in Texts : Canonical(text) \in Texts
  <2> SUFFICES ASSUME NEW text \in Texts PROVE Canonical(text) = text
    OBVIOUS
  <2>1. CASE text \in Names
    BY <2>1, ModelAssumption
  <2>2. CASE text \in Primitives \cup Codes
    BY <2>2 DEF Primitives, Codes, Canonical
  <2> QED  BY <2>1, <2>2 DEF Texts
<1>2. Suits("code", "code")
  BY <1>1 DEF Suits, Taken, Coerced
<1>3. Suits("vec2", "vec2") /\ Suits("vec3", "vec3")
  BY DEF Suits, Taken, Coerced, Canonical
<1>4. Suits("rgba", "rgba") /\ Suits("polygon", "polygon")
  BY DEF Suits, Taken, Coerced, Canonical
<1>5. Suits("positive", "positive") /\ Suits("number", "number") /\ Suits("positive", "number")
  BY DEF Suits, Taken, Coerced, Canonical
<1> QED  BY <1>2, <1>3, <1>4, <1>5 DEF Kinds

(* What a handler reads is in the agent's table, and declared the same there, *)
(* or more narrowly.                                                          *)
Agree(spec, handler) ==
  /\ \A f \in DOMAIN handler.must :
       /\ f \in DOMAIN spec.required /\ handler.must[f] \in Kinds
       /\ spec.required[f] = handler.must[f]
  /\ \A f \in DOMAIN handler.may :
       /\ f \in DOMAIN spec.optional /\ handler.may[f] \in Kinds
       /\ \/ spec.optional[f] = handler.may[f]
          \/ spec.optional[f] = "positive" /\ handler.may[f] = "number"
       /\ f \notin spec.identity \cup DOMAIN spec.required

LEMMA TablesAgree ==
  ASSUME NEW c \in Proposable
  PROVE  c \in DOMAIN Handlers /\ Agree(Specs[c], Handlers[c])
<1>1. c \in DOMAIN Handlers
  BY DEF Proposable, Specs, Handlers
<1>2. Agree(Specs[c], Handlers[c])
  <2> USE DEF Agree, Kinds, Specs, Handlers, Takes, Handler, Nothing
  <2>1. CASE c = "inspect_scene"  BY <2>1
  <2>2. CASE c = "inspect_object"  BY <2>2 DEF Object
  <2>3. CASE c = "move_object"  BY <2>3 DEF Object
  <2>4. CASE c = "rotate_object"  BY <2>4 DEF Object
  <2>5. CASE c = "scale_object"  BY <2>5 DEF Object
  <2>6. CASE c = "set_object_dimensions"  BY <2>6 DEF Object
  <2>7. CASE c = "create_object"  BY <2>7
  <2>8. CASE c = "duplicate_object"  BY <2>8 DEF Object
  <2>9. CASE c = "delete_object"  BY <2>9 DEF Object
  <2>10. CASE c = "set_material_color"  BY <2>10 DEF Object
  <2>11. CASE c = "create_wall"  BY <2>11
  <2>12. CASE c = "create_floor"  BY <2>12 DEF Slab, SlabHandler
  <2>13. CASE c = "create_ceiling"  BY <2>13 DEF Slab, SlabHandler
  <2>14. CASE c = "create_opening"  BY <2>14
  <2>15. CASE c = "create_door_placeholder"
    BY <2>15 DEF Placeholder, PlaceholderHandler
  <2>16. CASE c = "create_window_placeholder"
    BY <2>16 DEF Placeholder, PlaceholderHandler
  <2>17. CASE c = "execute_blender_python"  BY <2>17
  <2> HIDE DEF Agree, Kinds, Handlers, Takes, Handler, Nothing
  <2> QED
    BY <2>1, <2>2, <2>3, <2>4, <2>5, <2>6, <2>7, <2>8, <2>9, <2>10, <2>11,
       <2>12, <2>13, <2>14, <2>15, <2>16, <2>17 DEF Proposable
<1> QED  BY <1>1, <1>2

(* validate_arguments makes of what it accepts what the handler understands. *)
LEMMA ValidatedIsUnderstood ==
  ASSUME NEW c \in Proposable, NEW given, NEW token, ValidArguments(c, given)
  PROVE  Understood(Ask(c, Validated(c, given), token))
<1> DEFINE spec == Specs[c]
           handler == Handlers[c]
           asked == Ask(c, Validated(c, given), token)
           kept == Present(spec, given) \cup DOMAIN spec.required \cup Chosen(spec, given)
<1>1. asked.capability = c /\ asked.arguments = [f \in kept |-> Canonical(given[f])]
  BY DEF Ask, Validated
<1>2. \A f \in kept : Given(asked, f) = Canonical(given[f])
  BY <1>1 DEF Given
<1>3. ASSUME NEW f \in DOMAIN handler.must
      PROVE  Given(asked, f) \in Coerced[handler.must[f]]
  <2>1. f \in DOMAIN spec.required /\ Suits(spec.required[f], handler.must[f])
    BY TablesAgree, KindsSuit DEF Agree
  <2>2. given[f] \in Taken[spec.required[f]]
    BY <2>1 DEF ValidArguments
  <2> QED  BY <1>2, <2>1, <2>2 DEF Suits
<1>4. ASSUME NEW f \in DOMAIN handler.may \cap DOMAIN asked.arguments
      PROVE  Given(asked, f) \in Coerced[handler.may[f]]
  <2>1. /\ f \in DOMAIN spec.optional /\ Suits(spec.optional[f], handler.may[f])
        /\ f \notin spec.identity \cup DOMAIN spec.required
    BY TablesAgree, KindsSuit DEF Agree
  <2>2. f \in kept
    BY <1>1
  <2>3. f \in Chosen(spec, given)
    BY <2>1, <2>2 DEF Present
  <2>4. given[f] \in Taken[spec.optional[f]]
    BY <2>3 DEF ValidArguments
  <2> QED  BY <1>2, <2>1, <2>2, <2>4 DEF Suits
<1> HIDE DEF asked, handler
<1>5. Understood(asked)
  BY <1>1, <1>3, <1>4 DEF Understood, handler
<1> QED  BY <1>5 DEF asked

-------------------------------------------------------------------------------
(* The back end. *)

Process(b) == b = [at |-> b.at, runs |-> b.runs, scene |-> b.scene, status |-> b.status]
Kept == blender.at = "ended" /\ blender.status \in {"ok", "partial"}


(* What a script, or Blender for it, may say. *)
Says(asked, status) ==
  /\ status \notin {"none", "refused"}
  /\ ScriptOf(asked) = "python" =>
       status \in {"ok", "partial", "error", "raised", "no status"}

BackendInv ==
  /\ stage \in {"idle", "handed", "calling", "answered"}
  /\ server \in {"absent", "up", "stopped"} /\ (started <=> server # "absent")
  /\ Process(blender)
  /\ blender.at \in {"worked", "ended"} => Says(blender.runs, blender.status)
  /\ stage = "calling" => request.capability \in DOMAIN Handlers
  /\ blender.at # "none" => blender.runs.capability \in DOMAIN Handlers

(* Only a server that has stopped leaves a Blender behind. *)
NoneLeftBehind ==
  server # "stopped" /\ blender.at # "none" =>
    server = "up" /\ stage = "calling" /\ blender.runs = request

(* What a script says it has done is in the file once its Blender has ended,  *)
(* unless it is code that may have turned Blender to another file.            *)
FileInv ==
  Kept /\ ScriptOf(blender.runs) \notin Reads /\ Given(blender.runs, "code") # "flagged"
    => file = blender.scene

BackendInd == BackendInv /\ NoneLeftBehind /\ FileInv

LEMMA BackendStarts == BackendInit => BackendInd
BY DEF BackendInit, BackendInd, BackendInv, NoneLeftBehind, FileInv, Process, NoBlender,
   Kept, Says

(* No script says that it was refused. *)
LEMMA ScriptsSay ==
  ASSUME NEW scene, NEW asked, asked.capability \in DOMAIN Handlers,
         NEW result \in Results(scene, asked)
  PROVE  /\ result = [scene |-> result.scene, status |-> result.status]
         /\ Says(asked, result.status)
<1> DEFINE Sound(r) == r = [scene |-> r.scene, status |-> r.status] /\ Says(asked, r.status)
           script == ScriptOf(asked)
<1>1. script \in Reads \cup {"change", "carve", "paint", "duplicate", "delete", "primitive",
                             "wall", "create", "python"}
  BY DEF ScriptOf, Handlers, Handler, SlabHandler, PlaceholderHandler, Reads
<1>2. \A left, says : Says(asked, says) => Sound(Result(left, says))
  BY DEF Result
<1>5. Says(asked, "ok") /\ Says(asked, "partial") /\ Says(asked, "raised")
  BY DEF Says
<1>6. script # "python" =>
        \A says \in {"object_not_found", "object_not_paintable", "degenerate_wall",
                     "unsupported_primitive"} : Says(asked, says)
  BY DEF Says, script
<1> HIDE DEF Sound, script
<1>3. \A r \in Done(scene, asked) : Sound(r)
  <2>1. CASE script \in Reads
    <3>1. Done(scene, asked) = {Result(scene, "ok")}
      BY <2>1 DEF Done, script, Reads
    <3> QED  BY <3>1, <1>2, <1>5
  <2>2. CASE script \in {"change", "carve"}
    BY <2>2, <1>2, <1>5, <1>6 DEF Done, script, Reads
  <2>3. CASE script = "paint"
    BY <2>3, <1>2, <1>5, <1>6 DEF Done, script, Reads
  <2>4. CASE script = "duplicate"
    <3>1. Done(scene, asked) =
            {Result(scene \cup {CopyOf(scene, o, asked)}, "ok") : o \in Target(scene, asked)}
      BY <2>4, SMTT(30) DEF Done, script, Reads
    <3> QED  BY <3>1, <1>2, <1>5
  <2>5. CASE script = "delete"
    <3>1. Done(scene, asked) = {Result(scene \ {o}, "ok") : o \in Target(scene, asked)}
      BY <2>5 DEF Done, script, Reads
    <3> QED  BY <3>1, <1>2, <1>5
  <2>6. CASE script \in {"primitive", "wall", "create"}
    BY <2>6, <1>2, <1>5, <1>6 DEF Done, script, Reads
  <2>7. CASE script = "python"
    BY <2>7, <1>2, <1>5, <1>6 DEF Done, script, Reads
  <2> QED  BY <1>1, <2>1, <2>2, <2>3, <2>4, <2>5, <2>6, <2>7
<1>4. Sound(result)
  BY <1>2, <1>3, <1>5, <1>6 DEF Results, OnObject, script
<1> QED  BY <1>4 DEF Sound

(* The session opens, or there is no server. *)
LEMMA Opened ==
  ASSUME BackendInv, OpenSession
  PROVE  /\ stage = "calling" /\ server = "absent"
         /\ \/ server' = "up" /\ stage' = "calling" /\ answer' = answer
            \/ server' = server /\ stage' = "answered" /\ answer'.why = "no server"
         /\ file' = file /\ request' = request /\ blender' = blender
         /\ started' <=> server' # "absent"
<1>1. ~started /\ (started <=> server # "absent")
  BY DEF OpenSession, BackendInv
<1>2. server = "absent"
  BY <1>1
<1>3. /\ stage = "calling"
      /\ \/ server' = "up" /\ stage' = stage /\ answer' = answer
         \/ /\ server' = server /\ stage' = "answered"
            /\ answer' = Refused("BLENDER_UNAVAILABLE", "no server")
      /\ file' = file /\ request' = request /\ blender' = blender
  BY DEF OpenSession, Answered
<1>6. Refused("BLENDER_UNAVAILABLE", "no server").why = "no server"
  BY DEF Refused
<1>4. \/ started' = TRUE /\ server' = "up"
      \/ started' = started /\ server' = server
  BY DEF OpenSession
<1>5. started' <=> server' # "absent"
  <2>1. CASE started' = TRUE /\ server' = "up"
    BY <2>1
  <2>2. CASE started' = started /\ server' = server
    BY <2>2, <1>1, Zenon
  <2> QED  BY <1>4, <2>1, <2>2
<1> QED  BY <1>2, <1>3, <1>5, <1>6, Zenon

LEMMA BackendInvStep ==
  ASSUME BackendInv, BackendStep PROVE BackendInv'
<1> USE DEF BackendInv, Process, Says
<1>1. CASE Handle
  BY <1>1 DEF Handle, Answered
<1>2. CASE OpenSession
  BY <1>2, Opened
<1>3. CASE StartBlender
  BY <1>3 DEF StartBlender
<1>4. CASE RunScript
  <2>1. PICK result \in Results(blender.scene, blender.runs) :
          blender' = [blender EXCEPT !.at = "worked", !.scene = result.scene,
                                     !.status = result.status]
    BY <1>4 DEF RunScript
  <2>2. Says(blender.runs, result.status)
    <3>1. blender.runs.capability \in DOMAIN Handlers
      BY <1>4 DEF RunScript
    <3> HIDE DEF Says
    <3> QED  BY <3>1, ScriptsSay
  <2>3. blender'.at = "worked" /\ blender'.runs = blender.runs
          /\ blender'.status = result.status
    BY <2>1
  <2> QED  BY <1>4, <2>1, <2>2, <2>3 DEF RunScript
<1>5. CASE SaveScene
  BY <1>5 DEF SaveScene
<1>6. CASE Reply
  BY <1>6 DEF Reply, Answered, NoBlender
<1>7. CASE CallFails
  BY <1>7 DEF CallFails, Answered
<1>8. CASE KillAtLimit
  BY <1>8 DEF KillAtLimit, Answered, NoBlender
<1>9. CASE ServerStops
  BY <1>9 DEF ServerStops
<1>10. CASE CodeSaves
  BY <1>10 DEF CodeSaves
<1>11. CASE EndsWithoutWord
  BY <1>11 DEF EndsWithoutWord
<1> QED
  BY <1>1, <1>2, <1>3, <1>4, <1>5, <1>6, <1>7, <1>8, <1>9, <1>10, <1>11
  DEF BackendStep, Serve

LEMMA NoneLeftBehindStep ==
  ASSUME BackendInd, BackendStep PROVE NoneLeftBehind'
<1> USE DEF BackendInd, BackendInv, NoneLeftBehind
<1>1. CASE Handle
  BY <1>1 DEF Handle, Answered
<1>2. CASE OpenSession
  BY <1>2, Opened
<1>3. CASE StartBlender
  BY <1>3 DEF StartBlender
<1>4. CASE RunScript \/ SaveScene \/ CodeSaves \/ EndsWithoutWord
  BY <1>4 DEF RunScript, SaveScene, CodeSaves, EndsWithoutWord, Process
<1>5. CASE Reply
  BY <1>5 DEF Reply, NoBlender
<1>6. CASE KillAtLimit
  BY <1>6 DEF KillAtLimit, NoBlender
<1>7. CASE CallFails \/ ServerStops
  BY <1>7 DEF CallFails, ServerStops, Answered
<1> QED  BY <1>1, <1>2, <1>3, <1>4, <1>5, <1>6, <1>7 DEF BackendStep, Serve

LEMMA FileInvStep ==
  ASSUME BackendInd, BackendStep PROVE FileInv'
<1> USE DEF BackendInd, BackendInv, NoneLeftBehind, FileInv, Kept
<1>1. CASE Handle \/ OpenSession \/ CallFails \/ ServerStops
  BY <1>1 DEF Handle, OpenSession, CallFails, ServerStops
<1>2. CASE StartBlender
  BY <1>2 DEF StartBlender
<1>3. CASE RunScript
  BY <1>3 DEF RunScript, Process
<1>4. CASE CodeSaves
  BY <1>4 DEF CodeSaves, Process
<1>5. CASE SaveScene
  BY <1>5 DEF SaveScene, Process, Saves
<1>6. CASE EndsWithoutWord
  BY <1>6 DEF EndsWithoutWord, Process
<1>7. CASE Reply
  BY <1>7 DEF Reply, NoBlender
<1>8. CASE KillAtLimit
  BY <1>8 DEF KillAtLimit, NoBlender
<1> QED  BY <1>1, <1>2, <1>3, <1>4, <1>5, <1>6, <1>7, <1>8 DEF BackendStep, Serve

LEMMA BackendIndStep ==
  ASSUME BackendInd, BackendStep \/ UNCHANGED backendVars \/ \E asked : Invoke(asked)
  PROVE  BackendInd'
<1>1. CASE BackendStep
  BY <1>1, BackendInvStep, NoneLeftBehindStep, FileInvStep DEF BackendInd
<1>2. CASE UNCHANGED backendVars
  BY <1>2 DEF backendVars, BackendInd, BackendInv, NoneLeftBehind, FileInv, Process, Kept
<1>3. CASE \E asked : Invoke(asked)
  BY <1>3 DEF Invoke, BackendInd, BackendInv, NoneLeftBehind, FileInv, Process, Kept
<1> QED  BY <1>1, <1>2, <1>3

-------------------------------------------------------------------------------
(* What a plan and its steps hold. *)

(* The worker may hand this request on, and it will not be sent back.         *)
Fit(asked) ==
  /\ asked.capability \in DOMAIN Handlers
  /\ Understood(asked)
  /\ ScriptOf(asked) = "python" /\ Given(asked, "code") = "flagged" =>
       asked.token = "flagged"

AllFit(requests) ==
  \E S : requests \in Seq(S) /\ \A asked \in S : Fit(asked)

Planned(operations) ==
  /\ \E n \in Nat \ {0} : DOMAIN operations = 1 .. n
  /\ \A i \in DOMAIN operations : operations[i].capability \in Proposable

Understandable(operations) ==
  \A i \in DOMAIN operations : \A token :
    Understood(Ask(operations[i].capability, operations[i].arguments, token))

(* parse_agent_response lets nothing else through. *)
LEMMA ResponsesAreSound ==
  ASSUME NEW result \in Completions \cup {PlainAnswer}, result.says = "plan"
  PROVE  Planned(result.operations) /\ Understandable(result.operations)
<1>1. PICK raw \in Replies : result = ParseAgentResponse(raw)
  BY DEF Completions, PlainAnswer, Failed
<1> DEFINE entries == raw.operations
           operations == [i \in DOMAIN entries |-> Operation(entries[i])]
<1>2. /\ raw.shape = "schema" /\ Sized(entries)
      /\ \A i \in DOMAIN entries : Accepts(entries[i])
      /\ result = Proposed(operations)
  BY <1>1 DEF ParseAgentResponse, Failed
<1>3. result.operations = operations
  BY <1>2 DEF Proposed
<1>4. Len(entries) \in Nat \ {0} /\ DOMAIN entries = 1 .. Len(entries)
  BY <1>2, RepliesAssumption, ModelAssumption DEF Sized
<1>5. ASSUME NEW i \in DOMAIN entries
      PROVE  /\ operations[i].capability = entries[i].capability
             /\ operations[i].arguments =
                  Validated(entries[i].capability, entries[i].arguments)
             /\ entries[i].capability \in Proposable
             /\ ValidArguments(entries[i].capability, entries[i].arguments)
  BY <1>2 DEF Operation, Accepts
<1>6. Planned(operations)
  BY <1>4, <1>5 DEF Planned
<1>7. Understandable(operations)
  BY <1>5, ValidatedIsUnderstood DEF Understandable
<1> QED  BY <1>3, <1>6, <1>7

(* The one plan of the rule-based provider. *)
LEMMA MovesArePlanned ==
  ASSUME NEW name PROVE Planned(MoveBy(name))
<1>1. DOMAIN MoveBy(name) = 1 .. 1 /\ MoveBy(name)[1].capability = "move_object"
  BY DEF MoveBy
<1> QED  BY <1>1 DEF Planned, Proposable, Specs

(* What the worker itself asks for before and after a plan. *)
LEMMA OwnStepsFit == Fit(Read) /\ Fit(Export)
<1>1. Fit(Read)
  BY DEF Fit, Read, Ask, Understood, Handlers, Handler, ScriptOf, Nothing, Given
<1>2. Fit(Export)
  BY DEF Fit, Export, Ask, Understood, Handlers, Handler, ScriptOf, Nothing, Given,
     Coerced, Texts, Primitives
<1> QED  BY <1>1, <1>2

(* The job of an understood plan consists of such steps, if the user approved *)
(* its flagged code or there is none.                                         *)
LEMMA JobsFit ==
  ASSUME NEW approved \in BOOLEAN, Planned(outcome.operations),
         Understandable(outcome.operations), approved \/ ~Flagged
  PROVE  AllFit(<<Read>> \o JobSteps(approved) \o <<Export>>)
<1> DEFINE ops == outcome.operations
           job == JobSteps(approved)
           S == {Read, Export} \cup {job[i] : i \in DOMAIN ops}
<1>1. PICK n \in Nat \ {0} : DOMAIN ops = 1 .. n
  BY DEF Planned
<1>2. job = [i \in 1 .. n |->
               Ask(ops[i].capability, ops[i].arguments,
                   IF approved /\ CodeOf(ops[i]) = "flagged" THEN "flagged" ELSE NoToken)]
  BY <1>1 DEF JobSteps
<1>3. ASSUME NEW i \in DOMAIN ops PROVE Fit(job[i])
  <2> DEFINE asked == job[i]
  <2>1. PICK token : /\ asked = Ask(ops[i].capability, ops[i].arguments, token)
                     /\ CodeOf(ops[i]) = "flagged" => token = "flagged"
    BY <1>1, <1>2, <1>3 DEF Flagged
  <2>2. ops[i].capability \in Proposable
    BY <1>3 DEF Planned
  <2>3. ops[i].capability \in DOMAIN Handlers
    BY <2>2, TablesAgree
  <2>4. Understood(asked)
    BY <1>3, <2>1 DEF Understandable
  <2>5. /\ asked.capability = ops[i].capability /\ asked.arguments = ops[i].arguments
        /\ asked.token = token
    BY <2>1 DEF Ask
  <2>6. ASSUME ScriptOf(asked) = "python", Given(asked, "code") = "flagged"
        PROVE  asked.token = "flagged"
    <3>1. asked.capability = "execute_blender_python"
      BY <2>3, <2>5, <2>6 DEF ScriptOf, Handlers, Handler, SlabHandler, PlaceholderHandler
    <3>2. CodeOf(ops[i]) = "flagged"
      BY <2>5, <2>6, <3>1 DEF CodeOf, Given
    <3> QED  BY <2>1, <2>5, <3>2
  <2> HIDE DEF asked
  <2>7. Fit(asked)
    BY <2>3, <2>4, <2>5, <2>6 DEF Fit
  <2> QED  BY <2>7 DEF asked
<1>4. job \in Seq(S)
  <2>1. \A i \in 1 .. n : job[i] \in S
    BY <1>1
  <2>2. job \in [1 .. n -> S]
    BY <1>2, <2>1
  <2> QED  BY <2>2
<1>5. <<Read>> \in Seq(S) /\ <<Export>> \in Seq(S)
  OBVIOUS
<1> HIDE DEF S
<1>6. <<Read>> \o job \o <<Export>> \in Seq(S)
  BY <1>4, <1>5
<1>7. \A asked \in S : Fit(asked)
  BY <1>3, OwnStepsFit DEF S
<1> QED  BY <1>6, <1>7 DEF AllFit

-------------------------------------------------------------------------------
(* The message. *)

TurnInv ==
  /\ turn \in {"asked", "asked again", "answered", "parked", "refused", "not made",
               "working", "done"}
  /\ outcome.says = "plan" =>
       /\ Planned(outcome.operations)
       /\ ModelPlans => Understandable(outcome.operations)
  /\ turn = "parked" => outcome.says = "plan"
  /\ PlansBecomeJobs

StepsInv ==
  /\ turn \notin {"working", "done"} => stage = "idle"
  /\ turn = "working" /\ ModelPlans => AllFit(steps) /\ (stage # "idle" => Fit(request))
  /\ AcceptedIsUnderstood

MessageInv == BackendInd /\ TurnInv /\ StepsInv

LEMMA MessageStarts == AssistantInit => MessageInv
<1> SUFFICES ASSUME AssistantInit PROVE MessageInv
  OBVIOUS
<1>1. BackendInd
  BY BackendStarts DEF AssistantInit
<1>2. TurnInv
  BY DEF AssistantInit, TurnInv, Unknown, PlansBecomeJobs
<1>3. StepsInv
  BY DEF AssistantInit, BackendInit, StepsInv, AcceptedIsUnderstood
<1> QED  BY <1>1, <1>2, <1>3 DEF MessageInv

(* The provider concludes. *)
LEMMA ResponseStep ==
  ASSUME MessageInv, Respond PROVE MessageInv'
<1>1. backendVars' = backendVars /\ provider' = provider /\ steps' = steps
  BY DEF Respond, NotConnected, AskModel, AskAgain, FakeResponds, LegacyResponds
<1>2. BackendInd'
  BY <1>1, BackendIndStep DEF MessageInv
<1>3. turn \in {"asked", "asked again"} /\ turn' \in {"asked again", "answered"}
  BY DEF Respond, NotConnected, AskModel, AskAgain, FakeResponds, LegacyResponds, Concluded
<1>4. \/ outcome' = outcome
      \/ outcome' \in Completions \cup {PlainAnswer}
      \/ ~ModelPlans /\ outcome' \in Interpreted \cup Completions
  <2>1. CASE NotConnected \/ AskModel \/ AskAgain \/ FakeResponds
    BY <2>1 DEF NotConnected, AskModel, AskAgain, FakeResponds, Concluded, Completions
  <2>2. CASE LegacyResponds
    BY <2>2 DEF LegacyResponds, Concluded, Completions, ModelPlans
  <2> QED  BY <2>1, <2>2 DEF Respond
<1>5. outcome'.says = "plan" =>
        Planned(outcome'.operations) /\ (ModelPlans => Understandable(outcome'.operations))
  <2>1. CASE outcome' = outcome
    BY <2>1 DEF MessageInv, TurnInv
  <2>2. CASE outcome' \in Completions \cup {PlainAnswer}
    BY <2>2, ResponsesAreSound
  <2>3. CASE ~ModelPlans /\ outcome' \in Interpreted
    <3>1. ASSUME outcome'.says = "plan"
          PROVE  \E name \in Names : outcome' = Proposed(MoveBy(name))
      BY <2>3, <3>1 DEF Interpreted, Failed, PlainAnswer
    <3>2. \A name : Proposed(MoveBy(name)).operations = MoveBy(name)
      BY DEF Proposed
    <3> QED  BY <2>3, <3>1, <3>2, MovesArePlanned
  <2> QED  BY <1>4, <2>1, <2>2, <2>3
<1>6. TurnInv'
  BY <1>1, <1>3, <1>5 DEF TurnInv, PlansBecomeJobs, ModelPlans
<1>7. StepsInv'
  BY <1>1, <1>3 DEF MessageInv, StepsInv, AcceptedIsUnderstood, backendVars
<1> QED  BY <1>2, <1>6, <1>7 DEF MessageInv

(* A job is made of the plan, or its steps are not labelled. *)
LEMMA JobStep ==
  ASSUME MessageInv, NEW approved \in BOOLEAN, turn \in {"answered", "parked"},
         outcome.says = "plan", approved \/ ~Flagged, CreateJob(approved),
         UNCHANGED <<provider, outcome, backendVars>>
  PROVE  MessageInv'
<1>1. BackendInd'
  BY BackendIndStep DEF MessageInv
<1>2. Planned(outcome.operations)
  BY DEF MessageInv, TurnInv
<1>3. CASE JobIsValid(outcome.operations)
  <2>1. turn' = "working" /\ steps' = <<Read>> \o JobSteps(approved) \o <<Export>>
    BY <1>3 DEF CreateJob
  <2>2. TurnInv'
    BY <2>1 DEF MessageInv, TurnInv, PlansBecomeJobs, ModelPlans
  <2>3. stage' = "idle"
    BY DEF MessageInv, StepsInv, backendVars
  <2>4. ModelPlans => AllFit(steps')
    BY <2>1, <1>2, JobsFit DEF MessageInv, TurnInv
  <2>5. StepsInv'
    BY <2>3, <2>4 DEF StepsInv, AcceptedIsUnderstood, ModelPlans
  <2> QED  BY <1>1, <2>2, <2>5 DEF MessageInv
<1>4. CASE ~JobIsValid(outcome.operations)
  <2>1. turn' = "not made"
    BY <1>4 DEF CreateJob
  <2>2. \E i \in DOMAIN outcome.operations : ~Labelled(outcome.operations[i])
    <3>1. outcome.operations # <<>>
      BY <1>2 DEF Planned
    <3> QED  BY <1>2, <1>4, <3>1 DEF JobIsValid, Planned
  <2>3. TurnInv'
    BY <2>1, <2>2 DEF MessageInv, TurnInv, PlansBecomeJobs, ModelPlans
  <2>4. StepsInv'
    BY <2>1 DEF MessageInv, StepsInv, AcceptedIsUnderstood, backendVars
  <2> QED  BY <1>1, <2>3, <2>4 DEF MessageInv
<1> QED  BY <1>3, <1>4

(* The plan is held back, or given up. *)
LEMMA WithheldStep ==
  ASSUME MessageInv, turn \in {"answered", "parked"}, outcome.says = "plan",
         turn' \in {"parked", "refused"}, UNCHANGED <<provider, outcome, steps, backendVars>>
  PROVE  MessageInv'
<1>1. BackendInd'
  BY BackendIndStep DEF MessageInv
<1>2. TurnInv'
  BY DEF MessageInv, TurnInv, PlansBecomeJobs, ModelPlans
<1>3. StepsInv'
  BY DEF MessageInv, StepsInv, AcceptedIsUnderstood, backendVars
<1> QED  BY <1>1, <1>2, <1>3 DEF MessageInv

LEMMA HandStepStep ==
  ASSUME MessageInv, HandStep PROVE MessageInv'
<1> USE DEF HandStep
<1>1. BackendInd'
  BY BackendIndStep DEF MessageInv
<1>2. TurnInv'
  BY DEF MessageInv, TurnInv, PlansBecomeJobs, ModelPlans
<1>3. stage' = "handed" /\ request' = Head(steps) /\ turn' = "working"
  BY DEF Invoke
<1>4. ASSUME ModelPlans PROVE AllFit(steps') /\ Fit(request')
  <2>1. PICK S : steps \in Seq(S) /\ \A asked \in S : Fit(asked)
    BY <1>4 DEF MessageInv, StepsInv, AllFit
  <2>2. Head(steps) \in S /\ Tail(steps) \in Seq(S)
    BY <2>1
  <2> QED  BY <1>3, <2>1, <2>2 DEF AllFit
<1>5. StepsInv'
  BY <1>3, <1>4 DEF StepsInv, AcceptedIsUnderstood, ModelPlans
<1> QED  BY <1>1, <1>2, <1>5 DEF MessageInv

LEMMA FinishJobStep ==
  ASSUME MessageInv, FinishJob PROVE MessageInv'
<1> USE DEF FinishJob
<1>1. BackendInd'
  BY BackendIndStep DEF MessageInv
<1>2. TurnInv'
  BY DEF MessageInv, TurnInv, PlansBecomeJobs, ModelPlans
<1>3. StepsInv'
  BY DEF MessageInv, StepsInv, AcceptedIsUnderstood, backendVars
<1> QED  BY <1>1, <1>2, <1>3 DEF MessageInv

(* A step that is fit is answered with anything but a refusal, unless it is   *)
(* code that the classifier refuses.                                          *)
LEMMA BackendKeepsSteps ==
  ASSUME MessageInv, BackendStep, UNCHANGED turnVars PROVE StepsInv'
<1>1. request' = request /\ (stage = "idle" => stage' = "idle")
  BY DEF BackendStep, Serve, Handle, OpenSession, StartBlender, RunScript, SaveScene, Reply,
     CallFails, CodeSaves, EndsWithoutWord, KillAtLimit, ServerStops
<1>2. stage # "idle" \/ stage' = "idle"
  BY <1>1
<1>3. UNCHANGED <<provider, turn, outcome, steps>>
  BY DEF turnVars
<1>4. ASSUME Fit(request), Given(request, "code") # "refused", stage' = "answered",
             stage = "answered" => answer.why # "refused"
      PROVE  answer'.why # "refused"
  <2>1. CASE Handle
    <3>1. ~(Script = "python" /\ Code = "flagged" /\ request.token # Code)
      BY <1>4 DEF Fit, Script, Code
    <3> QED  BY <1>4, <2>1, <3>1 DEF Handle, Fit, Code
  <2>2. CASE OpenSession
    BY <1>4, <2>2, Opened DEF MessageInv, BackendInd
  <2>3. CASE StartBlender \/ RunScript \/ SaveScene \/ CodeSaves \/ EndsWithoutWord
               \/ ServerStops
    BY <1>4, <2>3 DEF StartBlender, RunScript, SaveScene, CodeSaves, EndsWithoutWord,
       ServerStops
  <2>4. CASE Reply
    <3>1. blender.status # "refused"
      BY <2>4 DEF Reply, MessageInv, BackendInd, BackendInv, Says
    <3>2. Settled.why # "refused"
      BY <3>1 DEF Settled, ScriptSettled, Succeeded, Refused
    <3> QED  BY <2>4, <3>2 DEF Reply, Answered
  <2>5. CASE CallFails
    BY <2>5 DEF CallFails, Answered, Refused
  <2>6. CASE KillAtLimit
    BY <2>6 DEF KillAtLimit, Answered, Refused
  <2> QED  BY <2>1, <2>2, <2>3, <2>4, <2>5, <2>6 DEF BackendStep, Serve
<1>5. AcceptedIsUnderstood'
  BY <1>1, <1>3, <1>4 DEF MessageInv, StepsInv, AcceptedIsUnderstood, ModelPlans, Code
<1> QED  BY <1>1, <1>3, <1>5 DEF MessageInv, StepsInv, ModelPlans

LEMMA BackendsStep ==
  ASSUME MessageInv, BackendStep, UNCHANGED turnVars PROVE MessageInv'
<1>1. BackendInd'
  BY BackendIndStep DEF MessageInv
<1>2. TurnInv'
  BY DEF turnVars, MessageInv, TurnInv, PlansBecomeJobs, ModelPlans
<1> QED  BY <1>1, <1>2, BackendKeepsSteps DEF MessageInv

LEMMA MessageStep ==
  ASSUME MessageInv, [AssistantNext]_assistantVars PROVE MessageInv'
<1>1. CASE Respond
  BY <1>1, ResponseStep
<1>2. CASE Plan
  <2>1. CASE Flagged
    BY <1>2, <2>1, WithheldStep DEF Plan
  <2>2. CASE ~Flagged /\ RefusedCode
    BY <1>2, <2>2, WithheldStep DEF Plan
  <2>3. CASE ~Flagged /\ ~RefusedCode
    BY <1>2, <2>3, JobStep DEF Plan
  <2> QED  BY <2>1, <2>2, <2>3
<1>3. CASE NoWorker
  BY <1>3, WithheldStep DEF NoWorker
<1>4. CASE Decide
  <2>1. outcome.says = "plan"
    BY <1>4 DEF Decide, MessageInv, TurnInv
  <2>2. CASE CreateJob(TRUE)
    BY <1>4, <2>1, <2>2, JobStep DEF Decide
  <2>3. CASE turn' = "refused" /\ UNCHANGED steps
    BY <1>4, <2>1, <2>3, WithheldStep DEF Decide
  <2> QED  BY <1>4, <2>2, <2>3 DEF Decide
<1>5. CASE HandStep
  BY <1>5, HandStepStep
<1>6. CASE FinishJob
  BY <1>6, FinishJobStep
<1>7. CASE BackendStep /\ UNCHANGED turnVars
  BY <1>7, BackendsStep
<1>8. CASE UNCHANGED assistantVars
  <2>1. BackendInd'
    BY <1>8, BackendIndStep DEF assistantVars, MessageInv
  <2>2. TurnInv'
    BY <1>8 DEF assistantVars, MessageInv, TurnInv, PlansBecomeJobs, ModelPlans
  <2>3. StepsInv'
    BY <1>8 DEF assistantVars, MessageInv, StepsInv, AcceptedIsUnderstood, backendVars,
       ModelPlans, Code
  <2> QED  BY <2>1, <2>2, <2>3 DEF MessageInv
<1> QED
  BY <1>1, <1>2, <1>3, <1>4, <1>5, <1>6, <1>7, <1>8 DEF AssistantNext, Work

-------------------------------------------------------------------------------
(* Plan, steps, back end and project file fit together in every reachable     *)
(* state, whatever the model answers and wherever Blender or the server stop. *)
THEOREM MessageInvariance == AssistantSpec => []MessageInv
BY MessageStarts, MessageStep, PTL DEF AssistantSpec

(* What parse_agent_response accepts of a model is never sent back by the     *)
(* back end as invalid, unknown or unapproved.                                *)
THEOREM AcceptedAlwaysUnderstood == AssistantSpec => []AcceptedIsUnderstood
<1>1. MessageInv => AcceptedIsUnderstood
  BY DEF MessageInv, StepsInv
<1> QED  BY <1>1, MessageInvariance, PTL

(* An accepted plan fails to become a job only over a blank label.            *)
THEOREM PlansAlwaysBecomeJobs == AssistantSpec => []PlansBecomeJobs
<1>1. MessageInv => PlansBecomeJobs
  BY DEF MessageInv, TurnInv
<1> QED  BY <1>1, MessageInvariance, PTL

(* While a server answers, the project is written only during the step that   *)
(* the session waits for.                                                     *)
THEOREM LateSavesAreAlwaysOrphans == AssistantSpec => LateSavesAreOrphans
<1> DEFINE Act == file' # file /\ stage # "calling" => server = "stopped"
<1>1. MessageInv /\ [AssistantNext]_assistantVars => [Act]_backendVars
  <2> SUFFICES ASSUME MessageInv, AssistantNext, file' # file, stage # "calling"
               PROVE  server = "stopped"
    BY DEF assistantVars
  <2>1. BackendStep
    BY DEF AssistantNext, Respond, NotConnected, AskModel, AskAgain, FakeResponds,
       LegacyResponds, Plan, NoWorker, Decide, Work, HandStep, Invoke, FinishJob, backendVars
  <2>2. SaveScene \/ CodeSaves
    BY <2>1 DEF BackendStep, Serve, Handle, OpenSession, StartBlender, RunScript, Reply,
       CallFails, EndsWithoutWord, KillAtLimit, ServerStops
  <2>3. blender.at # "none"
    BY <2>2 DEF SaveScene, CodeSaves
  <2> QED  BY <2>3 DEF MessageInv, BackendInd, NoneLeftBehind
<1> QED  BY <1>1, MessageInvariance, PTL DEF AssistantSpec, LateSavesAreOrphans

(* Of what a model may propose, only the two inspections read alone.          *)
LEMMA MutatingIsNoReading ==
  ASSUME request.capability \in DOMAIN Handlers, Mutating
  PROVE  ScriptOf(request) \notin Reads
BY DEF Mutating, Proposable, Specs, ScriptOf, Handlers, Handler, SlabHandler,
   PlaceholderHandler, Reads

(* A changing step that its own script reports as done is in the saved        *)
(* project, unless it is code the user approved.                              *)
THEOREM OkIsAlwaysSaved == AssistantSpec => OkIsSaved
<1> DEFINE Act == stage' = "answered" /\ stage = "calling" /\ answer'.ok /\ Mutating
                      /\ blender.status # "no status" /\ Code # "flagged"
                    => file = blender.scene
<1>1. MessageInv /\ [AssistantNext]_assistantVars => [Act]_backendVars
  <2> SUFFICES ASSUME MessageInv, AssistantNext, stage' = "answered", stage = "calling",
                      answer'.ok, Mutating, blender.status # "no status", Code # "flagged"
               PROVE  file = blender.scene
    BY DEF assistantVars
  <2>1. BackendStep
    BY DEF AssistantNext, Respond, NotConnected, AskModel, AskAgain, FakeResponds,
       LegacyResponds, Plan, NoWorker, Decide, Work, HandStep, Invoke, FinishJob, backendVars
  <2>2. Reply
    <3>1. ~(StartBlender \/ RunScript \/ SaveScene \/ CodeSaves \/ EndsWithoutWord
              \/ ServerStops \/ Handle)
      BY DEF StartBlender, RunScript, SaveScene, CodeSaves, EndsWithoutWord, ServerStops,
         Handle
    <3>2. ASSUME NEW code, NEW why PROVE answer' # Refused(code, why)
      <4>1. ~Refused(code, why).ok
        BY DEF Refused
      <4> QED  BY <4>1, Zenon
    <3>3. ~OpenSession
      BY <3>2 DEF OpenSession, Answered
    <3>4. ~CallFails /\ ~KillAtLimit
      BY <3>2 DEF CallFails, KillAtLimit, Answered
    <3> QED  BY <2>1, <3>1, <3>3, <3>4 DEF BackendStep, Serve
  <2>3. Settled.ok /\ server = "up" /\ blender.at = "ended"
    BY <2>2 DEF Reply, Answered
  <2>4. blender.status \in {"ok", "partial"}
    <3>1. ASSUME NEW code, NEW why PROVE Settled # Refused(code, why)
      <4>1. ~Refused(code, why).ok
        BY DEF Refused
      <4> QED  BY <2>3, <4>1, Zenon
    <3>2. blender.status # "raised"
      BY <3>1 DEF Settled
    <3>3. CASE Script = "python"
      <4>1. Says(request, blender.status)
        BY <2>3 DEF MessageInv, BackendInd, BackendInv, NoneLeftBehind
      <4> QED  BY <3>1, <3>2, <3>3, <4>1 DEF Settled, CodeFailed, Says, Script
    <3>4. CASE Script # "python"
      BY <3>1, <3>2, <3>4 DEF Settled, ScriptSettled
    <3> QED  BY <3>3, <3>4
  <2>5. blender.runs = request /\ request.capability \in DOMAIN Handlers
    BY <2>3 DEF MessageInv, BackendInd, NoneLeftBehind, BackendInv
  <2>6. ScriptOf(blender.runs) \notin Reads /\ Given(blender.runs, "code") # "flagged"
    BY <2>5, MutatingIsNoReading DEF Code
  <2> QED  BY <2>3, <2>4, <2>6 DEF MessageInv, BackendInd, FileInv, Kept
<1> QED  BY <1>1, MessageInvariance, PTL DEF AssistantSpec, OkIsSaved

-------------------------------------------------------------------------------
(* CodexLogin: what is watched is one attempt, that of the session shown, and *)
(* no other attempt's CLI runs.                                               *)
LoginInv ==
  /\ cli \in [Attempts -> {"none", "running", "exited"}]
  /\ \A a \in child : child = {a} /\ login = {a}
  /\ \A a \in Attempts : cli[a] = "running" => a \in child

LEMMA TerminatedEndsAll ==
  ASSUME LoginInv
  PROVE  /\ Terminated(cli) \in [Attempts -> {"none", "running", "exited"}]
         /\ \A a \in Attempts : Terminated(cli)[a] # "running"
<1>1. ASSUME NEW a \in Attempts
      PROVE  Terminated(cli)[a] \in {"none", "exited"}
  <2>1. Terminated(cli)[a] = IF a \in child /\ cli[a] = "running" THEN "exited" ELSE cli[a]
    BY DEF Terminated
  <2> QED  BY <2>1 DEF LoginInv
<1>2. Terminated(cli) = [a \in Attempts |-> Terminated(cli)[a]]
  BY DEF Terminated
<1> QED  BY <1>1, <1>2

LEMMA LoginStep ==
  ASSUME LoginInv, [LoginNext]_loginVars PROVE LoginInv'
<1>1. CASE CancelLogin
  BY <1>1, TerminatedEndsAll DEF CancelLogin, LoginInv
<1>2. CASE PollLogin
  <2>1. PICK a \in child : cli[a] = "exited"
    BY <1>2 DEF PollLogin
  <2>2. \A b \in Attempts : cli[b] # "running"
    BY <2>1 DEF LoginInv
  <2> QED  BY <1>2, <2>2 DEF PollLogin, LoginInv
<1>3. CASE SignOut
  BY <1>3 DEF SignOut, LoginInv
<1>4. ASSUME NEW a \in Attempts, Begin(a) PROVE LoginInv'
  <2>1. ASSUME NEW byCode \in BOOLEAN, CheckLogin(a, byCode) PROVE LoginInv'
    BY <2>1 DEF CheckLogin, LoginInv
  <2>2. CASE SpawnLogin(a)
    BY <2>2, TerminatedEndsAll DEF SpawnLogin, LoginInv
  <2>3. CASE SpawnFails(a)
    BY <2>3, TerminatedEndsAll DEF SpawnFails, LoginInv
  <2>4. ASSUME NEW seen, ReadLine(a, seen) PROVE LoginInv'
    BY <2>4 DEF ReadLine, LoginInv
  <2>5. CASE StopReading(a)
    BY <2>5 DEF StopReading, LoginInv
  <2>6. CASE ConcludeLogin(a)
    <3>1. login' = login
      BY <2>6 DEF ConcludeLogin
    <3>2. CASE printed[a] # "nothing"
      BY <2>6, <3>1, <3>2 DEF ConcludeLogin, LoginInv
    <3>3. CASE printed[a] = "nothing"
      BY <2>6, <3>1, <3>3, TerminatedEndsAll DEF ConcludeLogin, LoginInv
    <3> QED  BY <3>2, <3>3
  <2> QED  BY <1>4, <2>1, <2>2, <2>3, <2>4, <2>5, <2>6 DEF Begin
<1>5. ASSUME NEW a \in Attempts, Authorise(a) \/ CliEnds(a) PROVE LoginInv'
  BY <1>5 DEF Authorise, CliEnds, LoginInv
<1>6. CASE UNCHANGED loginVars
  BY <1>6 DEF loginVars, LoginInv
<1> QED  BY <1>1, <1>2, <1>3, <1>4, <1>5, <1>6 DEF LoginNext

(* OneCallbackServer: attempts to sign in may end one another by mistake, but *)
(* two never listen at once, and the CLI that runs is the one the user is     *)
(* shown (begin_login and cancel_login, codex.py).                            *)
THEOREM OneCallbackServerRuns == LoginSpec => []OneCallbackServer
<1>1. LoginInit => LoginInv
  BY DEF LoginInit, LoginInv
<1>2. LoginInv /\ [LoginNext]_loginVars => LoginInv'
  BY LoginStep
<1>3. LoginInv => OneCallbackServer
  BY DEF LoginInv, OneCallbackServer
<1> QED  BY <1>1, <1>2, <1>3, PTL DEF LoginSpec

===============================================================================
