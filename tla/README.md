# A verification development for AI 3D Design Studio

The studio lets a person describe a change to a 3D design in words; a language
model turns the words into a plan, a control plane offers the plan to a
workstation as a job, and a worker on that workstation carries it out in
Blender and reports back. This directory holds TLA+ modules of the parts in
which order, failure and concurrency decide whether the result is right, the
TLC configurations that check them on small instances, and proofs of
most of their properties for every instance. Paths below are relative to `src/`; `worker` stands for
`services/blender-worker/blender_worker`, `api` for `services/api/studio_api`,
`agent` for `services/agent/studio_agent`.

1. [The system](#1-the-system)
2. [The modules and how they correspond to the code](#2-the-modules)
3. [The runs: what they check, bounds, fairness](#3-the-runs)
4. [What is proved](#4-what-is-proved)
5. [Where the code and its own statements part](#5-where-the-code-and-its-own-statements-part)
6. [What is not modelled, and the plan](#6-what-is-not-modelled-and-the-plan)

## 1. The system

```
 browser ──HTTP──> control plane (api) ──one outbound WebSocket──> worker ──MCP/subprocess──> Blender
   polls turns       turns, records,       offers down,            journal, locks,             one .blend
   and jobs          approvals, scenes     reports up              executors                   per project
                        │                                             │
                     model CLI                                  artifact store, read by both
```

### Components, their state and operations

| Component | State | Operations | Makes it correct | Module |
|---|---|---|---|---|
| Move executor (`worker/executor.py`, `blender_mcp/tools/move_object.py`) | journal record per job, idempotency binding, project lock, `.blend` | `execute(job)` | a job moves the object once however often it is retried; success only for a confirmed change; the lock comes free | `MoveExecutor` |
| Capability executor (`worker/capability_executor.py`) | the same, with a status per step, recovery copy, attached artifacts | `execute(plan)` | a retry resumes; an attempt builds nothing twice that it can recognise; only what was read back counts as applied | `CapabilityExecutor` |
| Journal, phases, locks (`worker/journal.py`, `phases.py`, `locks.py`) | JSON files, replaced atomically; a `flock` per project | load, save, bind_idempotency, undelivered_results, hold | survives a crash at any point; a damaged file is refused, never taken for absent | both executors, `ResultDelivery` |
| Scene reading and digest (`worker/capability/normalize.py`, `studio_contracts/scene.py`) | none | normalise, digest, compare, validate | a version names everything a plan was made on, and nothing else; what is reported breaks the snapshot contract only where nobody checks | `SceneVersion` |
| Blender back end (`worker/backends/official`) | the session, its MCP server, the saved file | invoke, one handler and one script per capability | what a script reports done is saved, nothing but an orphaned Blender saves late, no step waits for ever | `BlenderBackend` |
| Link client and main loop (`worker/link/*`, `worker/main.py`, `reload.py`) | connection, state, `last_error`, the journal's `result_delivered` | connect, register, reconcile, handle_next, deliver, heartbeat, restart | outcomes are reported on every link that loses nothing, none that did not happen on any | `ResultDelivery`, `WorkerGateway` |
| Gateway, manager, selection (`api/worker_link/*`, `worker_selection.py`, `routes/worker_ws.py`) | sinks, pending offers, registered workers with the age of their heartbeat | attach, detach, offer, handle_inbound, can_offer_to, select | offers go to a worker that can take them; the newest connection wins; an offer never waits for the worker to speak | `WorkerGateway` |
| Records and reconciliation (`api/job_records.py`, `storage/job_store.py`, `reconciliation.py`) | one row per job | submit, save, observe | outcomes do not regress; an unknown result is adopted once | `JobRecords` |
| Asynchronous turns (`api/turns.py`) | turn table, request index, bounded order, thread pool | start, start_decision, _run, get, close | one model call per request in the buffer; every turn ends | `TurnRunner` |
| Design chat (`api/design_chat.py`, `context_builder.py`) | rows for messages, facts, questions, approvals, deliveries, jobs | submit, decide_approval, _dispatch, _plan, _create_job | effects are explained by a message; what needs approval runs only as the very plan the user approved | `DesignTurns` |
| Scene cache (`api/scene_grounding.py`, `scene_reporting.py`) | one snapshot per project, reads in flight | ensure, observe, _read, _await_scene | never more than stale; nobody waits for ever | `SceneReads` |
| Uploads (`api/ingest/*`, `routes/workspace.py`) | reference rows, files, cached copies | ingest, delete, copy_of | no row without its bytes, nothing accepted that a later stage cannot read | `Uploads` |
| Storage (`api/storage/*`, `routes/projects.py`) | eleven tables of a project, its files | one statement or transaction each; open, rename, delete_project | a deletion leaves nothing | `WorkspaceStore`, `Workspace` |
| Deprecated chat (`api/chat_service.py`, `routes/chat.py`, `agent/job_factory.py`) | job rows | submit_chat, get_project_job | one move per request id; told only what happened | `MoveChat`, `MoveSentence` |
| Agent (`agent/proposal.py`, `providers/*`) | none | respond, parse, validate arguments | what it accepts the rest of the system can carry out | `ModelResponse`, `Assistant` |
| Sign-in (`agent/codex.py`) | the session shown, the CLI watched | begin_login, login_session, cancel_login | an attempt ends only itself | `CodexLogin` |
| Project files and artifacts (`worker/provisioning.py`, `preview/artifacts.py`, `routes/artifacts.py`) | `.blend`, bytes and sidecar of each artifact | create, put, get, list, delete | no half-written project; an identity always means the same bytes | `Artifacts` |

### How they interact

* A turn runs on a thread of `TurnRunner`'s pool; synchronous routes run on
  threads of their own; uploads, the deprecated chat and the worker's reports
  run on the event loop. All of them read and write the same tables, one
  statement at a time, without a transaction around a read and the write that
  follows from it.
* An offer is made on a turn's thread and sent by a task of the event loop,
  through the queue of the connection the worker had when it was looked up.
* The worker handles one message at a time. It executes a job on the thread
  that reads the connection and sends heartbeats.
* The two executors and the link client share one journal; a project's lock is
  held for the whole of one execution, by whichever executor or process it is.
* The journal, not the connection, says what is still to be reported.
* The `.blend` is changed by a Blender process the executor starts or an MCP
  server it talks to; all that comes back is a reply or its absence.
* Worker and control plane share the artifact store and nothing else.

### What is hard in it

Crashes between a durable effect and its record; retries with and without a
record; two jobs of one mutation identity; replies lost after the effect;
results lost, repeated and late; a row saved from a stale copy; a connection
that ends after its successor has begun; a bounded buffer that forgets
unfinished work; rows and files that are written one after the other by one
actor while another deletes them; tables written twice that have to agree.
`PROJECT.json` lists each at its line with the properties that would notice it,
and for what no property covers, why.

## 2. The modules

| Module | Models | Actions end at |
|---|---|---|
| `MoveExecutor` | `WorkerExecutor.execute` with journal, binding, lock, artifact store and the position in the saved project | a durable write, a Blender process, a lock operation |
| `MoveLedger` | the promise `executor.py:13-27` makes, with no worker, lock, phase or crash in it | one commitment or one movement |
| `CapabilityExecutor` | `CapabilityPlanExecutor.execute`, step by step | a durable write, a call of Blender |
| `ResultDelivery` | link client, main loop and `result_delivered` at one end, gateway and reconciler at the other, a connection in between | a message, a durable write |
| `WorkerGateway` | connections with serving coroutine and sender task, manager, pending offers, selection; the worker's loop with heartbeats and reloads | an await, a lock, a hand-over between threads |
| `JobRecords` | `_create_job` on a turn's thread against `JobReconciler` on the event loop, over one database row, with restarts of the control plane | a read or a write of the row, a call of the gateway |
| `TurnRunner` | the turn table, index, bounded history and pool | a critical section of `_lock`, a pool operation |
| `WorkspaceStore` < `SceneReads` < `Uploads` < `DesignTurns` < `Workspace` | everything the control plane does with one project: its tables and files, then one layer for each kind of actor over them, then all together with deletion and restarts | a statement or transaction, a file, the model's answer |
| `Artifacts` | the worker's rendering, exporting and creating of files, `LocalArtifactStore`, and the routes that serve and delete | one write, one unlink or one read of a file |
| `ModelResponse` < `BlenderBackend` < `Assistant` | the contract of a model's response, the back end that carries out its steps, and a message on its way through both | the model's answer, a step's stages: handed, started, worked, saved, answered |
| `SceneVersion` | reading, normalising, digesting, caching, planning on and checking a scene | a reading of the scene, a change in Blender |
| `MoveSentence` < `MoveChat` | the sentence grammar as operators; `ChatService` with the selector, the reconciler and the worker as they answer it | a commit of the store, a report, a break |
| `CodexLogin` | the threads of `begin_login`, `cancel_login` and `login_session` | a critical section, a line read |
| `MoveExecutor_proofs`, `JobRecords_proofs`, `CapabilityExecutor_proofs`, `ResultDelivery_proofs` (with `SceneVersion`), `WorkerGateway_proofs`, `Artifacts_proofs` (with `Assistant` and `CodexLogin`), `MoveChat_proofs`, `Workspace_proofs` (with `TurnRunner`) | the theorems of section 4 | |
| `MC*` | instances for TLC: nothing but values of constants | |

`A < B` says that B extends A. A comment that begins with "Mutant" marks a
definition that is in no specification: it is a plausible bug, and the property
it names no longer holds when it takes the place of the definition below it.

**MoveExecutor.** `pc[w]` says where worker `w` is in `execute`; `job[w]` what
it executes. `Deliver` is the call (validation and path resolution come before
any state is touched and answer without changing any). `AcquireLock` /
`LockConflict` are `FileLockProvider.hold`; from `loading` on, `w` holds the
lock. `RefuseCorruptRecord`, `ReplayCompleted`, `BindKey`, `RefuseForeignKey`,
`RefuseCorruptBinding`, `Receive`, `MakePlan` / `ReusePlan` / `PlanFails`,
`MakeRecoveryCopy` / `KeepRecoveryCopy` / `RecoveryCopyFails`, `StartExecuting`,
the four outcomes of the Blender run (`FindAlreadyApplied`, `ApplyMove`,
`ApplyMoveUnreported`, `MoveFails`), `RecordVerified`, `ConfirmSaved` /
`ConfirmFails`, the preview's three, and `Complete` follow the method from top
to bottom; each early return is an action. A worker's record in memory is the
one it last saved, so the journal stands for both. `Crash` may fall between any
two actions and releases the `flock`, as the kernel does; an exception nothing
catches is a crash too. `DamageRecord` and `DamageBinding` make a file
unreadable, which the code tells apart from an absent one. `EditElsewhere` is
the other executor, under the same lock. Positions are integers: the code
compares exact plans and positions with a tolerance, and the properties only
need "at the start", "at the end", "elsewhere".

**CapabilityExecutor.** A step is a record of kind, object and place; "place"
stands for whatever the step sets (position, size, colour). `readout[w]` is the
scene as last read, `Satisfied` is `_already_satisfied`, `Verified` is
`_verify`. A call of Blender has its intended effect, no effect though it says so, fails, or has its effect unreported; the executor can only read back.
`GiveUp` is a call the session waits for no longer: the Blender that has read the
project goes on (`late`) and saves it at any later time, over whatever was done
since and without the lock (`LateSave`). `missed` are the workers that went on
with a reading from before such a save. `ReplayCompleted` to `FinishReplay` is
the delivery of a completed plan: what its record lacks is attached, and the
record is left at the phase of the attachment.
`blind` steps (openings, duplicates, authored code) have no declared end state.
`extras` counts the objects without a stable id.

**ResultDelivery.** `uplink` and `downlink` are the connection's two
directions, `link` whether it is alive. `lossy` says whether the end of a
connection may lose a suffix of what was sent (it can: `send` returns when the
operating system has the bytes). Execution is a few steps here, with the
outcomes the executor modules allow: `CarryOut` is the last step on record as
applied (or the move read back), `Succeed` the record completed. `carried` is the
part of a record that is never taken back, whatever its phase says later:
`Replay` may leave a completed plan at an earlier phase, from which the next
delivery executes it again with all its steps skipped. Several jobs may have one
`Identity`, and a move is answered from the record of its identity's owner
(`AnswerForOwner`). `Crash` and `Restart` are the process; nobody has to start it
again.

**WorkerGateway.** `links[c]` is one connection: what the server has still to
read (`inbound`), the queue its sender drains (`outbound`), what is under way to
the worker (`wire`), and who serves it. `ReceiveHello`, `ReceiveHeartbeat` and
`ReceiveReport` are the loop of `routes/worker_ws.py` with
`handle_inbound`; `Disconnected` and `Close` are its end, with the drain and the
guarded `detach`. `Select`, `TakeSink` and `Push` are a turn's offer: the
selector, the lookup under the lock, and `call_soon_threadsafe`. The worker side
is `run_worker_loop` and the client: `Handle` and `Finish` are one call of
`handle_next`, `Idle` and `CheckReload` the branch where nothing arrived. Time
is `Tick`, which ages the last heartbeats.

**JobRecords.** `row` is the database row, `copy` the turn's copy of it,
`loaded` the reconciler's. `SubmitNew` is the store's submit; `SaveOffered`
writes every column of `copy`. A restart keeps the row or finds a new database.
`plan` is the plan a turn's model proposed: another turn of the same request may
propose another one.

**TurnRunner.** `table`, `byRequest`, `order` are `_turns`, `_by_request`,
`_order`; `handing` holds turns remembered under the lock and not yet in the
pool. `start` and `start_decision` differ only in the key. Its own names
(`RunnerInit`, `runnerVars`, `TurnIds`...) are distinct from those of `Workspace`,
so that one module can state theorems about both.

**Workspace and its layers.** `WorkspaceStore` has one variable for each table
and each directory of files, and one operator for each repository method that
changes one. A reference's row has its id, its place in the transcript and the
time of its creation, by which the lists are ordered. A thread is `<<turn, "message">>`, `<<turn, "decision">>` or
`<<turn, "again">>`, a second decision of the same plan, and
`pc` says where it is between two statements: `Tell`, `ConsiderScene`, the reads
of `SceneReads`, `Select` and `Deliver` (`ContextBuilder.build`), `Respond` (the
provider), then one action for each kind of outcome, and `CreateJob`,
`OfferJob`, `SaveJob`, `Say`. `Decide` and `Settle` are `decide_approval`
before and after its read; a second decision may come between them, and `said`
is what the user decided, where the row holds one decision. `loop` is what the event loop has in hand: an upload
between two of its writes, or a report whose artifact is still to be indexed.
`BeginDelete`, `Transact`, `Unlink` are the deletion of a reference on a
thread of its own; `ListArtifacts`, `EraseRows`, `EraseFiles`, `EraseArtifacts`
that of the project. `quiet`, `erased` and `orphans` are history: whether anything
ran beside the deletion, whether there was one, and which artifacts have no row
because a restart came between the worker's report and its record. A message is
known by its request, an upload by its bytes
and its form (name, content, declared type, size), a plan by what its steps need.
`cast` chooses who takes part in a behaviour: it is a bound, and it keeps the
module one, where a configuration for each pair of actors would be many.

**Artifacts.** An artifact's bytes and metadata are two files, each replaced
atomically, and every rendering differs from every other, so that serving the
wrong one shows. `Take` to `Report` follow the executors' attachment of
artifacts, with a crash anywhere, and a job that was reported may be taken again
at any time, also after its project was deleted: a plan then attaches what its
record does not refer to, a move what the store does not have. `again` are the
artifacts rendered anew after a deletion. A new project is written by Blender into
a staged file, which grows from empty over partial to whole (`Save`) and is moved
into place only when Blender reported success and it is not empty (`Install`);
the worker or Blender may die at any moment of it.

**ModelResponse, BlenderBackend, Assistant.** A value is known by what
`validate_arguments`, the back end's coercions and the job schema tell apart (a
list of three numbers, an object of three, a blank text, zero, null...).
`Specs` and `Handlers` are the two tables of what a capability takes, each
translated from its own source. A script is what it finds, what it may leave,
and what it says; it changes Blender's memory, and `SaveScene` the file. Code
may save the file by itself (`CodeSaves`), end Blender without a word
(`EndsWithoutWord`) and, if the user approved it, have turned it to another file,
which the save then goes to; a reply that is not the script's
JSON has no status, and counts as done. The
server kills a Blender at its limit at any point (`KillAtLimit`), or stops and
leaves it running, so that a save may come after the answer. Definitions of
`Assistant` are named apart from those of `Artifacts` (`AssistantInit`,
`assistantVars`...): one module holds the theorems about both.

**SceneVersion.** An object has a name, an identifier that may be missing,
empty, blank or shared, one number for where it is, and the odd values the
checks look for. A version is the input of the hash. `RoundHalfEven`, `Ordered`,
`Digestible` and `Projection` are the digest; `Keeps` has the rules of the
snapshot's validator and schemas, which were written apart from it, one field for
each, and `Breaches` those a scene does not keep. `ReadRaises` is the one error the reader does
not catch. Its definitions are named apart from those of `ResultDelivery`
(`SceneInit`, `sceneVars`...): one module holds the theorems about both.

**MoveChat.** `handling` is the request between the store's commit and the
offer; the routes are coroutines that never wait, so nothing but the end of the
process comes in between. Two projects share a request id, since ids are made by
clients. `MoveSentence` counts in millimetres what the code counts in metres.

**CodexLogin.** `caller[a]` is where the call of `begin_login` is; `session[a]`
what its user is shown. The CLI process may end, be authorised, or be ended by
another thread between any two reads of its output.

## 3. The runs

Every run says `CHECK_DEADLOCK FALSE`: bounds on deliveries, offers, turns and
failures make a finite instance come to rest.

| Run | States | What it shows |
|---|---|---|
| `move_executor` | 181k | Three deliveries of three jobs (two of one identity, one undoing them) to two workers, with crashes anywhere, one damaged record and one damaged binding, and one outside edit: one plan per identity, success only after a confirmed read-back, no job moves the object twice in a row, the lock comes free, and the whole refines `MoveLedger` |
| `capability_executor` | 850k | The same environment for plans of create, set, delete and blind steps, with lying and silent Blender calls and a Blender that was given up on and saves late: decisions on a fresh scene and nothing recognisable built twice but for such a save, the recovery copy is the untouched project, attempts end |
| `result_delivery` | 779k | Two jobs of one identity, the one offered twice, either perhaps of an unsupported type, a loss of the link or the control plane, a worker crash, over a link that loses messages or one that does not: a success is shown only of what was carried out, a worker that waits owes no report, and where nothing is lost delivered means reached, and every result arrives if a dead worker is started again |
| `worker_gateway` | 55k | A worker that is accepted or refused, two turns with an offer each, three connections, one fault (a connection that dies unnoticed, an edit of the source, a reload request), the clock: a registered worker is reachable over its newest connection, an offer exists once, and reaches a worker that says nothing |
| `job_records` | 22k | Three turns of one request, two plans, two restarts: one offer per life of the process, reports take nothing back, outcomes are recorded once the turn has let go |
| `turn_runner` | 73k | Four turns of two requests, a history of two, two threads, a shutdown: no two live remembered turns of one request, turns end |
| `workspace` | 150k | Twelve casts of two or three actors on one project (messages, decisions, uploads, deletions of a reference and of the project, a rename, the start-up read, a restart, alone or before a deletion), with every form of upload and every kind of outcome: the transcript explains what turns leave behind, listed references have their bytes, what needs approval is the parked plan and was approved, also where an approval and a rejection of it cross, an undisturbed deletion leaves nothing but artifacts whose report a restart lost, every turn ends |
| `artifacts` | 6.8M | A plan and a move, each delivered any number of times, two crashes, three renders that all differ, two fetches, a deletion, a project file being written: what is served under an identity never changes, unless it was deleted and rendered again; what was reported can be fetched; no half-made project file is used |
| `assistant` | 230k | Every capability with good arguments and with one odd, missing or unknown, from four providers, through both tables of arguments and the job schema, to a Blender that raises, fails to save, is killed, runs code that saves by itself, replies without a status, or whose server stops: what the agent accepts the back end understands, accepted plans make jobs, what a script says is done is saved, only a Blender whose server stopped saves late, the worker is never stuck |
| `scene_version` | 783k | Scenes of up to three objects with every odd value in one of them, two changes and three readings in any order: a plan goes on only on the scene it was made for, to one quantum; an untouched scene is never stale; what is reported breaks six rules of the snapshot contract at most, those nobody checks (section 5) |
| `move_chat` | 314k | Two projects with one request id, seven sentences and three other plans, one break of the link or the control plane anywhere: one move per request, a client is told what happened, and a queued job of a client that asks again ends |
| `agent_login` | counterexample | A superseded sign-in ends the one that superseded it (section 5) |

The root modules except `WorkerGateway`, `Artifacts` and `CodexLogin` state a type
invariant, `TypeOK` (`AssistantTypeOK`, `SceneTypeOK`, `RunnerTypeOK`), which TLC
found to hold on the same instances; those of
`MoveExecutor`, `CapabilityExecutor`, `JobRecords`, `ResultDelivery`,
`TurnRunner` and `MoveChat` are proved. It is not repeated among the runs'
properties. The proofs of `WorkerGateway` and `Artifacts` carry one of their own.

**Why the bounds are enough.** Three deliveries are the least with an
interrupted attempt, its retry and a rival job in one behaviour; two jobs of one
identity plus one that undoes the move is what every counterexample to a
weakened executor needed. Two objects' places are enough to tell "as planned"
from "elsewhere". Two offers of one job and one of another of its identity, with one drop, give
a result lost and resent, a replay, and an answer from another job's record. Two
plans and three turns give a record from one turn, an offer from the next, and a
third that finds the outcome. A history of two with four turns evicts an
unfinished turn while a newer one of its request lives. Three connections are
one that dies unnoticed, its successor, and one more that finds both; one fault
is enough to separate them, and the same run with two faults (1.1 million
states, five minutes) found nothing else. In `workspace` each hazard of
`PROJECT.json` needs two actors, and the casts are the pairs that touch the same
rows or files; a third turn is there only to be the same request sent again. One
page is enough to be added late. Three renders and two crashes give a
job an interrupted attempt, another outcome on the next, and a rendering after the
deletion; two fetches are one answer before and one after. One Blender that saves
late (`MaxLate`) is what separates a reading from the step that follows from it. Three objects are two and
a duplicate of one; places lie around a rounding boundary on both sides. Each
property was also checked against a plausible bug of the code (listed under
`mutants`), and is violated by it within these bounds.

**Fairness, and why the code justifies it.**

* `MoveExecutor`, `CapabilityExecutor`: weak fairness of each worker's own
  steps. `execute` is a sequence of calls on one thread, the Blender run has a
  timeout, and the lock is tried without waiting, so an attempt never blocks on
  another one. Crashes, deliveries and edits have no fairness.
* `ResultDelivery`: weak fairness of the worker's loop while its process lives,
  and of the control plane's event loop. The worker retries connecting with
  bounded backoff. The control plane offering a job, or anything failing, is not
  required, and nor is `Restart`: the scripts start a worker once, and nothing
  starts it again. `ResultsArrive` therefore has that as its premise
  (`[]<>(pc # "crashed")`), an assumption about whoever runs the studio, and is
  only claimed where a drop loses nothing sent: the protocol has no acknowledgment
  of results.
* `WorkerGateway`: the event loop, its sender tasks, the turn threads and the
  worker's loop keep running. Heartbeats are not fair: the property is that
  nothing waits for them.
* `JobRecords`: threads of a live process run on; a worker answers what it was
  offered.
* `TurnRunner`: the pool's threads run on and a model call ends, since each
  provider runs its subprocess with a timeout.
* `Workspace`: threads run on, the model answers or fails in time, the wait for
  a scene has a deadline. Nobody has to send anything, and the worker may never
  answer: that is what `TurnsEnd` is about.
* `Assistant`: providers and the session have deadlines; the user need not
  decide, and neither the limit of the server nor its stopping is required.
* `MoveChat`: the worker connects again, loop and worker go on, and the client
  sends its request again, as the code's own message tells it to. That last is
  strong fairness, and an assumption about the client rather than the code:
  without it a queued job is nobody's to offer, and `RetriedRequestsEnd` is
  stated for such clients only. `Observe` is strongly fair because a request in
  hand disables it for the moment of a coroutine.
* `Artifacts`, `SceneVersion` and `CodexLogin` claim safety only.

## 4. What is proved

Twelve specifications have theorems about them, in eight modules. Each proof has the
same outline: an inductive invariant (`IndInv` in most modules), a conjunction of
named parts, which TLC found to hold on the run's instance before it was proved; a
lemma for the initial states;
one lemma for each part, with one step for each action that can disturb it; and
the properties from the invariant and, for action properties, a case split on `Next`.
What is assumed is what the module's own `ASSUME` says of its constants, and TLC
evaluates that in the module's run.

### The move executor

`MoveExecutor_proofs` proves, for any workers, jobs, keys, positions and
bounds, and any damage and crash in any order:

| Theorem | States |
|---|---|
| `Invariance` | `Spec => []IndInv` |
| `TypeCorrect`, `KeysHaveOnePlan`, `SuccessIsHonest`, `PreviewIsHonest` | the invariants `TypeOK`, `OnePlanPerKey`, `SuccessWasConfirmed`, `PreviewIsStored` |
| `NoDoubleMovement`, `JournalComesFirst`, `PlansAreFinal` | the action properties `NoConsecutiveMoves`, `MutationFollowsJournal`, `PlanIsNeverRecomputed` |
| `ExecutorKeepsPromise` | `Spec => PromiseKept`: the executor refines `MoveLedger` |

Its only assumption is `ConstantsAssumption`: types of the constants, and that
the marker values are not jobs, plans or workers.

**The argument.** None of the properties is inductive as it stands. "No job
moves the object twice in a row" holds because (`LastMoverInv`) after a job's
move the object is at the end of the plan in that job's record, and a job moves
only from the start of its plan to the end of it: two different places, since
`AtPlanStart` excludes a plan already carried out. That needs the plan in the
record to be the one the worker carries out (`ProgressInv`), records not to be
changed by others (`LockInv`: whoever is past the lock holds it), and one record
per identity (`BindingInv`: a record exists only for the owner of its key, or
the binding is unreadable, in which case nobody gets past it). `RecordInv` ties
phases to what they promise. `IndInv` is their conjunction; each action keeps
each conjunct it can disturb, one step of the proof per action. The action
properties follow from `IndInv` and a case split on `Next`. For the refinement
the committed plan of a job is the plan in its record, and `Void` once the
record is unreadable: making a plan is `Commit`, applying it `Apply`, damage
`Forget`, other work `Edit`, and every other step stutters.

### The job records

`JobRecords_proofs` proves, for any plans and any number of turns and restarts:

| Theorem | States |
|---|---|
| `RecordsConsistent` | `Spec => []IndInv` |
| `RecordTypes`, `RecordedSuccessIsReal`, `OneOfferPerLife`, `AdoptionIsForLoss` | the invariants `TypeOK`, `SuccessIsTheWorkers`, `OfferedOnce`, `AdoptionMeansLoss` |
| `ReportsKeepEndings` | the action property `ReportsNeverRegress` |

It assumes `ConstantsAssumption` (types of the bounds, `NoPlan` is no plan) and
`NoRowAssumption` (`NoRow` is no record).

**The argument.** A success reaches the row through a report under way, the
report in hand, or a thread's copy of the row: `HonestInv` says that none of
these holds one before the journal does. `OfferInv` says where the one offer of
this life of the process can be seen: in the row, which names a worker or is
finished, or in the turn that is about to save it, and no other turn is then on
its way to offer. It needs `TurnInv`, that a turn past the store holds a copy
that was unfinished when read and counts as one that may still offer. `AdoptInv`
says that a process that kept its records has one for every job it can hear of.
`ReportsNeverRegress` needs `LoopInv`: a row can become unfinished behind the
reconciler's back (the turn's save, divergence 4 of section 5) but not finished,
so a finished row is as the report found it. One lemma, `ReportEffect`, says
what all four reconciler actions do to the row; the invariant's lemmas rest on
it.

### The capability executor

`CapabilityExecutor_proofs` proves, for any workers, plans, scenes and required
versions, with crashes, damage and edits in any order:

| Theorem | States |
|---|---|
| `Invariance` | `Spec => []IndInv` |
| `TypeCorrect`, `DecisionsAreFresh` | the invariants `TypeOK`, `DecidesOnFreshScene` |
| `BuildsOnce`, `RecoveryPointIsPristine` | the action properties `NothingIsBuiltTwice`, `RecoveryIsPristine` |

It assumes `ConstantsAssumption`: types of the constants, and that marker values
are none of what they mark.

**The argument.** A worker decides on what it last read, and reads again after
each call of Blender; that its reading is the scene (`DecidesOnFreshScene`)
needs that nobody else changes the scene meanwhile, which is `LockInv`: between
acquisition and release one worker holds the lock, and every other effect but a
late save takes it too; a worker such a save surprises is in `missed` until it
reads again. Then a creation that would add an object is carried out only if the
object is not in the scene as it is, so `NothingIsBuiltTwice` holds whatever the
journal lost. The recovery copy is pristine because (`WorkInv`) no step of a
changing plan is carried out before its record has one, and (`CopyInv`) a
readable record without one is of a job without effects, nor (`LateInv`) is a
Blender left running by such a job; a damaged record is refused, never begun anew.

### The delivery of results

`ResultDelivery_proofs` proves, for any jobs, offers, drops and crashes, over
links that lose messages and links that do not:

| Theorem | States |
|---|---|
| `Invariance` | `Spec => []IndInv` |
| `TypeCorrect`, `ReportsAreHonest`, `ReadyOwesNothing`, `FlagIsTrue` | the invariants `TypeOK`, `ReportsAreTrue`, `OwesNothingWhenReady`, `DeliveredMeansReached` |

It assumes `ConstantsAssumption`. Its first lemmas say what appending to a queue,
taking its head and losing its end make of the messages in it.

**The argument.** `TruthInv` follows a success from what some record of the
identity shows as carried out, which no replay takes back, over the wire into the
control plane's record; `WorkInv` says what the worker's place in its loop means for the
job at hand. `OweInv` is the account the worker has to settle: at each place of
the loop it says which endings may still be undelivered (those `reconcile`
listed, the job at hand, none). `ReachInv` does the same for the flag where
nothing is lost: marked, or about to be marked, is known at the other end or on
the wire. A flag set on a connection that broke is why `OweInv` speaks of live
connections and `ReachInv` of links that lose nothing.

### The worker gateway

`WorkerGateway_proofs` proves, for any number of workers, connections and jobs
and any faults:

| Theorem | States |
|---|---|
| `Invariance` | `Spec => []IndInv` |
| `RegisteredIsAttached`, `OffersExistOnce` | the invariants `RegisteredIsReachable`, `OffersAreKeptOnce` |

It assumes `GatewayAssumption`: types of the constants, and that `Nobody` is none
of the things it stands in for.

**The argument.** Three parts say who is connected. `AttachInv`: the manager's
record and the gateway's sink of a worker are set and cleared together, and the
one names the other. `NameInv` and `HelloInv`: a connection has a name from the
acceptance of its hello on, that of the worker which opened it, and a hello is
the first message of its connection and unread only while its worker still waits
for the answer. Hence (`ClientInv`) the connection a worker uses is its sink from
the moment the hello is accepted until the server ends it: an older connection's
end finds that it is not the sink any more (the guard of `detach`), and an older
hello cannot be accepted late. `RegisteredIsReachable` follows.

That an offer exists once needs a name for every place it can be in: a position
in the queue for an absent worker, in a connection's queue or on its wire, or
the hands of a worker (`Holds`). `KeptOnce` says that no two of these places hold
the offer of one job, and none does before the job is offered. A turn puts it in
one place; each other step leaves it, moves it on, or drops it with its
connection. So that this is not argued anew for each action, the lemma `Shapes`
sorts all steps into accepted hellos, new connections and calm steps, and each
part of the invariant is proved for the three shapes.

### The artifacts

`Artifacts_proofs` proves, for any jobs and browsers, renders that all differ,
crashes and a deletion:

| Theorem | States |
|---|---|
| `Invariance` | `Spec => []IndInv` |
| `ArtifactsAreImmutable`, `ReportsCanBeFetched`, `ProjectsAreWhole` | the invariants `ServedIsImmutable`, `ReportedIsServable`, `ProjectFileIsWhole` |

It assumes `ArtifactsAssumption`.

**The argument.** Bytes are written before the metadata that names them, and
nothing is served without metadata. So bytes may be replaced by a later attempt
only as long as nobody saw them: what is being written is an identity without
metadata that nobody was shown (`WorkerInv`, `Fresh`), or one of `again`. While the
project is there a record refers only to what is there (`RefsInv`), so a job that
is delivered once more renders only what no answer was about. `FilesInv`:
metadata lies beside the bytes it names, or where a deletion took the bytes of a
job with a record; `RemovalInv`: only such jobs' files are removed. `Denotes` is
what a tag or a body once handed out stands for: those bytes, or none ever again
unless in `again`. It is kept by every write and every unlink, which is
`ServedIsImmutable` across time. That a project file is whole (`ProjectInv`) rests
on Blender being told the staged name: a mutant in which it is told the project's
own name is refuted.

### The message to Blender

`Artifacts_proofs` also proves about `Assistant`, for any names, replies, providers
and limits:

| theorem | |
|---|---|
| `MessageInvariance` | the inductive invariant `MessageInv` |
| `AcceptedAlwaysUnderstood` | the invariant `AcceptedIsUnderstood`: what the agent accepts of a model the back end understands |
| `PlansAlwaysBecomeJobs` | the invariant `PlansBecomeJobs`: only a blank label keeps an accepted plan from becoming a job |
| `LateSavesAreAlwaysOrphans` | the action property `LateSavesAreOrphans`: while no step is waited for, only a Blender whose server has stopped writes the project |
| `OkIsAlwaysSaved` | the action property `OkIsSaved`: what a script reports done is in the file, but for code the user approved |

It assumes `ModelAssumption` (a name is not one of the list shapes, so it is
handed on as it is; the limit of operations is a number) and `RepliesAssumption`
(a response holds a list of operations).

**The argument.** The heart are the two tables, written apart in the code:
`TablesAgree` says, capability by capability, that a handler reads no argument
but those of the agent's table, each required there if the handler needs it and
of the same kind or a narrower one; `KindsSuit` that what `_coerce` makes of any
value it takes, the back end coerces. From these, `ValidatedIsUnderstood` follows
for all arguments, and `JobsFit` for the whole job: the reading before it, its
steps with the user's approval on the flagged ones, the export after it.
`StepsInv` then carries fitness from the list to the request in hand. For the
file, `NoneLeftBehind` says that only a server that has stopped leaves a Blender
behind, which is `LateSavesAreOrphans`; until then the Blender that runs is the
request's own, and once it has ended with a status of its script's the file is as
Blender had it (`FileInv`). A Blender that is left behind may still save, but its
request has been answered, or will be, with the server's failure, which promises
nothing. A reply without a status promises nothing either, though the code takes
it for success, and code the user approved may have turned Blender to another
file: `OkIsSaved` excepts both, and they are divergences in section 5.

### The deprecated chat

`MoveChat_proofs` proves, for any projects, request ids, sentences and other
plans, and any number of breaks:

| Theorem | States |
|---|---|
| `Invariance` | `Spec => []IndInv` |
| `TypeCorrect`, `RequestsMeanOneMove`, `AnswersAreTrue` | the invariants `TypeOK`, `OneMovePerRequest`, `ToldAsItIs` |

It assumes `ChatAssumption`.

**The argument.** While the database is there, a request's one record
(`SingleInv`) names the move of everything else there is of it (`MoveInv`): the
commit in hand, the offers, what the worker is at, what was promised and what
was done. A record's move never changes, so a request means one move. A success
is in the worker's journal before it is reported, recorded or told
(`JournalInv`), and that part needs no database: it holds of adopted results too.

### The turns

`Workspace_proofs` proves about `TurnRunner`, for any turns, requests, history
and pool:

| Theorem | States |
|---|---|
| `RunnerTypeCorrect`, `RetriesJoin` | the invariants `RunnerTypeOK`, `OneLiveTurnPerRequest` |

It assumes `RunnerAssumption`. **The argument** is one fact (`LiveInv`): the
index leads from the request of an unfinished turn of the table to that very
turn. The history drops the oldest turn, finished or not, from the table and
from the index only if the index still names it, so neither a drop nor a late
ending parts the two.

### The workspace

`Workspace_proofs` proves about `Workspace`, for any turns, sessions, uploads,
pages, model outcomes and restarts, and any actors at once (nothing depends on
`Casts`):

| Theorem | States |
|---|---|
| `Invariance` | `Spec => []IndInv` |
| `EffectsAlwaysExplained`, `FlaggedAlwaysApproved`, `RowsAlwaysHaveFiles` | the invariants `EffectsAreExplained`, `FlaggedRunsOnlyIfApproved`, `RowsHaveFiles` |
| `DeletionAlwaysComplete` | the action property `DeletionIsComplete` |

It assumes `StoreAssumption` (`RequestOf` maps turns to requests, `Nobody` is
neither a turn nor an approval) and `OutcomesAssumption` (what a model may come up
with). Its invariant has three parts that were checked by TLC with wider casts
than the run's, deletion, restart and rename together among them.

**The argument.** *Turns.* No action of a turn but `Tell` leads past the places
before it, so a turn that is at work has its words in the transcript (`ToldInv`),
and the transcript only grows until the project is deleted. A decision starts from
an approval, which a turn left. `PlanInv` ties a thread to a plan of its own turn:
a message's thread that goes on to a job has a plan nothing in it is flagged, and
one that parks ends there; `ApprovedInv` says that the row of a decision under
way has the plan in hand, that one which goes on was approved by the user, and that
the row, once it is not pending, has one of the decisions the user made (`Settled`).
Two decisions may be under way, and each keeps this for the other: a row is
written once, its plan never changes, and what the user said is not taken back. So
an offer stays sanctioned while it travels.
A restart ends every thread, and what remains are rows.

*Uploads.* A row exists only for a page the event loop has passed (`Added`), which
is never the page in hand. So what `CannotDerive` removes has no row; `Transact`
takes the rows of an upload before `Unlink` takes the bytes, and those rows cannot
come back, since the ids that were read are passed as well (`AddedInv`). A page added
between the two keeps its row and its bytes.

*Deletion.* An artifact without a row is one whose report is on its way or in
hand, or was lost to a restart (`RecordedInv`). A deletion that begins when nothing is
under way therefore lists every artifact but the last kind, and `ErasureInv` says
what each of its steps leaves, as long as no step of another came between.

Three lemmas (`Shapes`, `FileShapes`, `ReportShapes`) sort the steps by what they do
to the state each part is about. Not proved is `TypeOK` of the tables: a row's
creation time and its place in the transcript are defined by a maximum over a set
and a filtered sequence, whose types are inductions.

### The scene and its version

`ResultDelivery_proofs` also holds the theorems about `SceneVersion`, for any
names, ranks and places, scenes of any size, and any number of changes and readings:

| Theorem | States |
|---|---|
| `SceneInvariance` | `SceneSpec => []SceneInv` |
| `BreachesAreAlwaysKnown` | the invariant `OnlyKnownBreaches` |
| `PlansGoOnOnTheSceneSeen`, `UntouchedIsNeverStale` | the action properties `GoesOnOnTheSceneSeen`, `UntouchedIsNotStale` |

It assumes `RanksOrder` (strings are ordered, no two alike) and
`ScenesAssumption` (places are integers, and Blender starts with objects as
`Objects` has them). The model's bounds are in no assumption.

**The argument.** `SceneInv` is short: the row's scene passed the worker's checks
(`Reported`) and the row's version is that scene's, and so it is for a plan under
way; nothing in it is disturbed by what happens in Blender. The work is in the
digest. The keys of a digestible scene are ordered strictly (`KeysAreOrdered`), so
the number of objects before one, its `Place`, differs from object to object
(`PlacesDiffer`) and, since there are as many places as objects, every place is
taken (`PlacesAreTaken`): `Ordered` lists each object once. That count depends on
the set of objects only, not on how Blender lists them (`OrderedIsOfTheSet`), and
hence a scene with the same objects has the same version: `UntouchedIsNotStale`.
The other way, equal versions have equal projections place by place, and two
objects of one projection agree in everything but where they are, and there they
round to the same quantum; `RoundingIsNear` bounds what rounding half to even
moves a number by, half a quantum, and so two such are one quantum apart at most:
`GoesOnOnTheSceneSeen`.

### Signing in

What `agent_login` refutes is that attempts leave one another alone. What the code
does keep, for any number of attempts, is the reason it gives for superseding
(`codex.py:254`: two callback servers "would fight over the same port"):
`OneCallbackServerRuns`, in `Artifacts_proofs`, proves `OneCallbackServer`, that no
two CLIs run together and that the one that runs belongs to the session shown.
`LoginInv` says that a running CLI is watched, and that what is watched is shown;
every step that stops watching one has ended it first (`TerminatedEndsAll`) or found
it ended. TLC found `LoginInv` to hold for three attempts; nothing is assumed.

### What is only model-checked

Every safety property of a passing run is proved. Left to TLC is

* the counterexample of `agent_login`, `GivingUpEndsOnlyItself` (section 5);
* everything about liveness: `LockIsReleased`, `AttemptsEnd`, `ResultsArrive`,
  `OfferedJobsEnd`, `TurnsFinish`, `TurnsEnd`, `OffersReachSilentWorkers`,
  `StepsAreAnswered`, `RetriedRequestsEnd`.

Liveness under fairness and `ENABLED` are outside what the installed provers do,
as is induction over data; no module uses a `RECURSIVE` operator of its own, so
that every one of them can be proved about.

## 5. Where the code and its own statements part

With a run that shows it:

1. *A superseded sign-in ends its successor* (`agent_login`). `codex.py:254-255`
   says a second attempt supersedes the first. The first, still reading what its
   CLI prints, then gives up by `cancel_login()` (`codex.py:454`), which ends
   whichever attempt is current: the second one's CLI, and the link its user was
   just shown.

Seen while modelling; the models contain them, and the properties are stated so
that they are true beside them:

2. *A durable phase is executed again.* `phases.py:67-69` says a retry that
   reaches a durable phase must never mutate again. The tuple is read nowhere:
   `executor.py:279` short-circuits for `COMPLETED` only. In most states the
   mutation then finds the object at the end of its plan and does nothing; if
   another job has put it back, it moves it once more.
3. *Creations without an id.* `object_id` is optional, and without one neither
   `_already_satisfied` nor `_verify` (`capability_executor.py:572`) can
   recognise what was built: the step fails although it was carried out, and each
   attempt builds another one. Blind steps are repeated after a crash likewise.
4. *An outcome taken back, and the wrong plan on record.* `_create_job` saves
   its own copy of the row after offering the job (`design_chat.py:427`) and
   overwrites what the reconciler recorded in between; and a request sent again
   after no worker was ready offers the new plan under the record of the old one
   (413). The deprecated chat (`chat_service.py:307`) offers `record.job` and is
   right.
5. *The worker gives up.* A connection lost between hello and registration
   leaves no error code; `register_with_retry` (`main.py:230`) takes that for a
   refusal and the process ends with status 1.
6. *A busy worker is shown as offline.* A job runs on the thread that sends
   heartbeats (`client.py:276`), and progress does not refresh liveness
   (`manager.py:227`), so a plan longer than the grace period makes the worker
   `LOST` while it works.
7. *A scene that cannot be digested ends the worker.* `normalize.py:4` promises
   a structured failure; two objects with one stable id (a duplicated object
   carries its original's) or a blank name raise `SceneDigestError`, which
   `_read_scene` lets through, and no caller up to the main loop catches it.
8. *"Nothing was modified".* A crash after the first step reached the project
   and before it reached the journal makes the retry meet its own change as a
   version mismatch (`capability_executor.py:281-293`). The answer to a step the
   server killed says nothing was saved, which is false if it was killed after
   its save (`backend.py:75`); so is that of a step too large for its reply
   (`backend.py:78-83`, "nothing from it was saved").
9. *A completed plan un-completed.* Replaying a completed plan whose preview or
   model is missing saves the record at `preview_generated` or `model_exported`
   when it was attached (`capability_executor.py:220-243`) and never puts it back
   to `completed`. The next delivery executes the plan once more, with every step
   skipped as recorded; if the scene cannot be read then, a plan that was
   reported as done is reported as failed. The move executor does put its record
   back.
10. *Delivered without acknowledgment.* `result_delivered` is set when `send`
    returns (`client.py:366-385`); over a connection that loses what it accepted
    the result is never resent. If a job is offered twice and the first offer
    fails, the success of the second meets a terminal record and is dropped
    (`reconciliation.py:155`).
11. *An evicted turn is duplicated.* The turn buffer drops the oldest turn even
    when it is unfinished (`turns.py:179`); the same request then starts another
    model call. The comment at `turns.py:53-54` says one turn at a time;
    `DEFAULT_WORKERS` is 2.
12. *A deleted project comes back.* Whoever found the project before its
    deletion puts its row back (`ensure`, for instance `routes/projects.py:139`),
    and with it whatever it was about to write. `DeletionIsComplete` is therefore
    about deletions nothing runs beside. And `routes/projects.py:203` promises the
    project's previews gone, but what is deleted are the artifacts that have a row:
    one whose report was lost to a restart, between the worker's write and
    `_record_artifact`, stays on the disk (`orphans`).
13. *Pages without a document.* A PDF deleted while its pages are added
    (`ingest/service.py:157`) leaves page rows nothing lists, and their bytes; a
    crash between pages leaves a shorter document, which the next upload of the
    same file is answered with.
14. *An approval of another scene.* An approved plan carries the version of the
    scene at the time of the decision (`design_chat.py:563`); a plan that holds a
    refused step beside a flagged one is parked, and the refused step comes back
    from the worker after the approval (`AcceptedIsUnderstood` makes that
    exception).
15. *A picture counted as seen.* Deliveries are recorded before the model is
    called (`context_builder.py:98`): if the call fails, the next turn leaves the
    picture out. A pending question is closed by an error as by an answer.
16. *Two decisions of one plan.* `decide` is documented to refuse a second
    decision (`repositories.py`, "exactly once"), but reads the row, updates it
    `WHERE decision = 'pending'` and does not look at how many rows that changed
    (`repositories.py:539`). An approval and a rejection that cross both go on: the
    plan runs, and the row may say it was rejected. `TurnRunner` joins the second
    to the first only while the first is in its history.
17. *A Blender nobody waits for.* The session gives up on a call without
    cancelling it (`session.py:228`), and the executor answers and lets the lock
    go. Blender then saves the project as it read it: what was done meanwhile is
    lost, or a wall the retry did not see is there twice (`LateSave`). The session
    waits longer than the server's own limit, so this takes a server that stopped
    (`LateSavesAreOrphans`).
18. *A preview deleted and rendered again.* After the project's deletion a move
    that is delivered once more finds its preview gone from the store and renders
    another one under the same identity; `routes/artifacts.py` lets browsers keep
    the first for a year, and an answer begun before the deletion may carry the
    old ETag with the new bytes.
19. *Code that saves for itself.* Authored code may call
    `bpy.ops.wm.save_mainfile`, which `code_risk.py:106-124` does not flag (the
    tests of the MCP server do it), and then fail: a step that is reported as
    failed has then changed the project. `SystemExit` passes the script's
    `except Exception`, where `backend.py:118-123` speaks of a `finally` that
    always reaches the tail: Blender ends without a word.
20. *A reply that says nothing is a success.* `session.py:268-277` turns replies
    that are not the script's JSON into `{}`, `{"text": ...}` or `{"value": ...}`,
    and `_settled` (`backend.py:377`) takes a payload without a status for "ok":
    such a step is reported as done though nothing may have been saved. The
    capability executor reads back what has an end state; a blind step counts.
21. *No reported scene is valid.* `normalize.py:140-148` reports the length unit
    as "m", and the schema of `scene-units` wants capitals
    (`^[A-Z][A-Z_]*$`, METERS): `validate_scene_snapshot` refuses every snapshot
    the worker reports, and nothing on the way calls it. The other rules the
    worker does not look at are a scale length of zero or less, an object's scale
    of zero, an empty or blank id, the type of an object and a material's name:
    `Unchecked` in `SceneVersion`.
22. *Labels and the legacy grammar.* A label of spaces passes the agent and
    fails the job's schema. The rule-based provider proposes `delta_meters` to
    the design chat, which no handler takes: every such plan comes back as
    invalid, which is why `AcceptedIsUnderstood` speaks of the model's providers.

## 6. What is not modelled, and the plan

Done: the modules of section 2, in the order `MoveLedger`, `MoveExecutor`,
its proofs, `CapabilityExecutor`, `ResultDelivery`, `JobRecords` with its
proofs, `TurnRunner`; then `WorkspaceStore` to `Workspace`, `WorkerGateway`,
`Artifacts`, `ModelResponse` to `Assistant`, `CodexLogin`, `MoveChat`,
`SceneVersion`.

Next, an abstract statement of a creation (`CapabilityExecutor`: a step that can be
recognised is built once, whatever attempts there are) and its refinement, beside
that of `MoveLedger`; and the type invariant of the tables of `Workspace`.

A module worth adding is `WebSession`: the two reducers of the web application
with their pollers and late answers; every message settles, and an answer
changes only the message it belongs to (`useWorkspace.ts:145` stops the poller of
an earlier job).

Left out for good, with the reason:

* *Rendering and generated geometry* (`render_preview.py`, the bodies of
  `scripts.py`, `materials.py`, `synthesize.py`, `sizing.py`, `angles.py`,
  `colors.py`): floating-point computation without state. What a script leaves
  in the file and says is modelled, not the shape it makes.
* *The risk classifier* (`code_risk.py`, `capability/classifier.py`): a walk over
  Python syntax trees. Its three verdicts are a choice wherever code enters.
* *Prompts, titles, messages and views*: text for people and for the model.
  Language model output is an arbitrary choice wherever it enters a module.
* *HTTP parsing, authorisation, settings, migrations and connection handling*:
  stateless, or the libraries' own.
* *Schemas and parsers* beyond what section 2 names: one decision per field,
  tested in both languages against shared fixtures.
* *The TypeScript packages*: mirrors of the Python ones with parity tests.
* *Signals, the command line, progress messages, ping*: nothing a result
  depends on.
