# TLA+ verification of Wizard's Lyre

Wizard's Lyre is a local music generator: a FastAPI server with a durable job
queue, a separate worker process that renders with ACE-Step (or hands the
render to a Remote GPU host), takes stored as directories on disk, and a web
client. This directory holds specifications of its concurrent core, the TLC
configurations that check them, and TLAPS proofs.

Paths below are relative to the repository root.

## 1. The system

| Part | Code | State it keeps | Operations |
|---|---|---|---|
| Job queue | `server/jobs/queue.py`, `db.py` | table `jobs` in `jobs.db` | enqueue, claim, reclaim, heartbeat, fenced writes, cancel, retry |
| Attempt runner | `server/jobs/runner.py` | local variables of one attempt | run a claimed job, commit a take, record a failure, clean staging |
| Project deletion | `server/jobs/deletion.py` | table `project_deletions` (tombstones) | begin, remove, abort |
| Take storage | `server/storage/takes.py` | `projects/.staging/`, `projects/<id>/takes/` | stage, promote (one rename), discard, error take, active take |
| Projects and plans | `server/storage/projects.py`, `plan.py` | `project.json`, `plan.json` with a revision | create, save, merge a planned brief, delete |
| Project lock | `server/storage/locks.py` | `.project-locks/<id>.lock` | acquire (steal when stale), refresh, release |
| Worker loop | `worker/run_worker.py` | OS lock file, worker lease row | acquire both, reclaim, clean, claim, run, release |
| Worker registry | `server/jobs/worker_registry.py` | `worker_lease`, `worker_status`, `worker_capabilities` | acquire, renew and release the lease, publish status |
| Backends | `worker/acestep_worker/`, `worker/mock_worker.py` | loaded model, LoRA | `run_job`, `train_lora` |
| Remote GPU client and host | `worker/remote_backend.py`, `worker/remote_host/` | host: job records, queue, client ids | submit, poll, download, ack, cancel, prune |
| Remote GPU sessions | `server/remote_gpu/` | saved session, connection | start, adopt, refresh, stop |
| `/v1` API | `server/v1/` | table `idempotency_keys` | reserve, replay, remember, release; songs |
| MCP adapter | `server/mcp/` | none (a client of `/v1`) | tools, tasks |
| Web studio, export, backup, scripts | `web/`, `server/storage/export.py`, `server/backup.py`, `scripts/` | files, UI state | reads, file output |

The HTTP process and the worker process never call each other. They meet in
`jobs.db` (every write is one `BEGIN IMMEDIATE` or one statement), in the
projects tree (guarded by the project lock) and in nothing else. Inside the
worker, a heartbeat thread runs beside each job; it renews `heartbeat_at` and,
past the deadline, settles the row and ends the process.

What makes this hard:

- **A commit spans two stores.** A take is renamed into `takes/`, then the row
  becomes `done`, then `project.json` gets its active take. A crash fits
  between any two.
- **Attempts overlap.** A heartbeat that lapses (a suspended machine, a hung
  decode, a dead thread) makes another attempt start while the first still
  runs. The attempt token fences its writes, where the code checks it.
- **Cancel is cooperative.** It is a flag that the worker reads at a few
  points, and it races the commit, the watchdog, and reclaim.
- **Deletion is not one step.** Tombstone and sweep, then the directory, then
  perhaps an abort; jobs may be running meanwhile.
- **Snapshots.** A job renders what was frozen when it was submitted and when
  it was first resolved, though plans are edited and attempts repeated.
- **Outside services** (Remote GPU host, Runpod) lose replies and bill money.

For each part, what makes it correct: the queue - jobs settle once, cancels and
attempt limits hold, nothing is lost; the runner - one take per job, published
only by its owner, `done` implies a take; deletion - nothing comes back, an
abort gives back what was taken; storage - a take appears whole, the user's
kept take is never replaced; the draft - explicit words survive, newer text
wins; the lock - one holder; the loop - one GPU occupant, and each take made by
the model and the style pack it names; the remote host - one render per submit;
sessions - the record of a pod that bills is kept; idempotency - one effect per key;
backup - a done row has its take. `PROJECT.json` lists the
hazards at their lines, with the properties that cover them.

## 2. Modules

| Module | What it is |
|---|---|
| `JobQueue` | the state machine of queue, runner, deletion, staging, worker loop, heartbeat |
| `JobQueueProperties` | its invariants, action properties, refinement and liveness |
| `JobLifecycle` | the abstract specification: what the queue promises for each job |
| `CreationBrief` | the creation contract as pure operators: writes, presets, resolution, merge |
| `PlanDraft` | one project's draft under its writers and its jobs, over `CreationBrief` |
| `ProjectLock` | the lock file of a project |
| `ModelLoading` | what a worker process holds on the GPU, and how loads fail |
| `WorkerProcess` | OS lock, lease, loop, renders and LoRA trainings, over `ModelLoading` |
| `RemoteHost` | the Remote GPU host |
| `RemoteRender` | the remote backend and its network, over `RemoteHost` |
| `RemoteSession` | rented pods against a provider that bills |
| `SongRequests` | `/v1` POSTs behind the idempotency middleware, and the songs endpoint |
| `Backup` | backup and restore beside the queue's rows and takes |
| `...Proofs` | the theorems about the module before the `Proofs`, and their proofs (section 4) |
| `MC...` | instances for TLC of the module after the `MC` |

How they fit. `JobQueue` is the centre: the others are the parts it takes as
given, each opened up on its own. It takes the project lock as mutual exclusion
(`ProjectLock`), one loop as what usually runs (`WorkerProcess`), a plan as its
revision (`PlanDraft`), a submission as one insert (`SongRequests`), a remote
render as a handle that is recorded (`RemoteRender`). Composition in one state
space is used where components meet in every step: host and client in
`RemoteRender`, process and model in `WorkerProcess`, contract and draft in
`PlanDraft`.

Every module has a `TypeOK` that documents its state; it is a checked property
of `JobQueue` (where the attempt limit makes it worth one) and was also found to
hold on the instances of the other runs.

### `JobQueue`

| Variable | Code |
|---|---|
| `jobs` | the rows of `jobs`: status, cancel flag, attempt token, attempts, staleness of the heartbeat, frozen creation and brief, remote handle, take, `retry_of` |
| `files` | per job and attempt, its take directory: `bare` and `staged` (in `.staging/`, without and with the owner marker), `take` (in `takes/`), `error` (a meta.json with `error`), or none |
| `onDisk`, `tombstones` | whether `project.json` exists; `project_deletions` |
| `revision`, `active` | the live plan's revision; `active_take_id` |
| `clock` | order of `created_at` |
| `worker` | per process: where it is in the loop or in the attempt, the claimed row's snapshot, the mode of its heartbeat thread, and what a cleanup has read: the staged takes it has yet to look at (`listed`), those among them without a marker (`bare`), the one it is to discard (`doomed`) |
| `request` | per HTTP handler: a submission, retry or deletion between two of its steps |

An action is one SQL transaction, one file operation, or one read whose result
is used later. `BEGIN IMMEDIATE` is `DbFree`: only the commit of a take holds
the write lock over several steps (`promote`, `unmarked`, `renamed`, `merged`),
every other transaction is one action. The project lock is `LockFree`: held
while a staged take is allocated (`mark`) and from the commit's check to the
active take. A cleanup takes no lock.

- *Handlers*: `Submit` reads the plan, `Insert` is the tombstone check and the
  insert, `Reject` any validation error. `Retry` reads the original; `Load`,
  `Insert`, `Patch` are the enqueue and the second transaction; `CancelHeld`
  cancels a held job first. `DeleteBegin`, `DeleteFiles`, `DeleteFails`,
  `DeleteAbort` are `remove_project`. `CancelJob`, `EditPlan` and `KeepTake`
  are one transaction each. `ServerCrash` ends every handler where it is.
- *Loop*: `Reclaim`, the cleanup, `Claim`, as in `run_loop`; `Crash` at any point.
  The cleanup is `Cleanup` (list the staged takes with their markers), then for
  each of them `Judge` (read the row its marker names) and `Discard`.
- *Attempt*: `CancelCheck`, `FindCommitted`, `FinishExisting`, `Resolve`,
  `Allocate` (the directory) and `Mark` (its owner marker), then the backend
  (`Freeze` or `RecordHandle`, `Render`, `BackendCancelled`, `Fail`),
  `AfterRender`, the commit (`CommitCheck`, `Unmark`, `Promote`, `MergeBrief`,
  `CommitSql`, `Activate`), and the failure path
  (`Handle`, `WriteErrorTake`, `SetErrorStatus`), to `Join`.
- *Heartbeat*: `Lapse` (time passes), `Touch`, `ExpireRead`, `ExpireError`,
  `ExpireCancel`, `ExitProcess`, `HeartbeatDies`.

`Faults` names what may go wrong in a run: `crash` (a worker dies), `server`
(the HTTP process dies), `store` (a file or database operation of a worker
raises), `rmtree` (the removal of a directory stops half-way).

Two workers at once are not the normal case: the OS lock admits one. They are
modelled because the code defends against it (the attempt token; SPEC.md 16.5;
`tests/test_job_commit_recovery.py`,
`test_a_reclaimed_attempts_late_commit_is_rejected`), and because a lease can
be lost. With one worker, an attempt and its successor follow each other.

Abstractions:

- A token is the attempt number (a token is fresh per claim and compared only
  within its row). A take id is its job and attempt: an attempt allocates one.
- A plan is its revision, a brief with its seed is one value of `Seeds`.
- Time: a heartbeat may lapse and a deadline may pass at any moment. So a
  `Lapse` may be followed by a `Touch`, as when a suspended process resumes.
- The listing of `.staging` is one step, although it visits one directory after
  the other: each take is judged on its own, by what its own marker said. A
  directory is then judged and discarded in two steps, in any order among takes,
  and its removal is one step. A discarded directory is made again, without a
  marker, by whatever writes into it next (`Rebuilt`).
- The content of a staged take is its `meta.json`, and the promotion refuses one
  without; that a cleanup between render and metadata costs a take its audio
  files is not modelled.
- `rmtree` is one action, or one partial removal (`DeleteFails`).
- SQLite's five-second busy timeout is not modelled.
- `Join` waits for a heartbeat thread that is already expiring the job; the
  code stops waiting after five seconds.
- A failure inside the failure path (the status update itself raising, which
  leaves the row running until it goes stale) is represented by `Crash`.

### `CreationBrief` and `PlanDraft`

`CreationBrief` is `server/generation/brief.py`, `presets.py` and the write
semantics of `server/creation.py`: `apply_write_semantics` (what a write makes
of origins and mode), `apply_preset`, `Intent` (what a job freezes), `Planned`,
`Kept` and `apply_planner` (what a planner may fill in), `Actual` with `Flags`
(what is rendered and which values the model made up), `Patched` (the merge).
A value tells who made it up (`"mine"`, `"drafted"`, `"curated"`, `"chosen"`,
`"120"` the default), which is all the contract tells apart. Of the tracked
fields there are both texts and one meta, `duration_sec`: the metas are treated
alike, and those with a default that is not blank as `duration_sec` is.

| Variable of `PlanDraft` | Code |
|---|---|
| `drafts` | `plan.json` at every revision; the last is on disk |
| `job` | a generate-shaped job: the revision it froze, its brief, what was rendered, the revision its merge wrote |
| `last` | history: the last write |

`Save` is `PUT /projects/{id}/plan` and its `/v1` form, by a client that names
the revision it read (`"guarded"`), names none (`"blind"`), or sends only what
changed (`"partial"`, without origins, as an API client may); the write is
computed from the plan on disk inside the lock, but what the client edited is
any older revision. `ApplyPreset` reads outside the lock, as
`preset_on_project` does. `Commit` merges only into the draft the job froze.

### `ProjectLock`

`file` is `.project-locks/<id>.lock` (none, fresh, stale), `pc`, `held` and
`refreshing` each thread's place in `_project_lock`, its reentrancy count and
its refresh thread; `lapsed` is history. `Create` is `O_CREAT | O_EXCL`,
`Judge` the `stat`, `Steal` the unlink, `Release` the unlink by path. `Expire`
lets the file go stale: while a holder's refresh thread runs, only by
`"suspend"`.

### `ModelLoading` and `WorkerProcess`

`memory` is `_STATE` of each process (profile, LoRA, where the language model
is) beside what the decoder really carries: ACE-Step's calls fail in ways that
`_STATE` does not see. `task` is where the process is. `Retire`, `Construct`,
`LoadLm`, `FailReported`, `FailRaised`, `Unload` and `Add` are `_ensure_loaded`
and `_ensure_lora_adapter`.

`Parked` is `_park_language_model`, which reports a move that fails and goes on:
the language model is then where it was, and `"stuck"` says that it is on the
GPU because the last try to move it away failed.

`WorkerProcess` adds `osLock` (the locked file), `lease` (`worker_lease`),
`jobs` and `packs`; `left` is history, the packs whose process ended between
writing their metadata and settling their job. A process waits for the OS lock (`TakeOsLock`), then for the lease (`TakeLease`,
free or judged stale), loads the default profile, and loops: `Reclaim`,
`ClaimRender` or `ClaimTrain`, the loads, `Render` or `BeginTraining`,
`EndTraining`, `FinishTraining` (unfenced, as in the code), `Publish`.
`Interrupt` (Ctrl-C), `Crash` and `"stall"` (nothing runs for longer than every
limit) may come at any step. The watchdog is two steps, as in `_expire_job`:
`Deadline` settles the row, as cancelled when it read a pending cancel and as an
error otherwise, and `ExitProcess` ends the process some time later; in between
the process works on (`expired`). Left out: `worker_status` and the capability
rows, which only the server reads (a stale report lets every job in, so their
gate excludes no behaviour once a worker may stall), and more than one take per
render. `Publish` waits for a watchdog that has settled the row, as `Join` of
`JobQueue` does.

### `RemoteHost` and `RemoteRender`

`records`, `clientTokens`, `queue` are `Host._jobs`, `_client_tokens` and
`_queue`; `thread` is the job thread, which takes no lock, so each of its writes
is a step (`Pick`, `SkipCanceled`, `StartRender`, `Rendered` or `RenderRaises`,
`FinishStatus`, `FinishError`); `renders` is history. `SubmitAgain`,
`SubmitFull`, `SubmitNew` are one POST; `Age` lets a TTL pass; pruning happens
where the code calls `_prune`, in a submit.

`RemoteRender` has the rows (`rows`), each attempt inside `run_job`
(`attempts`: submit, record the handle, poll, ask for a cancel, download,
acknowledge) and the submits on their way (`wire`). A request or a reply may be
lost at every call; a lost submit is sent again under the same client id. A
submit that was sent may arrive long after its attempt died.

### `RemoteSession`

`pods` is the provider, `session` and `connection` the two saved files of
`connection.py` (its lock covers one read or write and no more), `request` each
handler between two steps. Any number of handlers run side by side, as the
server's thread pool lets them: the panel polls the status while a start or a
stop is on its way. The kinds are status (refresh), start, stop, connect,
disconnect, and the lifespan's startup (adopt) and shutdown, which run while no
handler does. `stale` is history: the handlers that another one has overtaken,
that is, under which the saved session changed since they last read or wrote it.
So is `left`: the pods that a failed stop, or a crash while the server was
stopping, left running.

### `SongRequests`

`keys` is `idempotency_keys` with its `epoch` (how often the key was free);
`call` each request between its steps; `projects` and `jobs` only grow.
`Reserve` purges, then inserts or answers; `Create`, `WritePlan`, `Enqueue`,
`ReadJob`, `Undo` are the handlers. `Undo` is `storage.delete_project`: it removes
the project, finds none, or raises (the removal fails, before or after the
`project.json`, or the project lock is not to be had), and what it raises
replaces the answer. `Reply` sends the response, `Store`
remembers it afterwards, `Raise` releases the key. A client repeats its request
until it has an answer. A body has only what the replay compares: its words and
its submission id.

### `Backup`

`install` is the state directory, `set` the last backup directory, `tool` the
command: `CopyDb`, `CopyKeys`, `ListTree`, `CopyProject`, `Record`; and
`VerifyDb`, `Verify`, `RestoreProject`, `RestoreDb`, `RestoreKeys`, which
refuse an existing install. `NoWriters` is looked at once, at the beginning.
The queue beside it has what ties rows to takes. Abstractions: one backup set
at a time, one damaged part, a project is copied in one step, a deletion is one
step, each job has a project of its own.

## 3. What is checked

| Run | Instance | States | Shows |
|---|---|---|---|
| `overlap` | 1 job, 2 workers, 2 seeds, 2 attempts, crashes | 1,541,001 | `TypeOK`, `OneTakePerJob`, `CancelWins`, `DoneNamesTake`, `LiveRenderKept`, `FrozenBrief`, `PublishedByOwner` |
| `faults` | 1 job, 1 worker, 2 seeds, 2 revisions, all faults | 1,104,761 | `FrozenBrief`, `TerminalFinal`, `NoResurrection` |
| `lifecycle` | 2 jobs, one without a snapshot, Remote GPU, crashes of the worker, fairness | 121,077 | `JobQueue` implements `JobLifecycle`; `JobSettles`, `StagingDrains`, `NoRemoteResubmit` |
| `remote` | 1 job, 2 attempts, 2 tokens, queue of 1, all faults, fairness | 188,019 | `HandleIsOwn`, `RenderedOnce`, `WantedResultKept`, `AttemptsEnd`, `QueueDrains` |
| `session` | 2 pods, 2 handlers of any kind beside the lifespan, all faults, fairness | 399,802 | `RentsUnrecorded`, `RecordLostToStale`, `CleanExitTerminates` |
| `lock` | 3 threads, nesting of 2, all faults, fairness | 2,736 | `Exclusive`, `NeverAbandoned` |
| `worker` | 2 processes, 2 jobs, 3 profiles, 2 packs, all faults, fairness | 784,344 | `OneOccupant`, `AppliedAsRecorded`, `PackHasItsJob`, `TakenOver` |
| `v1` | 3 calls of one key, two alike, 2 faults, fairness | 621,432 | `RunsOnce`, `AnswersAgree`, `OwnReservation`, `NoStrayProject`, `ClientServed` |
| `brief` | 2 jobs, 2 writes, 3 planner answers, all ways of writing | 2,134,640 | `ExplicitSurvives`, `AnotherTake`, `NewerTextWins`, `OriginsStayTrue` |
| `backup` | 2 jobs, all faults | 5,503,614 | `DoneHasTake`, `OneTake`, `RestoreExact` |
| `retry_race`, `train_over_pack` | | | violations, below |

### Bounds

- *`JobQueue`*. Two attempts are the least at which an attempt has a predecessor
  whose leftovers it meets and at which the attempt limit bites; a third attempt
  meets the same kinds of leftovers. One job with two workers gives every
  overlap of two attempts, since attempts of different jobs share only the write
  lock, the project lock and the active take. Two jobs are used where a job and
  its retry, or a claimable and a held job, interact. `MaxRevision` bounds plan
  edits (two revisions: submitted and edited since).
- *`RemoteRender`*. Two attempts of one row and two tokens: one render, and one
  more submission that prunes it, finds the queue full or repeats it. A queue of
  one is full at once.
- *`RemoteSession`*. Two handlers: one that is overtaken by another. Two pods:
  the one a handler read and the one another handler made since; once both are
  gone the provider has no stock. The theorems hold for any number of either.
- *`ProjectLock`*. Three threads: two that steal from a third.
- *`WorkerProcess`*. Two processes, one of which takes over; two jobs, so that a
  render follows a render or a training; three profiles, one offloaded and one
  for LoRA.
- *`SongRequests`*. Three calls: two that repeat one another and one that
  conflicts; `MaxFaults` = 2 lets a repetition fail as well.
- *`PlanDraft`*. Two writes and two jobs: a write and a merge in both orders,
  and a job that generates again from what another left. The theorems of section
  4 hold without the bounds.
- *`Backup`*. Two jobs, one on each side of the copy.

In every bound a pool of identities or a counter in a guard makes the state
space finite; no state constraint is used. Where the cfg says
`CHECK_DEADLOCK FALSE` the system may stop: attempts and calls come to an end,
pools run out, a restore ends. Symmetry is used only in runs without liveness,
over sets whose elements no property names.

`DoneNamesTake` and `ImplementsLifecycle` are checked without `store` and
`rmtree` faults, because those break them: see `activate_fails` below, and a
removal that stops half-way may lose takes of done jobs and then give the
project back. `LiveRenderKept` is checked without `store` faults: a cleanup takes
a row it could not read for one that is gone.

Some properties name an exception, because the code lets it happen:

- `LiveRenderKept`: a staged take has no marker between its `mkdir` and the
  marker, and again between the removal of the marker and the rename
  (`server/storage/takes.py:231` and `:250`). A cleanup of another worker that
  lists the directory then discards it, and the job fails. Any other cleanup
  keeps a live render, however late it acts on what it read.
- `OneOccupant`: between the two steps of the watchdog a process works on a job
  whose row it has settled itself.
- `AppliedAsRecorded`: a pack of which a call raised before, and a language model
  whose move away failed.
- `PackHasItsJob`: a pack whose process ended after writing the metadata and
  before settling the job is a pack that can be chosen, and its job is run again
  or fails.
- `RecordLostToStale` and `RentsUnrecorded`: a handler that was overtaken does
  lose records and does rent a second pod (`session_late_refresh`,
  `session_two_starts`); and a pod that was never recorded is out of their scope
  (`session_crash`).
- `NoStrayProject`: a crash, a failed `create_project` and a failed
  `delete_project` leave a project with no job.
- `CleanExitTerminates`: a pod whose stop failed stays up.

### Liveness and fairness

- `JobSettles`: a queued or running job that is not held and whose project is
  not being deleted is eventually settled, held or deleted. `StagingDrains`:
  every staged render is eventually promoted or discarded. Assumed: weak
  fairness of `WorkerStart` (a supervisor or the user restarts the worker), of
  the attempt's own steps (`Orchestrate`) and of the watchdog (the deadline does
  pass); strong fairness of `Reclaim`, `Cleanup`, `Judge`, `Discard` and `Claim`
  (the loop runs them each pass, and a process that may die at any moment must get through a pass
  sometimes for anything to happen); a heartbeat that no process renews lapses.
  Nothing is assumed of the backend (a hung decode), of the HTTP clients, or of
  the user.
- `AttemptsEnd`, `QueueDrains`: the host's job thread runs and its backend
  returns; an attempt keeps running and the deadline of its submission passes;
  a poll that is repeated is answered some time (strong fairness: the network is
  not down each time).
- `CleanExitTerminates`: handlers run on until the process dies.
- `NeverAbandoned`: waiters poll, releases complete, time passes.
- `TakenOver`: a waiting process polls, time passes.
- `ClientServed`: clients repeat themselves, requests come to their end, days
  pass.

### Where the code and its documents disagree

Each of these cfgs checks one property taken from a document, and TLC shows the
behaviour that violates it. The properties above hold beside them. `retry_race`
and `train_over_pack` are runs of `PROJECT.json`; the others are kept to be run
by hand with their `MC` module (`tlc -config <name>.cfg <MC module>`). Three rows
share `crash_races.cfg` (`reclaim_after_delete`, `cancel_after_rename`,
`crash_before_active`) and three share `drafts.cfg` (`preset_race`,
`partial_put`, `caption_ignored`): they differ in the property alone, and the
comments at the end of the cfg name the other two.

| cfg | Stated at | What the code does |
|---|---|---|
| `retry_race` | `server/jobs/queue.py:852` "repeated exactly" | the worker claims a retry between the insert and the update that copies the frozen input; it renders the live plan with a new seed |
| `train_over_pack` | `worker/acestep_worker/loading.py:437` "must not silently stack a second adapter on top of the first" | a training takes the handler with the pack of the last render attached |
| `reclaim_after_delete` | `server/jobs/queue.py:468` "a `queued` row for a project with a tombstone should never exist" | reclaim requeues a job that was running when its project was deleted; nothing ever takes or ends it |
| `cancel_after_rename` | `SPEC.md:654` "writes no take, and marks the job `cancelled`" | a crash after the rename, a cancel, a reclaim: cancelled, with a visible take |
| `activate_fails` | `server/jobs/runner.py:549` "nothing below may discard or overwrite it" | setting the active take raises inside `_commit_take`; the error path overwrites the committed take's metadata |
| `delete_interrupted` | `server/jobs/deletion.py:73` "never left with irreversibly cancelled jobs" | the server dies between the tombstone and the removal; nothing resumes or aborts it |
| `crash_before_active` | `SPEC.md:825` "The first playable take of a project becomes active" | the worker dies between the SQL commit and the active take |
| `lock_stolen_twice` | `tests/test_project_lock.py` "Every metadata mutation [...] serializes on a lock file" | two waiters judge the file of a dead holder; the second unlinks the fresh file of the first |
| `unlock_loaded` | `worker/run_worker.py` "a rival worker can never proceed past this point while a live process still holds it" | an interrupted process unlocks while its models are still in memory |
| `adapter_raises` | `worker/acestep_worker/loading.py` "no later job inherits an indeterminate adapter state" | a call about a pack raises something other than an API mismatch; the handler stays, and the next job renders with it |
| `remote_resubmitted` | `worker/remote_backend.py` "never resubmitted automatically" | the worker dies after the host accepted and before the handle is on the row; the next attempt submits under a new client id |
| `remote_ttl` | `worker/remote_backend.py` "the host frees unacknowledged results on its own TTL" | pruning runs only in a submit: an idle host keeps them |
| `session_crash` | `server/remote_gpu/provisioners/base.py` "a crash [...] cannot orphan a billing resource" | the server dies after the provider created the pod and before it is recorded |
| `session_late_refresh` | `server/remote_gpu/provisioners/runpod.py` "If this raises, the record stays" | a status request that read the old session forgets the record of the new one |
| `session_two_starts` | `server/remote_gpu/provisioners/runpod.py` "Two pods is the expensive mistake" | two starts both find no session, and both create |
| `key_expires_midway` | `server/v1/idempotency.py` the reservation of a key is its request's | a request older than a day loses its row to a later one, and then releases or remembers the other's |
| `song_undone` | `server/jobs/queue.py` "an orphaned queued job" | a failed song request takes its project back without a tombstone while somebody else has queued a job in it |
| `preset_race` | `server/presets.py:4` "only touches fields the user has not set themselves; it never changes lyrics" | the proposal is made of a plan read outside the lock (`server/creation.py:33`); without `expected_revision` a save in between is overwritten |
| `partial_put` | `SPEC.md:804` "Application defaults are origin `default`, never an explicit lock" | a field left out of a write is filled in by `validate_plan` and, where it differs from the draft, is the user's |
| `caption_ignored` | `SPEC.md:809` "With user lyrics or a user caption it calls `format_sample`" | the code decides by the lyrics alone |
| `backup_live_worker` | `server/backup.py:6` "a copy taken around a live writer is not a matching set" | a worker whose lease lapsed is not seen, and commits between the copy of the database and of the tree |
| `keys_unverified` | `server/backup.py:10` "so a restore can be checked against it" | the hash of the key file is recorded and never compared |

Met while modelling, and without a cfg:

- With `LYRE_WORKER=remote` and no host connected, the loop still claims jobs
  and fails them.
- When the language model fails to load at startup, readiness is still reported;
  after a failed swap of profiles, `ready` falls back to the state at startup.
- A crash between `write_lora_meta` and the end of the job leaves a pack that is
  `ok`; the next attempt trains another.
- A disk failure between `plan.json` and `project.json` answers with an error
  though the plan was written; a guarded repetition then gets a 409.

Every property of a passing run has a mutant in `PROJECT.json`: a plausible
mistake in one definition (where it needs one of its own, a definition marked
`mutant` in its module) under which TLC finds the property violated.

## 4. What is proved

Eight modules hold proofs, one for each state machine of section 2 (what they
compose over, `CreationBrief`, `ModelLoading` and `RemoteHost`, included). Every
theorem is for any values of the constants under the `ASSUME`s of the module it
is about, which TLC evaluates in each run: any sets of jobs, processes, clients,
keys, pods or tokens, any limits, and any faults, save where a hypothesis is
named. Between them they state every invariant and every safety property of an
action that a passing run checks, and the refinement.

| module | theorems (and the properties they state) |
|---|---|
| `JobQueueProofs` | `TypeCorrect` (`TypeOK`), `AtMostOneTake` (`OneTakePerJob`), `CancelPrevails` (`CancelWins`), `OnlyOwnerPublishes` (`PublishedByOwner`), `SettledForGood` (`TerminalFinal`), `DeletedStaysDeleted` (`NoResurrection`), `NeverResubmitted` (`NoRemoteResubmit`), `LiveRenderStays` (`LiveRenderKept`), `TakeHoldsFrozenBrief` (`FrozenBrief`), `DoneHasItsTake` (`DoneNamesTake`), `ImplementsTheLifecycle` (`ImplementsLifecycle`) |
| `ProjectLockProofs` | `LockExcludes` (`Exclusive`) |
| `WorkerProcessProofs` | `OneProcessOnTheGpu` (`OneOccupant`), `TakesAsRecorded` (`AppliedAsRecorded`), `PacksHaveTheirJob` (`PackHasItsJob`), `ProcessesTyped` |
| `RemoteRenderProofs` | `HandleNamesItsAttempt` (`HandleIsOwn`), `SubmissionsRenderOnce` (`RenderedOnce`), `ResultsWaitForTheirAttempt` (`WantedResultKept`), `RenderTyped` |
| `RemoteSessionProofs` | `RecordOutlivesHandlers` (`RecordLostToStale`), `RentsOverNothing` (`RentsUnrecorded`) |
| `SongRequestsProofs` | `OneJobPerReservation` (`RunsOnce`), `EndsItsOwn` (`OwnReservation`), `AnswersNameOneJob` (`AnswersAgree`), `NoProjectIsStray` (`NoStrayProject`), `RequestsTyped` |
| `PlanDraftProofs` | `ExplicitWordsSurvive` (`ExplicitSurvives`), `NewerWins` (`NewerTextWins`), `OriginsTrue` (`OriginsStayTrue`), `AnotherTakeKept` (`AnotherTake`) |
| `BackupProofs` | `RowsNeverOutrunTheTree` (`DoneHasTake`), `NoJobTakenTwice` (`OneTake`), `RestoresWhatWasRecorded` (`RestoreExact`), `BackupTyped` |

The shape of each proof is the same. The inductive invariant is named parts in
one place at the head of its module or section; lemmas say what an operator
returns and which fields an action changes ("`...Facts`", "`...Moves`"); one
lemma per action, or per group that changes the same things, shows that the
invariant is kept; the theorems follow.

### Hypotheses, and why they are there

Each is necessary: where it fails, TLC shows a run that breaks the property.

- `DoneHasItsTake` and `ImplementsTheLifecycle` assume `Calm`, that neither the
  worker's storage nor the removal of a directory fails (`"store"`, `"rmtree"`
  not in `Faults`). With a storage failure a done job loses its take
  (`activate_fails`); a removal that stops half-way takes takes away and then
  gives the project back. Crashes of both processes are allowed.
- `OneJobPerReservation`, `EndsItsOwn` and `AnswersNameOneJob` assume that no
  request outlives its key (`"day"` not in `PostFaults`), see
  `key_expires_midway`. `NoProjectIsStray` does not need it.
- `LiveRenderStays` assumes that reads of rows do not fail (`"store"` not in
  `Faults`): a cleanup takes a row it could not read for one that is gone.

### The job queue: `JobQueueProofs`

*Types.* `TypeOK` is not inductive: a claim adds one to `attempts`, and
`attempts` stays within `MAX_ATTEMPTS` only because a queued row always has an
attempt left. That needs `Claimable`: a queued row, or a row swept by a deletion
and not yet given back, has an attempt left and no accepted cancel.

*Safety.* `OneTakePerJob` holds at the rename only because the commit looked for
an earlier take before, and nothing changed since. `SafeInv` says so. Besides
`TypeOK`, `Claimable` and `OneTakePerJob` it has three parts:

- `SafeRows`: an accepted cancel keeps a row out of the queue and out of `done`;
  a row with a remote handle is neither queued nor waiting, swept, to be queued
  again.
- `DbExclusive`: one process at a time is between the check and the SQL commit
  of a take.
- `CommitReady`: while it is, its attempt owns the running row, nobody
  cancelled, the project exists without tombstone and, before the rename, the
  job has no take.

`PlainStep` says that rows change only as `RowStep` allows, that no process
enters or moves inside the transaction of a commit, that what a commit in
progress relies on stays as it is, and that no take appears. `PlainSafe` shows
once that such a step keeps `SafeInv`; every action outside the commit is a
plain step: the transaction is excluded by the writer lock (`DbFree`), or the
step touches no row, or the project lock keeps it away (`DeleteFiles`), or it
only lets a heartbeat lapse. The five actions of the commit are proved in
`CommitSafe`.

*Renders and briefs.* `FrozenInv` adds what each attempt knows: no two processes
run the same attempt of a job (`OneProcessPerAttempt`), so that a directory has
one writer; only attempts that were claimed have files (`FilesClaimed`), so that
a new attempt finds none; and, while it holds its job, its render is staged
(`StagedOK`) and its brief is the row's (`BriefOK`): none is frozen while it has
a drawn one of its own, and it renders from the frozen one afterwards. Every
part but the last is conditional on the attempt owning its row, because a lost
attempt may do and see anything; a lost row is never regained, since attempt
numbers only grow. A take that is there was rendered from the row's frozen brief
(`TakesFrozen`), and a brief is frozen once. A retry copies a brief into rows of
retries only (`PatchesRetries`).

`SweepInv` adds what a cleanup knows of the takes it listed, between reading the
row of one and removing it: they belong to attempts that were claimed, and the
one it is about to remove to an attempt that does not own its row. That stays
so however late the removal comes, because a row gets a token only together
with a new attempt number (`TokenStep`). So `LiveRenderStays` loses a live
render only to a cleanup that listed it bare.

*The lifecycle.* Under `Calm`, `DoneInv` adds what an attempt knows of takes
(`PublishOK`): its own is unpublished before the rename, there until the SQL
commit, and the one it found from an earlier attempt stays, unless the project
is deleted meanwhile; a deletion that runs keeps its tombstone to the end
(`DeletionsFinal`), and a held row is out of the worker's reach (`HeldRows`).
From `DoneInv` every action implements a step of `JobLifecycle`: the mapping takes
the row's status, its cancel flag, the committed takes and the jobs under a
tombstone. A deletion moves all jobs of a project in one step, which the
abstract specification allows, being a conjunction over jobs.

### The worker: `WorkerProcessProofs`

Whoever is past the OS lock has it (`Locked`); a process that does not has
nothing loaded (`Bare`). That alone keeps two from the GPU; the lease is not
needed for it. `Employed` says that the job of a process at work is its own, and
running until its own watchdog has settled it; reclaiming does not break it,
because the only process that reclaims is the one inside, and it has no job
then. `Faithful` carries the bookkeeping through a load step by step: what
`_STATE` says the decoder carries is what it carries, except where a call about
a pack has raised, and the language model is off the card or `"stuck"` there.
`Trains` keeps a pack in training out of every job's result, and `Offered` says
why a pack can be chosen: a job has it as its result, its training has just
written it, or the process ended in between. The proofs needed three facts of
the constants that were implicit (`None` is no process and no job, and a pack is
not a take), now in `ProcessAssumption` and `ResultAssumption`.

### Remote renders: `RemoteRenderProofs`

The centre is `IndexOK`: the index of client ids and the records name each
other, so that a client id has at most one record, however often and however
late its submit arrives. What the host has in hand is unfinished, once, in one
place (`QueueOK`, `ThreadOK`); what has a result was rendered (`ResultsOK`); the
token an attempt waits for was issued to it and to no other, and a token once
issued is never issued again (`AttemptOK`); a row's handle is its owner's token
(`RowOK`). So another attempt's acknowledgement is about another record, and
`WantedResultKept` follows.

### Remote sessions: `RemoteSessionProofs`

Any number of handlers are open. `Seen` is what a handler knows that nobody has
overtaken: the saved session is the pod it holds, or, where it found none or has
forgotten one, there is none. A pod that is being forgotten, or whose successor
is about to be rented, is gone, and gone for good. `stale` is exactly what makes
this inductive: a write of one handler takes the knowledge away from all the
others, and nothing else does. `SessionMade` says that only a pod that was
rented is ever recorded.

### `/v1` requests: `SongRequestsProofs`

Without expired keys a handler's row is its own, pending and young (`Owned`), a
key's row names a call that sent its body (`Rows`), and a job of the present
reservation was queued by its holder, which is past queueing (`Logged`): one
reservation, one job. `AnswersAgree` needs more: the project of a song has no
other maker (`Apart`), and of a job that a song request queued and then gave up
nobody has heard (`Settled`), or a job request with the same submission id might
answer with it. `NoStrayProject` is inductive only when it speaks of song
requests at the steps that still answer for their project (`Held`), and its
first clause needs that a song that has its row is not refused (`Denied`). `Failed`, as
first written, chose its step by a `CASE` whose guards overlapped, which leaves
the value open; the proof did not go through, and it is an `IF` now, in the
order of the code's `except` clauses.

### The draft and the brief: `PlanDraftProofs`

The invariant `DraftInv` is `TypeOK` and, for each job, what is known of it
(`JobInv`): the draft it was submitted from is one of the past drafts; its brief
is a resolution of what it froze then, and its actual values are made of that
brief (`RenderedFrom`); if it was merged, the draft its merge wrote is that very
draft, patched with that brief (`MergedInto`). Past drafts do not change, so
every action keeps this by one lemma (`JobKept`); `Run` and `Commit` establish
it for their job. The theorems then rest on lemmas about the pure operators of
`CreationBrief`, each for all plans and answers: `ResolutionFacts` (what a
resolution keeps, and what a planner origin means), `ModelFacts` (what the
model may replace), `PresetFacts`, `SaveHonest`, `MergeHonest` (what a write
makes of the origins) and `PlannerFills` (a merge brings back everything that
was not in the draft). `GuardedWrites` says of the action properties that a
guarded write was computed from the draft it replaces.

### The project lock: `ProjectLockProofs`

One thread at a time is inside, until a holder first dies, sleeps through the
stale limit or loses its refresh thread. This is what `JobQueue` takes for
granted in `LockFree`. `OneHolder` is not inductive: it needs that no waiter is
about to unlink a file it judged stale, that a thread inside still refreshes,
and that the file is there, fresh, exactly while a thread holds or is about to
release it (`Kept`, maintained while nothing `lapsed`).

### Backup and restore: `BackupProofs`

The takes of the rows that a backup has copied are still in the tree, or listed,
or copied (`BackupOK`): the database comes first, and only a server deletes.
Conversely, before a restore reaches the database nothing in the install has an
id of the set (`TreeOK`): a worker finds no rows, and what a server adds has a
new id, since ids are never given out twice. So a worker that works meanwhile
works on other jobs, the database that is put in place takes its rows away from
under it (`Owned` fails, and it gives up), and what was restored is untouched;
and if nobody disturbed it, the tree holds exactly what was restored so far. The
invariant also needs that the projects still to be copied have not been copied
(`todo` and the set are disjoint), and that a worker's lookup still holds while
it owns its job (`WorkerOK`).

### Only model-checked

The liveness properties (`JobSettles`, `StagingDrains`, `AttemptsEnd`,
`QueueDrains`, `CleanExitTerminates`, `NeverAbandoned`, `TakenOver`,
`ClientServed`), which are out of the prover's reach, and whatever the
disagreements of section 3 show, which are counterexamples. `RemoteSession` and
`ProjectLock` have their types proved as part of the inductive invariant.

## 5. Not modelled, and what is left

Partly modelled components, and what they leave out, are listed with their
notes in `PROJECT.json`. Not modelled at all:

- *MCP adapter*: a client of `/v1` without state; its task states follow the job
  states.
- *Web studio*: a React client that polls. What its writes can do to a draft is
  `PlanDraft`.
- *Release and live-check scripts*: packaging and manual verification.
- Authentication, presentation, prompts, lyric timestamps and audio: formatting
  or numerics with no state shared between processes beyond what is modelled.
- Uploads and export: the one runs under the project lock in one step, the other
  reads takes that nobody changes.
- Of the queue: the listing of jobs; `submission_id` replays are in
  `SongRequests`, `train_lora` in `WorkerProcess`.

The hazards of `PROJECT.json` with no property are those the code is open to:
each note says where, and section 3 has the run that shows it. Two have no run:
the enqueue that races a deletion, since a row under a tombstone is also made by
reclaim (`reclaim_after_delete`), and the retry of a held job, which cancels the
original before the enqueue that may fail (`server/jobs/queue.py:867`; no
document says otherwise).

What is left: every safety property that a run checks is proved, so the next
results are new properties. Of the queue, that a `train_lora` row settles under
`JobLifecycle` as well; of the project lock, that its stealing is exclusive with
a single waiter even after a holder died.
