------------------------------ MODULE JobQueue ------------------------------
(***************************************************************************)
(* The durable job queue and the worker that drains it:                    *)
(* server/jobs/queue.py, server/jobs/runner.py, server/jobs/deletion.py,   *)
(* the loop of worker/run_worker.py and the take files of server/storage.  *)
(*                                                                         *)
(* Three kinds of process share one SQLite database and one projects tree: *)
(*   - Clients, the HTTP handlers that enqueue, retry, cancel and delete;  *)
(*   - Workers, processes that reclaim, clean up, claim and render;        *)
(*   - the heartbeat (watchdog) thread each worker runs beside a job.      *)
(* A step is one SQL transaction, one file operation, or one read whose    *)
(* result is used later.  A handler that makes several of them is several  *)
(* actions chained by a program counter, and a crash fits between any two. *)
(***************************************************************************)
EXTENDS Naturals, FiniteSets

CONSTANTS
  Jobs,         \* the pool of job ids (uuid4: an id is never reused)
  Projects,     \* project ids, all created before the behaviour starts
  ProjectOf,    \* the project whose requests draw each id of the pool
  Workers,      \* worker processes; one, when the OS lock admits only one
  Clients,      \* HTTP handler threads
  Seeds,        \* concrete synthesis seeds (with the brief they come with)
  None,         \* NULL
  LegacyJobs,   \* rows queued by a build that froze no creation input
  MaxAttempts,  \* MAX_ATTEMPTS
  MaxRevision,  \* bound on plan revisions
  RemoteGpu,    \* TRUE when LYRE_WORKER=remote renders, FALSE for a local one
  Faults        \* what may go wrong: see FaultKinds

Attempts == 1 .. MaxAttempts
Takes == Jobs \X Attempts     \* an attempt allocates at most one take id

ASSUME PoolAssumption ==
  /\ ProjectOf \in [Jobs -> Projects]
  /\ LegacyJobs \subseteq Jobs
  /\ None \notin Jobs \cup Projects \cup Seeds \cup Takes
ASSUME BoundAssumption == MaxAttempts \in Nat \ {0} /\ MaxRevision \in Nat \ {0}

\* "crash": a worker process dies; "server": the HTTP process dies; "store":
\* a file or database operation of a worker fails; "rmtree": the removal of
\* a project directory fails.
FaultKinds == {"crash", "server", "store", "rmtree"}
ASSUME ModeAssumption == RemoteGpu \in BOOLEAN /\ Faults \subseteq FaultKinds

VARIABLES
  jobs,       \* the jobs table
  files,      \* the take directory of each attempt: staging area and takes/
  onDisk,     \* projects whose directory exists
  tombstones, \* the project_deletions table
  revision,   \* plan.json: the live plan revision of each project
  active,     \* project.json: active_take_id
  clock,      \* created_at of the next row
  worker,     \* each worker process
  request     \* each HTTP handler

vars == <<jobs, files, onDisk, tombstones, revision, active, clock, worker, request>>
store == <<onDisk, tombstones, revision, active>>

-----------------------------------------------------------------------------
(* Types *)

Status == {"absent", "queued", "running", "done", "error", "cancelled"}
Revisions == 0 .. MaxRevision   \* 0: the row has no creation snapshot
Brief == Seeds \cup {None}

\* The columns of a row the control depends on.  A token is a fresh uuid per
\* claim and is only compared within its row: the attempt number stands for
\* it, 0 for NULL.  `swept` says that error = 'project deleted', `held` that
\* stage = 'needs_confirmation'.  The brief and seed of resolved_json are one
\* value.
Row == [status: Status, born: Nat, creation: Revisions, resolved: Brief,
        cancel: BOOLEAN, token: 0 .. MaxAttempts, attempts: 0 .. MaxAttempts,
        stale: BOOLEAN, remote: BOOLEAN, held: BOOLEAN, swept: BOOLEAN,
        take: 0 .. MaxAttempts, retryOf: Jobs \cup {None}]

\* `bare` and `staged` are under projects/.staging, without and with the
\* owner marker; `take` and `error` are under takes/: an error take is a
\* meta.json whose `error` is set.  `creation` and `seed` are what meta.json
\* says, 0 while there is none.
FileStates == {"none", "bare", "staged", "take", "error"}
File == [state: FileStates, creation: Revisions, seed: Brief]

LoopPcs == {"down", "reclaim", "cleanup", "sweep", "claim"}
CommitPcs == {"promote", "unmarked", "renamed", "merged", "committed"}
JobPcs == {"claimed", "lookup", "finish", "resolve", "allocate", "mark", "freeze", "submit",
           "render", "rendered", "commit", "cancelling", "raised", "failing",
           "failstatus", "ended"} \cup CommitPcs
Watch == {"off", "armed", "lifted", "error", "cancel", "exit"}

\* `listed` are the staged takes a cleanup has still to look at, `bare` those
\* among them it found without a marker, `doomed` the one it is to discard.
Process == [pc: LoopPcs \cup JobPcs, job: Jobs \cup {None}, attempt: 0 .. MaxAttempts,
            creation: Revisions, seed: Brief, drawn: BOOLEAN, take: 0 .. MaxAttempts,
            watch: Watch, listed: SUBSET Takes, bare: SUBSET Takes,
            doomed: Takes \cup {None}]

RequestPcs == {"idle", "cancelheld", "load", "insert", "patch", "rmtree", "abort"}
Request == [pc: RequestPcs, project: Projects \cup {None}, job: Jobs \cup {None},
            retryOf: Jobs \cup {None}, exact: BOOLEAN, creation: Revisions,
            frozen: Revisions, resolved: Brief, swept: SUBSET Jobs]

NewRow(creation, origin) ==
  [status |-> "queued", born |-> clock, creation |-> creation, resolved |-> None,
   cancel |-> FALSE, token |-> 0, attempts |-> 0, stale |-> FALSE, remote |-> FALSE,
   held |-> FALSE, swept |-> FALSE, take |-> 0, retryOf |-> origin]
AbsentRow ==
  [status |-> "absent", born |-> 0, creation |-> 0, resolved |-> None,
   cancel |-> FALSE, token |-> 0, attempts |-> 0, stale |-> FALSE, remote |-> FALSE,
   held |-> FALSE, swept |-> FALSE, take |-> 0, retryOf |-> None]
NoFile == [state |-> "none", creation |-> 0, seed |-> None]
Looping(pc) == [pc |-> pc, job |-> None, attempt |-> 0, creation |-> 0, seed |-> None,
                drawn |-> FALSE, take |-> 0, watch |-> "off",
                listed |-> {}, bare |-> {}, doomed |-> None]
Idle == [pc |-> "idle", project |-> None, job |-> None, retryOf |-> None, exact |-> FALSE,
         creation |-> 0, frozen |-> 0, resolved |-> None, swept |-> {}]

\* Which fields are set depends on the program counter.
ProcessOK(p) ==
  /\ p.pc \in LoopPcs => p.job = None /\ p.watch = "off"
  /\ p.pc \in JobPcs => p.job \in Jobs /\ p.attempt \in Attempts
RequestOK(q) ==
  /\ q.pc # "idle" => q.project \in Projects
  /\ q.pc = "cancelheld" => q.retryOf \in Jobs
  /\ q.pc = "patch" => q.job \in Jobs

TypeOK ==
  /\ jobs \in [Jobs -> Row]
  /\ files \in [Jobs -> [Attempts -> File]]
  /\ onDisk \subseteq Projects
  /\ tombstones \subseteq Projects
  /\ revision \in [Projects -> 1 .. MaxRevision]
  /\ active \in [Projects -> Takes \cup {None}]
  /\ clock \in Nat
  /\ worker \in [Workers -> Process] /\ \A w \in Workers : ProcessOK(worker[w])
  /\ request \in [Clients -> Request] /\ \A c \in Clients : RequestOK(request[c])

Init ==
  /\ jobs = [j \in Jobs |-> IF j \in LegacyJobs
                              THEN [AbsentRow EXCEPT !.status = "queued"] ELSE AbsentRow]
  /\ files = [j \in Jobs |-> [a \in Attempts |-> NoFile]]
  /\ onDisk = Projects
  /\ tombstones = {}
  /\ revision = [p \in Projects |-> 1]
  /\ active = [p \in Projects |-> None]
  /\ clock = 1
  /\ worker = [w \in Workers |-> Looping("down")]
  /\ request = [c \in Clients |-> Idle]

-----------------------------------------------------------------------------
(* Locks and row transitions *)

\* BEGIN IMMEDIATE admits one writer.  Only the commit of a take holds it over
\* several steps; every other transaction is one action guarded by DbFree.
DbPcs == {"promote", "unmarked", "renamed", "merged"}
DbFreeEarly == \A w \in Workers : worker[w].pc \notin DbPcs \ {"merged"} \* mutant
DbFree == \A w \in Workers : worker[w].pc \notin DbPcs

\* The project lock is held while a staged take is allocated, and through the
\* commit up to the active take.  A cleanup does not take it.
LockPcs == CommitPcs \cup {"mark"}
LockFree(p) ==
  \A w \in Workers : worker[w].pc \in LockPcs => ProjectOf[worker[w].job] # p

\* The attempt still holds the running row.
OwnsByStatus(j, a) == jobs[j].status = "running" \* mutant: no token
Owns(j, a) == jobs[j].status = "running" /\ jobs[j].token = a
Terminal == {"done", "error", "cancelled"}
Existing == {j \in Jobs : jobs[j].status # "absent"}
CommittedTakes(j) == {a \in Attempts : files[j][a].state = "take"}

\* committed_take_for_job: a take of this job whose error is not set.
PriorTakesAny(j) == {a \in Attempts : files[j][a].state \in {"take", "error"}} \* mutant
PriorTakesByRow(j) == {a \in CommittedTakes(j) : a = jobs[j].take} \* mutant: trusts the row
PriorTakes(j) == CommittedTakes(j)

\* load_project finds the project.
LoadsAlways(p) == TRUE \* mutant
Loads(p) == p \in onDisk

Cancelled(r) == [r EXCEPT !.status = "cancelled", !.take = 0, !.cancel = TRUE]

\* mark_cancelled: without a token any queued or running row, with one the
\* queued row or the row this attempt owns.
MarkCancelled(r, a) ==
  IF r.status = "queued" \/ (r.status = "running" /\ (a = 0 \/ r.token = a))
    THEN Cancelled(r) ELSE r

\* finish_done: cancel wins over a late finish.
FinishDone(r, a, take) ==
  IF r.status = "running" /\ ~r.cancel /\ r.token = a
    THEN [r EXCEPT !.status = "done", !.take = take] ELSE r

\* _set_status with an attempt token.
SetErrorByToken(r, a, take) ==  \* mutant
  IF r.token = a THEN [r EXCEPT !.status = "error", !.take = take] ELSE r
SetError(r, a, take) ==
  IF r.status = "running" /\ r.token = a
    THEN [r EXCEPT !.status = "error", !.take = take] ELSE r

\* What reclaim_stale_jobs makes of one stale running row.
ReclaimedPastLimit(r) ==  \* mutant: > for >=
  IF r.attempts > MaxAttempts THEN [r EXCEPT !.status = "error", !.token = 0]
    ELSE [r EXCEPT !.status = "queued", !.token = 0, !.stale = FALSE]
ReclaimedBlindly(r) ==  \* mutant: forgets the remote handle
  IF r.cancel \/ r.attempts >= MaxAttempts THEN [r EXCEPT !.status = "error", !.token = 0]
    ELSE [r EXCEPT !.status = "queued", !.token = 0, !.stale = FALSE]
ReclaimedUncancelled(r) ==  \* mutant: a cancelled row is passed over
  IF r.cancel THEN r
    ELSE IF r.remote \/ r.attempts >= MaxAttempts
      THEN [r EXCEPT !.status = "error", !.token = 0]
      ELSE [r EXCEPT !.status = "queued", !.token = 0, !.stale = FALSE]
Reclaimed(r) ==
  IF r.cancel THEN [r EXCEPT !.status = "cancelled", !.take = 0]
    ELSE IF r.remote \/ r.attempts >= MaxAttempts
      THEN [r EXCEPT !.status = "error", !.token = 0]
      ELSE [r EXCEPT !.status = "queued", !.token = 0, !.stale = FALSE]

UpdateRow(j, r) == jobs' = [jobs EXCEPT ![j] = r]
Staging == {"bare", "staged"}
Discarded(j, a) ==
  IF files[j][a].state \in Staging THEN [files EXCEPT ![j][a] = NoFile] ELSE files

-----------------------------------------------------------------------------
(* HTTP handlers *)

Reply(c) == request' = [request EXCEPT ![c] = Idle]
handlerOnly == <<files, store, worker>>

\* POST a job: enqueue_job reads the project and the live plan first.
Submit(c, p) ==
  /\ request[c].pc = "idle" /\ p \in onDisk
  /\ request' = [request EXCEPT ![c] =
                   [Idle EXCEPT !.pc = "insert", !.project = p, !.creation = revision[p]]]
  /\ UNCHANGED <<jobs, clock, handlerOnly>>

\* retry_job: read the original, then resubmit it or its held request.
Retry(c, j) ==
  LET r == jobs[j]  held == r.status = "queued" /\ r.held IN
  /\ request[c].pc = "idle"
  /\ held \/ r.status \in {"error", "cancelled"}
  /\ request' = [request EXCEPT ![c] =
       [Idle EXCEPT !.pc = IF held THEN "cancelheld" ELSE "load", !.project = ProjectOf[j],
                    !.retryOf = j, !.exact = ~held, !.frozen = r.creation,
                    !.resolved = r.resolved]]
  /\ UNCHANGED <<jobs, clock, handlerOnly>>

CancelHeld(c) ==
  LET j == request[c].retryOf IN
  /\ request[c].pc = "cancelheld" /\ DbFree
  /\ UpdateRow(j, MarkCancelled(jobs[j], 0))
  /\ request' = [request EXCEPT ![c].pc = "load"]
  /\ UNCHANGED <<clock, handlerOnly>>

\* enqueue_job inside a retry: a missing project ends the request.
Load(c) ==
  LET p == request[c].project IN
  /\ request[c].pc = "load"
  /\ IF Loads(p)
       THEN request' = [request EXCEPT ![c].pc = "insert", ![c].creation = revision[p]]
       ELSE Reply(c)
  /\ UNCHANGED <<jobs, clock, handlerOnly>>

\* The insert transaction: a tombstone rejects, otherwise the row is queued
\* with the plan revision read before.
Insert(c) ==
  LET q == request[c] IN
  /\ q.pc = "insert" /\ DbFree /\ q.project \notin tombstones
  /\ \E j \in Jobs \ Existing :
       /\ ProjectOf[j] = q.project
       /\ UpdateRow(j, NewRow(q.creation, q.retryOf))
       /\ request' = [request EXCEPT ![c] =
                        IF q.exact THEN [q EXCEPT !.pc = "patch", !.job = j] ELSE Idle]
  /\ clock' = clock + 1
  /\ UNCHANGED handlerOnly

\* enqueue_job raises: the project is being deleted, or the request fails
\* validation (profile, source audio, free disk).
Reject(c) ==
  /\ request[c].pc = "insert"
  /\ Reply(c)
  /\ UNCHANGED <<jobs, clock, handlerOnly>>

\* retry_job's second transaction puts the frozen input into the new row,
\* if the row is still queued.
Patch(c) ==
  LET q == request[c]  r == jobs[q.job] IN
  /\ q.pc = "patch" /\ DbFree
  /\ UpdateRow(q.job, IF r.status = "queued"
       THEN [r EXCEPT !.creation = IF q.frozen = 0 THEN @ ELSE q.frozen,
                      !.resolved = q.resolved]
       ELSE r)
  /\ Reply(c)
  /\ UNCHANGED <<clock, handlerOnly>>

CancelJob(j) ==
  /\ jobs[j].status \in {"queued", "running"} /\ DbFree
  /\ UpdateRow(j, IF jobs[j].status = "queued" THEN Cancelled(jobs[j])
                                             ELSE [jobs[j] EXCEPT !.cancel = TRUE])
  /\ UNCHANGED <<clock, request, handlerOnly>>

\* remove_project: begin_project_deletion sweeps the queued rows.
DeleteBegin(c, p) ==
  LET S == {j \in Jobs : ProjectOf[j] = p /\ jobs[j].status = "queued"} IN
  /\ request[c].pc = "idle" /\ p \in onDisk \ tombstones /\ DbFree
  /\ tombstones' = tombstones \cup {p}
  /\ jobs' = [j \in Jobs |-> IF j \in S
                THEN [jobs[j] EXCEPT !.status = "error", !.swept = TRUE] ELSE jobs[j]]
  /\ request' = [request EXCEPT ![c] = [Idle EXCEPT !.pc = "rmtree", !.project = p, !.swept = S]]
  /\ UNCHANGED <<files, onDisk, revision, active, clock, worker>>

\* What a project directory loses: some takes, never a staged render.
Without(p, lost) ==
  [j \in Jobs |-> [a \in Attempts |->
     IF ProjectOf[j] = p /\ <<j, a>> \in lost /\ files[j][a].state \notin Staging
       THEN NoFile ELSE files[j][a]]]

\* storage.delete_project: rmtree under the project lock.
DeleteFiles(c) ==
  LET p == request[c].project IN
  /\ request[c].pc = "rmtree" /\ LockFree(p)
  /\ onDisk' = onDisk \ {p}
  /\ files' = Without(p, Takes)
  /\ active' = [active EXCEPT ![p] = None]
  /\ Reply(c)
  /\ UNCHANGED <<jobs, tombstones, revision, clock, worker>>

\* rmtree fails after removing any part of the directory.
DeleteFails(c) ==
  LET p == request[c].project IN
  /\ "rmtree" \in Faults /\ request[c].pc = "rmtree" /\ LockFree(p)
  /\ \E lost \in SUBSET {t \in Takes : files[t[1]][t[2]].state \in {"take", "error"}} :
       files' = Without(p, lost)
  /\ onDisk' \in {onDisk, onDisk \ {p}}
  /\ request' = [request EXCEPT ![c].pc = "abort"]
  /\ UNCHANGED <<jobs, tombstones, revision, active, clock, worker>>

\* abort_project_deletion restores exactly the rows this deletion swept.
DeleteAbort(c) ==
  LET q == request[c] IN
  /\ q.pc = "abort" /\ DbFree
  /\ tombstones' = tombstones \ {q.project}
  /\ jobs' = [j \in Jobs |-> IF j \in q.swept /\ jobs[j].status = "error" /\ jobs[j].swept
                THEN [jobs[j] EXCEPT !.status = "queued", !.swept = FALSE] ELSE jobs[j]]
  /\ Reply(c)
  /\ UNCHANGED <<files, onDisk, revision, active, clock, worker>>

\* A plan PUT: never waits for a render, only for a commit.
EditPlan(p) ==
  /\ p \in onDisk /\ LockFree(p) /\ revision[p] < MaxRevision
  /\ revision' = [revision EXCEPT ![p] = @ + 1]
  /\ UNCHANGED <<jobs, files, onDisk, tombstones, active, clock, worker, request>>

\* The user keeps a playable take.
KeepTake(j, a) ==
  LET p == ProjectOf[j] IN
  /\ files[j][a].state = "take" /\ p \in onDisk /\ LockFree(p)
  /\ active' = [active EXCEPT ![p] = <<j, a>>]
  /\ UNCHANGED <<jobs, files, onDisk, tombstones, revision, clock, worker, request>>

\* The HTTP process dies: every handler stops where it is.
ServerCrash ==
  /\ "server" \in Faults /\ \E c \in Clients : request[c].pc # "idle"
  /\ request' = [c \in Clients |-> Idle]
  /\ UNCHANGED <<jobs, clock, handlerOnly>>

-----------------------------------------------------------------------------
(* The worker: one pass of run_loop *)

At(w, pc) == worker[w].pc = pc
Become(w, p) == worker' = [worker EXCEPT ![w] = p]
Goto(w, pc) == worker' = [worker EXCEPT ![w].pc = pc]
clientSide == <<clock, request>>

\* The process takes the singleton lock and the lease and enters its loop.
WorkerStart(w) ==
  /\ At(w, "down") /\ Goto(w, "reclaim")
  /\ UNCHANGED <<jobs, files, store, clientSide>>

\* The stop event is seen only between two jobs.
WorkerStop(w) ==
  /\ At(w, "reclaim") /\ Goto(w, "down")
  /\ UNCHANGED <<jobs, files, store, clientSide>>

Reclaim(w) ==
  /\ At(w, "reclaim") /\ DbFree
  /\ jobs' = [j \in Jobs |-> IF jobs[j].status = "running" /\ jobs[j].stale
                              THEN Reclaimed(jobs[j]) ELSE jobs[j]]
  /\ Goto(w, "cleanup")
  /\ UNCHANGED <<files, store, clientSide>>

\* The attempt a marker names still runs.
AliveByHeartbeat(j, a) == Owns(j, a) /\ ~jobs[j].stale \* mutant
AliveUntilDone(j, a) == jobs[j].status # "done" \* mutant
Alive(j, a) == Owns(j, a)

\* cleanup_staging: first the list of the staged takes with their markers.
Cleanup(w) ==
  LET InState(S) == {t \in Takes : files[t[1]][t[2]].state \in S} IN
  /\ At(w, "cleanup")
  /\ Become(w, [worker[w] EXCEPT !.pc = IF InState(Staging) = {} THEN "claim" ELSE "sweep",
                                 !.listed = InState(Staging), !.bare = InState({"bare"})])
  /\ UNCHANGED <<jobs, files, store, clientSide>>

Past(W, t) ==
  [W EXCEPT !.pc = IF W.listed = {t} THEN "claim" ELSE "sweep",
            !.listed = W.listed \ {t}, !.bare = W.bare \ {t}, !.doomed = None]

\* Then one after the other: the row of a take that had a marker is read, and a
\* read that fails is taken for a row that is gone ...
Judge(w) ==
  LET W == worker[w] IN
  /\ W.pc = "sweep" /\ W.doomed = None
  /\ \E t \in W.listed \ W.bare :
       \/ Alive(t[1], t[2]) /\ Become(w, Past(W, t))
       \/ (~Alive(t[1], t[2]) \/ "store" \in Faults) /\ Become(w, [W EXCEPT !.doomed = t])
  /\ UNCHANGED <<jobs, files, store, clientSide>>

\* ... and it is discarded if its attempt no longer runs; a take without a
\* marker has no owner and is discarded outright.
Discard(w) ==
  LET W == worker[w] IN
  /\ W.pc = "sweep"
  /\ \E t \in W.listed :
       /\ W.doomed = t \/ (W.doomed = None /\ t \in W.bare)
       /\ files' = Discarded(t[1], t[2])
       /\ Become(w, Past(W, t))
  /\ UNCHANGED <<jobs, store, clientSide>>

\* claim_next_queued_job: the oldest runnable row; older rows without a
\* creation snapshot are held.
Claim(w) ==
  LET elig == {j \in Jobs : jobs[j].status = "queued" /\ ~jobs[j].held
                             /\ ProjectOf[j] \notin tombstones}
      runnable == {j \in elig : jobs[j].creation # 0}
      oldest == {j \in runnable : \A k \in runnable : jobs[j].born <= jobs[k].born}
      Hold(S) == [j \in Jobs |-> IF j \in S THEN [jobs[j] EXCEPT !.held = TRUE] ELSE jobs[j]]
  IN
  /\ At(w, "claim") /\ DbFree
  /\ \/ /\ runnable = {}
        /\ jobs' = Hold(elig)
        /\ Goto(w, "reclaim")
     \/ \E j \in oldest :
          LET r == jobs[j]  a == r.attempts + 1 IN
          /\ jobs' = [Hold({k \in elig \ runnable : jobs[k].born < r.born}) EXCEPT ![j] =
               [r EXCEPT !.status = "running", !.stale = FALSE, !.attempts = a, !.token = a]]
          /\ Become(w, [pc |-> "claimed", job |-> j, attempt |-> a, creation |-> r.creation,
                        seed |-> r.resolved, drawn |-> r.resolved = None, take |-> 0,
                        watch |-> "armed", listed |-> {}, bare |-> {}, doomed |-> None])
  /\ UNCHANGED <<files, store, clientSide>>

-----------------------------------------------------------------------------
(* The worker: _run_generate_shaped_job.  W is the process, J its job. *)

CancelCheck(w) ==
  /\ At(w, "claimed")
  /\ Goto(w, IF jobs[worker[w].job].cancel THEN "cancelling" ELSE "lookup")
  /\ UNCHANGED <<jobs, files, store, clientSide>>

\* An earlier attempt may have published and died.
FindCommitted(w) ==
  LET W == worker[w] IN
  /\ W.pc = "lookup"
  /\ \/ /\ PriorTakes(W.job) = {}
        /\ Goto(w, "resolve")
     \/ \E a \in PriorTakes(W.job) : Become(w, [W EXCEPT !.pc = "finish", !.take = a])
  /\ UNCHANGED <<jobs, files, store, clientSide>>

\* Whether the update took effect is not looked at.
FinishExisting(w) ==
  LET W == worker[w] IN
  /\ W.pc = "finish" /\ DbFree
  /\ UpdateRow(W.job, FinishDone(jobs[W.job], W.attempt, W.take))
  /\ Goto(w, "ended")
  /\ UNCHANGED <<files, store, clientSide>>

\* The second cancel check, then the seed: frozen by an earlier attempt or
\* drawn now.
Resolve(w) ==
  LET W == worker[w] IN
  /\ W.pc = "resolve"
  /\ IF jobs[W.job].cancel
       THEN Goto(w, "cancelling")
       ELSE \E s \in (IF W.drawn THEN Seeds ELSE {W.seed}) :
              Become(w, [W EXCEPT !.pc = "allocate", !.seed = s])
  /\ UNCHANGED <<jobs, files, store, clientSide>>

\* allocate_staged_take makes the directory ...
Allocate(w) ==
  LET W == worker[w]  j == W.job IN
  /\ W.pc = "allocate" /\ LockFree(ProjectOf[j])
  /\ IF Loads(ProjectOf[j])
       THEN /\ files' = [files EXCEPT ![j][W.attempt] = [NoFile EXCEPT !.state = "bare"]]
            /\ Goto(w, "mark")
       ELSE Goto(w, "raised") /\ UNCHANGED files
  /\ UNCHANGED <<jobs, store, clientSide>>

\* ... and writes the owner marker into it, or into a new one if it is gone.
\* Then the backend starts: a remote one submits the job, a local one first
\* freezes a brief this attempt resolved itself.
Mark(w) ==
  LET W == worker[w] IN
  /\ W.pc = "mark"
  /\ files' = [files EXCEPT ![W.job][W.attempt].state = "staged"]
  /\ Become(w, [W EXCEPT !.take = W.attempt, !.pc =
       IF RemoteGpu THEN "submit" ELSE IF W.drawn THEN "freeze" ELSE "render"])
  /\ UNCHANGED <<jobs, store, clientSide>>

\* A write fenced by the attempt token, made from inside the backend call.
\* JobFenced: the attempt lost its job, drops its files and is over.
Fenced(w, row, next) ==
  LET W == worker[w] IN
  /\ DbFree
  /\ IF Owns(W.job, W.attempt)
       THEN UpdateRow(W.job, row) /\ Goto(w, next) /\ UNCHANGED files
       ELSE files' = Discarded(W.job, W.attempt) /\ Goto(w, "ended") /\ UNCHANGED jobs
  /\ UNCHANGED <<store, clientSide>>

\* freeze_resolved, before the first DiT call.
Freeze(w) ==
  LET W == worker[w] IN
  W.pc = "freeze" /\ Fenced(w, [jobs[W.job] EXCEPT !.resolved = W.seed], "render")

\* record_remote_handle, after the host accepted the job.
RecordHandle(w) ==
  At(w, "submit") /\ Fenced(w, [jobs[worker[w].job] EXCEPT !.remote = TRUE], "render")

\* What the attempt renders: the snapshot it claimed, not the live plan.
LivePlan(W) == revision[ProjectOf[W.job]] \* mutant
RenderedPlan(W) == W.creation

\* A directory that a cleanup removed is made again, without a marker.
Rebuilt(j, a) == IF files[j][a].state = "none" THEN "bare" ELSE files[j][a].state

\* The backend writes the audio and returns; writing_take lifts the deadline.
Render(w) ==
  LET W == worker[w] IN
  /\ W.pc = "render"
  /\ files' = [files EXCEPT ![W.job][W.attempt].state = Rebuilt(W.job, W.attempt)]
  /\ Become(w, [W EXCEPT !.pc = "rendered", !.watch = IF @ = "armed" THEN "lifted" ELSE @])
  /\ UNCHANGED <<jobs, store, clientSide>>

\* Files are dropped and the row is then marked cancelled.
Abandon(w) ==
  /\ files' = Discarded(worker[w].job, worker[w].attempt)
  /\ Goto(w, "cancelling")
  /\ UNCHANGED <<jobs, store, clientSide>>

\* The third cancel check, then write_staged_meta.
AfterRender(w) ==
  LET W == worker[w]  j == W.job  a == W.attempt IN
  /\ W.pc = "rendered"
  /\ IF jobs[j].cancel
       THEN Abandon(w)
       ELSE /\ files' = [files EXCEPT ![j][a] =
                 [state |-> Rebuilt(j, a), creation |-> RenderedPlan(W), seed |-> W.seed]]
            /\ Goto(w, "commit")
            /\ UNCHANGED <<jobs, store, clientSide>>

\* JobCancelled: the backend saw the flag between two of its own steps.
BackendCancelled(w) ==
  /\ worker[w].pc \in {"freeze", "submit", "render"} /\ jobs[worker[w].job].cancel
  /\ Abandon(w)

MarkCancel(w) ==
  LET W == worker[w] IN
  /\ W.pc = "cancelling" /\ DbFree
  /\ UpdateRow(W.job, MarkCancelled(jobs[W.job], W.attempt))
  /\ Goto(w, "ended")
  /\ UNCHANGED <<files, store, clientSide>>

-----------------------------------------------------------------------------
(* The commit of a take: _commit_take *)

\* Under the project lock and BEGIN IMMEDIATE, everything is checked before
\* the staged directory is renamed.
CommitCheck(w) ==
  LET W == worker[w]  j == W.job  r == jobs[j]  p == ProjectOf[j]
      drop == files' = Discarded(j, W.attempt)
  IN
  /\ W.pc = "commit" /\ DbFree /\ LockFree(p)
  /\ \/ /\ ~Owns(j, W.attempt)
        /\ drop /\ Goto(w, "ended") /\ UNCHANGED jobs
     \/ /\ Owns(j, W.attempt) /\ r.cancel
        /\ drop /\ Goto(w, "cancelling") /\ UNCHANGED jobs
     \/ /\ Owns(j, W.attempt) /\ ~r.cancel /\ ~(Loads(p) /\ p \notin tombstones)
        /\ drop /\ Become(w, [W EXCEPT !.pc = "failstatus", !.take = 0]) /\ UNCHANGED jobs
     \/ /\ Owns(j, W.attempt) /\ ~r.cancel /\ Loads(p) /\ p \notin tombstones
        /\ \/ /\ PriorTakes(j) = {}
              /\ Goto(w, "promote") /\ UNCHANGED <<jobs, files>>
           \/ \E a \in PriorTakes(j) :
                /\ UpdateRow(j, [r EXCEPT !.status = "done", !.take = a])
                /\ drop /\ Goto(w, "ended")
  /\ UNCHANGED <<store, clientSide>>

\* promote_staged_take: the marker goes first ...
Unmark(w) ==
  LET W == worker[w]  f == files[W.job][W.attempt] IN
  /\ W.pc = "promote"
  /\ IF f.state \in Staging /\ f.creation # 0
       THEN /\ files' = [files EXCEPT ![W.job][W.attempt].state = "bare"]
            /\ Goto(w, "unmarked")
       ELSE Goto(w, "raised") /\ UNCHANGED files
  /\ UNCHANGED <<jobs, store, clientSide>>

\* ... then one rename, which raises if the directory is gone.
Promote(w) ==
  LET W == worker[w] IN
  /\ W.pc = "unmarked"
  /\ IF files[W.job][W.attempt].state \in Staging
       THEN /\ files' = [files EXCEPT ![W.job][W.attempt].state = "take"]
            /\ \E planned \in BOOLEAN : Goto(w, IF planned THEN "renamed" ELSE "merged")
       ELSE Goto(w, "raised") /\ UNCHANGED files
  /\ UNCHANGED <<jobs, store, clientSide>>

\* _merge_planned_brief: only onto the plan the job was submitted with.
MergeBrief(w) ==
  LET W == worker[w]  p == ProjectOf[W.job] IN
  /\ W.pc = "renamed" /\ Goto(w, "merged")
  /\ revision' = IF revision[p] = W.creation /\ revision[p] < MaxRevision
                   THEN [revision EXCEPT ![p] = @ + 1] ELSE revision
  /\ UNCHANGED <<jobs, files, onDisk, tombstones, active, clientSide>>

CommitSql(w) ==
  LET W == worker[w] IN
  /\ W.pc = "merged" /\ Goto(w, "committed")
  /\ UpdateRow(W.job, [jobs[W.job] EXCEPT !.status = "done", !.take = W.attempt])
  /\ UNCHANGED <<files, store, clientSide>>

Playable(t) == t # None /\ files[t[1]][t[2]].state = "take"

\* set_active_take_if_unset, still under the project lock.
Activate(w) ==
  LET W == worker[w]  p == ProjectOf[W.job] IN
  /\ W.pc = "committed" /\ Goto(w, "ended")
  /\ active' = IF Playable(active[p]) THEN active ELSE [active EXCEPT ![p] = <<W.job, W.attempt>>]
  /\ UNCHANGED <<jobs, files, onDisk, tombstones, revision, clientSide>>

-----------------------------------------------------------------------------
(* Failures of an attempt: the `except Exception` of the job *)

BackendPcs == {"resolve", "freeze", "submit", "render", "rendered"}
FaultPcs == {"claimed", "lookup", "finish", "allocate", "mark", "commit", "promote",
             "unmarked", "merged", "committed"}

\* The source audio is gone or the backend raises; with store faults, any
\* file or database operation may.  A transaction is rolled back.
Fail(w) ==
  LET W == worker[w] IN
  /\ W.pc \in BackendPcs \/ ("store" \in Faults /\ W.pc \in FaultPcs)
  /\ Become(w, [W EXCEPT !.pc = "raised", !.take = IF W.pc = "finish" THEN 0 ELSE @])
  /\ UNCHANGED <<jobs, files, store, clientSide>>

\* Nothing is dropped before allocate_staged_take returned a take id.
Handle(w) ==
  LET W == worker[w]  j == W.job IN
  /\ W.pc = "raised"
  /\ files' = IF W.take # 0 THEN Discarded(j, W.attempt) ELSE files
  /\ Goto(w, IF jobs[j].cancel THEN "cancelling"
             ELSE IF W.take # 0 THEN "failing" ELSE "failstatus")
  /\ UNCHANGED <<jobs, store, clientSide>>

\* write_error_take: a meta.json at the attempt's take id, whatever is there.
WriteErrorTake(w) ==
  LET W == worker[w]  j == W.job  written == Loads(ProjectOf[j]) IN
  /\ W.pc = "failing" /\ LockFree(ProjectOf[j])
  /\ \/ /\ written
        /\ files' = [files EXCEPT ![j][W.attempt].state = "error"]
        /\ Goto(w, "failstatus")
     \/ /\ ~written \/ "store" \in Faults
        /\ Become(w, [W EXCEPT !.pc = "failstatus", !.take = 0])
        /\ UNCHANGED files
  /\ UNCHANGED <<jobs, store, clientSide>>

SetErrorStatus(w) ==
  LET W == worker[w] IN
  /\ W.pc = "failstatus" /\ DbFree
  /\ UpdateRow(W.job, SetError(jobs[W.job], W.attempt, W.take))
  /\ Goto(w, "ended")
  /\ UNCHANGED <<files, store, clientSide>>

\* The `finally` of run_claimed_job stops and joins the heartbeat thread; a
\* thread already expiring the job is waited for.
Join(w) ==
  /\ At(w, "ended") /\ worker[w].watch \in {"off", "armed", "lifted"}
  /\ Become(w, Looping("reclaim"))
  /\ UNCHANGED <<jobs, files, store, clientSide>>

\* The process dies: its locks and its open transaction go with it.
Crash(w) ==
  /\ "crash" \in Faults /\ ~At(w, "down") /\ Become(w, Looping("down"))
  /\ UNCHANGED <<jobs, files, store, clientSide>>

-----------------------------------------------------------------------------
(* The heartbeat thread of a running job.  Time is abstracted: a heartbeat   *)
(* may lapse and a deadline may pass at any moment.                          *)

Watching(w, mode) == worker[w].watch = mode
Watched(w, mode) == worker' = [worker EXCEPT ![w].watch = mode]

\* heartbeat_at falls more than STALE_AFTER_SEC behind.
Lapse(j) ==
  /\ jobs[j].status = "running" /\ ~jobs[j].stale
  /\ UpdateRow(j, [jobs[j] EXCEPT !.stale = TRUE])
  /\ UNCHANGED <<files, store, worker, clientSide>>

\* _touch_heartbeat renews the row of the job, whichever attempt runs it.
Touch(w) ==
  LET j == worker[w].job IN
  /\ Watching(w, "armed") \/ Watching(w, "lifted")
  /\ jobs[j].status = "running" /\ jobs[j].stale /\ DbFree
  /\ UpdateRow(j, [jobs[j] EXCEPT !.stale = FALSE])
  /\ UNCHANGED <<files, store, worker, clientSide>>

\* _expire_job reads the row, whichever attempt runs it.
ExpireRead(w) ==
  LET r == jobs[worker[w].job] IN
  /\ Watching(w, "armed")
  /\ Watched(w, IF r.status # "running" THEN "off" ELSE IF r.cancel THEN "cancel" ELSE "error")
  /\ UNCHANGED <<jobs, files, store, clientSide>>

\* _set_status_if_running: the thread ends if the row already left `running`.
ExpireError(w) ==
  LET j == worker[w].job  r == jobs[j] IN
  /\ Watching(w, "error") /\ DbFree
  /\ IF r.status = "running"
       THEN UpdateRow(j, [r EXCEPT !.status = "error", !.take = 0]) /\ Watched(w, "exit")
       ELSE Watched(w, "off") /\ UNCHANGED jobs
  /\ UNCHANGED <<files, store, clientSide>>

\* mark_cancelled without a token; the process exits if that settled the job.
ExpireCancel(w) ==
  LET j == worker[w].job  r == MarkCancelled(jobs[j], 0) IN
  /\ Watching(w, "cancel") /\ DbFree
  /\ UpdateRow(j, r) /\ Watched(w, IF r.status = "cancelled" THEN "exit" ELSE "off")
  /\ UNCHANGED <<files, store, clientSide>>

\* os._exit(1).
ExitProcess(w) ==
  /\ Watching(w, "exit") /\ Become(w, Looping("down"))
  /\ UNCHANGED <<jobs, files, store, clientSide>>

\* The thread dies of a database error: nothing renews or expires the job.
HeartbeatDies(w) ==
  /\ "store" \in Faults /\ worker[w].watch \in {"armed", "lifted", "error", "cancel"}
  /\ Watched(w, "off")
  /\ UNCHANGED <<jobs, files, store, clientSide>>

-----------------------------------------------------------------------------
(* The specification *)

Handler(c) ==
  \/ \E p \in Projects : Submit(c, p) \/ DeleteBegin(c, p)
  \/ \E j \in Jobs : Retry(c, j)
  \/ CancelHeld(c) \/ Load(c) \/ Insert(c) \/ Reject(c) \/ Patch(c)
  \/ DeleteFiles(c) \/ DeleteFails(c) \/ DeleteAbort(c)

User ==
  \/ \E j \in Jobs : CancelJob(j) \/ \E a \in Attempts : KeepTake(j, a)
  \/ \E p \in Projects : EditPlan(p)

\* A step the worker takes as soon as it can.
Orchestrate(w) ==
  \/ CancelCheck(w) \/ FindCommitted(w) \/ FinishExisting(w) \/ Resolve(w) \/ Allocate(w)
  \/ Mark(w) \/ AfterRender(w) \/ MarkCancel(w) \/ CommitCheck(w) \/ Unmark(w) \/ Promote(w)
  \/ MergeBrief(w) \/ CommitSql(w) \/ Activate(w) \/ Handle(w) \/ WriteErrorTake(w)
  \/ SetErrorStatus(w) \/ Join(w)

\* A step of the backend, which may hang before it.
Backend(w) == Freeze(w) \/ RecordHandle(w) \/ Render(w) \/ BackendCancelled(w) \/ Fail(w)

Loop(w) ==
  \/ WorkerStart(w) \/ WorkerStop(w) \/ Reclaim(w) \/ Cleanup(w) \/ Judge(w) \/ Discard(w)
  \/ Claim(w) \/ Crash(w)

Watchdog(w) == ExpireRead(w) \/ ExpireError(w) \/ ExpireCancel(w) \/ ExitProcess(w)
Heartbeat(w) == Touch(w) \/ Watchdog(w) \/ HeartbeatDies(w)

Next ==
  \/ \E c \in Clients : Handler(c)
  \/ User \/ ServerCrash
  \/ \E w \in Workers : Loop(w) \/ Orchestrate(w) \/ Backend(w) \/ Heartbeat(w)
  \/ \E j \in Jobs : Lapse(j)

Spec == Init /\ [][Next]_vars

\* The worker is restarted, its loop gets through when it can run often
\* enough, a heartbeat nobody renews lapses, and a deadline passes.  Nothing
\* is assumed of the clients, the user or the backend.
Fairness ==
  /\ \A w \in Workers :
       /\ WF_vars(WorkerStart(w) \/ Orchestrate(w)) /\ WF_vars(Watchdog(w))
       /\ SF_vars(Reclaim(w)) /\ SF_vars(Cleanup(w)) /\ SF_vars(Judge(w)) /\ SF_vars(Discard(w))
       /\ SF_vars(Claim(w))
  /\ \A j \in Jobs : WF_vars(Lapse(j) /\ \A w \in Workers : worker[w].job # j)

FairSpec == Spec /\ Fairness
=============================================================================
