------------------------- MODULE JobQueueProperties -------------------------
(* What must hold of JobQueue, and how it implements JobLifecycle. *)
EXTENDS JobQueue

(* Safety *)

\* A logical job publishes at most one take, over all its attempts, late
\* attempts and crashes between the rename and the SQL commit included.
OneTakePerJob == \A j \in Jobs : \A a, b \in CommittedTakes(j) : a = b

\* A job whose cancel was accepted is never queued again and never done: a
\* cancel lands before the commit looks at the row or after it is done.
CancelWins == \A j \in Jobs : jobs[j].cancel => jobs[j].status \notin {"queued", "done"}

\* A done job names a playable take, whichever attempt published it, until
\* its project is deleted (no partial rmtree, no store fault).
DoneNamesTake ==
  \A j \in Jobs : jobs[j].status = "done" /\ ProjectOf[j] \notin tombstones =>
    jobs[j].take \in CommittedTakes(j)

\* The take of a first submission holds what the row froze: the plan revision
\* of the submission and, rendered locally, the resolved brief and seed of
\* whichever attempt froze them first.
FrozenBrief ==
  \A j \in Jobs : jobs[j].retryOf = None =>
    \A a \in CommittedTakes(j) :
      /\ files[j][a].creation = jobs[j].creation
      /\ RemoteGpu \/ files[j][a].seed = jobs[j].resolved

-----------------------------------------------------------------------------
(* Action properties *)

\* A take becomes visible only while its attempt owns the running job, no
\* cancel was accepted and the project exists undeleted, however long ago
\* the commit checked.
PublishedByOwner ==
  [][\A j \in Jobs : \A a \in Attempts :
       files[j][a].state # "take" /\ files'[j][a].state = "take" =>
         /\ jobs[j].status = "running" /\ jobs[j].token = a /\ ~jobs[j].cancel
         /\ ProjectOf[j] \in onDisk \ tombstones]_vars

RenderPcs == {"mark", "freeze", "submit", "render", "rendered", "commit", "promote", "unmarked"}

\* While an attempt owns its job and works on, its staged take is removed by
\* no cleanup of another worker, however long ago that read the row, except
\* by one that listed the directory while it had no marker (no store fault).
LiveRenderKept ==
  [][\A w \in Workers :
       LET W == worker[w]  j == W.job  a == W.attempt IN
       /\ W.pc \in RenderPcs /\ Owns(j, a) /\ UNCHANGED worker[w]
       /\ files[j][a].state \in Staging /\ files'[j][a].state \notin Staging
       => \E v \in Workers : <<j, a>> \in worker[v].bare]_vars

\* A terminal row stays as it is; only an aborted deletion takes back the
\* `project deleted` it wrote itself.
TerminalFinal ==
  [][\A j \in Jobs : jobs[j].status \in Terminal =>
       \/ jobs'[j].status = jobs[j].status /\ jobs'[j].take = jobs[j].take
       \/ jobs[j].swept /\ jobs'[j].status = "queued"]_vars

\* Nothing is written under takes/ of a project that is gone from disk.
NoResurrection ==
  [][\A j \in Jobs : \A a \in Attempts :
       files'[j][a].state \in {"take", "error"} /\ files'[j][a].state # files[j][a].state =>
         ProjectOf[j] \in onDisk]_vars

\* A remote render whose handle was recorded is never started again.
NoRemoteResubmit ==
  [][\A j \in Jobs : jobs[j].remote => jobs'[j].attempts = jobs[j].attempts]_vars

-----------------------------------------------------------------------------
(* Refinement *)

Lifecycle == INSTANCE JobLifecycle WITH
  phase <- [j \in Jobs |-> jobs[j].status],
  asked <- [j \in Jobs |-> jobs[j].cancel],
  takes <- [j \in Jobs |-> CommittedTakes(j)],
  deleting <- {j \in Jobs : ProjectOf[j] \in tombstones}

\* The queue keeps the promise of JobLifecycle for every job: it settles
\* once, with at most one take, done only with a take, and never done or
\* queued after an accepted cancel (no partial rmtree, no store fault).
ImplementsLifecycle == Lifecycle!Spec

-----------------------------------------------------------------------------
(* Liveness *)

Unsettled(j) ==
  /\ jobs[j].status \in {"queued", "running"} /\ ~jobs[j].held
  /\ ProjectOf[j] \notin tombstones

\* Every job settles: it finishes, fails, is cancelled, or waits for the
\* user, whatever hangs or crashes.
JobSettles == \A j \in Jobs : Unsettled(j) ~> ~Unsettled(j)

\* The staged takes of a job, marked or not, are all gone in the end.
StagesTake(j) == \E a \in Attempts : files[j][a].state \in Staging
StagingDrains == \A j \in Jobs : StagesTake(j) ~> ~StagesTake(j)

-----------------------------------------------------------------------------
(* What the documentation says and the code does not do *)

\* retry_job: a failed or cancelled job with a frozen snapshot is repeated
\* exactly.
RetryExact ==
  \A j \in Jobs : \A o \in Jobs : jobs[j].retryOf = o /\ jobs[o].creation # 0 =>
    \A a \in CommittedTakes(j) :
      /\ files[j][a].creation = jobs[o].creation
      /\ jobs[o].resolved # None => files[j][a].seed = jobs[o].resolved

\* claim_next_queued_job: a queued row for a project with a tombstone should
\* never exist by the time a claim runs.
NoQueuedUnderTombstone ==
  \A w \in Workers : At(w, "claim") =>
    \A j \in Jobs : jobs[j].status = "queued" => ProjectOf[j] \notin tombstones

\* SPEC 15.5: a cancelled job writes no take.
CancelledHasNoTake == \A j \in Jobs : jobs[j].status = "cancelled" => CommittedTakes(j) = {}

\* abort_project_deletion: a project that still exists on disk is never left
\* with irreversibly cancelled jobs.
SweptJobsComeBack ==
  \A j \in Jobs : jobs[j].swept /\ ProjectOf[j] \in onDisk =>
    \E c \in Clients : request[c].pc \in {"rmtree", "abort"} /\ request[c].project = ProjectOf[j]

\* SPEC 16.5: the first playable take of a project becomes active.
FirstTakeActive ==
  \A j \in Jobs :
    LET p == ProjectOf[j] IN
    jobs[j].status = "done" /\ p \in onDisk \ tombstones /\ LockFree(p) => Playable(active[p])
=============================================================================
