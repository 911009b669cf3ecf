--------------------------- MODULE JobQueueProofs ---------------------------
(* Theorems of JobQueue for every value of its constants and whatever the *)
(* faults: its types; what no interleaving of attempts, users and         *)
(* deletions does to a job and its take; and what an attempt carries      *)
(* through its crashes and races, the staged render of a live attempt and *)
(* the brief a job was submitted with.  Then JobQueue implements          *)
(* JobLifecycle: every step of every process is a step of the lifecycle   *)
(* of each job.  There neither the worker's storage nor the removal of a  *)
(* project directory fails: with those faults a done job may lose its     *)
(* take, as TLC shows.                                                    *)
EXTENDS JobQueueProperties, TLAPS

-----------------------------------------------------------------------------
(* Type correctness *)

\* Row transitions stay within the columns' ranges.
LEMMA RowTypes ==
  ASSUME NEW r \in Row, NEW a \in 0 .. MaxAttempts, NEW t \in 0 .. MaxAttempts
  PROVE  /\ Cancelled(r) \in Row /\ MarkCancelled(r, a) \in Row
         /\ FinishDone(r, a, t) \in Row /\ SetError(r, a, t) \in Row
         /\ Reclaimed(r) \in Row
<1>0. 0 \in 0 .. MaxAttempts
  BY BoundAssumption
<1>1. Cancelled(r) \in Row
  BY <1>0 DEF Cancelled, Row, Status
<1>2. MarkCancelled(r, a) \in Row
  BY <1>1 DEF MarkCancelled
<1>3. FinishDone(r, a, t) \in Row
  BY DEF FinishDone, Row, Status
<1>4. SetError(r, a, t) \in Row
  BY DEF SetError, Row, Status
<1>5. Reclaimed(r) \in Row
  BY <1>0 DEF Reclaimed, Row, Status
<1> QED
  BY <1>1, <1>2, <1>3, <1>4, <1>5

\* A deletion sweeps a row and its abort gives it back.
Swept(r) == [r EXCEPT !.status = "error", !.swept = TRUE]
GivenBack(r) == [r EXCEPT !.status = "queued", !.swept = FALSE]

LEMMA SweepTypes ==
  ASSUME NEW r \in Row
  PROVE  /\ Swept(r) \in Row /\ Swept(r).status = "error"
         /\ Swept(r).attempts = r.attempts /\ Swept(r).cancel = r.cancel
         /\ GivenBack(r) \in Row /\ GivenBack(r).status = "queued" /\ ~GivenBack(r).swept
         /\ GivenBack(r).attempts = r.attempts /\ GivenBack(r).cancel = r.cancel
BY DEF Swept, GivenBack, Row, Status

LEMMA ConstantTypes ==
  /\ AbsentRow \in Row /\ NoFile \in File /\ Idle \in Request
  /\ \A pc \in LoopPcs : Looping(pc) \in Process
<1>0. 0 \in 0 .. MaxAttempts /\ 0 \in Revisions /\ None \in Brief
  BY BoundAssumption DEF Revisions, Brief
<1>1. AbsentRow \in Row
  BY <1>0 DEF AbsentRow, Row, Status
<1>2. NoFile \in File
  BY <1>0 DEF NoFile, File, FileStates
<1>3. Idle \in Request
  BY <1>0 DEF Idle, Request, RequestPcs
<1>4. \A pc \in LoopPcs : Looping(pc) \in Process
  BY <1>0 DEF Looping, Process, Watch, LoopPcs
<1> QED
  BY <1>1, <1>2, <1>3, <1>4

LEMMA UpdateTypes ==
  ASSUME TypeOK, NEW j \in Jobs, NEW r \in Row, UpdateRow(j, r)
  PROVE  jobs' \in [Jobs -> Row]
BY DEF TypeOK, UpdateRow

LEMMA FileTypes ==
  ASSUME TypeOK, NEW j \in Jobs, NEW a \in Attempts, NEW f \in File
  PROVE  [files EXCEPT ![j][a] = f] \in [Jobs -> [Attempts -> File]]
BY DEF TypeOK

\* A step sets the state of one take, and touches no other.
SetsState(j, a, st) == files' = [files EXCEPT ![j][a].state = st]

LEMMA StateTypes ==
  ASSUME TypeOK, NEW j \in Jobs, NEW a \in Attempts, NEW st \in FileStates
  PROVE  [files EXCEPT ![j][a].state = st] \in [Jobs -> [Attempts -> File]]
<1>1. files[j][a] \in File /\ files[j] \in [Attempts -> File]
  BY DEF TypeOK
<1>2. [files[j][a] EXCEPT !.state = st] \in File
  BY <1>1 DEF File
<1>3. [files[j] EXCEPT ![a] = [files[j][a] EXCEPT !.state = st]] \in [Attempts -> File]
  BY <1>1, <1>2
<1>4. [files EXCEPT ![j][a].state = st]
        = [files EXCEPT ![j] = [files[j] EXCEPT ![a] = [files[j][a] EXCEPT !.state = st]]]
  OBVIOUS
<1> QED
  BY <1>3, <1>4 DEF TypeOK

LEMMA DiscardTypes ==
  ASSUME TypeOK, NEW j \in Jobs, NEW a \in Attempts
  PROVE  Discarded(j, a) \in [Jobs -> [Attempts -> File]]
BY FileTypes, ConstantTypes DEF Discarded, TypeOK

WorkerTyped == worker \in [Workers -> Process] /\ \A w \in Workers : ProcessOK(worker[w])
RequestTyped == request \in [Clients -> Request] /\ \A c \in Clients : RequestOK(request[c])

LEMMA BecomeTypes ==
  ASSUME TypeOK, NEW w \in Workers, NEW p \in Process, ProcessOK(p), Become(w, p)
  PROVE  WorkerTyped'
BY DEF TypeOK, WorkerTyped, Become

LEMMA JobPcTypes ==
  ASSUME TypeOK, NEW w \in Workers, worker[w].pc \in JobPcs
  PROVE  worker[w] \in Process /\ worker[w].job \in Jobs /\ worker[w].attempt \in Attempts
BY DEF TypeOK, ProcessOK

LEMMA PcKinds == \A pc \in JobPcs : pc \notin LoopPcs
BY DEF JobPcs, LoopPcs, CommitPcs

\* The ways a step of an attempt changes its process.
LEMMA AttemptTypes ==
  ASSUME NEW p \in Process, p.job \in Jobs, p.attempt \in Attempts, NEW pc \in JobPcs,
         NEW t \in 0 .. MaxAttempts, NEW s \in Brief, NEW mode \in Watch
  PROVE  \A q \in {[p EXCEPT !.pc = pc], [p EXCEPT !.pc = pc, !.take = t],
                   [p EXCEPT !.pc = pc, !.seed = s], [p EXCEPT !.pc = pc, !.watch = mode]} :
           q \in Process /\ ProcessOK(q)
<1>1. ASSUME NEW q \in Process, q.pc = pc, q.job = p.job, q.attempt = p.attempt
      PROVE  ProcessOK(q)
  BY <1>1, PcKinds DEF ProcessOK
<1>2. [p EXCEPT !.pc = pc] \in Process /\ ProcessOK([p EXCEPT !.pc = pc])
  <2>1. [p EXCEPT !.pc = pc] \in Process
    BY DEF Process
  <2> QED
    BY <1>1, <2>1 DEF Process
<1>3. [p EXCEPT !.pc = pc, !.take = t] \in Process
      /\ ProcessOK([p EXCEPT !.pc = pc, !.take = t])
  <2>1. [p EXCEPT !.pc = pc, !.take = t] \in Process
    BY DEF Process
  <2> QED
    BY <1>1, <2>1 DEF Process
<1>4. [p EXCEPT !.pc = pc, !.seed = s] \in Process
      /\ ProcessOK([p EXCEPT !.pc = pc, !.seed = s])
  <2>1. [p EXCEPT !.pc = pc, !.seed = s] \in Process
    BY DEF Process
  <2> QED
    BY <1>1, <2>1 DEF Process
<1>5. [p EXCEPT !.pc = pc, !.watch = mode] \in Process
      /\ ProcessOK([p EXCEPT !.pc = pc, !.watch = mode])
  <2>1. [p EXCEPT !.pc = pc, !.watch = mode] \in Process
    BY DEF Process
  <2> QED
    BY <1>1, <2>1 DEF Process
<1> QED
  BY <1>2, <1>3, <1>4, <1>5

\* A job step moves the process to another job step.
LEMMA GotoTypes ==
  ASSUME TypeOK, NEW w \in Workers, worker[w].pc \in JobPcs, NEW pc \in JobPcs, Goto(w, pc)
  PROVE  WorkerTyped'
<1>1. [worker[w] EXCEPT !.pc = pc] \in Process
  BY JobPcTypes DEF Process
<1>2. ProcessOK([worker[w] EXCEPT !.pc = pc])
  BY JobPcTypes DEF ProcessOK, Process, LoopPcs, JobPcs, CommitPcs
<1> QED
  BY <1>1, <1>2 DEF Goto, WorkerTyped, TypeOK

\* A queued row, and a row that a deletion may give back to the queue, has an
\* attempt left and no accepted cancel.
MayRun(r) == r.attempts < MaxAttempts /\ ~r.cancel
RowOK(r) ==
  /\ r.status \in {"queued", "running"} => ~r.swept
  /\ r.status = "queued" \/ (r.status = "error" /\ r.swept) => MayRun(r)
Claimable == \A j \in Jobs : RowOK(jobs[j])

LEMMA InitTypes == Init => TypeOK /\ Claimable
<1> SUFFICES ASSUME Init PROVE TypeOK /\ Claimable
  OBVIOUS
<1> USE ConstantTypes, PoolAssumption, BoundAssumption
<1>1. jobs \in [Jobs -> Row] /\ Claimable
  <2>1. [AbsentRow EXCEPT !.status = "queued"] \in Row
    BY DEF AbsentRow, Row, Status
  <2> QED
    BY <2>1 DEF Init, Claimable, RowOK, MayRun, AbsentRow
<1>2. WorkerTyped
  BY DEF Init, WorkerTyped, ProcessOK, Looping, LoopPcs, JobPcs, CommitPcs
<1>3. RequestTyped
  BY DEF Init, RequestTyped, RequestOK, Idle
<1>4. files \in [Jobs -> [Attempts -> File]] /\ clock \in Nat
  BY DEF Init
<1>5. revision \in [Projects -> 1 .. MaxRevision] /\ onDisk \subseteq Projects
      /\ tombstones \subseteq Projects /\ active \in [Projects -> Takes \cup {None}]
  BY DEF Init
<1> QED
  BY <1>1, <1>2, <1>3, <1>4, <1>5 DEF TypeOK, WorkerTyped, RequestTyped

LEMMA RequestTypes ==
  ASSUME TypeOK, NEW c \in Clients, NEW q \in Request, RequestOK(q),
         request' = [request EXCEPT ![c] = q]
  PROVE  RequestTyped'
BY DEF TypeOK, RequestTyped

LEMMA ReplyTypes ==
  ASSUME TypeOK, NEW c \in Clients, Reply(c)
  PROVE  RequestTyped'
BY RequestTypes, ConstantTypes DEF Reply, RequestOK, Idle

LEMMA HandlerTypes ==
  ASSUME TypeOK, Claimable, NEW c \in Clients, Handler(c)
  PROVE  TypeOK' /\ Claimable'
<1> USE DEF handlerOnly, store
<1>0. /\ 0 \in Revisions /\ None \in Brief /\ request[c] \in Request /\ RequestOK(request[c])
      /\ \A p \in Projects : revision[p] \in Revisions
  BY BoundAssumption DEF Revisions, Brief, TypeOK
<1>1. ASSUME NEW p \in Projects, Submit(c, p) PROVE TypeOK' /\ Claimable'
  <2> DEFINE q == [Idle EXCEPT !.pc = "insert", !.project = p, !.creation = revision[p]]
  <2>1. q \in Request /\ RequestOK(q)
    BY <1>0 DEF Idle, Request, RequestPcs, RequestOK
  <2>2. RequestTyped'
    BY <1>1, <2>1, RequestTypes DEF Submit
  <2> QED
    BY <1>1, <2>2 DEF Submit, TypeOK, RequestTyped, Claimable
<1>2. ASSUME NEW j \in Jobs, Retry(c, j) PROVE TypeOK' /\ Claimable'
  <2> DEFINE r == jobs[j]
             held == r.status = "queued" /\ r.held
             q == [Idle EXCEPT !.pc = IF held THEN "cancelheld" ELSE "load",
                     !.project = ProjectOf[j], !.retryOf = j, !.exact = ~held,
                     !.frozen = r.creation, !.resolved = r.resolved]
  <2>0. r \in Row /\ ProjectOf[j] \in Projects
    BY PoolAssumption DEF TypeOK
  <2>1. q \in Request /\ RequestOK(q)
    <3>0. r.creation \in Revisions /\ r.resolved \in Brief
      BY <2>0 DEF Row
    <3> DEFINE pc == IF held THEN "cancelheld" ELSE "load"
               exact == ~held
    <3>1. pc \in {"cancelheld", "load"} /\ exact \in BOOLEAN /\ Idle \in Request
      BY ConstantTypes
    <3> HIDE DEF pc, exact
    <3> DEFINE q2 == [Idle EXCEPT !.pc = pc, !.project = ProjectOf[j], !.retryOf = j,
                        !.exact = exact, !.frozen = r.creation, !.resolved = r.resolved]
    <3>2. q2 \in Request
      BY <2>0, <3>0, <3>1 DEF Request, RequestPcs
    <3>3. q2.pc = pc /\ q2.project = ProjectOf[j] /\ q2.retryOf = j
      BY <3>1 DEF Request
    <3>4. RequestOK(q2)
      BY <2>0, <3>1, <3>3 DEF RequestOK
    <3> QED
      BY <3>2, <3>4 DEF pc, exact
  <2>2. RequestTyped'
    BY <1>2, <2>1, RequestTypes DEF Retry
  <2> QED
    BY <1>2, <2>2 DEF Retry, TypeOK, RequestTyped, Claimable
<1>3. ASSUME CancelHeld(c) PROVE TypeOK' /\ Claimable'
  <2> DEFINE j == request[c].retryOf
             q == [request[c] EXCEPT !.pc = "load"]
  <2>0. j \in Jobs /\ jobs[j] \in Row
    BY <1>0, <1>3 DEF CancelHeld, RequestOK, TypeOK
  <2>1. jobs' \in [Jobs -> Row]
    <3>1. 0 \in 0 .. MaxAttempts
      BY BoundAssumption
    <3>2. MarkCancelled(jobs[j], 0) \in Row
      BY <2>0, <3>1, RowTypes
    <3>3. UpdateRow(j, MarkCancelled(jobs[j], 0))
      BY <1>3 DEF CancelHeld
    <3> QED
      BY <2>0, <3>2, <3>3, UpdateTypes
  <2>2. q \in Request /\ RequestOK(q)
    BY <1>0, <1>3 DEF CancelHeld, Request, RequestPcs, RequestOK
  <2>3. RequestTyped'
    BY <1>3, <2>2, RequestTypes DEF CancelHeld
  <2>4. Claimable'
    BY <1>3, <2>0 DEF CancelHeld, Claimable, RowOK, MayRun, UpdateRow, MarkCancelled, Cancelled, TypeOK, Row
  <2> QED
    BY <1>3, <2>1, <2>3, <2>4 DEF CancelHeld, TypeOK, RequestTyped
<1>4. ASSUME Load(c) PROVE TypeOK' /\ Claimable'
  <2> DEFINE p == request[c].project
             q == [[request[c] EXCEPT !.pc = "insert"] EXCEPT !.creation = revision[p]]
  <2>1. q \in Request /\ RequestOK(q)
    <3>1. request[c].pc = "load" /\ p \in Projects /\ revision[p] \in Revisions
      BY <1>0, <1>4 DEF Load, RequestOK
    <3> HIDE DEF p
    <3>2. q \in Request /\ q.pc = "insert" /\ q.project = request[c].project
      BY <1>0, <3>1 DEF Request, RequestPcs
    <3> QED
      BY <3>1, <3>2 DEF RequestOK, p
  <2>2. RequestTyped'
    <3>1. CASE Loads(p)
      <4>1. request' = [request EXCEPT ![c] = q]
        BY <1>4, <3>1 DEF Load, TypeOK
      <4> QED
        BY <2>1, <4>1, RequestTypes
    <3>2. CASE ~Loads(p)
      BY <1>4, <3>2, ReplyTypes DEF Load
    <3> QED
      BY <3>1, <3>2
  <2> QED
    BY <1>4, <2>2 DEF Load, TypeOK, RequestTyped, Claimable
<1>5. ASSUME Insert(c) PROVE TypeOK' /\ Claimable'
  <2> DEFINE q == request[c]
  <2>1. PICK j \in Jobs \ Existing :
          /\ UpdateRow(j, NewRow(q.creation, q.retryOf))
          /\ request' = [request EXCEPT ![c] =
                           IF q.exact THEN [q EXCEPT !.pc = "patch", !.job = j] ELSE Idle]
    BY <1>5 DEF Insert
  <2>2. NewRow(q.creation, q.retryOf) \in Row
    BY <1>0, BoundAssumption DEF NewRow, Row, Status, Request, TypeOK
  <2>3. jobs' \in [Jobs -> Row]
    BY <2>1, <2>2, UpdateTypes
  <2>4. [q EXCEPT !.pc = "patch", !.job = j] \in Request
        /\ RequestOK([q EXCEPT !.pc = "patch", !.job = j])
    BY <1>0, <1>5 DEF Insert, Request, RequestPcs, RequestOK
  <2>5. RequestTyped'
    BY <2>1, <2>4, RequestTypes, ReplyTypes DEF Reply
  <2>6. Claimable'
    BY <2>1, BoundAssumption DEF Claimable, RowOK, MayRun, UpdateRow, NewRow, TypeOK
  <2> QED
    BY <1>5, <2>3, <2>5, <2>6 DEF Insert, TypeOK, RequestTyped
<1>6. ASSUME Reject(c) PROVE TypeOK' /\ Claimable'
  BY <1>6, ReplyTypes DEF Reject, TypeOK, RequestTyped, Claimable
<1>7. ASSUME Patch(c) PROVE TypeOK' /\ Claimable'
  <2> DEFINE q == request[c]
             r == jobs[q.job]
             row == IF r.status = "queued"
                      THEN [r EXCEPT !.creation = IF q.frozen = 0 THEN @ ELSE q.frozen,
                                     !.resolved = q.resolved]
                      ELSE r
  <2>0. q.job \in Jobs /\ r \in Row
    BY <1>0, <1>7 DEF Patch, RequestOK, TypeOK
  <2>1. row \in Row
    BY <1>0, <2>0 DEF Row, Request
  <2>2. UpdateRow(q.job, row)
    BY <1>7 DEF Patch
  <2>3. jobs' \in [Jobs -> Row]
    BY <2>0, <2>1, <2>2, UpdateTypes
  <2>4. Claimable'
    BY <2>0, <2>2 DEF Claimable, RowOK, MayRun, UpdateRow, TypeOK, Row
  <2> QED
    BY <1>7, <2>3, <2>4, ReplyTypes DEF Patch, TypeOK, RequestTyped
<1>8. ASSUME NEW p \in Projects, DeleteBegin(c, p) PROVE TypeOK' /\ Claimable'
  <2> DEFINE S == {j \in Jobs : ProjectOf[j] = p /\ jobs[j].status = "queued"}
             q == [Idle EXCEPT !.pc = "rmtree", !.project = p, !.swept = S]
  <2>1. q \in Request /\ RequestOK(q)
    BY <1>0 DEF Idle, Request, RequestPcs, RequestOK
  <2>2. RequestTyped'
    BY <1>8, <2>1, RequestTypes DEF DeleteBegin
  <2>0. /\ jobs \in [Jobs -> Row]
        /\ jobs' = [j \in Jobs |-> IF j \in S THEN Swept(jobs[j]) ELSE jobs[j]]
    BY <1>8 DEF DeleteBegin, TypeOK, Swept
  <2>3. jobs' \in [Jobs -> Row]
    BY <2>0, SweepTypes
  <2>4. Claimable'
    <3> SUFFICES ASSUME NEW j \in Jobs PROVE RowOK(jobs'[j])
      BY DEF Claimable
    <3>1. CASE j \in S
      <4>1. jobs'[j] = Swept(jobs[j]) /\ jobs[j] \in Row /\ jobs[j].status = "queued"
        BY <2>0, <3>1
      <4> QED
        BY <4>1, SweepTypes DEF Claimable, RowOK, MayRun
    <3>2. CASE j \notin S
      BY <2>0, <3>2 DEF Claimable
    <3> QED
      BY <3>1, <3>2
  <2> QED
    BY <1>8, <2>2, <2>3, <2>4 DEF DeleteBegin, TypeOK, RequestTyped
<1>9. ASSUME NEW p \in Projects, NEW lost PROVE Without(p, lost) \in [Jobs -> [Attempts -> File]]
  BY ConstantTypes DEF Without, TypeOK
<1>10. ASSUME DeleteFiles(c) PROVE TypeOK' /\ Claimable'
  <2>1. request[c].project \in Projects
    BY <1>0, <1>10 DEF DeleteFiles, RequestOK
  <2> QED
    BY <1>9, <1>10, <2>1, ReplyTypes DEF DeleteFiles, TypeOK, RequestTyped, Claimable
<1>11. ASSUME DeleteFails(c) PROVE TypeOK' /\ Claimable'
  <2>0. request[c].project \in Projects
    BY <1>0, <1>11 DEF DeleteFails, RequestOK
  <2>1. [request[c] EXCEPT !.pc = "abort"] \in Request
        /\ RequestOK([request[c] EXCEPT !.pc = "abort"])
    BY <1>0, <2>0 DEF Request, RequestPcs, RequestOK
  <2>2. RequestTyped'
    BY <1>11, <2>1, RequestTypes DEF DeleteFails
  <2>3. files' \in [Jobs -> [Attempts -> File]]
    BY <1>9, <1>11, <2>0 DEF DeleteFails
  <2> QED
    BY <1>11, <2>2, <2>3 DEF DeleteFails, TypeOK, RequestTyped, Claimable
<1>12. ASSUME DeleteAbort(c) PROVE TypeOK' /\ Claimable'
  <2> DEFINE S == {j \in request[c].swept : jobs[j].status = "error" /\ jobs[j].swept}
  <2>0. /\ jobs \in [Jobs -> Row]
        /\ jobs' = [j \in Jobs |-> IF j \in S THEN GivenBack(jobs[j]) ELSE jobs[j]]
    BY <1>12 DEF DeleteAbort, TypeOK, GivenBack
  <2>1. jobs' \in [Jobs -> Row]
    BY <2>0, SweepTypes
  <2>2. Claimable'
    <3> SUFFICES ASSUME NEW j \in Jobs PROVE RowOK(jobs'[j])
      BY DEF Claimable
    <3>1. CASE j \in S
      <4>1. /\ jobs'[j] = GivenBack(jobs[j]) /\ jobs[j] \in Row
            /\ jobs[j].status = "error" /\ jobs[j].swept
        BY <2>0, <3>1
      <4> QED
        BY <4>1, SweepTypes DEF Claimable, RowOK, MayRun
    <3>2. CASE j \notin S
      BY <2>0, <3>2 DEF Claimable
    <3> QED
      BY <3>1, <3>2
  <2> QED
    BY <1>12, <2>1, <2>2, ReplyTypes DEF DeleteAbort, TypeOK, RequestTyped
<1> QED
  BY <1>1, <1>2, <1>3, <1>4, <1>5, <1>6, <1>7, <1>8, <1>10, <1>11, <1>12 DEF Handler

LEMMA RowTransitions ==
  ASSUME NEW r \in Row, RowOK(r), NEW a \in 0 .. MaxAttempts, NEW t \in 0 .. MaxAttempts
  PROVE  /\ RowOK(MarkCancelled(r, a)) /\ RowOK(FinishDone(r, a, t)) /\ RowOK(SetError(r, a, t))
         /\ r.status = "queued" => RowOK(Cancelled(r))
         /\ r.status = "running" => RowOK(Reclaimed(r))
<1> USE DEF RowOK, MayRun, Row
<1>1. r.status \in {"queued", "running"} => RowOK(Cancelled(r))
  BY DEF Cancelled
<1>2. RowOK(MarkCancelled(r, a))
  BY <1>1 DEF MarkCancelled
<1>3. RowOK(FinishDone(r, a, t))
  BY DEF FinishDone
<1>4. RowOK(SetError(r, a, t))
  BY DEF SetError
<1>5. r.status = "running" => RowOK(Reclaimed(r))
  BY BoundAssumption DEF Reclaimed
<1> QED
  BY <1>1, <1>2, <1>3, <1>4, <1>5

\* The ways an attempt or its watchdog writes a row.
LEMMA AttemptRowTypes ==
  ASSUME NEW r \in Row, RowOK(r), NEW b \in Brief, NEW t \in 0 .. MaxAttempts
  PROVE  /\ \A row \in {[r EXCEPT !.resolved = b], [r EXCEPT !.remote = TRUE],
                       [r EXCEPT !.stale = FALSE],
                       [r EXCEPT !.status = "done", !.take = t]} : row \in Row /\ RowOK(row)
         /\ LET row == [r EXCEPT !.status = "error", !.take = t] IN
            r.status = "running" => row \in Row /\ RowOK(row)
<1>1. [r EXCEPT !.resolved = b] \in Row /\ RowOK([r EXCEPT !.resolved = b])
  <2>1. [r EXCEPT !.resolved = b] \in Row
    BY DEF Row
  <2> QED
    BY <2>1 DEF Row, RowOK, MayRun
<1>2. [r EXCEPT !.remote = TRUE] \in Row /\ RowOK([r EXCEPT !.remote = TRUE])
  <2>1. [r EXCEPT !.remote = TRUE] \in Row
    BY DEF Row
  <2> QED
    BY <2>1 DEF Row, RowOK, MayRun
<1>3. [r EXCEPT !.stale = FALSE] \in Row /\ RowOK([r EXCEPT !.stale = FALSE])
  <2>1. [r EXCEPT !.stale = FALSE] \in Row
    BY DEF Row
  <2> QED
    BY <2>1 DEF Row, RowOK, MayRun
<1>4. ASSUME NEW st \in {"done", "error"}, st = "error" => r.status = "running"
      PROVE  [r EXCEPT !.status = st, !.take = t] \in Row
             /\ RowOK([r EXCEPT !.status = st, !.take = t])
  <2>1. [r EXCEPT !.status = st, !.take = t] \in Row
    BY <1>4 DEF Row, Status
  <2> QED
    BY <1>4, <2>1 DEF Row, RowOK
<1> QED
  BY <1>1, <1>2, <1>3, <1>4

LEMMA UpdateOK ==
  ASSUME TypeOK, Claimable, NEW j \in Jobs, NEW r \in Row, RowOK(r), UpdateRow(j, r)
  PROVE  jobs' \in [Jobs -> Row] /\ Claimable'
BY DEF TypeOK, Claimable, UpdateRow

LEMMA UserTypes ==
  ASSUME TypeOK, Claimable, User
  PROVE  TypeOK' /\ Claimable'
<1> USE DEF handlerOnly, store
<1>1. ASSUME NEW j \in Jobs, CancelJob(j) PROVE TypeOK' /\ Claimable'
  <2> DEFINE row == IF jobs[j].status = "queued" THEN Cancelled(jobs[j])
                                                 ELSE [jobs[j] EXCEPT !.cancel = TRUE]
  <2>0. jobs[j] \in Row /\ RowOK(jobs[j])
    BY DEF TypeOK, Claimable
  <2>1. row \in Row
    BY <2>0, RowTypes, BoundAssumption DEF Row
  <2>2. RowOK(row)
    BY <1>1, <2>0, RowTransitions, BoundAssumption DEF CancelJob, RowOK, Row
  <2>3. jobs' \in [Jobs -> Row] /\ Claimable'
    BY <1>1, <2>1, <2>2, UpdateOK DEF CancelJob
  <2> QED
    BY <1>1, <2>3 DEF CancelJob, TypeOK
<1>2. ASSUME NEW j \in Jobs, NEW a \in Attempts, KeepTake(j, a) PROVE TypeOK' /\ Claimable'
  BY <1>2 DEF KeepTake, TypeOK, Claimable, Takes
<1>3. ASSUME NEW p \in Projects, EditPlan(p) PROVE TypeOK' /\ Claimable'
  BY <1>3, BoundAssumption DEF EditPlan, TypeOK, Claimable
<1> QED
  BY <1>1, <1>2, <1>3 DEF User

LEMMA ServerCrashTypes ==
  ASSUME TypeOK, Claimable, ServerCrash
  PROVE  TypeOK' /\ Claimable'
BY ConstantTypes DEF ServerCrash, handlerOnly, store, TypeOK, Claimable, RequestOK, Idle

LEMMA LoopingTypes ==
  ASSUME TypeOK, NEW w \in Workers, NEW pc \in LoopPcs, Become(w, Looping(pc))
  PROVE  WorkerTyped'
<1>1. Looping(pc) \in Process /\ ProcessOK(Looping(pc))
  BY ConstantTypes DEF ProcessOK, Looping, LoopPcs, JobPcs, CommitPcs
<1> QED
  BY <1>1, BecomeTypes

\* A step of a cleanup changes its program counter and what it has to look at.
LEMMA SweepProcess ==
  ASSUME TypeOK, NEW w \in Workers, worker[w].pc \in LoopPcs, NEW p, NEW pc \in LoopPcs,
         NEW L \in SUBSET Takes, NEW B \in SUBSET Takes, NEW d \in Takes \cup {None},
         p = [worker[w] EXCEPT !.pc = pc, !.listed = L, !.bare = B, !.doomed = d],
         Become(w, p)
  PROVE  WorkerTyped'
<1>1. worker[w] \in Process /\ ProcessOK(worker[w])
  BY DEF TypeOK
<1>2. p \in Process
  BY <1>1 DEF Process
<1>3. p.pc = pc /\ p.job = worker[w].job /\ p.watch = worker[w].watch
  BY <1>1 DEF Process
<1>4. ProcessOK(p)
  BY <1>1, <1>3, PcKinds DEF ProcessOK
<1> QED
  BY <1>2, <1>4, BecomeTypes

LEMMA CleanupTypes ==
  ASSUME TypeOK, Claimable, NEW w \in Workers, Cleanup(w) \/ Judge(w) \/ Discard(w)
  PROVE  TypeOK' /\ Claimable'
<1> USE DEF clientSide, store
<1> DEFINE W == worker[w]
<1>0. W \in Process /\ W.listed \subseteq Takes /\ W.bare \subseteq Takes
      /\ W.doomed \in Takes \cup {None} /\ W.pc \in LoopPcs
  BY DEF TypeOK, Process, Cleanup, Judge, Discard, At, LoopPcs
<1>1. CASE Cleanup(w)
  <2> DEFINE L == {t \in Takes : files[t[1]][t[2]].state \in Staging}
             B == {t \in Takes : files[t[1]][t[2]].state \in {"bare"}}
             pc == IF L = {} THEN "claim" ELSE "sweep"
             p == [W EXCEPT !.pc = pc, !.listed = L, !.bare = B]
  <2>1. Become(w, p) /\ UNCHANGED <<jobs, files, store, clientSide>>
    BY <1>1 DEF Cleanup
  <2>2. L \in SUBSET Takes /\ B \in SUBSET Takes /\ pc \in LoopPcs
    BY DEF LoopPcs
  <2> HIDE DEF L, B, pc
  <2>3. p = [W EXCEPT !.pc = pc, !.listed = L, !.bare = B, !.doomed = W.doomed]
    BY <1>0 DEF Process
  <2>4. WorkerTyped'
    BY <1>0, <2>1, <2>2, <2>3, SweepProcess
  <2> QED
    BY <2>1, <2>4 DEF TypeOK, WorkerTyped, Claimable
<1>2. ASSUME NEW t \in W.listed, Become(w, Past(W, t)) PROVE WorkerTyped'
  <2> DEFINE pc == IF W.listed = {t} THEN "claim" ELSE "sweep"
             L == W.listed \ {t}
             B == W.bare \ {t}
             p == [W EXCEPT !.pc = pc, !.listed = L, !.bare = B, !.doomed = None]
  <2>1. pc \in LoopPcs /\ L \in SUBSET Takes /\ B \in SUBSET Takes
    BY <1>0 DEF LoopPcs
  <2>2. Become(w, p)
    BY <1>2 DEF Past
  <2>3. None \in Takes \cup {None} /\ W.pc \in LoopPcs
    BY <1>0
  <2> HIDE DEF pc, L, B
  <2> QED
    BY <2>1, <2>2, <2>3, SweepProcess
<1>3. CASE Judge(w)
  <2>1. PICK t \in W.listed \ W.bare :
          Become(w, Past(W, t)) \/ Become(w, [W EXCEPT !.doomed = t])
    BY <1>3 DEF Judge
  <2>2. CASE Become(w, Past(W, t))
    BY <1>2, <1>3, <2>1, <2>2 DEF Judge, TypeOK, WorkerTyped, Claimable
  <2>3. CASE Become(w, [W EXCEPT !.doomed = t])
    <3>1. [W EXCEPT !.doomed = t]
            = [W EXCEPT !.pc = W.pc, !.listed = W.listed, !.bare = W.bare, !.doomed = t]
      BY <1>0 DEF Process
    <3>2. Become(w, [W EXCEPT !.doomed = t]) /\ t \in Takes \cup {None}
      BY <1>0, <2>1, <2>3
    <3>3. WorkerTyped'
      BY <1>0, <3>1, <3>2, SweepProcess
    <3> QED
      BY <1>3, <3>3 DEF Judge, TypeOK, WorkerTyped, Claimable
  <2> QED
    BY <2>1, <2>2, <2>3
<1>4. CASE Discard(w)
  <2>1. PICK t \in W.listed : files' = Discarded(t[1], t[2]) /\ Become(w, Past(W, t))
    BY <1>4 DEF Discard
  <2>2. t[1] \in Jobs /\ t[2] \in Attempts
    BY <1>0, <2>1 DEF Takes
  <2>3. files' \in [Jobs -> [Attempts -> File]]
    BY <2>1, <2>2, DiscardTypes
  <2>4. WorkerTyped'
    BY <1>2, <2>1
  <2> QED
    BY <1>4, <2>3, <2>4 DEF Discard, TypeOK, WorkerTyped, Claimable
<1> QED
  BY <1>1, <1>3, <1>4

\* A step of a cleanup stays in the loop and moves one process.
LEMMA CleanupMoves ==
  ASSUME TypeOK, NEW w \in Workers, Cleanup(w) \/ Judge(w) \/ Discard(w)
  PROVE  /\ worker'[w].pc \in {"claim", "sweep"} /\ worker[w].pc \in LoopPcs
         /\ \A v \in Workers \ {w} : worker'[v] = worker[v]
         /\ UNCHANGED <<jobs, store, clientSide>> /\ (Discard(w) \/ UNCHANGED files)
<1> DEFINE W == worker[w]
<1>0. W \in Process /\ (Judge(w) \/ Discard(w) => W.pc = "sweep") /\ W.pc \in LoopPcs
  BY DEF TypeOK, Process, Cleanup, Judge, Discard, At, LoopPcs
<1>1. \A t : Past(W, t).pc \in {"claim", "sweep"}
  BY <1>0 DEF Past, Process
<1>2. PICK p : Become(w, p) /\ p.pc \in {"claim", "sweep"}
  <2>1. CASE Cleanup(w)
    <3> DEFINE L == {t \in Takes : files[t[1]][t[2]].state \in Staging}
               pc == IF L = {} THEN "claim" ELSE "sweep"
               p == [W EXCEPT !.pc = pc, !.listed = L,
                       !.bare = {t \in Takes : files[t[1]][t[2]].state \in {"bare"}}]
    <3>1. Become(w, p)
      BY <2>1 DEF Cleanup
    <3>2. p.pc \in {"claim", "sweep"}
      BY <1>0 DEF Process
    <3> QED
      BY <3>1, <3>2
  <2>2. CASE Judge(w)
    <3>1. PICK t : Become(w, Past(W, t)) \/ Become(w, [W EXCEPT !.doomed = t])
      BY <2>2 DEF Judge
    <3>2. [W EXCEPT !.doomed = t].pc = "sweep"
      BY <1>0, <2>2 DEF Process
    <3> QED
      BY <1>1, <3>1, <3>2
  <2>3. CASE Discard(w)
    BY <1>1, <2>3 DEF Discard
  <2> QED
    BY <2>1, <2>2, <2>3
<1>3. worker'[w] = p /\ \A v \in Workers \ {w} : worker'[v] = worker[v]
  BY <1>2 DEF Become, TypeOK
<1>4. UNCHANGED <<jobs, store, clientSide>> /\ (Discard(w) \/ UNCHANGED files)
  BY DEF Cleanup, Judge, Discard
<1> QED
  BY <1>0, <1>2, <1>3, <1>4

\* A step of the loop moves the process to another step of the loop.
LEMMA LoopPcTypes ==
  ASSUME TypeOK, NEW w \in Workers, worker[w].pc \in LoopPcs, NEW pc \in LoopPcs, Goto(w, pc)
  PROVE  WorkerTyped'
<1> DEFINE p == [worker[w] EXCEPT !.pc = pc]
<1>1. worker[w] \in Process /\ ProcessOK(worker[w])
  BY DEF TypeOK
<1>2. p \in Process /\ p.pc = pc /\ p.job = worker[w].job /\ p.watch = worker[w].watch
  BY <1>1 DEF Process
<1>3. Become(w, p)
  BY DEF Goto, Become
<1> HIDE DEF p
<1>4. ProcessOK(p)
  BY <1>1, <1>2, PcKinds DEF ProcessOK
<1> QED
  BY <1>2, <1>3, <1>4, BecomeTypes

LEMMA LoopTypes ==
  ASSUME TypeOK, Claimable, NEW w \in Workers, Loop(w)
  PROVE  TypeOK' /\ Claimable'
<1> USE DEF clientSide, store
<1>1. CASE WorkerStart(w)
  BY <1>1, LoopPcTypes DEF WorkerStart, At, LoopPcs, TypeOK, WorkerTyped, Claimable
<1>2. CASE WorkerStop(w)
  BY <1>2, LoopPcTypes DEF WorkerStop, At, LoopPcs, TypeOK, WorkerTyped, Claimable
<1>3. CASE Reclaim(w)
  <2>1. /\ jobs \in [Jobs -> Row] /\ \A j \in Jobs : RowOK(jobs[j])
        /\ jobs' = [j \in Jobs |-> IF jobs[j].status = "running" /\ jobs[j].stale
                                     THEN Reclaimed(jobs[j]) ELSE jobs[j]]
    BY <1>3 DEF Reclaim, TypeOK, Claimable
  <2>2. jobs' \in [Jobs -> Row]
    BY <2>1, RowTypes, BoundAssumption
  <2>3. Claimable'
    BY <2>1, RowTransitions, BoundAssumption DEF Claimable
  <2>4. WorkerTyped'
    BY <1>3, LoopPcTypes DEF Reclaim, At, LoopPcs
  <2> QED
    BY <1>3, <2>2, <2>3, <2>4 DEF Reclaim, TypeOK, WorkerTyped
<1>4. CASE Cleanup(w) \/ Judge(w) \/ Discard(w)
  BY <1>4, CleanupTypes
<1>5. CASE Claim(w)
  <2> DEFINE elig == {j \in Jobs : jobs[j].status = "queued" /\ ~jobs[j].held
                                   /\ ProjectOf[j] \notin tombstones}
             runnable == {j \in elig : jobs[j].creation # 0}
             oldest == {j \in runnable : \A k \in runnable : jobs[j].born <= jobs[k].born}
             Hold(S) == [j \in Jobs |-> IF j \in S THEN [jobs[j] EXCEPT !.held = TRUE] ELSE jobs[j]]
  <2>1. ASSUME NEW S PROVE Hold(S) \in [Jobs -> Row] /\ \A j \in Jobs : RowOK(Hold(S)[j])
    <3>1. \A r \in Row : [r EXCEPT !.held = TRUE] \in Row
      BY DEF Row
    <3>2. \A r \in Row : RowOK(r) => RowOK([r EXCEPT !.held = TRUE])
      BY DEF Row, RowOK, MayRun
    <3> QED
      BY <3>1, <3>2 DEF TypeOK, Claimable
  <2>2. CASE jobs' = Hold(elig) /\ Goto(w, "reclaim")
    <3>1. WorkerTyped'
      BY <1>5, <2>2, LoopPcTypes DEF Claim, At, LoopPcs
    <3>2. jobs' \in [Jobs -> Row] /\ Claimable'
      BY <2>1, <2>2 DEF Claimable
    <3> QED
      BY <1>5, <3>1, <3>2 DEF Claim, TypeOK, WorkerTyped
  <2>3. ASSUME NEW j \in oldest,
               jobs' = [Hold({k \in elig \ runnable : jobs[k].born < jobs[j].born}) EXCEPT ![j] =
                 [jobs[j] EXCEPT !.status = "running", !.stale = FALSE,
                                 !.attempts = jobs[j].attempts + 1,
                                 !.token = jobs[j].attempts + 1]],
               Become(w, [pc |-> "claimed", job |-> j, attempt |-> jobs[j].attempts + 1,
                          creation |-> jobs[j].creation, seed |-> jobs[j].resolved,
                          drawn |-> jobs[j].resolved = None, take |-> 0, watch |-> "armed",
                          listed |-> {}, bare |-> {}, doomed |-> None])
        PROVE  TypeOK' /\ Claimable'
    <3> DEFINE r == jobs[j]
               row == [r EXCEPT !.status = "running", !.stale = FALSE,
                                !.attempts = r.attempts + 1, !.token = r.attempts + 1]
               p == [pc |-> "claimed", job |-> j, attempt |-> r.attempts + 1,
                     creation |-> r.creation, seed |-> r.resolved,
                     drawn |-> r.resolved = None, take |-> 0, watch |-> "armed",
                     listed |-> {}, bare |-> {}, doomed |-> None]
    <3>0. j \in Jobs /\ r \in Row /\ r.status = "queued" /\ RowOK(r)
      BY <2>3 DEF TypeOK, Claimable
    <3>1. r.attempts + 1 \in Attempts /\ r.attempts + 1 \in 0 .. MaxAttempts /\ 0 \in 0 .. MaxAttempts
      BY <3>0, BoundAssumption DEF RowOK, MayRun, Row, Attempts
    <3>2. row \in Row /\ RowOK(row)
      BY <3>0, <3>1 DEF Row, Status, RowOK, MayRun
    <3>3. p \in Process /\ ProcessOK(p)
      BY <3>0, <3>1 DEF Process, ProcessOK, LoopPcs, JobPcs, CommitPcs, Watch, Row
    <3>4. WorkerTyped'
      BY <2>3, <3>3, BecomeTypes
    <3>5. PICK H \in [Jobs -> Row] : /\ \A k \in Jobs : RowOK(H[k])
                                     /\ jobs' = [H EXCEPT ![j] = row]
      <4> DEFINE S == {k \in elig \ runnable : jobs[k].born < r.born}
      <4>1. Hold(S) \in [Jobs -> Row] /\ \A k \in Jobs : RowOK(Hold(S)[k])
        BY <2>1
      <4>2. jobs' = [Hold(S) EXCEPT ![j] = row]
        BY <2>3
      <4> HIDE DEF Hold, S, row
      <4> QED
        BY <4>1, <4>2
    <3>6. jobs' \in [Jobs -> Row] /\ Claimable'
      BY <3>0, <3>2, <3>5 DEF Claimable
    <3> QED
      BY <1>5, <3>4, <3>6 DEF Claim, TypeOK, WorkerTyped
  <2> QED
    BY <1>5, <2>2, <2>3 DEF Claim
<1>6. CASE Crash(w)
  BY <1>6, LoopingTypes DEF Crash, LoopPcs, TypeOK, WorkerTyped, Claimable
<1> QED
  BY <1>1, <1>2, <1>3, <1>4, <1>5, <1>6 DEF Loop

\* The rest of the state a job step leaves alone.
OutsideTyped ==
  /\ onDisk \subseteq Projects /\ tombstones \subseteq Projects
  /\ revision \in [Projects -> 1 .. MaxRevision]
  /\ active \in [Projects -> Takes \cup {None}]
  /\ clock \in Nat /\ RequestTyped

LEMMA OutsideTypes == TypeOK => OutsideTyped /\ WorkerTyped
BY DEF TypeOK, OutsideTyped, RequestTyped, WorkerTyped

LEMMA OutsideUnchanged ==
  ASSUME TypeOK, UNCHANGED <<store, clientSide>>
  PROVE  OutsideTyped'
BY DEF TypeOK, store, clientSide, OutsideTyped, RequestTyped

LEMMA Assemble ==
  ASSUME OutsideTyped', WorkerTyped', jobs' \in [Jobs -> Row],
         files' \in [Jobs -> [Attempts -> File]]
  PROVE  TypeOK'
BY DEF TypeOK, OutsideTyped, RequestTyped, WorkerTyped

\* What a job step starts from.
LEMMA JobStepFacts ==
  ASSUME TypeOK, Claimable, NEW w \in Workers, worker[w].pc \in JobPcs
  PROVE  LET W == worker[w] IN
         /\ W \in Process /\ W.job \in Jobs /\ W.attempt \in Attempts
         /\ jobs[W.job] \in Row /\ RowOK(jobs[W.job])
         /\ W.attempt \in 0 .. MaxAttempts /\ W.take \in 0 .. MaxAttempts
         /\ jobs \in [Jobs -> Row] /\ files \in [Jobs -> [Attempts -> File]]
<1>1. worker[w] \in Process /\ worker[w].job \in Jobs /\ worker[w].attempt \in Attempts
  BY JobPcTypes
<1> QED
  BY <1>1, BoundAssumption DEF TypeOK, Claimable, Attempts, Process

LEMMA FencedTypes ==
  ASSUME TypeOK, Claimable, NEW w \in Workers, worker[w].pc \in JobPcs,
         NEW row \in Row, RowOK(row), NEW pc \in JobPcs, Fenced(w, row, pc)
  PROVE  TypeOK' /\ Claimable'
<1>0. OutsideTyped'
  BY OutsideUnchanged DEF Fenced
<1>1. CASE Owns(worker[w].job, worker[w].attempt)
  <2>1. jobs' \in [Jobs -> Row] /\ Claimable'
    BY <1>1, UpdateOK, JobStepFacts DEF Fenced
  <2>2. WorkerTyped'
    BY <1>1, GotoTypes DEF Fenced
  <2>3. files' \in [Jobs -> [Attempts -> File]]
    BY <1>1, JobStepFacts DEF Fenced
  <2> QED
    BY <1>0, <2>1, <2>2, <2>3, Assemble
<1>2. CASE ~Owns(worker[w].job, worker[w].attempt)
  <2>1. files' \in [Jobs -> [Attempts -> File]]
    BY <1>2, DiscardTypes, JobStepFacts DEF Fenced
  <2>2. WorkerTyped'
    BY <1>2, GotoTypes DEF Fenced, JobPcs
  <2>3. jobs' \in [Jobs -> Row] /\ Claimable'
    BY <1>2, JobStepFacts DEF Fenced, Claimable
  <2> QED
    BY <1>0, <2>1, <2>2, <2>3, Assemble
<1> QED
  BY <1>1, <1>2

LEMMA AbandonTypes ==
  ASSUME TypeOK, Claimable, NEW w \in Workers, worker[w].pc \in JobPcs, Abandon(w)
  PROVE  TypeOK' /\ Claimable'
<1>1. files' \in [Jobs -> [Attempts -> File]]
  BY DiscardTypes, JobStepFacts DEF Abandon
<1>2. WorkerTyped'
  BY GotoTypes DEF Abandon, JobPcs
<1>3. jobs' \in [Jobs -> Row] /\ Claimable' /\ OutsideTyped'
  BY JobStepFacts, OutsideUnchanged DEF Abandon, Claimable
<1> QED
  BY <1>1, <1>2, <1>3, Assemble

\* Setting the take of a process.
LEMMA TakeTypes ==
  ASSUME TypeOK, NEW w \in Workers, worker[w].pc \in JobPcs, NEW pc \in JobPcs,
         NEW t \in 0 .. MaxAttempts
  PROVE  LET p == [worker[w] EXCEPT !.pc = pc, !.take = t] IN p \in Process /\ ProcessOK(p)
<1>1. /\ worker[w] \in Process /\ worker[w].job \in Jobs /\ worker[w].attempt \in Attempts
      /\ "off" \in Watch /\ None \in Brief
  BY JobPcTypes DEF Watch, Brief
<1> QED
  BY <1>1, AttemptTypes

LEMMA BackendTypes ==
  ASSUME TypeOK, Claimable, NEW w \in Workers, Backend(w)
  PROVE  TypeOK' /\ Claimable'
<1> DEFINE W == worker[w]
<1>0. W.pc \in JobPcs
  BY DEF Backend, Freeze, RecordHandle, Render, BackendCancelled, Fail, At, BackendPcs,
         FaultPcs, JobPcs, CommitPcs
<1>1. CASE Freeze(w)
  <2> DEFINE row == [jobs[W.job] EXCEPT !.resolved = W.seed]
  <2>1. row \in Row /\ RowOK(row)
    <3>1. W.seed \in Brief
      BY <1>0, JobStepFacts DEF Process
    <3> QED
      BY <1>0, <3>1, JobStepFacts, AttemptRowTypes
  <2> QED
    BY <1>0, <1>1, <2>1, FencedTypes DEF Freeze, JobPcs
<1>2. CASE RecordHandle(w)
  <2> DEFINE row == [jobs[W.job] EXCEPT !.remote = TRUE]
  <2>1. row \in Row /\ RowOK(row)
    <3>1. 0 \in 0 .. MaxAttempts /\ None \in Brief
      BY BoundAssumption DEF Brief
    <3> QED
      BY <1>0, <3>1, JobStepFacts, AttemptRowTypes
  <2> QED
    BY <1>0, <1>2, <2>1, FencedTypes DEF RecordHandle, JobPcs
<1>3. CASE Render(w)
  <2>1. Rebuilt(W.job, W.attempt) \in FileStates
    BY <1>0, JobStepFacts DEF Rebuilt, File, FileStates
  <2>2. files' \in [Jobs -> [Attempts -> File]]
    BY <1>0, <1>3, <2>1, StateTypes, JobStepFacts DEF Render
  <2> DEFINE watch == IF W.watch = "armed" THEN "lifted" ELSE W.watch
             p == [W EXCEPT !.pc = "rendered", !.watch = watch]
  <2>0. watch \in Watch
    BY <1>0, JobStepFacts DEF Process, Watch
  <2>3. p \in Process /\ ProcessOK(p)
    <3>1. "rendered" \in JobPcs
      BY DEF JobPcs
    <3>2. W \in Process /\ W.job \in Jobs /\ W.attempt \in Attempts
      BY <1>0, JobStepFacts
    <3> HIDE DEF watch
    <3> QED
      BY <2>0, <3>1, <3>2, AttemptTypes DEF Process
  <2>4. WorkerTyped'
    BY <1>3, <2>3, BecomeTypes DEF Render
  <2> QED
    BY <1>0, <1>3, <2>2, <2>4, JobStepFacts, OutsideUnchanged, Assemble DEF Render, Claimable
<1>4. CASE BackendCancelled(w)
  BY <1>0, <1>4, AbandonTypes DEF BackendCancelled
<1>5. CASE Fail(w)
  <2> DEFINE take == IF W.pc = "finish" THEN 0 ELSE W.take
             p == [W EXCEPT !.pc = "raised", !.take = take]
  <2>0. take \in 0 .. MaxAttempts
    BY <1>0, JobStepFacts, BoundAssumption
  <2>1. p \in Process /\ ProcessOK(p)
    <3>1. "raised" \in JobPcs
      BY DEF JobPcs
    <3> HIDE DEF take
    <3> QED
      BY <1>0, <2>0, <3>1, TakeTypes
  <2>2. WorkerTyped'
    BY <1>5, <2>1, BecomeTypes DEF Fail
  <2> QED
    BY <1>0, <1>5, <2>2, JobStepFacts, OutsideUnchanged, Assemble DEF Fail, Claimable
<1> QED
  BY <1>1, <1>2, <1>3, <1>4, <1>5 DEF Backend

\* A job step that moves the program counter and nothing else.
LEMMA OnlyGoto ==
  ASSUME TypeOK, Claimable, NEW w \in Workers, worker[w].pc \in JobPcs, NEW pc \in JobPcs,
         Goto(w, pc), UNCHANGED <<jobs, files, store, clientSide>>
  PROVE  TypeOK' /\ Claimable'
<1>1. WorkerTyped' /\ OutsideTyped'
  BY GotoTypes, OutsideUnchanged
<1> QED
  BY <1>1, JobStepFacts, Assemble DEF Claimable

\* A job step that writes its row and moves the program counter.
LEMMA OnlyRow ==
  ASSUME TypeOK, Claimable, NEW w \in Workers, worker[w].pc \in JobPcs, NEW pc \in JobPcs,
         Goto(w, pc), NEW row \in Row, RowOK(row), UpdateRow(worker[w].job, row),
         UNCHANGED <<files, store, clientSide>>
  PROVE  TypeOK' /\ Claimable'
<1>1. WorkerTyped' /\ OutsideTyped'
  BY GotoTypes, OutsideUnchanged
<1>2. jobs' \in [Jobs -> Row] /\ Claimable'
  BY JobStepFacts, UpdateOK
<1> QED
  BY <1>1, <1>2, JobStepFacts, Assemble

LEMMA BeforeCommitTypes ==
  ASSUME TypeOK, Claimable, NEW w \in Workers,
         \/ CancelCheck(w) \/ FindCommitted(w) \/ FinishExisting(w) \/ Resolve(w)
         \/ Allocate(w) \/ Mark(w) \/ AfterRender(w) \/ MarkCancel(w)
  PROVE  TypeOK' /\ Claimable'
<1> DEFINE W == worker[w]
<1>0. W.pc \in JobPcs
  BY DEF CancelCheck, FindCommitted, FinishExisting, Resolve, Allocate, Mark, AfterRender,
         MarkCancel, At, JobPcs
<1>1. CASE CancelCheck(w)
  BY <1>0, <1>1, OnlyGoto DEF CancelCheck, JobPcs
<1>2. CASE FindCommitted(w)
  <2>1. CASE Goto(w, "resolve")
    BY <1>0, <1>2, <2>1, OnlyGoto DEF FindCommitted, JobPcs
  <2>2. CASE \E a \in PriorTakes(W.job) : Become(w, [W EXCEPT !.pc = "finish", !.take = a])
    <3>1. PICK a \in Attempts : Become(w, [W EXCEPT !.pc = "finish", !.take = a])
      BY <2>2 DEF PriorTakes, CommittedTakes
    <3>2. "finish" \in JobPcs /\ a \in 0 .. MaxAttempts
      BY BoundAssumption DEF JobPcs, Attempts
    <3>3. WorkerTyped'
      BY <1>0, <3>1, <3>2, TakeTypes, BecomeTypes
    <3> QED
      BY <1>0, <1>2, <3>3, JobStepFacts, OutsideUnchanged, Assemble DEF FindCommitted, Claimable
  <2> QED
    BY <1>2, <2>1, <2>2 DEF FindCommitted
<1>3. CASE FinishExisting(w)
  <2>1. FinishDone(jobs[W.job], W.attempt, W.take) \in Row
        /\ RowOK(FinishDone(jobs[W.job], W.attempt, W.take))
    BY <1>0, JobStepFacts, RowTypes, RowTransitions
  <2> QED
    BY <1>0, <1>3, <2>1, OnlyRow DEF FinishExisting, JobPcs
<1>4. CASE Resolve(w)
  <2>1. CASE jobs[W.job].cancel
    BY <1>0, <1>4, <2>1, OnlyGoto DEF Resolve, JobPcs
  <2>2. CASE ~jobs[W.job].cancel
    <3>0. W.seed \in Brief
      BY <1>0, JobStepFacts DEF Process
    <3>1. PICK s \in Brief : Become(w, [W EXCEPT !.pc = "allocate", !.seed = s])
      <4>1. PICK s \in (IF W.drawn THEN Seeds ELSE {W.seed}) :
              Become(w, [W EXCEPT !.pc = "allocate", !.seed = s])
        BY <1>4, <2>2 DEF Resolve
      <4>2. s \in Brief
        BY <3>0, <4>1 DEF Brief
      <4> QED
        BY <4>1, <4>2
    <3>2. [W EXCEPT !.pc = "allocate", !.seed = s] \in Process
          /\ ProcessOK([W EXCEPT !.pc = "allocate", !.seed = s])
      <4>1. "allocate" \in JobPcs /\ "off" \in Watch /\ 0 \in 0 .. MaxAttempts
        BY BoundAssumption DEF JobPcs, Watch
      <4>2. W \in Process /\ W.job \in Jobs /\ W.attempt \in Attempts
        BY <1>0, JobStepFacts
      <4> QED
        BY <4>1, <4>2, AttemptTypes
    <3>3. WorkerTyped'
      BY <3>1, <3>2, BecomeTypes
    <3> QED
      BY <1>0, <1>4, <3>3, JobStepFacts, OutsideUnchanged, Assemble DEF Resolve, Claimable
  <2> QED
    BY <2>1, <2>2
<1>5. CASE Allocate(w)
  <2>0. OutsideTyped' /\ jobs' \in [Jobs -> Row] /\ Claimable'
    BY <1>0, <1>5, JobStepFacts, OutsideUnchanged DEF Allocate, Claimable
  <2>1. CASE Loads(ProjectOf[W.job])
    <3> DEFINE f == [NoFile EXCEPT !.state = "bare"]
    <3>1. f \in File
      BY ConstantTypes DEF File, FileStates
    <3>2. WorkerTyped'
      BY <1>0, <1>5, <2>1, GotoTypes DEF Allocate, JobPcs
    <3>3. files' = [files EXCEPT ![W.job][W.attempt] = f]
      BY <1>5, <2>1 DEF Allocate
    <3> HIDE DEF f
    <3>4. files' \in [Jobs -> [Attempts -> File]]
      BY <1>0, <3>1, <3>3, JobStepFacts, FileTypes
    <3> QED
      BY <2>0, <3>2, <3>4, Assemble
  <2>2. CASE ~Loads(ProjectOf[W.job])
    BY <1>0, <1>5, <2>2, OnlyGoto DEF Allocate, JobPcs
  <2> QED
    BY <2>1, <2>2
<1>8. CASE Mark(w)
  <2> DEFINE next == IF RemoteGpu THEN "submit" ELSE IF W.drawn THEN "freeze" ELSE "render"
  <2>1. next \in JobPcs
    BY DEF JobPcs
  <2>2. Become(w, [W EXCEPT !.pc = next, !.take = W.attempt])
    <3>1. [W EXCEPT !.take = W.attempt, !.pc = next]
            = [W EXCEPT !.pc = next, !.take = W.attempt]
      BY <1>0, JobStepFacts DEF Process
    <3> QED
      BY <1>8, <3>1 DEF Mark
  <2>3. WorkerTyped'
    <3> HIDE DEF next
    <3> QED
      BY <1>0, <2>1, <2>2, JobStepFacts, TakeTypes, BecomeTypes
  <2>4. files' \in [Jobs -> [Attempts -> File]]
    BY <1>0, <1>8, JobStepFacts, StateTypes DEF Mark, FileStates
  <2> QED
    BY <1>0, <1>8, <2>3, <2>4, JobStepFacts, OutsideUnchanged, Assemble DEF Mark, Claimable
<1>6. CASE AfterRender(w)
  <2>1. CASE jobs[W.job].cancel
    BY <1>0, <1>6, <2>1, AbandonTypes DEF AfterRender
  <2>2. CASE ~jobs[W.job].cancel
    <3> DEFINE f == [state |-> Rebuilt(W.job, W.attempt), creation |-> RenderedPlan(W),
                     seed |-> W.seed]
    <3>1. f \in File
      <4>1. W.creation \in Revisions /\ W.seed \in Brief
        BY <1>0, JobStepFacts DEF Process
      <4>2. Rebuilt(W.job, W.attempt) \in FileStates
        BY <1>0, JobStepFacts DEF Rebuilt, File, FileStates
      <4> QED
        BY <4>1, <4>2 DEF File, RenderedPlan
    <3>2. files' = [files EXCEPT ![W.job][W.attempt] = f]
      BY <1>6, <2>2 DEF AfterRender
    <3> HIDE DEF f
    <3>3. files' \in [Jobs -> [Attempts -> File]]
      BY <1>0, <3>1, <3>2, JobStepFacts, FileTypes
    <3>4. WorkerTyped'
      BY <1>0, <1>6, <2>2, GotoTypes DEF AfterRender, JobPcs
    <3> QED
      BY <1>0, <1>6, <2>2, <3>3, <3>4, JobStepFacts, OutsideUnchanged, Assemble
      DEF AfterRender, Claimable
  <2> QED
    BY <2>1, <2>2
<1>7. CASE MarkCancel(w)
  <2>1. MarkCancelled(jobs[W.job], W.attempt) \in Row
        /\ RowOK(MarkCancelled(jobs[W.job], W.attempt))
    BY <1>0, JobStepFacts, RowTypes, RowTransitions
  <2> QED
    BY <1>0, <1>7, <2>1, OnlyRow DEF MarkCancel, JobPcs
<1> QED
  BY <1>1, <1>2, <1>3, <1>4, <1>5, <1>6, <1>7, <1>8

LEMMA CommitTypes ==
  ASSUME TypeOK, Claimable, NEW w \in Workers,
         \/ CommitCheck(w) \/ Unmark(w) \/ Promote(w) \/ MergeBrief(w) \/ CommitSql(w)
         \/ Activate(w)
  PROVE  TypeOK' /\ Claimable'
<1> DEFINE W == worker[w]
           j == W.job
           p == ProjectOf[j]
<1>0. W.pc \in JobPcs /\ p \in Projects
  <2>1. W.pc \in JobPcs
    BY DEF CommitCheck, Unmark, Promote, MergeBrief, CommitSql, Activate, At, JobPcs, CommitPcs
  <2> QED
    BY <2>1, JobPcTypes, PoolAssumption
<1>1. CASE CommitCheck(w)
  <2> DEFINE drop == files' = Discarded(j, W.attempt)
             r == jobs[j]
  <2>0. OutsideTyped' /\ (drop => files' \in [Jobs -> [Attempts -> File]])
    <3>1. UNCHANGED <<store, clientSide>>
      BY <1>1 DEF CommitCheck
    <3>2. Discarded(j, W.attempt) \in [Jobs -> [Attempts -> File]]
      BY <1>0, DiscardTypes, JobStepFacts
    <3> QED
      BY <3>1, <3>2, OutsideUnchanged
  <2>1. ASSUME NEW pc \in JobPcs, drop, Goto(w, pc), UNCHANGED jobs PROVE TypeOK' /\ Claimable'
    BY <1>0, <2>0, <2>1, JobStepFacts, GotoTypes, Assemble DEF Claimable
  <2>2. ASSUME drop, Become(w, [W EXCEPT !.pc = "failstatus", !.take = 0]), UNCHANGED jobs
        PROVE  TypeOK' /\ Claimable'
    <3>1. "failstatus" \in JobPcs /\ 0 \in 0 .. MaxAttempts
      BY BoundAssumption DEF JobPcs
    <3>2. WorkerTyped'
      BY <1>0, <2>2, <3>1, TakeTypes, BecomeTypes
    <3> QED
      BY <1>0, <2>0, <2>2, <3>2, JobStepFacts, Assemble DEF Claimable
  <2>3. ASSUME Goto(w, "promote"), UNCHANGED <<jobs, files>> PROVE TypeOK' /\ Claimable'
    <3>1. WorkerTyped'
      BY <1>0, <2>3, GotoTypes DEF JobPcs, CommitPcs
    <3> QED
      BY <1>0, <2>0, <2>3, <3>1, JobStepFacts, Assemble DEF Claimable
  <2>4. ASSUME NEW a \in PriorTakes(j), UpdateRow(j, [r EXCEPT !.status = "done", !.take = a]),
               Owns(j, W.attempt), drop, Goto(w, "ended")
        PROVE  TypeOK' /\ Claimable'
    <3>1. a \in 0 .. MaxAttempts
      BY BoundAssumption DEF PriorTakes, CommittedTakes, Attempts
    <3>2. [r EXCEPT !.status = "done", !.take = a] \in Row
          /\ RowOK([r EXCEPT !.status = "done", !.take = a])
      <4>1. r \in Row /\ RowOK(r) /\ r.status = "running" /\ None \in Brief
        BY <1>0, <2>4, JobStepFacts DEF Owns, Brief
      <4> QED
        BY <3>1, <4>1, AttemptRowTypes
    <3>3. jobs' \in [Jobs -> Row] /\ Claimable'
      BY <1>0, <2>4, <3>2, UpdateOK, JobStepFacts
    <3>4. WorkerTyped'
      BY <1>0, <2>4, GotoTypes DEF JobPcs
    <3> QED
      BY <2>0, <2>4, <3>3, <3>4, Assemble
  <2>5. "ended" \in JobPcs /\ "cancelling" \in JobPcs
    BY DEF JobPcs
  <2> QED
    BY <1>1, <2>1, <2>2, <2>3, <2>4, <2>5 DEF CommitCheck
<1>2. CASE Unmark(w) \/ Promote(w)
  <2>1. files' \in [Jobs -> [Attempts -> File]]
    <3>1. UNCHANGED files \/ \E st \in FileStates : files' = [files EXCEPT ![j][W.attempt].state = st]
      BY <1>2 DEF Unmark, Promote, FileStates
    <3>2. \A st \in FileStates :
            [files EXCEPT ![j][W.attempt].state = st] \in [Jobs -> [Attempts -> File]]
      BY <1>0, JobStepFacts, StateTypes
    <3> QED
      BY <3>1, <3>2 DEF TypeOK
  <2>2. PICK pc \in {"unmarked", "raised", "renamed", "merged"} : Goto(w, pc)
    BY <1>2 DEF Unmark, Promote
  <2>3. WorkerTyped'
    <3>1. pc \in JobPcs
      BY DEF JobPcs, CommitPcs
    <3> QED
      BY <1>0, <2>2, <3>1, GotoTypes
  <2> QED
    BY <1>0, <1>2, <2>1, <2>3, JobStepFacts, OutsideUnchanged, Assemble
    DEF Unmark, Promote, Claimable
<1>3. CASE MergeBrief(w)
  <2>1. OutsideTyped'
    BY <1>0, <1>3, OutsideTypes, BoundAssumption DEF MergeBrief, OutsideTyped, clientSide, RequestTyped
  <2>2. WorkerTyped'
    BY <1>0, <1>3, GotoTypes DEF MergeBrief, JobPcs, CommitPcs
  <2> QED
    BY <1>0, <1>3, <2>1, <2>2, JobStepFacts, Assemble DEF MergeBrief, Claimable
<1>4. CASE CommitSql(w)
  <2> DEFINE row == [jobs[j] EXCEPT !.status = "done", !.take = W.attempt]
  <2>1. row \in Row /\ RowOK(row)
    <3>1. W.attempt \in 0 .. MaxAttempts /\ None \in Brief
      BY <1>0, JobStepFacts DEF Brief
    <3> QED
      BY <1>0, <3>1, JobStepFacts, AttemptRowTypes
  <2> QED
    BY <1>0, <1>4, <2>1, OnlyRow DEF CommitSql, JobPcs, CommitPcs
<1>5. CASE Activate(w)
  <2>1. OutsideTyped'
    BY <1>0, <1>5, OutsideTypes, JobStepFacts DEF Activate, OutsideTyped, clientSide, RequestTyped, Takes
  <2>2. WorkerTyped'
    BY <1>0, <1>5, GotoTypes DEF Activate, JobPcs
  <2> QED
    BY <1>0, <1>5, <2>1, <2>2, JobStepFacts, Assemble DEF Activate, Claimable
<1> QED
  BY <1>1, <1>2, <1>3, <1>4, <1>5

LEMMA AfterFailureTypes ==
  ASSUME TypeOK, Claimable, NEW w \in Workers,
         Handle(w) \/ WriteErrorTake(w) \/ SetErrorStatus(w) \/ Join(w)
  PROVE  TypeOK' /\ Claimable'
<1> DEFINE W == worker[w]
           j == W.job
<1>0. W.pc \in JobPcs
  BY DEF Handle, WriteErrorTake, SetErrorStatus, Join, At, JobPcs
<1>1. CASE Handle(w)
  <2>1. files' \in [Jobs -> [Attempts -> File]]
    BY <1>0, <1>1, DiscardTypes, JobStepFacts DEF Handle
  <2>2. WorkerTyped'
    <3> DEFINE pc == IF jobs[j].cancel THEN "cancelling"
                     ELSE IF W.take # 0 THEN "failing" ELSE "failstatus"
    <3>1. pc \in JobPcs /\ Goto(w, pc)
      BY <1>1 DEF Handle, JobPcs
    <3> HIDE DEF pc
    <3> QED
      BY <1>0, <3>1, GotoTypes
  <2> QED
    BY <1>0, <1>1, <2>1, <2>2, JobStepFacts, OutsideUnchanged, Assemble DEF Handle, Claimable
<1>2. CASE WriteErrorTake(w)
  <2>0. OutsideTyped' /\ jobs' \in [Jobs -> Row] /\ Claimable'
    BY <1>0, <1>2, JobStepFacts, OutsideUnchanged DEF WriteErrorTake, Claimable
  <2>1. CASE files' = [files EXCEPT ![j][W.attempt].state = "error"] /\ Goto(w, "failstatus")
    <3>3. files' \in [Jobs -> [Attempts -> File]]
      BY <1>0, <2>1, JobStepFacts, StateTypes DEF FileStates
    <3>4. WorkerTyped'
      BY <1>0, <2>1, GotoTypes DEF JobPcs
    <3> QED
      BY <2>0, <3>3, <3>4, Assemble
  <2>2. CASE Become(w, [W EXCEPT !.pc = "failstatus", !.take = 0]) /\ UNCHANGED files
    <3>1. "failstatus" \in JobPcs /\ 0 \in 0 .. MaxAttempts
      BY BoundAssumption DEF JobPcs
    <3>2. WorkerTyped'
      BY <1>0, <2>2, <3>1, TakeTypes, BecomeTypes
    <3> QED
      BY <1>0, <2>0, <2>2, <3>2, JobStepFacts, Assemble
  <2> QED
    BY <1>2, <2>1, <2>2 DEF WriteErrorTake
<1>3. CASE SetErrorStatus(w)
  <2>1. SetError(jobs[j], W.attempt, W.take) \in Row
        /\ RowOK(SetError(jobs[j], W.attempt, W.take))
    BY <1>0, JobStepFacts, RowTypes, RowTransitions
  <2> QED
    BY <1>0, <1>3, <2>1, OnlyRow DEF SetErrorStatus, JobPcs
<1>4. CASE Join(w)
  <2>1. WorkerTyped'
    BY <1>4, LoopingTypes DEF Join, LoopPcs
  <2> QED
    BY <1>0, <1>4, <2>1, JobStepFacts, OutsideUnchanged, Assemble DEF Join, Claimable
<1> QED
  BY <1>1, <1>2, <1>3, <1>4

\* The heartbeat thread only watches while its job runs.
LEMMA WatchTypes ==
  ASSUME TypeOK, NEW w \in Workers, worker[w].watch # "off", NEW mode \in Watch
  PROVE  worker[w].pc \in JobPcs /\ (Watched(w, mode) => WorkerTyped')
<1>1. worker[w].pc \in JobPcs
  BY DEF TypeOK, Process, ProcessOK
<1>2. [worker[w] EXCEPT !.watch = mode] \in Process
      /\ ProcessOK([worker[w] EXCEPT !.watch = mode])
  BY <1>1, JobPcTypes DEF Process, ProcessOK, JobPcs, LoopPcs, CommitPcs
<1> QED
  BY <1>1, <1>2 DEF Watched, WorkerTyped, TypeOK

LEMMA HeartbeatTypes ==
  ASSUME TypeOK, Claimable, NEW w \in Workers, Heartbeat(w)
  PROVE  TypeOK' /\ Claimable'
<1> DEFINE W == worker[w]
           j == W.job
<1> USE DEF Watching
<1>0. W.pc \in JobPcs
  BY WatchTypes DEF Heartbeat, Watchdog, Touch, ExpireRead, ExpireError, ExpireCancel,
                    ExitProcess, HeartbeatDies, Watch
<1>1. CASE Touch(w)
  <2> DEFINE row == [jobs[j] EXCEPT !.stale = FALSE]
  <2>1. row \in Row /\ RowOK(row)
    <3>1. 0 \in 0 .. MaxAttempts /\ None \in Brief
      BY BoundAssumption DEF Brief
    <3> QED
      BY <1>0, <3>1, JobStepFacts, AttemptRowTypes
  <2>2. jobs' \in [Jobs -> Row] /\ Claimable'
    BY <1>0, <1>1, <2>1, JobStepFacts, UpdateOK DEF Touch
  <2> QED
    BY <1>1, <2>2 DEF Touch, TypeOK, store, clientSide
<1>2. CASE ExpireRead(w)
  <2> DEFINE mode == IF jobs[j].status # "running" THEN "off"
                     ELSE IF jobs[j].cancel THEN "cancel" ELSE "error"
  <2>1. mode \in Watch /\ Watched(w, mode)
    BY <1>2 DEF ExpireRead, Watch
  <2>2. WorkerTyped'
    <3> HIDE DEF mode
    <3> QED
      BY <1>2, <2>1, WatchTypes DEF ExpireRead
  <2> QED
    BY <1>0, <1>2, <2>2, JobStepFacts, OutsideUnchanged, Assemble DEF ExpireRead, Claimable
<1>3. CASE ExpireError(w)
  <2>0. OutsideTyped' /\ files' \in [Jobs -> [Attempts -> File]]
    BY <1>0, <1>3, JobStepFacts, OutsideUnchanged DEF ExpireError
  <2>1. WorkerTyped'
    BY <1>3, WatchTypes DEF ExpireError, Watch
  <2> DEFINE row == [jobs[j] EXCEPT !.status = "error", !.take = 0]
  <2>2. jobs[j].status = "running" => row \in Row /\ RowOK(row)
    <3>1. 0 \in 0 .. MaxAttempts
      BY BoundAssumption
    <3>2. jobs[j] \in Row /\ RowOK(jobs[j])
      BY <1>0, JobStepFacts DEF Claimable
    <3>3. None \in Brief
      BY DEF Brief
    <3> QED
      BY <3>1, <3>2, <3>3, AttemptRowTypes
  <2>3. jobs' \in [Jobs -> Row] /\ Claimable'
    BY <1>0, <1>3, <2>2, JobStepFacts, UpdateOK DEF ExpireError, Claimable
  <2> QED
    BY <2>0, <2>1, <2>3, Assemble
<1>4. CASE ExpireCancel(w)
  <2>0. OutsideTyped' /\ files' \in [Jobs -> [Attempts -> File]]
    BY <1>0, <1>4, JobStepFacts, OutsideUnchanged DEF ExpireCancel
  <2>1. WorkerTyped'
    BY <1>4, WatchTypes DEF ExpireCancel, Watch
  <2>2. MarkCancelled(jobs[j], 0) \in Row /\ RowOK(MarkCancelled(jobs[j], 0))
    <3>1. 0 \in 0 .. MaxAttempts
      BY BoundAssumption
    <3>2. jobs[j] \in Row /\ RowOK(jobs[j])
      BY <1>0, JobStepFacts DEF Claimable
    <3> QED
      BY <3>1, <3>2, RowTypes, RowTransitions
  <2>3. jobs' \in [Jobs -> Row] /\ Claimable'
    BY <1>0, <1>4, <2>2, JobStepFacts, UpdateOK DEF ExpireCancel
  <2> QED
    BY <2>0, <2>1, <2>3, Assemble
<1>5. CASE ExitProcess(w)
  <2>1. WorkerTyped'
    BY <1>5, LoopingTypes DEF ExitProcess, LoopPcs
  <2> QED
    BY <1>0, <1>5, <2>1, JobStepFacts, OutsideUnchanged, Assemble DEF ExitProcess, Claimable
<1>6. CASE HeartbeatDies(w)
  <2>1. WorkerTyped'
    BY <1>6, WatchTypes DEF HeartbeatDies, Watch
  <2> QED
    BY <1>0, <1>6, <2>1, JobStepFacts, OutsideUnchanged, Assemble DEF HeartbeatDies, Claimable
<1> QED
  BY <1>1, <1>2, <1>3, <1>4, <1>5, <1>6 DEF Heartbeat, Watchdog

LEMMA LapseTypes ==
  ASSUME TypeOK, Claimable, NEW j \in Jobs, Lapse(j)
  PROVE  TypeOK' /\ Claimable'
<1>1. [jobs[j] EXCEPT !.stale = TRUE] \in Row /\ RowOK([jobs[j] EXCEPT !.stale = TRUE])
  <2>1. jobs[j] \in Row /\ RowOK(jobs[j])
    BY DEF TypeOK, Claimable
  <2> QED
    BY <2>1 DEF Row, RowOK, MayRun
<1>2. jobs' \in [Jobs -> Row] /\ Claimable'
  BY <1>1, UpdateOK DEF Lapse
<1> QED
  BY <1>2 DEF Lapse, TypeOK, store, clientSide

LEMMA NextTypes == TypeOK /\ Claimable /\ [Next]_vars => TypeOK' /\ Claimable'
<1> SUFFICES ASSUME TypeOK, Claimable, [Next]_vars PROVE TypeOK' /\ Claimable'
  OBVIOUS
<1>1. ASSUME NEW c \in Clients, Handler(c) PROVE TypeOK' /\ Claimable'
  BY <1>1, HandlerTypes
<1>2. ASSUME NEW w \in Workers, Orchestrate(w) PROVE TypeOK' /\ Claimable'
  BY <1>2, BeforeCommitTypes, CommitTypes, AfterFailureTypes DEF Orchestrate
<1>3. ASSUME NEW w \in Workers, Loop(w) \/ Backend(w) \/ Heartbeat(w) PROVE TypeOK' /\ Claimable'
  BY <1>3, LoopTypes, BackendTypes, HeartbeatTypes
<1>4. ASSUME NEW j \in Jobs, Lapse(j) PROVE TypeOK' /\ Claimable'
  BY <1>4, LapseTypes
<1>5. CASE UNCHANGED vars
  BY <1>5 DEF vars, TypeOK, Claimable
<1> QED
  BY <1>1, <1>2, <1>3, <1>4, <1>5, UserTypes, ServerCrashTypes DEF Next

\* Every value stays in its range: in particular no job is claimed more than
\* MAX_ATTEMPTS times, whatever crashes, reclaims and aborted deletions do.
THEOREM TypeCorrect == Spec => [](TypeOK /\ Claimable)
  BY InitTypes, NextTypes, PTL DEF Spec

-----------------------------------------------------------------------------
(* Safety: the inductive invariant *)

\* What holds of one row: an accepted cancel keeps it out of the queue and
\* out of `done`, and a row whose remote handle is recorded can never be
\* claimed again, not even after a deletion gives its job back.
SafeRow(r) ==
  /\ r.cancel => r.status \notin {"queued", "done"}
  /\ r.remote => r.status \notin {"absent", "queued"} /\ ~(r.status = "error" /\ r.swept)
SafeRows == \A j \in Jobs : SafeRow(jobs[j])

\* One process at a time is inside the transaction of a commit.
DbExclusive ==
  \A v, w \in Workers : worker[v].pc \in DbPcs /\ worker[w].pc \in DbPcs => v = w

\* What the commit checked first still holds as long as it is inside its
\* transaction: it is still the owner, nobody cancelled and the project is
\* there; before the rename no take of the job exists.
CommitReady ==
  \A w \in Workers :
    LET W == worker[w]  j == W.job IN
    W.pc \in DbPcs =>
      /\ jobs[j].status = "running" /\ jobs[j].token = W.attempt /\ ~jobs[j].cancel
      /\ ProjectOf[j] \in onDisk \ tombstones
      /\ W.pc \in {"promote", "unmarked"} => \A a \in Attempts : files[j][a].state # "take"

SafeInv == TypeOK /\ Claimable /\ SafeRows /\ DbExclusive /\ CommitReady /\ OneTakePerJob

-----------------------------------------------------------------------------
(* What a step may do *)

\* To a row.
RowStep(r, s) ==
  /\ SafeRow(s)
  /\ r.status \in Terminal =>
       \/ s.status = r.status /\ s.take = r.take
       \/ r.swept /\ s.status = "queued"
  /\ r.remote => s.attempts = r.attempts
RowsStep == \A j \in Jobs : RowStep(jobs[j], jobs'[j])

\* To the processes: none enters the transaction of a commit or moves in it.
LocksStep ==
  \A w \in Workers : worker'[w].pc \in DbPcs =>
    worker'[w].pc = worker[w].pc /\ worker'[w].job = worker[w].job
      /\ worker'[w].attempt = worker[w].attempt

\* To the rows and projects a commit relies on: nothing.
CommitsStep ==
  \A w \in Workers :
    LET j == worker[w].job IN
    worker[w].pc \in DbPcs =>
      /\ jobs'[j].status = jobs[j].status /\ jobs'[j].token = jobs[j].token
      /\ jobs'[j].cancel = jobs[j].cancel
      /\ ProjectOf[j] \in onDisk' \ tombstones'

\* To the files: no take appears, an error take only in a project on disk.
FilesStep ==
  \A j \in Jobs : \A a \in Attempts :
    /\ files'[j][a].state = "take" => files[j][a].state = "take"
    /\ files'[j][a].state = "error" /\ files[j][a].state # "error" => ProjectOf[j] \in onDisk

\* Every step but three of a commit is of this kind.
PlainStep == RowsStep /\ LocksStep /\ CommitsStep /\ FilesStep

\* A step of this kind keeps the invariant.
LEMMA PlainSafe ==
  ASSUME SafeInv, TypeOK', Claimable', PlainStep
  PROVE  SafeInv'
<1>1. SafeRows'
  BY DEF PlainStep, RowsStep, RowStep, SafeRows
<1>2. DbExclusive'
  BY DEF PlainStep, LocksStep, SafeInv, DbExclusive
<1>3. ASSUME NEW j \in Jobs PROVE CommittedTakes(j)' \subseteq CommittedTakes(j)
  BY <1>3 DEF PlainStep, FilesStep, CommittedTakes
<1>4. OneTakePerJob'
  BY <1>3 DEF SafeInv, OneTakePerJob
<1>5. CommitReady'
  <2> SUFFICES ASSUME NEW w \in Workers, worker'[w].pc \in DbPcs
               PROVE  LET j == worker'[w].job IN
                      /\ jobs'[j].status = "running" /\ jobs'[j].token = worker'[w].attempt
                      /\ ~jobs'[j].cancel /\ ProjectOf[j] \in onDisk' \ tombstones'
                      /\ worker'[w].pc \in {"promote", "unmarked"} =>
                           \A a \in Attempts : files'[j][a].state # "take"
    BY DEF CommitReady, DbPcs
  <2> DEFINE W == worker[w]
  <2>1. /\ worker'[w].pc = W.pc /\ worker'[w].job = W.job
        /\ worker'[w].attempt = W.attempt /\ W.pc \in DbPcs
    BY DEF PlainStep, LocksStep
  <2>2. W.job \in Jobs
    BY <2>1, JobPcTypes DEF SafeInv, DbPcs, JobPcs, CommitPcs
  <2>3. /\ jobs[W.job].status = "running" /\ jobs[W.job].token = W.attempt
        /\ ~jobs[W.job].cancel
        /\ W.pc \in {"promote", "unmarked"} =>
             \A a \in Attempts : files[W.job][a].state # "take"
    BY <2>1 DEF SafeInv, CommitReady
  <2>4. /\ jobs'[W.job].status = jobs[W.job].status /\ jobs'[W.job].token = jobs[W.job].token
        /\ jobs'[W.job].cancel = jobs[W.job].cancel
        /\ ProjectOf[W.job] \in onDisk' \ tombstones'
    BY <2>1 DEF PlainStep, CommitsStep
  <2>5. \A a \in Attempts :
          files'[W.job][a].state = "take" => files[W.job][a].state = "take"
    BY <2>2 DEF PlainStep, FilesStep
  <2> QED
    BY <2>1, <2>3, <2>4, <2>5
<1> QED
  BY <1>1, <1>2, <1>4, <1>5 DEF SafeInv

LEMMA InitSafe == Init => SafeInv
<1> SUFFICES ASSUME Init PROVE SafeInv
  OBVIOUS
<1>1. SafeRows
  BY DEF Init, SafeRows, SafeRow, AbsentRow
<1>2. DbExclusive /\ CommitReady
  BY DEF Init, DbExclusive, CommitReady, Looping, DbPcs
<1>3. OneTakePerJob
  BY DEF Init, OneTakePerJob, CommittedTakes, NoFile
<1> QED
  BY <1>1, <1>2, <1>3, InitTypes DEF SafeInv

-----------------------------------------------------------------------------
(* The parts of a plain step *)

LEMMA RowsKept == ASSUME SafeInv, UNCHANGED jobs PROVE RowsStep
BY DEF SafeInv, SafeRows, RowsStep, RowStep

LEMMA RowWritten ==
  ASSUME SafeInv, NEW j \in Jobs, NEW r, RowStep(jobs[j], r), UpdateRow(j, r)
  PROVE  RowsStep
BY DEF SafeInv, TypeOK, SafeRows, RowsStep, RowStep, UpdateRow

LEMMA LocksKept == UNCHANGED worker => LocksStep
BY DEF LocksStep

LEMMA LocksFree ==
  ASSUME TypeOK, NEW w \in Workers, NEW p, p.pc \notin DbPcs, Become(w, p)
  PROVE  LocksStep
BY DEF TypeOK, LocksStep, Become

LEMMA LocksLeft ==
  ASSUME TypeOK, NEW w \in Workers, NEW pc, pc \notin DbPcs, Goto(w, pc)
  PROVE  LocksStep
BY DEF TypeOK, LocksStep, Goto, Process

LEMMA LocksWatched ==
  ASSUME TypeOK, NEW w \in Workers, NEW mode, Watched(w, mode)
  PROVE  LocksStep
BY DEF TypeOK, LocksStep, Watched, Process

LEMMA NoCommit == DbFree => CommitsStep
BY DEF DbFree, CommitsStep

LEMMA CommitsKept ==
  ASSUME SafeInv, UNCHANGED <<jobs, onDisk, tombstones>>
  PROVE  CommitsStep
BY DEF SafeInv, CommitReady, CommitsStep

LEMMA FilesKept == UNCHANGED files => FilesStep
BY DEF FilesStep

LEMMA FileWritten ==
  ASSUME TypeOK, NEW j \in Jobs, NEW a \in Attempts, NEW f, files' = [files EXCEPT ![j][a] = f],
         f.state \in {"take", "error"} => f.state = files[j][a].state \/
           (f.state = "error" /\ ProjectOf[j] \in onDisk)
  PROVE  FilesStep
BY DEF TypeOK, FilesStep

LEMMA FilesDiscarded ==
  ASSUME TypeOK, NEW j \in Jobs, NEW a \in Attempts, files' = Discarded(j, a)
  PROVE  FilesStep
BY FileWritten, FilesKept DEF Discarded, NoFile

-----------------------------------------------------------------------------
(* Row transitions *)

\* A row whose status, cancel flag, attempts, take and handle stay.
LEMMA SameControl ==
  ASSUME NEW r, SafeRow(r), NEW s, s.status = r.status, s.cancel = r.cancel, s.take = r.take,
         s.attempts = r.attempts, s.remote = r.remote, s.swept = r.swept
  PROVE  RowStep(r, s)
BY DEF RowStep, SafeRow

\* A row that leaves `queued` or `running`.
LEMMA Settled ==
  ASSUME NEW r \in Row, SafeRow(r), RowOK(r), r.status \in {"queued", "running"},
         NEW t \in 0 .. MaxAttempts
  PROVE  /\ RowStep(r, [r EXCEPT !.status = "error", !.take = t])
         /\ RowStep(r, [r EXCEPT !.status = "error", !.token = 0])
         /\ ~r.cancel => RowStep(r, [r EXCEPT !.status = "done", !.take = t])
         /\ RowStep(r, [r EXCEPT !.status = "cancelled", !.take = 0])
         /\ RowStep(r, Cancelled(r))
         /\ RowStep(r, Swept(r)) \/ r.status = "running"
<1> USE DEF RowStep, SafeRow, RowOK, Row, Terminal
<1>1. RowStep(r, [r EXCEPT !.status = "error", !.take = t])
  OBVIOUS
<1>2. RowStep(r, [r EXCEPT !.status = "error", !.token = 0])
  OBVIOUS
<1>3. ~r.cancel => RowStep(r, [r EXCEPT !.status = "done", !.take = t])
  OBVIOUS
<1>4. RowStep(r, [r EXCEPT !.status = "cancelled", !.take = 0])
  OBVIOUS
<1>5. RowStep(r, Cancelled(r))
  BY DEF Cancelled
<1>6. RowStep(r, Swept(r)) \/ r.status = "running"
  BY DEF Swept
<1> QED
  BY <1>1, <1>2, <1>3, <1>4, <1>5, <1>6

\* A queued row that is cancelled or swept.
LEMMA Withdrawn ==
  ASSUME NEW r \in Row, SafeRow(r), RowOK(r), r.status = "queued"
  PROVE  RowStep(r, Cancelled(r)) /\ RowStep(r, Swept(r))
<1>1. 0 \in 0 .. MaxAttempts
  BY BoundAssumption
<1> QED
  BY <1>1, Settled

LEMMA SafeTransitions ==
  ASSUME NEW r \in Row, SafeRow(r), RowOK(r), NEW a \in 0 .. MaxAttempts,
         NEW t \in 0 .. MaxAttempts
  PROVE  /\ RowStep(r, MarkCancelled(r, a)) /\ RowStep(r, FinishDone(r, a, t))
         /\ RowStep(r, SetError(r, a, t))
         /\ r.status = "running" => RowStep(r, Reclaimed(r))
         /\ r.status = "error" /\ r.swept => RowStep(r, GivenBack(r))
<1>0. RowStep(r, r)
  BY SameControl
<1>1. RowStep(r, MarkCancelled(r, a))
  BY <1>0, Settled DEF MarkCancelled
<1>2. RowStep(r, FinishDone(r, a, t))
  BY <1>0, Settled DEF FinishDone
<1>3. RowStep(r, SetError(r, a, t))
  BY <1>0, Settled DEF SetError
<1>4. r.status = "running" => RowStep(r, Reclaimed(r))
  <2> SUFFICES ASSUME r.status = "running" PROVE RowStep(r, Reclaimed(r))
    OBVIOUS
  <2>1. CASE r.cancel
    BY <2>1, Settled DEF Reclaimed
  <2>2. CASE ~r.cancel /\ (r.remote \/ r.attempts >= MaxAttempts)
    BY <2>2, Settled DEF Reclaimed
  <2>3. CASE ~r.cancel /\ ~(r.remote \/ r.attempts >= MaxAttempts)
    BY <2>3 DEF Reclaimed, RowStep, SafeRow, Row, Terminal
  <2> QED
    BY <2>1, <2>2, <2>3
<1>5. r.status = "error" /\ r.swept => RowStep(r, GivenBack(r))
  BY DEF GivenBack, RowStep, SafeRow, RowOK, MayRun, Row, Terminal
<1> QED
  BY <1>1, <1>2, <1>3, <1>4, <1>5

-----------------------------------------------------------------------------
(* Steps outside the commit *)

\* A transaction that writes one row and no file, while no commit is inside
\* its own.
LEMMA PlainUpdate ==
  ASSUME SafeInv, DbFree, NEW j \in Jobs, NEW r, RowStep(jobs[j], r), UpdateRow(j, r),
         LocksStep, UNCHANGED files
  PROVE  PlainStep
BY RowWritten, NoCommit, FilesKept DEF PlainStep

\* A step that only moves a process.
LEMMA PlainMove ==
  ASSUME SafeInv, LocksStep, UNCHANGED <<jobs, files, onDisk, tombstones>>
  PROVE  PlainStep
BY RowsKept, CommitsKept, FilesKept DEF PlainStep

LEMMA RowFacts ==
  ASSUME SafeInv, NEW j \in Jobs
  PROVE  jobs[j] \in Row /\ RowOK(jobs[j]) /\ SafeRow(jobs[j]) /\ RowStep(jobs[j], jobs[j])
BY SameControl DEF SafeInv, TypeOK, Claimable, SafeRows

LEMMA RequestFacts ==
  ASSUME SafeInv, NEW c \in Clients
  PROVE  request[c] \in Request /\ RequestOK(request[c])
BY DEF SafeInv, TypeOK

LEMMA HandlerSafe ==
  ASSUME SafeInv, NEW c \in Clients, Handler(c)
  PROVE  PlainStep
<1> USE DEF handlerOnly, store
<1>1. CASE \/ \E p \in Projects : Submit(c, p)
           \/ \E j \in Jobs : Retry(c, j)
           \/ Load(c) \/ Reject(c)
  BY <1>1, PlainMove, LocksKept DEF Submit, Retry, Load, Reject
<1>2. CASE CancelHeld(c)
  <2>1. request[c].retryOf \in Jobs
    BY <1>2, RequestFacts DEF CancelHeld, RequestOK
  <2>2. RowStep(jobs[request[c].retryOf], MarkCancelled(jobs[request[c].retryOf], 0))
    BY <2>1, RowFacts, SafeTransitions, BoundAssumption
  <2> QED
    BY <1>2, <2>1, <2>2, PlainUpdate, LocksKept DEF CancelHeld
<1>3. CASE Insert(c)
  <2> DEFINE row == NewRow(request[c].creation, request[c].retryOf)
  <2>1. PICK j \in Jobs \ Existing : UpdateRow(j, row)
    BY <1>3 DEF Insert
  <2>2. j \in Jobs /\ jobs[j].status = "absent"
    BY DEF Existing
  <2>3. RowStep(jobs[j], row)
    BY <2>2, RowFacts DEF RowStep, SafeRow, NewRow, Terminal
  <2> QED
    BY <1>3, <2>1, <2>2, <2>3, PlainUpdate, LocksKept DEF Insert
<1>4. CASE Patch(c)
  <2> DEFINE q == request[c]
             r == jobs[q.job]
             creation == IF q.frozen = 0 THEN r.creation ELSE q.frozen
             patched == [r EXCEPT !.creation = creation, !.resolved = q.resolved]
             row == IF r.status = "queued" THEN patched ELSE r
  <2>1. q.job \in Jobs /\ r \in Row /\ SafeRow(r)
    BY <1>4, RequestFacts, RowFacts DEF Patch, RequestOK
  <2>2. RowStep(r, patched)
    <3> HIDE DEF creation
    <3>1. /\ patched.status = r.status /\ patched.cancel = r.cancel /\ patched.take = r.take
          /\ patched.attempts = r.attempts /\ patched.remote = r.remote
          /\ patched.swept = r.swept
      BY <2>1 DEF Row
    <3> HIDE DEF patched
    <3> QED
      BY <2>1, <3>1, SameControl
  <2>3. RowStep(r, row)
    BY <2>1, <2>2, RowFacts
  <2> QED
    BY <1>4, <2>1, <2>3, PlainUpdate, LocksKept DEF Patch
<1>5. ASSUME NEW p \in Projects, DeleteBegin(c, p) PROVE PlainStep
  <2> DEFINE S == {j \in Jobs : ProjectOf[j] = p /\ jobs[j].status = "queued"}
  <2>1. jobs' = [j \in Jobs |-> IF j \in S THEN Swept(jobs[j]) ELSE jobs[j]]
    BY <1>5 DEF DeleteBegin, Swept
  <2>2. RowsStep
    <3> SUFFICES ASSUME NEW j \in Jobs PROVE RowStep(jobs[j], jobs'[j])
      BY DEF RowsStep
    <3>1. CASE j \in S
      <4>1. jobs[j].status = "queued" /\ jobs'[j] = Swept(jobs[j])
        BY <2>1, <3>1
      <4> QED
        BY <4>1, RowFacts, Withdrawn
    <3>2. CASE j \notin S
      BY <2>1, <3>2, RowFacts
    <3> QED
      BY <3>1, <3>2
  <2> QED
    BY <1>5, <2>2, NoCommit, FilesKept, LocksKept DEF DeleteBegin, PlainStep
<1>6. ASSUME NEW p, NEW lost, files' = Without(p, lost) PROVE FilesStep
  BY <1>6 DEF FilesStep, Without, NoFile
<1>7. CASE DeleteFiles(c)
  <2>1. CommitsStep
    BY <1>7 DEF DeleteFiles, LockFree, LockPcs, CommitsStep, SafeInv, CommitReady, DbPcs, CommitPcs
  <2> QED
    BY <1>6, <1>7, <2>1, RowsKept, LocksKept DEF DeleteFiles, PlainStep
<1>8. CASE DeleteFails(c)
  <2>1. CommitsStep
    BY <1>8 DEF DeleteFails, LockFree, LockPcs, CommitsStep, SafeInv, CommitReady, DbPcs, CommitPcs
  <2>2. FilesStep
    BY <1>6, <1>8 DEF DeleteFails
  <2>3. RowsStep /\ LocksStep
    BY <1>8, RowsKept, LocksKept DEF DeleteFails
  <2> QED
    BY <2>1, <2>2, <2>3 DEF PlainStep
<1>9. CASE DeleteAbort(c)
  <2> DEFINE S == {j \in request[c].swept : jobs[j].status = "error" /\ jobs[j].swept}
  <2>1. jobs' = [j \in Jobs |-> IF j \in S THEN GivenBack(jobs[j]) ELSE jobs[j]]
    BY <1>9 DEF DeleteAbort, GivenBack
  <2>2. RowsStep
    <3> SUFFICES ASSUME NEW j \in Jobs PROVE RowStep(jobs[j], jobs'[j])
      BY DEF RowsStep
    <3>1. CASE j \in S
      <4>1. jobs[j].status = "error" /\ jobs[j].swept /\ jobs'[j] = GivenBack(jobs[j])
        BY <2>1, <3>1
      <4> QED
        BY <4>1, RowFacts, SafeTransitions, BoundAssumption
    <3>2. CASE j \notin S
      BY <2>1, <3>2, RowFacts
    <3> QED
      BY <3>1, <3>2
  <2> QED
    BY <1>9, <2>2, NoCommit, FilesKept, LocksKept DEF DeleteAbort, PlainStep
<1> QED
  BY <1>1, <1>2, <1>3, <1>4, <1>5, <1>7, <1>8, <1>9 DEF Handler

LEMMA UserSafe ==
  ASSUME SafeInv, User
  PROVE  PlainStep
<1> USE DEF handlerOnly, store
<1>1. ASSUME NEW j \in Jobs, CancelJob(j) PROVE PlainStep
  <2> DEFINE r == jobs[j]
             row == IF r.status = "queued" THEN Cancelled(r) ELSE [r EXCEPT !.cancel = TRUE]
  <2>0. r \in Row /\ SafeRow(r) /\ RowOK(r) /\ r.status \in {"queued", "running"}
    BY <1>1, RowFacts DEF CancelJob
  <2>1. RowStep(r, row)
    <3>1. CASE r.status = "queued"
      BY <2>0, <3>1, Withdrawn
    <3>2. CASE r.status = "running"
      BY <2>0, <3>2 DEF RowStep, SafeRow, Row, Terminal
    <3> QED
      BY <2>0, <3>1, <3>2
  <2> QED
    BY <1>1, <2>1, PlainUpdate, LocksKept DEF CancelJob
<1>2. ASSUME NEW j \in Jobs, NEW a \in Attempts, KeepTake(j, a) PROVE PlainStep
  BY <1>2, PlainMove, LocksKept DEF KeepTake
<1>3. ASSUME NEW p \in Projects, EditPlan(p) PROVE PlainStep
  BY <1>3, PlainMove, LocksKept DEF EditPlan
<1> QED
  BY <1>1, <1>2, <1>3 DEF User

LEMMA ServerCrashSafe ==
  ASSUME SafeInv, ServerCrash
  PROVE  PlainStep
BY PlainMove, LocksKept DEF ServerCrash, handlerOnly, store

LEMMA LapseSafe ==
  ASSUME SafeInv, NEW j \in Jobs, Lapse(j)
  PROVE  PlainStep
<1> DEFINE r == jobs[j]
           row == [r EXCEPT !.stale = TRUE]
<1>1. r \in Row /\ SafeRow(r)
  BY RowFacts
<1>2. RowStep(r, row)
  BY <1>1, SameControl DEF Row
<1>3. RowsStep
  BY <1>2, RowWritten DEF Lapse
<1>4. CommitsStep
  <2>1. \A k \in Jobs : /\ jobs'[k].status = jobs[k].status /\ jobs'[k].token = jobs[k].token
                        /\ jobs'[k].cancel = jobs[k].cancel
    BY <1>1 DEF Lapse, UpdateRow, SafeInv, TypeOK, Row
  <2>2. \A w \in Workers : worker[w].pc \in DbPcs => worker[w].job \in Jobs
    BY JobPcTypes DEF SafeInv, DbPcs, JobPcs, CommitPcs
  <2> QED
    BY <2>1, <2>2 DEF Lapse, store, CommitsStep, SafeInv, CommitReady
<1> QED
  BY <1>3, <1>4, FilesKept, LocksKept DEF Lapse, PlainStep

-----------------------------------------------------------------------------
(* Steps of a worker outside the transaction of its commit *)

\* The attempt drops its staged files.
LEMMA PlainDrop ==
  ASSUME SafeInv, NEW w \in Workers, worker[w].pc \in JobPcs, LocksStep,
         files' = Discarded(worker[w].job, worker[w].attempt), UNCHANGED <<jobs, store>>
  PROVE  PlainStep
<1>1. FilesStep
  BY JobPcTypes, FilesDiscarded DEF SafeInv
<1> QED
  BY <1>1, RowsKept, CommitsKept DEF PlainStep, store

\* The attempt writes a file that is not a take.
LEMMA PlainWrite ==
  ASSUME SafeInv, NEW w \in Workers, worker[w].pc \in JobPcs, LocksStep, NEW f,
         files' = [files EXCEPT ![worker[w].job][worker[w].attempt] = f],
         f.state \in {"take", "error"} =>
           f.state = files[worker[w].job][worker[w].attempt].state \/
           (f.state = "error" /\ ProjectOf[worker[w].job] \in onDisk),
         UNCHANGED <<jobs, store>>
  PROVE  PlainStep
<1>1. FilesStep
  BY JobPcTypes, FileWritten DEF SafeInv
<1> QED
  BY <1>1, RowsKept, CommitsKept DEF PlainStep, store

\* The attempt changes the state of its file.
LEMMA PlainState ==
  ASSUME SafeInv, NEW w \in Workers, worker[w].pc \in JobPcs, LocksStep, NEW st,
         SetsState(worker[w].job, worker[w].attempt, st),
         st \in {"take", "error"} =>
           st = files[worker[w].job][worker[w].attempt].state \/
           (st = "error" /\ ProjectOf[worker[w].job] \in onDisk),
         UNCHANGED <<jobs, store>>
  PROVE  PlainStep
<1> DEFINE f == [files[worker[w].job][worker[w].attempt] EXCEPT !.state = st]
<1>1. worker[w].job \in Jobs /\ worker[w].attempt \in Attempts
  BY JobPcTypes DEF SafeInv
<1>2. f.state = st /\ files' = [files EXCEPT ![worker[w].job][worker[w].attempt] = f]
  BY <1>1 DEF SetsState, SafeInv, TypeOK, File
<1> HIDE DEF f
<1> QED
  BY <1>2, PlainWrite

\* The process changes and nothing else.
LEMMA PlainBecome ==
  ASSUME SafeInv, LocksStep, UNCHANGED <<jobs, files, store>>
  PROVE  PlainStep
BY PlainMove DEF store

\* A transaction on the row of the attempt.
LEMMA PlainRow ==
  ASSUME SafeInv, NEW w \in Workers, worker[w].pc \in JobPcs, DbFree, LocksStep, NEW r,
         RowStep(jobs[worker[w].job], r), UpdateRow(worker[w].job, r), UNCHANGED files
  PROVE  PlainStep
BY JobPcTypes, PlainUpdate DEF SafeInv

LEMMA AttemptFacts ==
  ASSUME SafeInv, NEW w \in Workers, worker[w].pc \in JobPcs
  PROVE  LET W == worker[w]  r == jobs[W.job] IN
         /\ W \in Process /\ W.job \in Jobs /\ W.attempt \in 0 .. MaxAttempts
         /\ W.take \in 0 .. MaxAttempts
         /\ r \in Row /\ RowOK(r) /\ SafeRow(r) /\ RowStep(r, r)
<1>1. worker[w].job \in Jobs
  BY JobPcTypes DEF SafeInv
<1> QED
  BY <1>1, JobStepFacts, RowFacts DEF SafeInv

LEMMA LoopSafe ==
  ASSUME SafeInv, NEW w \in Workers, Loop(w)
  PROVE  PlainStep
<1>0. \A pc \in LoopPcs : pc \notin DbPcs /\ Looping(pc).pc \notin DbPcs
  BY DEF LoopPcs, DbPcs, Looping
<1>1. CASE WorkerStart(w) \/ WorkerStop(w)
  <2>1. PICK pc \in LoopPcs : Goto(w, pc)
    BY <1>1 DEF WorkerStart, WorkerStop, LoopPcs
  <2>2. LocksStep
    BY <1>0, <2>1, LocksLeft DEF SafeInv
  <2> QED
    BY <1>1, <2>2, PlainBecome DEF WorkerStart, WorkerStop
<1>2. CASE Reclaim(w)
  <2>1. RowsStep
    <3> SUFFICES ASSUME NEW j \in Jobs PROVE RowStep(jobs[j], jobs'[j])
      BY DEF RowsStep
    <3>1. jobs'[j] = IF jobs[j].status = "running" /\ jobs[j].stale
                       THEN Reclaimed(jobs[j]) ELSE jobs[j]
      BY <1>2 DEF Reclaim
    <3>2. 0 \in 0 .. MaxAttempts
      BY BoundAssumption
    <3> QED
      BY <3>1, <3>2, RowFacts, SafeTransitions
  <2>2. LocksStep
    BY <1>2, LocksLeft DEF Reclaim, SafeInv, DbPcs
  <2> QED
    BY <1>2, <2>1, <2>2, NoCommit, FilesKept DEF Reclaim, PlainStep
<1>3. CASE Cleanup(w) \/ Judge(w) \/ Discard(w)
  <2> DEFINE W == worker[w]
  <2>0. W.listed \subseteq Takes
    BY DEF SafeInv, TypeOK, Process
  <2>1. FilesStep
    <3>1. CASE UNCHANGED files
      BY <3>1, FilesKept
    <3>2. CASE Discard(w)
      <4>1. PICK t \in W.listed : files' = Discarded(t[1], t[2])
        BY <3>2 DEF Discard
      <4>2. t[1] \in Jobs /\ t[2] \in Attempts
        BY <2>0, <4>1 DEF Takes
      <4> QED
        BY <4>1, <4>2, FilesDiscarded DEF SafeInv
    <3> QED
      BY <1>3, <3>1, <3>2 DEF Cleanup, Judge
  <2>2. LocksStep
    BY <1>3, CleanupMoves DEF LocksStep, SafeInv, DbPcs
  <2>3. UNCHANGED <<jobs, store>>
    BY <1>3 DEF Cleanup, Judge, Discard
  <2> QED
    BY <2>1, <2>2, <2>3, RowsKept, CommitsKept DEF PlainStep, store
<1>4. CASE Claim(w)
  <2> DEFINE elig == {j \in Jobs : jobs[j].status = "queued" /\ ~jobs[j].held
                                   /\ ProjectOf[j] \notin tombstones}
             runnable == {j \in elig : jobs[j].creation # 0}
             oldest == {j \in runnable : \A k \in runnable : jobs[j].born <= jobs[k].born}
             Hold(S) == [j \in Jobs |-> IF j \in S THEN [jobs[j] EXCEPT !.held = TRUE] ELSE jobs[j]]
  <2>1. ASSUME NEW S, NEW j \in Jobs PROVE RowStep(jobs[j], Hold(S)[j])
    <3> DEFINE row == [jobs[j] EXCEPT !.held = TRUE]
    <3>1. jobs[j] \in Row /\ SafeRow(jobs[j])
      BY RowFacts
    <3>2. RowStep(jobs[j], row)
      BY <3>1, SameControl DEF Row
    <3> QED
      BY <3>2, RowFacts
  <2>2. CASE jobs' = Hold(elig) /\ Goto(w, "reclaim")
    <3>1. RowsStep
      BY <2>1, <2>2 DEF RowsStep
    <3>2. LocksStep
      BY <2>2, LocksLeft DEF SafeInv, DbPcs
    <3> QED
      BY <1>4, <3>1, <3>2, NoCommit, FilesKept DEF Claim, PlainStep
  <2>3. ASSUME NEW j \in oldest, NEW S, NEW p, p.pc = "claimed", Become(w, p),
               jobs' = [Hold(S) EXCEPT ![j] =
                 [jobs[j] EXCEPT !.status = "running", !.stale = FALSE,
                                 !.attempts = jobs[j].attempts + 1,
                                 !.token = jobs[j].attempts + 1]]
        PROVE  PlainStep
    <3> DEFINE r == jobs[j]
               row == [r EXCEPT !.status = "running", !.stale = FALSE,
                                !.attempts = r.attempts + 1, !.token = r.attempts + 1]
    <3>1. j \in Jobs /\ r.status = "queued"
      OBVIOUS
    <3>2. RowStep(r, row)
      BY <3>1, RowFacts DEF RowStep, SafeRow, Row, RowOK, MayRun, Terminal
    <3>3. RowsStep
      <4> SUFFICES ASSUME NEW k \in Jobs PROVE RowStep(jobs[k], jobs'[k])
        BY DEF RowsStep
      <4>1. jobs'[k] = IF k = j THEN row ELSE Hold(S)[k]
        BY <2>3, <3>1
      <4> HIDE DEF Hold, row
      <4> QED
        BY <2>1, <3>2, <4>1
    <3>4. LocksStep
      BY <2>3, LocksFree DEF SafeInv, DbPcs
    <3> QED
      BY <1>4, <3>3, <3>4, NoCommit, FilesKept DEF Claim, PlainStep
  <2> QED
    BY <1>4, <2>2, <2>3 DEF Claim
<1>5. CASE Crash(w)
  <2>1. LocksStep
    BY <1>0, <1>5, LocksFree DEF Crash, SafeInv, LoopPcs
  <2> QED
    BY <1>5, <2>1, PlainBecome DEF Crash
<1> QED
  BY <1>1, <1>2, <1>3, <1>4, <1>5 DEF Loop

LEMMA HeartbeatSafe ==
  ASSUME SafeInv, NEW w \in Workers, Heartbeat(w)
  PROVE  PlainStep
<1> DEFINE W == worker[w]
           r == jobs[W.job]
<1> USE DEF Watching
<1>0. W.pc \in JobPcs
  BY WatchTypes DEF Heartbeat, Watchdog, Touch, ExpireRead, ExpireError, ExpireCancel,
                    ExitProcess, HeartbeatDies, SafeInv, Watch
<1>w. ASSUME NEW mode, Watched(w, mode) PROVE LocksStep
  BY <1>w, LocksWatched DEF SafeInv
<1>1. CASE Touch(w)
  <2> DEFINE row == [r EXCEPT !.stale = FALSE]
  <2>1. r \in Row /\ SafeRow(r)
    BY <1>0, AttemptFacts
  <2>2. RowStep(r, row)
    BY <2>1, SameControl DEF Row
  <2> QED
    BY <1>0, <1>1, <2>2, PlainRow, LocksKept DEF Touch
<1>2. CASE ExpireRead(w) \/ HeartbeatDies(w)
  BY <1>2, <1>w, PlainBecome DEF ExpireRead, HeartbeatDies
<1>3. CASE ExpireError(w)
  <2>1. CASE r.status = "running"
    <3> DEFINE row == [r EXCEPT !.status = "error", !.take = 0]
    <3>0. 0 \in 0 .. MaxAttempts
      BY BoundAssumption
    <3>1. RowStep(r, row)
      BY <1>0, <2>1, <3>0, AttemptFacts, Settled
    <3> QED
      BY <1>0, <1>3, <1>w, <2>1, <3>1, PlainRow DEF ExpireError
  <2>2. CASE r.status # "running"
    BY <1>3, <1>w, <2>2, PlainBecome DEF ExpireError
  <2> QED
    BY <2>1, <2>2
<1>4. CASE ExpireCancel(w)
  <2> DEFINE row == MarkCancelled(r, 0)
  <2>0. 0 \in 0 .. MaxAttempts
    BY BoundAssumption
  <2>1. RowStep(r, row)
    BY <1>0, <2>0, AttemptFacts, SafeTransitions
  <2>2. LocksStep
    BY <1>4, <1>w DEF ExpireCancel
  <2> QED
    BY <1>0, <1>4, <2>1, <2>2, PlainRow DEF ExpireCancel
<1>5. CASE ExitProcess(w)
  <2>1. LocksStep
    BY <1>5, LocksFree DEF ExitProcess, SafeInv, Looping, DbPcs
  <2> QED
    BY <1>5, <2>1, PlainBecome DEF ExitProcess
<1> QED
  BY <1>1, <1>2, <1>3, <1>4, <1>5 DEF Heartbeat, Watchdog

LEMMA FencedSafe ==
  ASSUME SafeInv, NEW w \in Workers, worker[w].pc \in JobPcs, NEW row,
         NEW pc, pc \notin DbPcs, Fenced(w, row, pc),
         Owns(worker[w].job, worker[w].attempt) => RowStep(jobs[worker[w].job], row)
  PROVE  PlainStep
<1>1. LocksStep
  BY LocksLeft DEF Fenced, SafeInv, DbPcs
<1>2. CASE Owns(worker[w].job, worker[w].attempt)
  BY <1>1, <1>2, PlainRow DEF Fenced
<1>3. CASE ~Owns(worker[w].job, worker[w].attempt)
  BY <1>1, <1>3, PlainDrop DEF Fenced
<1> QED
  BY <1>2, <1>3

LEMMA AbandonSafe ==
  ASSUME SafeInv, NEW w \in Workers, worker[w].pc \in JobPcs, Abandon(w)
  PROVE  PlainStep
<1>1. LocksStep
  BY LocksLeft DEF Abandon, SafeInv, DbPcs
<1> QED
  BY <1>1, PlainDrop DEF Abandon

LEMMA BackendSafe ==
  ASSUME SafeInv, NEW w \in Workers, Backend(w)
  PROVE  PlainStep
<1> DEFINE W == worker[w]
           r == jobs[W.job]
<1>0. W.pc \in JobPcs
  BY DEF Backend, Freeze, RecordHandle, Render, BackendCancelled, Fail, At, BackendPcs,
         FaultPcs, JobPcs, CommitPcs
<1>1. CASE Freeze(w)
  <2> DEFINE row == [r EXCEPT !.resolved = W.seed]
  <2>1. r \in Row /\ SafeRow(r)
    BY <1>0, AttemptFacts
  <2>2. RowStep(r, row)
    BY <2>1, SameControl DEF Row
  <2> QED
    BY <1>0, <1>1, <2>2, FencedSafe DEF Freeze, DbPcs
<1>2. CASE RecordHandle(w)
  <2> DEFINE row == [r EXCEPT !.remote = TRUE]
  <2>1. r \in Row /\ SafeRow(r)
    BY <1>0, AttemptFacts
  <2>2. Owns(W.job, W.attempt) => RowStep(r, row)
    BY <2>1 DEF Owns, RowStep, SafeRow, Row, Terminal
  <2> QED
    BY <1>0, <1>2, <2>2, FencedSafe DEF RecordHandle, DbPcs
<1>3. CASE Render(w)
  <2> DEFINE p == [W EXCEPT !.pc = "rendered",
                            !.watch = IF @ = "armed" THEN "lifted" ELSE @]
  <2>1. p.pc \notin DbPcs
    BY <1>0, AttemptFacts DEF Process, DbPcs
  <2>2. Become(w, p)
    BY <1>3 DEF Render
  <2>3. LocksStep
    <3> HIDE DEF p
    <3> QED
      BY <2>1, <2>2, LocksFree DEF SafeInv
  <2> DEFINE st == Rebuilt(W.job, W.attempt)
  <2>4. SetsState(W.job, W.attempt, st) /\ UNCHANGED <<jobs, store>>
    BY <1>3 DEF Render, SetsState
  <2>5. st \in {"take", "error"} => st = files[W.job][W.attempt].state
    BY DEF Rebuilt
  <2> HIDE DEF st
  <2> QED
    BY <1>0, <2>3, <2>4, <2>5, PlainState
<1>4. CASE BackendCancelled(w)
  BY <1>0, <1>4, AbandonSafe DEF BackendCancelled
<1>5. CASE Fail(w)
  <2> DEFINE p == [W EXCEPT !.pc = "raised", !.take = IF W.pc = "finish" THEN 0 ELSE @]
  <2>1. p.pc \notin DbPcs
    BY <1>0, AttemptFacts DEF Process, DbPcs
  <2>2. Become(w, p)
    BY <1>5 DEF Fail
  <2>3. LocksStep
    <3> HIDE DEF p
    <3> QED
      BY <2>1, <2>2, LocksFree DEF SafeInv
  <2> QED
    BY <1>5, <2>3, PlainBecome DEF Fail
<1> QED
  BY <1>1, <1>2, <1>3, <1>4, <1>5 DEF Backend

LEMMA BeforeCommitSafe ==
  ASSUME SafeInv, NEW w \in Workers,
         \/ CancelCheck(w) \/ FindCommitted(w) \/ FinishExisting(w) \/ Resolve(w)
         \/ Allocate(w) \/ Mark(w) \/ AfterRender(w) \/ MarkCancel(w)
  PROVE  PlainStep
<1> DEFINE W == worker[w]
           r == jobs[W.job]
<1>0. W.pc \in JobPcs /\ W \in Process
  <2>1. W.pc \in JobPcs
    BY DEF CancelCheck, FindCommitted, FinishExisting, Resolve, Allocate, Mark, AfterRender,
           MarkCancel, At, JobPcs
  <2> QED
    BY <2>1, AttemptFacts
<1>g. ASSUME NEW pc, pc \notin DbPcs, Goto(w, pc) PROVE LocksStep
  BY <1>g, LocksLeft DEF SafeInv
<1>b. ASSUME NEW p, p.pc \notin DbPcs, Become(w, p) PROVE LocksStep
  BY <1>b, LocksFree DEF SafeInv
<1>1. CASE CancelCheck(w)
  <2>1. LocksStep
    BY <1>1, <1>g DEF CancelCheck, DbPcs
  <2> QED
    BY <1>1, <2>1, PlainBecome DEF CancelCheck
<1>2. CASE FindCommitted(w)
  <2>1. LocksStep
    <3>1. CASE Goto(w, "resolve")
      BY <1>g, <3>1 DEF DbPcs
    <3>2. ASSUME NEW a, Become(w, [W EXCEPT !.pc = "finish", !.take = a]) PROVE LocksStep
      BY <1>0, <1>b, <3>2 DEF Process, DbPcs
    <3> QED
      BY <1>2, <3>1, <3>2 DEF FindCommitted
  <2> QED
    BY <1>2, <2>1, PlainBecome DEF FindCommitted
<1>3. CASE FinishExisting(w)
  <2>1. RowStep(r, FinishDone(r, W.attempt, W.take))
    BY <1>0, AttemptFacts, SafeTransitions
  <2>2. LocksStep
    BY <1>3, <1>g DEF FinishExisting, DbPcs
  <2> QED
    BY <1>0, <1>3, <2>1, <2>2, PlainRow DEF FinishExisting
<1>4. CASE Resolve(w)
  <2>1. LocksStep
    <3>1. CASE Goto(w, "cancelling")
      BY <1>g, <3>1 DEF DbPcs
    <3>2. ASSUME NEW s, Become(w, [W EXCEPT !.pc = "allocate", !.seed = s]) PROVE LocksStep
      BY <1>0, <1>b, <3>2 DEF Process, DbPcs
    <3> QED
      BY <1>4, <3>1, <3>2 DEF Resolve
  <2> QED
    BY <1>4, <2>1, PlainBecome DEF Resolve
<1>5. CASE Allocate(w)
  <2>1. CASE Loads(ProjectOf[W.job])
    <3> DEFINE f == [NoFile EXCEPT !.state = "bare"]
    <3>1. LocksStep
      BY <1>5, <1>g, <2>1 DEF Allocate, DbPcs
    <3>2. f.state = "bare" /\ files' = [files EXCEPT ![W.job][W.attempt] = f]
      BY <1>5, <2>1 DEF Allocate, NoFile
    <3>3. UNCHANGED <<jobs, store>>
      BY <1>5 DEF Allocate
    <3> HIDE DEF f
    <3> QED
      BY <1>0, <3>1, <3>2, <3>3, PlainWrite
  <2>2. CASE ~Loads(ProjectOf[W.job])
    <3>1. LocksStep
      BY <1>5, <1>g, <2>2 DEF Allocate, DbPcs
    <3> QED
      BY <1>5, <2>2, <3>1, PlainBecome DEF Allocate
  <2> QED
    BY <2>1, <2>2
<1>8. CASE Mark(w)
  <2> DEFINE pc == IF RemoteGpu THEN "submit" ELSE IF W.drawn THEN "freeze" ELSE "render"
             p == [W EXCEPT !.take = W.attempt, !.pc = pc]
  <2>1. pc \notin DbPcs /\ Become(w, p)
    BY <1>8 DEF Mark, DbPcs
  <2>2. p.pc = pc
    BY <1>0 DEF Process
  <2>3. LocksStep
    <3> HIDE DEF pc, p
    <3> QED
      BY <1>b, <2>1, <2>2
  <2>4. SetsState(W.job, W.attempt, "staged") /\ UNCHANGED <<jobs, store>>
    BY <1>8 DEF Mark, SetsState
  <2> QED
    BY <1>0, <2>3, <2>4, PlainState
<1>6. CASE AfterRender(w)
  <2>1. CASE Abandon(w)
    BY <1>0, <2>1, AbandonSafe
  <2> DEFINE f == [state |-> Rebuilt(W.job, W.attempt), creation |-> RenderedPlan(W),
                   seed |-> W.seed]
  <2>2. CASE /\ files' = [files EXCEPT ![W.job][W.attempt] = f]
             /\ Goto(w, "commit") /\ UNCHANGED <<jobs, store, clientSide>>
    <3>1. LocksStep
      BY <1>g, <2>2 DEF DbPcs
    <3>2. f.state \in {"take", "error"} => f.state = files[W.job][W.attempt].state
      BY DEF Rebuilt
    <3> HIDE DEF f
    <3> QED
      BY <1>0, <2>2, <3>1, <3>2, PlainWrite
  <2> QED
    BY <1>6, <2>1, <2>2 DEF AfterRender
<1>7. CASE MarkCancel(w)
  <2>1. RowStep(r, MarkCancelled(r, W.attempt))
    BY <1>0, AttemptFacts, SafeTransitions
  <2>2. LocksStep
    BY <1>7, <1>g DEF MarkCancel, DbPcs
  <2> QED
    BY <1>0, <1>7, <2>1, <2>2, PlainRow DEF MarkCancel
<1> QED
  BY <1>1, <1>2, <1>3, <1>4, <1>5, <1>6, <1>7, <1>8

LEMMA AfterFailureSafe ==
  ASSUME SafeInv, NEW w \in Workers,
         Handle(w) \/ WriteErrorTake(w) \/ SetErrorStatus(w) \/ Join(w)
  PROVE  PlainStep
<1> DEFINE W == worker[w]
           r == jobs[W.job]
<1>0. W.pc \in JobPcs /\ W \in Process
  <2>1. W.pc \in JobPcs
    BY DEF Handle, WriteErrorTake, SetErrorStatus, Join, At, JobPcs
  <2> QED
    BY <2>1, AttemptFacts
<1>g. ASSUME NEW pc, pc \notin DbPcs, Goto(w, pc) PROVE LocksStep
  BY <1>g, LocksLeft DEF SafeInv
<1>1. CASE Handle(w)
  <2> DEFINE pc == IF r.cancel THEN "cancelling" ELSE IF W.take # 0 THEN "failing" ELSE "failstatus"
  <2>1. pc \notin DbPcs /\ Goto(w, pc)
    BY <1>1 DEF Handle, DbPcs
  <2>2. LocksStep
    <3> HIDE DEF pc
    <3> QED
      BY <1>g, <2>1
  <2>3. CASE W.take # 0
    BY <1>0, <1>1, <2>2, <2>3, PlainDrop DEF Handle
  <2>4. CASE W.take = 0
    BY <1>1, <2>2, <2>4, PlainBecome DEF Handle
  <2> QED
    BY <2>3, <2>4
<1>2. CASE WriteErrorTake(w)
  <2>1. CASE /\ ProjectOf[W.job] \in onDisk /\ Goto(w, "failstatus")
             /\ files' = [files EXCEPT ![W.job][W.attempt].state = "error"]
    <3> DEFINE f == [files[W.job][W.attempt] EXCEPT !.state = "error"]
    <3>1. W.job \in Jobs /\ W.attempt \in Attempts
      BY <1>0, JobPcTypes DEF SafeInv
    <3>2. f.state = "error"
      BY <3>1 DEF SafeInv, TypeOK, File
    <3>3. files' = [files EXCEPT ![W.job][W.attempt] = f]
      BY <2>1
    <3>4. LocksStep
      BY <1>g, <2>1 DEF DbPcs
    <3>5. UNCHANGED <<jobs, store>>
      BY <1>2 DEF WriteErrorTake
    <3> HIDE DEF f
    <3> QED
      BY <1>0, <2>1, <3>2, <3>3, <3>4, <3>5, PlainWrite
  <2>2. CASE Become(w, [W EXCEPT !.pc = "failstatus", !.take = 0]) /\ UNCHANGED files
    <3>1. LocksStep
      BY <1>0, <2>2, LocksFree DEF Process, DbPcs, SafeInv
    <3> QED
      BY <1>2, <2>2, <3>1, PlainBecome DEF WriteErrorTake
  <2> QED
    BY <1>2, <2>1, <2>2 DEF WriteErrorTake, Loads
<1>3. CASE SetErrorStatus(w)
  <2>1. RowStep(r, SetError(r, W.attempt, W.take))
    BY <1>0, AttemptFacts, SafeTransitions
  <2>2. LocksStep
    BY <1>3, <1>g DEF SetErrorStatus, DbPcs
  <2> QED
    BY <1>0, <1>3, <2>1, <2>2, PlainRow DEF SetErrorStatus
<1>4. CASE Join(w)
  <2>1. LocksStep
    BY <1>4, LocksFree DEF Join, SafeInv, Looping, DbPcs
  <2> QED
    BY <1>4, <2>1, PlainBecome DEF Join
<1> QED
  BY <1>1, <1>2, <1>3, <1>4

-----------------------------------------------------------------------------
(* The commit of a take *)

\* What every step does to the files: a take appears only by the hand of the
\* owner, an error take only in a project on disk.
FilesOwned ==
  \A j \in Jobs : \A a \in Attempts :
    /\ files[j][a].state # "take" /\ files'[j][a].state = "take" =>
         /\ jobs[j].status = "running" /\ jobs[j].token = a /\ ~jobs[j].cancel
         /\ ProjectOf[j] \in onDisk \ tombstones
    /\ files'[j][a].state = "error" /\ files[j][a].state # "error" => ProjectOf[j] \in onDisk

LEMMA PlainOwned == PlainStep => RowsStep /\ FilesOwned
BY DEF PlainStep, FilesStep, FilesOwned

LEMMA CommitSafe ==
  ASSUME SafeInv, TypeOK', Claimable', NEW w \in Workers,
         \/ CommitCheck(w) \/ Unmark(w) \/ Promote(w) \/ MergeBrief(w) \/ CommitSql(w) \/ Activate(w)
  PROVE  SafeInv' /\ RowsStep /\ FilesOwned
<1> DEFINE W == worker[w]
           j == W.job
           r == jobs[j]
           p == ProjectOf[j]
<1>0. /\ W.pc \in JobPcs /\ W \in Process /\ j \in Jobs /\ W.attempt \in Attempts
      /\ r \in Row /\ RowOK(r) /\ SafeRow(r) /\ worker \in [Workers -> Process]
  <2>1. W.pc \in JobPcs
    BY DEF CommitCheck, Unmark, Promote, MergeBrief, CommitSql, Activate, At, JobPcs, CommitPcs
  <2> QED
    BY <2>1, AttemptFacts, JobPcTypes DEF SafeInv, TypeOK
<1>g. ASSUME NEW pc, pc \notin DbPcs, Goto(w, pc) PROVE LocksStep
  BY <1>g, LocksLeft DEF SafeInv
<1>p. PlainStep => SafeInv' /\ RowsStep /\ FilesOwned
  BY PlainSafe, PlainOwned
\* The other processes are outside.
<1>o. ASSUME W.pc \in DbPcs, NEW v \in Workers, v # w PROVE worker[v].pc \notin DbPcs
  BY <1>o DEF SafeInv, DbExclusive
<1>1. CASE CommitCheck(w)
  <2> DEFINE drop == files' = Discarded(j, W.attempt)
  <2>0. DbFree /\ UNCHANGED store
    BY <1>1 DEF CommitCheck
  <2>1. ASSUME drop, UNCHANGED jobs, NEW pc, pc \notin DbPcs, Goto(w, pc) PROVE PlainStep
    BY <1>0, <1>g, <2>0, <2>1, PlainDrop
  <2>2. ASSUME drop, UNCHANGED jobs, Become(w, [W EXCEPT !.pc = "failstatus", !.take = 0])
        PROVE  PlainStep
    <3>1. LocksStep
      BY <1>0, <2>2, LocksFree DEF Process, DbPcs, SafeInv
    <3> QED
      BY <1>0, <2>0, <2>2, <3>1, PlainDrop
  <2>3. ASSUME Owns(j, W.attempt), ~r.cancel, drop, Goto(w, "ended"), NEW a \in Attempts,
               UpdateRow(j, [r EXCEPT !.status = "done", !.take = a])
        PROVE  PlainStep
    <3>1. a \in 0 .. MaxAttempts /\ r.status = "running"
      BY <2>3 DEF Attempts, Owns
    <3>2. RowStep(r, [r EXCEPT !.status = "done", !.take = a])
      BY <1>0, <2>3, <3>1, Settled
    <3>3. RowsStep
      BY <1>0, <2>3, <3>2, RowWritten
    <3>4. LocksStep
      BY <1>g, <2>3 DEF DbPcs
    <3>5. FilesStep
      BY <1>0, <2>3, FilesDiscarded DEF SafeInv
    <3> QED
      BY <2>0, <3>3, <3>4, <3>5, NoCommit DEF PlainStep
  <2>4. ASSUME Owns(j, W.attempt), ~r.cancel, p \in onDisk \ tombstones,
               CommittedTakes(j) = {}, Goto(w, "promote"), UNCHANGED <<jobs, files>>
        PROVE  SafeInv' /\ RowsStep /\ FilesOwned
    <3>1. worker' = [worker EXCEPT ![w] = [W EXCEPT !.pc = "promote"]]
      BY <2>4 DEF Goto
    <3>2. /\ worker'[w].pc = "promote" /\ worker'[w].job = j /\ worker'[w].attempt = W.attempt
          /\ \A v \in Workers : v # w => worker'[v] = worker[v] /\ worker[v].pc \notin DbPcs
      BY <1>0, <2>0, <3>1 DEF Process, DbFree
    <3>3. DbExclusive'
      BY <3>2 DEF DbExclusive
    <3>4. CommitReady'
      <4> SUFFICES ASSUME NEW v \in Workers, worker'[v].pc \in DbPcs
                   PROVE  LET k == worker'[v].job IN
                          /\ jobs'[k].status = "running" /\ jobs'[k].token = worker'[v].attempt
                          /\ ~jobs'[k].cancel /\ ProjectOf[k] \in onDisk' \ tombstones'
                          /\ worker'[v].pc \in {"promote", "unmarked"} =>
                               \A a \in Attempts : files'[k][a].state # "take"
        BY DEF CommitReady, DbPcs
      <4>1. v = w
        BY <3>2
      <4>2. \A a \in Attempts : files[j][a].state # "take"
        BY <2>4 DEF CommittedTakes
      <4> QED
        BY <2>0, <2>4, <3>2, <4>1, <4>2 DEF Owns, store
    <3>5. SafeRows' /\ OneTakePerJob'
      BY <2>4 DEF SafeInv, SafeRows, OneTakePerJob, CommittedTakes
    <3>6. RowsStep /\ FilesOwned
      BY <2>4, RowsKept DEF FilesOwned
    <3> QED
      BY <3>3, <3>4, <3>5, <3>6 DEF SafeInv
  <2>5. \A a \in PriorTakes(j) : a \in Attempts
    BY DEF PriorTakes, CommittedTakes
  <2> QED
    BY <1>1, <1>p, <2>1, <2>2, <2>3, <2>4, <2>5 DEF CommitCheck, Loads, PriorTakes, DbPcs
<1>6. CASE Unmark(w) /\ Goto(w, "unmarked")
  <2>1. /\ W.pc = "promote" /\ UNCHANGED <<jobs, store>>
        /\ files' = [files EXCEPT ![j][W.attempt].state = "bare"]
    <3>1. /\ W.pc = "promote" /\ UNCHANGED <<jobs, store>>
          /\ \/ files' = [files EXCEPT ![j][W.attempt].state = "bare"]
             \/ Goto(w, "raised")
      BY <1>6 DEF Unmark
    <3>2. ~Goto(w, "raised")
      BY <1>0, <1>6 DEF Goto, Process
    <3> QED
      BY <3>1, <3>2
  <2>2. /\ worker'[w].pc = "unmarked" /\ worker'[w].job = j /\ worker'[w].attempt = W.attempt
        /\ \A v \in Workers : v # w => worker'[v] = worker[v] /\ worker[v].pc \notin DbPcs
    BY <1>0, <1>o, <1>6, <2>1 DEF Process, Goto, DbPcs
  <2>3. \A k \in Jobs : \A a \in Attempts :
          /\ files'[k][a].state = "take" => files[k][a].state = "take"
          /\ files'[k][a].state = "error" => files[k][a].state = "error"
    BY <1>0, <2>1 DEF SafeInv, TypeOK, File
  <2>4. DbExclusive'
    BY <2>2 DEF DbExclusive
  <2>5. CommitReady'
    BY <2>1, <2>2, <2>3 DEF CommitReady, SafeInv, DbPcs, store
  <2>6. SafeRows' /\ OneTakePerJob' /\ RowsStep /\ FilesOwned
    BY <2>1, <2>3, RowsKept DEF SafeInv, SafeRows, OneTakePerJob, CommittedTakes, FilesOwned
  <2> QED
    BY <2>4, <2>5, <2>6 DEF SafeInv
<1>7. CASE (Unmark(w) \/ Promote(w)) /\ Goto(w, "raised") /\ UNCHANGED files
  <2>1. LocksStep
    BY <1>7, <1>g DEF DbPcs
  <2>2. UNCHANGED <<jobs, store>>
    BY <1>7 DEF Unmark, Promote
  <2>3. PlainStep
    BY <1>7, <2>1, <2>2, PlainBecome
  <2> QED
    BY <1>p, <2>3
<1>2. CASE Promote(w) /\ ~(Goto(w, "raised") /\ UNCHANGED files)
  <2>1. /\ W.pc = "unmarked" /\ UNCHANGED <<jobs, store>>
        /\ files' = [files EXCEPT ![j][W.attempt].state = "take"]
    BY <1>2 DEF Promote
  <2>2. PICK pc \in {"renamed", "merged"} : Goto(w, pc)
    BY <1>2 DEF Promote
  <2>3. /\ r.status = "running" /\ r.token = W.attempt /\ ~r.cancel
        /\ p \in onDisk \ tombstones /\ \A a \in Attempts : files[j][a].state # "take"
    BY <2>1 DEF SafeInv, CommitReady, DbPcs
  <2>4. /\ worker'[w].pc = pc /\ worker'[w].job = j /\ worker'[w].attempt = W.attempt
        /\ \A v \in Workers : v # w => worker'[v] = worker[v] /\ worker[v].pc \notin DbPcs
    BY <1>0, <1>o, <2>1, <2>2 DEF Process, Goto, DbPcs
  <2>5. \A k \in Jobs : \A a \in Attempts : k # j \/ a # W.attempt =>
          files'[k][a] = files[k][a]
    BY <1>0, <2>1 DEF SafeInv, TypeOK
  <2>6. DbExclusive'
    BY <2>4 DEF DbExclusive
  <2>7. CommitReady'
    <3> SUFFICES ASSUME NEW v \in Workers, worker'[v].pc \in DbPcs
                 PROVE  LET k == worker'[v].job IN
                        /\ jobs'[k].status = "running" /\ jobs'[k].token = worker'[v].attempt
                        /\ ~jobs'[k].cancel /\ ProjectOf[k] \in onDisk' \ tombstones'
                        /\ worker'[v].pc \in {"promote", "unmarked"} =>
                             \A a \in Attempts : files'[k][a].state # "take"
      BY DEF CommitReady, DbPcs
    <3>1. v = w
      BY <2>4
    <3> QED
      BY <2>1, <2>2, <2>3, <2>4, <3>1 DEF store
  <2>8. OneTakePerJob'
    <3> SUFFICES ASSUME NEW k \in Jobs, NEW a \in Attempts, NEW b \in Attempts,
                        files'[k][a].state = "take", files'[k][b].state = "take"
                 PROVE  a = b
      BY DEF OneTakePerJob, CommittedTakes
    <3>1. CASE k = j
      BY <2>3, <2>5, <3>1
    <3>2. CASE k # j
      BY <2>5, <3>2 DEF SafeInv, OneTakePerJob, CommittedTakes
    <3> QED
      BY <3>1, <3>2
  <2>9. SafeRows' /\ RowsStep
    BY <2>1, RowsKept DEF SafeInv, SafeRows
  <2>10. FilesOwned
    <3> SUFFICES ASSUME NEW k \in Jobs, NEW a \in Attempts
                 PROVE  /\ files[k][a].state # "take" /\ files'[k][a].state = "take" =>
                             /\ jobs[k].status = "running" /\ jobs[k].token = a
                             /\ ~jobs[k].cancel /\ ProjectOf[k] \in onDisk \ tombstones
                        /\ files'[k][a].state = "error" /\ files[k][a].state # "error" =>
                             ProjectOf[k] \in onDisk
      BY DEF FilesOwned
    <3>1. CASE k = j /\ a = W.attempt
      BY <2>3, <3>1
    <3>2. CASE k # j \/ a # W.attempt
      BY <2>5, <3>2
    <3> QED
      BY <3>1, <3>2
  <2> QED
    BY <2>6, <2>7, <2>8, <2>9, <2>10 DEF SafeInv
<1>3. CASE MergeBrief(w)
  <2>1. W.pc = "renamed" /\ Goto(w, "merged") /\ UNCHANGED <<jobs, files, onDisk, tombstones>>
    BY <1>3 DEF MergeBrief
  <2>2. /\ worker'[w].pc = "merged" /\ worker'[w].job = j /\ worker'[w].attempt = W.attempt
        /\ \A v \in Workers : v # w => worker'[v] = worker[v] /\ worker[v].pc \notin DbPcs
    BY <1>0, <1>o, <2>1 DEF Process, Goto, DbPcs
  <2>3. DbExclusive'
    BY <2>2 DEF DbExclusive
  <2>4. CommitReady'
    BY <2>1, <2>2 DEF CommitReady, SafeInv, DbPcs
  <2>5. SafeRows' /\ OneTakePerJob' /\ RowsStep /\ FilesOwned
    BY <2>1, RowsKept DEF SafeInv, SafeRows, OneTakePerJob, CommittedTakes, FilesOwned
  <2> QED
    BY <2>3, <2>4, <2>5 DEF SafeInv
<1>4. CASE CommitSql(w)
  <2> DEFINE row == [r EXCEPT !.status = "done", !.take = W.attempt]
  <2>1. /\ W.pc = "merged" /\ Goto(w, "committed") /\ UpdateRow(j, row)
        /\ UNCHANGED <<files, store>>
    BY <1>4 DEF CommitSql
  <2>2. r.status = "running" /\ ~r.cancel
    BY <2>1 DEF SafeInv, CommitReady, DbPcs
  <2>3. W.attempt \in 0 .. MaxAttempts
    BY <1>0 DEF Attempts
  <2>4. RowStep(r, row)
    BY <1>0, <2>2, <2>3, Settled
  <2>5. RowsStep
    BY <1>0, <2>1, <2>4, RowWritten
  <2>6. \A v \in Workers : worker'[v].pc \notin DbPcs
    BY <1>0, <1>o, <2>1 DEF Process, Goto, DbPcs
  <2>7. DbExclusive' /\ CommitReady'
    BY <2>6 DEF DbExclusive, CommitReady
  <2>8. SafeRows' /\ OneTakePerJob' /\ FilesOwned
    BY <2>1, <2>5 DEF SafeInv, SafeRows, RowsStep, RowStep, OneTakePerJob, CommittedTakes, FilesOwned
  <2> QED
    BY <2>5, <2>7, <2>8 DEF SafeInv
<1>5. CASE Activate(w)
  <2>1. LocksStep
    BY <1>5, <1>g DEF Activate, DbPcs
  <2>2. PlainStep
    BY <1>5, <2>1, PlainMove DEF Activate
  <2> QED
    BY <1>p, <2>2
<1>8. Unmark(w) => Goto(w, "unmarked") \/ (Goto(w, "raised") /\ UNCHANGED files)
  BY DEF Unmark
<1> QED
  BY <1>1, <1>2, <1>3, <1>4, <1>5, <1>6, <1>7, <1>8

-----------------------------------------------------------------------------
(* The theorems *)

LEMMA NextSafe == SafeInv /\ [Next]_vars => SafeInv' /\ RowsStep /\ FilesOwned
<1> SUFFICES ASSUME SafeInv, [Next]_vars PROVE SafeInv' /\ RowsStep /\ FilesOwned
  OBVIOUS
<1>1. TypeOK' /\ Claimable'
  BY NextTypes DEF SafeInv
<1>2. PlainStep => SafeInv' /\ RowsStep /\ FilesOwned
  BY <1>1, PlainSafe, PlainOwned
<1>3. ASSUME NEW c \in Clients, Handler(c) PROVE PlainStep
  BY <1>3, HandlerSafe
<1>4. ASSUME NEW w \in Workers, Loop(w) \/ Backend(w) \/ Heartbeat(w) PROVE PlainStep
  BY <1>4, LoopSafe, BackendSafe, HeartbeatSafe
<1>5. ASSUME NEW w \in Workers, Orchestrate(w) PROVE SafeInv' /\ RowsStep /\ FilesOwned
  BY <1>1, <1>2, <1>5, BeforeCommitSafe, CommitSafe, AfterFailureSafe DEF Orchestrate
<1>6. ASSUME NEW j \in Jobs, Lapse(j) PROVE PlainStep
  BY <1>6, LapseSafe
<1>7. CASE UNCHANGED vars
  BY <1>2, <1>7, PlainMove, LocksKept DEF vars
<1> QED
  BY <1>2, <1>3, <1>4, <1>5, <1>6, <1>7, UserSafe, ServerCrashSafe DEF Next

\* The inductive invariant always holds.
LEMMA Safe == Spec => []SafeInv
  BY InitSafe, NextSafe, PTL DEF Spec

\* A job publishes at most one take, whatever crashes, reclaims, lost
\* attempts that come back, retries and failing steps there are: the commit
\* looks for an earlier take and renames inside one transaction.
THEOREM AtMostOneTake == Spec => []OneTakePerJob
<1>1. SafeInv => OneTakePerJob
  BY DEF SafeInv
<1> QED
  BY <1>1, Safe, PTL

\* An accepted cancel keeps a job out of the queue and out of `done`, against
\* commits, reclaims and deletions that give jobs back.
THEOREM CancelPrevails == Spec => []CancelWins
<1>1. SafeInv => CancelWins
  BY DEF SafeInv, SafeRows, SafeRow, CancelWins
<1> QED
  BY <1>1, Safe, PTL

\* A take appears only by its owner, in a project that exists: what the commit
\* checked still holds when it renames, though deletions, cancels and other
\* workers go on in between.
THEOREM OnlyOwnerPublishes == Spec => PublishedByOwner
<1>1. SafeInv /\ [Next]_vars =>
        [\A j \in Jobs : \A a \in Attempts :
           files[j][a].state # "take" /\ files'[j][a].state = "take" =>
             /\ jobs[j].status = "running" /\ jobs[j].token = a /\ ~jobs[j].cancel
             /\ ProjectOf[j] \in onDisk \ tombstones]_vars
  BY NextSafe DEF FilesOwned
<1> QED
  BY <1>1, Safe, PTL DEF Spec, PublishedByOwner

\* A settled row keeps its status and take, against late commits, watchdogs,
\* cancels and failures: only an aborted deletion takes back its own sweep.
THEOREM SettledForGood == Spec => TerminalFinal
<1>1. SafeInv /\ [Next]_vars =>
        [\A j \in Jobs : jobs[j].status \in Terminal =>
           \/ jobs'[j].status = jobs[j].status /\ jobs'[j].take = jobs[j].take
           \/ jobs[j].swept /\ jobs'[j].status = "queued"]_vars
  BY NextSafe DEF RowsStep, RowStep
<1> QED
  BY <1>1, Safe, PTL DEF Spec, TerminalFinal

\* Neither a promotion nor an error take brings back the directory of a
\* deleted project.
THEOREM DeletedStaysDeleted == Spec => NoResurrection
<1>1. SafeInv /\ [Next]_vars =>
        [\A j \in Jobs : \A a \in Attempts :
           files'[j][a].state \in {"take", "error"} /\ files'[j][a].state # files[j][a].state =>
             ProjectOf[j] \in onDisk]_vars
  BY NextSafe DEF FilesOwned
<1> QED
  BY <1>1, Safe, PTL DEF Spec, NoResurrection

\* A remote render whose handle is recorded is never started again: no
\* reclaim, retry or aborted deletion returns its row to the queue.
THEOREM NeverResubmitted == Spec => NoRemoteResubmit
<1>1. SafeInv /\ [Next]_vars =>
        [\A j \in Jobs : jobs[j].remote => jobs'[j].attempts = jobs[j].attempts]_vars
  BY NextSafe DEF RowsStep, RowStep
<1> QED
  BY <1>1, Safe, PTL DEF Spec, NoRemoteResubmit

-----------------------------------------------------------------------------
(* Renders and briefs: the inductive invariant *)

JobOf(w) == jobs[worker[w].job]
FileOf(w) == files[worker[w].job][worker[w].attempt]
Holds(w) == Owns(worker[w].job, worker[w].attempt)

BeforeFreeze == {"claimed", "lookup", "resolve", "allocate", "mark", "freeze"}
SeededPcs == {"allocate"} \cup RenderPcs
WrittenPcs == {"commit", "promote", "unmarked"}
FrozenPcs == {"render", "rendered"} \cup WrittenPcs

\* From the allocation to the rename an attempt has no take, and that of an
\* attempt that holds the job is staged or was discarded; once its meta.json
\* is written, what is staged says what the attempt was claimed with.
StagedOK(w) ==
  LET W == worker[w] IN
  W.pc \in RenderPcs =>
    /\ FileOf(w).state # "take"
    /\ Holds(w) => FileOf(w).state \in {"none", "bare", "staged"}
    /\ Holds(w) /\ W.pc \in WrittenPcs /\ FileOf(w).state # "none" =>
         FileOf(w).creation = W.creation /\ FileOf(w).seed = W.seed

\* While it holds a first submission that renders locally, the row has no
\* brief before a drawn one is frozen and the one of the attempt afterwards.
BriefOK(w) ==
  LET W == worker[w] IN
  Holds(w) /\ JobOf(w).retryOf = None /\ ~RemoteGpu =>
    /\ W.drawn /\ W.pc \in BeforeFreeze => JobOf(w).resolved = None
    /\ ~W.drawn \/ W.pc \in FrozenPcs => W.seed = JobOf(w).resolved

AttemptOK(w) ==
  LET W == worker[w] IN
  /\ JobOf(w).status # "absent" /\ W.attempt <= JobOf(w).attempts
  /\ W.pc = "submit" => RemoteGpu
  /\ W.pc = "freeze" => W.drawn
  /\ ~W.drawn \/ W.pc \in SeededPcs => W.seed # None
  /\ JobOf(w).retryOf = None => W.creation = JobOf(w).creation
  /\ StagedOK(w) /\ BriefOK(w)
AttemptsOK == \A w \in Workers : worker[w].pc \in JobPcs => AttemptOK(w)

\* No two processes run the same attempt of the same job.
OneProcessPerAttempt ==
  \A v, w \in Workers :
    /\ worker[v].pc \in JobPcs /\ worker[w].pc \in JobPcs
    /\ worker[v].job = worker[w].job /\ worker[v].attempt = worker[w].attempt
    => v = w

\* Only an attempt that was claimed has files, and an unused id has none.
FilesClaimed ==
  /\ \A j \in Jobs : jobs[j].status = "absent" => jobs[j].attempts = 0
  /\ \A j \in Jobs : \A a \in Attempts : files[j][a].state # "none" => a <= jobs[j].attempts

\* The second transaction of a retry only writes the row of a retry.
PatchesRetries ==
  \A c \in Clients :
    LET q == request[c] IN
    /\ q.exact => q.retryOf # None
    /\ q.pc = "patch" => jobs[q.job].status # "absent" /\ jobs[q.job].retryOf # None

\* One committed take and its row, as FrozenBrief says of them all; the brief
\* is there, so no later attempt draws another.
TakeFrozen(j, a) ==
  jobs[j].retryOf = None =>
    /\ files[j][a].creation = jobs[j].creation
    /\ RemoteGpu \/ (files[j][a].seed = jobs[j].resolved /\ jobs[j].resolved # None)
TakesFrozen == \A j \in Jobs : \A a \in CommittedTakes(j) : TakeFrozen(j, a)

FrozenInv ==
  SafeInv /\ AttemptsOK /\ OneProcessPerAttempt /\ FilesClaimed /\ PatchesRetries /\ TakesFrozen

LEMMA InitFrozen == Init => FrozenInv
<1> SUFFICES ASSUME Init PROVE FrozenInv
  OBVIOUS
<1>1. \A w \in Workers : worker[w].pc \notin JobPcs
  BY DEF Init, Looping, JobPcs, CommitPcs
<1>2. FilesClaimed /\ TakesFrozen
  BY DEF Init, FilesClaimed, TakesFrozen, CommittedTakes, NoFile, AbsentRow
<1>3. PatchesRetries
  BY DEF Init, PatchesRetries, Idle
<1> QED
  BY <1>1, <1>2, <1>3, InitSafe DEF FrozenInv, AttemptsOK, OneProcessPerAttempt

-----------------------------------------------------------------------------
(* What most steps do *)

\* To a row: it is not claimed, and a first submission keeps what it froze.
RowQuiet(r, s) ==
  /\ s.attempts = r.attempts
  /\ r.status # "absent" =>
       /\ s.status # "absent" /\ s.retryOf = r.retryOf
       /\ r.retryOf = None => s.creation = r.creation /\ s.resolved = r.resolved
  /\ s.status = "running" => r.status = "running" /\ s.token = r.token
RowsQuiet == \A j \in Jobs : RowQuiet(jobs[j], jobs'[j])

\* To a process: the next step asks for nothing the last did not.
FreePcs == {"finish", "cancelling", "raised", "failing", "failstatus", "ended",
            "renamed", "merged", "committed"}
EasyMove(from, to) ==
  \/ to = from
  \/ to \in FreePcs
  \/ from \in {"claimed", "lookup"} /\ to \in {"lookup", "resolve"}
  \/ from \in WrittenPcs /\ to \in WrittenPcs
SameAttempt(w) ==
  /\ worker'[w].job = worker[w].job /\ worker'[w].attempt = worker[w].attempt
  /\ worker'[w].creation = worker[w].creation /\ worker'[w].seed = worker[w].seed
  /\ worker'[w].drawn = worker[w].drawn
EasyAttempt(w) ==
  worker'[w].pc \in JobPcs =>
    worker[w].pc \in JobPcs /\ SameAttempt(w) /\ EasyMove(worker[w].pc, worker'[w].pc)
AttemptsEasy == \A w \in Workers : EasyAttempt(w)

\* To the files of an attempt: they go, or somebody writes them whose attempt
\* does not render, and no take appears.
FileQuiet(j, a) ==
  \/ files'[j][a] = files[j][a] \/ files'[j][a].state = "none"
  \/ /\ files'[j][a].state # "take" /\ a <= jobs[j].attempts
     /\ \A w \in Workers :
          worker'[w].pc \in RenderPcs /\ worker[w].job = j /\ worker[w].attempt = a =>
            ~Owns(j, a)
FilesQuiet == \A j \in Jobs : \A a \in Attempts : FileQuiet(j, a)

QuietStep == RowsQuiet /\ AttemptsEasy /\ FilesQuiet /\ PatchesRetries'

LEMMA PcSets ==
  /\ RenderPcs \subseteq JobPcs /\ WrittenPcs \subseteq RenderPcs /\ FrozenPcs \subseteq RenderPcs
  /\ FreePcs \subseteq JobPcs /\ BeforeFreeze \subseteq JobPcs /\ SeededPcs \subseteq JobPcs
  /\ DbPcs \subseteq JobPcs
BY DEF RenderPcs, WrittenPcs, FrozenPcs, FreePcs, BeforeFreeze, SeededPcs, JobPcs, CommitPcs, DbPcs

\* A process that only moves on keeps what it knows of its row and files.
LEMMA AttemptKept ==
  ASSUME NEW w \in Workers, worker[w].pc \in JobPcs, AttemptOK(w), SameAttempt(w),
         EasyMove(worker[w].pc, worker'[w].pc), RowQuiet(JobOf(w), JobOf(w)'),
         worker'[w].pc \in RenderPcs =>
           \/ FileOf(w)' = FileOf(w) \/ FileOf(w)'.state = "none"
           \/ ~Holds(w) /\ FileOf(w)'.state # "take"
  PROVE  AttemptOK(w)'
<1> DEFINE W == worker[w]
           V == worker'[w]
           r == JobOf(w)
           s == JobOf(w)'
<1>1. /\ V.pc = "submit" => W.pc = "submit"
      /\ V.pc = "freeze" => W.pc = "freeze"
      /\ V.pc \in RenderPcs => W.pc \in RenderPcs
      /\ V.pc \in SeededPcs => W.pc \in SeededPcs
      /\ V.pc \in WrittenPcs => W.pc \in WrittenPcs
      /\ V.pc \in FrozenPcs => W.pc \in FrozenPcs
      /\ V.pc \in BeforeFreeze => W.pc \in BeforeFreeze
  BY DEF EasyMove, FreePcs, RenderPcs, SeededPcs, WrittenPcs, FrozenPcs, BeforeFreeze
<1>2. s.status # "absent" /\ s.attempts = r.attempts /\ s.retryOf = r.retryOf
      /\ (r.retryOf = None => s.creation = r.creation /\ s.resolved = r.resolved)
  BY DEF AttemptOK, RowQuiet
<1>3. Holds(w)' => Holds(w)
  BY DEF Holds, Owns, RowQuiet, SameAttempt, JobOf
<1>4. StagedOK(w)'
  <2>1. /\ StagedOK(w) /\ V.creation = W.creation /\ V.seed = W.seed
    BY DEF AttemptOK, SameAttempt
  <2>2. V.pc \in RenderPcs => /\ W.pc \in RenderPcs
                            /\ \/ FileOf(w)' = FileOf(w) \/ FileOf(w)'.state = "none"
                               \/ ~Holds(w) /\ FileOf(w)'.state # "take"
    BY <1>1
  <2> QED
    BY <1>1, <1>3, <2>1, <2>2 DEF StagedOK
<1>5. BriefOK(w)'
  BY <1>1, <1>2, <1>3 DEF BriefOK, AttemptOK, SameAttempt
<1>6. V.attempt = W.attempt /\ V.creation = W.creation /\ V.seed = W.seed /\ V.drawn = W.drawn
  BY DEF SameAttempt
<1> QED
  BY <1>1, <1>2, <1>4, <1>5, <1>6 DEF AttemptOK

\* A quiet step keeps the invariant.
LEMMA QuietFrozen ==
  ASSUME FrozenInv, SafeInv', QuietStep
  PROVE  FrozenInv'
<1>0. ASSUME NEW w \in Workers, worker'[w].pc \in JobPcs
      PROVE  /\ worker[w].pc \in JobPcs /\ SameAttempt(w)
             /\ EasyMove(worker[w].pc, worker'[w].pc)
             /\ worker[w].job \in Jobs /\ worker[w].attempt \in Attempts /\ AttemptOK(w)
  <2>1. worker[w].pc \in JobPcs /\ SameAttempt(w) /\ EasyMove(worker[w].pc, worker'[w].pc)
    BY <1>0 DEF QuietStep, AttemptsEasy, EasyAttempt
  <2> QED
    BY <2>1, JobPcTypes DEF FrozenInv, SafeInv, AttemptsOK
<1>1. AttemptsOK'
  <2> SUFFICES ASSUME NEW w \in Workers, worker'[w].pc \in JobPcs PROVE AttemptOK(w)'
    BY DEF AttemptsOK, JobPcs, CommitPcs
  <2>1. RowQuiet(JobOf(w), JobOf(w)')
    BY <1>0 DEF QuietStep, RowsQuiet, JobOf, SameAttempt
  <2>2. worker'[w].pc \in RenderPcs =>
          \/ FileOf(w)' = FileOf(w) \/ FileOf(w)'.state = "none"
          \/ ~Holds(w) /\ FileOf(w)'.state # "take"
    BY <1>0 DEF QuietStep, FilesQuiet, FileQuiet, Holds, FileOf, SameAttempt
  <2> QED
    BY <1>0, <2>1, <2>2, AttemptKept
<1>2. OneProcessPerAttempt'
  <2> SUFFICES ASSUME NEW v \in Workers, NEW w \in Workers,
                      worker'[v].pc \in JobPcs, worker'[w].pc \in JobPcs,
                      worker'[v].job = worker'[w].job, worker'[v].attempt = worker'[w].attempt
               PROVE  v = w
    BY DEF OneProcessPerAttempt, JobPcs, CommitPcs
  <2> QED
    BY <1>0 DEF FrozenInv, OneProcessPerAttempt, SameAttempt
<1>3. ASSUME NEW j \in Jobs PROVE RowQuiet(jobs[j], jobs'[j])
  BY DEF QuietStep, RowsQuiet
<1>4. FilesClaimed'
  <2>1. ASSUME NEW j \in Jobs, jobs'[j].status = "absent" PROVE jobs'[j].attempts = 0
    BY <1>3, <2>1 DEF RowQuiet, FrozenInv, FilesClaimed
  <2>2. ASSUME NEW j \in Jobs, NEW a \in Attempts, files'[j][a].state # "none"
        PROVE  a <= jobs'[j].attempts
    BY <1>3, <2>2 DEF RowQuiet, FrozenInv, FilesClaimed, QuietStep, FilesQuiet, FileQuiet
  <2> QED
    BY <2>1, <2>2 DEF FilesClaimed
<1>5. TakesFrozen'
  <2> SUFFICES ASSUME NEW j \in Jobs, NEW a \in Attempts, files'[j][a].state = "take"
               PROVE  TakeFrozen(j, a)'
    BY DEF TakesFrozen, CommittedTakes
  <2>1. files'[j][a] = files[j][a]
    BY DEF QuietStep, FilesQuiet, FileQuiet
  <2>2. TakeFrozen(j, a) /\ a <= jobs[j].attempts /\ a \in 1 .. MaxAttempts
    BY <2>1 DEF FrozenInv, TakesFrozen, CommittedTakes, FilesClaimed, Attempts
  <2>3. jobs[j].status # "absent"
    BY <2>2, BoundAssumption DEF FrozenInv, FilesClaimed
  <2> QED
    BY <1>3, <2>1, <2>2, <2>3 DEF TakeFrozen, RowQuiet
<1> QED
  BY <1>1, <1>2, <1>4, <1>5 DEF FrozenInv, QuietStep

-----------------------------------------------------------------------------
(* The parts of a quiet step *)

LEMMA RowSame == \A r : RowQuiet(r, r)
BY DEF RowQuiet

LEMMA RowsSame == UNCHANGED jobs => RowsQuiet
BY RowSame DEF RowsQuiet

LEMMA RowQuietly ==
  ASSUME SafeInv, NEW j \in Jobs, NEW r, RowQuiet(jobs[j], r), UpdateRow(j, r)
  PROVE  RowsQuiet
BY RowSame DEF SafeInv, TypeOK, RowsQuiet, UpdateRow

LEMMA AttemptsSame == UNCHANGED worker => AttemptsEasy
BY DEF AttemptsEasy, EasyAttempt, SameAttempt, EasyMove

LEMMA FilesSame == UNCHANGED files => FilesQuiet
BY DEF FilesQuiet, FileQuiet

LEMMA RequestsSame == ASSUME FrozenInv, RowsQuiet, UNCHANGED request PROVE PatchesRetries'
<1> SUFFICES ASSUME NEW c \in Clients
             PROVE  LET q == request[c] IN
                    /\ q.exact => q.retryOf # None
                    /\ q.pc = "patch" => jobs'[q.job].status # "absent"
                                         /\ jobs'[q.job].retryOf # None
  BY DEF PatchesRetries
<1>1. request[c].pc = "patch" => request[c].job \in Jobs
  BY RequestFacts DEF FrozenInv, RequestOK
<1> QED
  BY <1>1 DEF FrozenInv, PatchesRetries, RowsQuiet, RowQuiet

\* The row transitions of the code, all but the claim and the freeze.
LEMMA QuietTransitions ==
  ASSUME NEW r \in Row, NEW a \in 0 .. MaxAttempts, NEW t \in 0 .. MaxAttempts
  PROVE  /\ RowQuiet(r, MarkCancelled(r, a)) /\ RowQuiet(r, FinishDone(r, a, t))
         /\ RowQuiet(r, SetError(r, a, t))
         /\ r.status # "absent" => RowQuiet(r, Cancelled(r))
         /\ r.status # "absent" => RowQuiet(r, [r EXCEPT !.status = "error", !.take = t])
         /\ r.status # "absent" => RowQuiet(r, [r EXCEPT !.status = "done", !.take = t])
         /\ r.status # "absent" => RowQuiet(r, Reclaimed(r))
         /\ r.status # "absent" => RowQuiet(r, Swept(r))
         /\ r.status # "absent" => RowQuiet(r, GivenBack(r))
<1> USE DEF RowQuiet, Row
<1>1. r.status # "absent" => RowQuiet(r, Cancelled(r))
  BY DEF Cancelled
<1>2. RowQuiet(r, MarkCancelled(r, a))
  BY <1>1, RowSame DEF MarkCancelled
<1>3. ASSUME NEW st \in {"done", "error"}
      PROVE  r.status # "absent" => RowQuiet(r, [r EXCEPT !.status = st, !.take = t])
  OBVIOUS
<1>4. RowQuiet(r, FinishDone(r, a, t))
  BY <1>3, RowSame DEF FinishDone
<1>5. RowQuiet(r, SetError(r, a, t))
  BY <1>3, RowSame DEF SetError
<1>6. r.status # "absent" => RowQuiet(r, Reclaimed(r))
  BY DEF Reclaimed
<1>7. r.status # "absent" => RowQuiet(r, Swept(r)) /\ RowQuiet(r, GivenBack(r))
  BY DEF Swept, GivenBack
<1> QED
  BY <1>1, <1>2, <1>3, <1>4, <1>5, <1>6, <1>7

\* Flags that no attempt carries along.
LEMMA QuietFlags ==
  ASSUME NEW r \in Row, r.status # "absent"
  PROVE  /\ RowQuiet(r, [r EXCEPT !.cancel = TRUE]) /\ RowQuiet(r, [r EXCEPT !.remote = TRUE])
         /\ RowQuiet(r, [r EXCEPT !.held = TRUE])
         /\ \A b \in BOOLEAN : RowQuiet(r, [r EXCEPT !.stale = b])
BY DEF RowQuiet, Row

\* The handlers and the user only move requests.
LEMMA QuietRequest ==
  ASSUME FrozenInv, SafeInv', RowsQuiet, UNCHANGED <<files, worker>>, PatchesRetries'
  PROVE  FrozenInv'
BY AttemptsSame, FilesSame, QuietFrozen DEF QuietStep

LEMMA RequestQuietly ==
  ASSUME FrozenInv, RowsQuiet, NEW c \in Clients, NEW q,
         request' = [request EXCEPT ![c] = q], q.exact => q.retryOf # None,
         q.pc = "patch" => jobs'[q.job].status # "absent" /\ jobs'[q.job].retryOf # None
  PROVE  PatchesRetries'
<1>1. ASSUME NEW d \in Clients, d # c
      PROVE  LET p == request[d] IN
             /\ request'[d] = p /\ (p.exact => p.retryOf # None)
             /\ p.pc = "patch" => jobs'[p.job].status # "absent" /\ jobs'[p.job].retryOf # None
  <2>1. request[d].pc = "patch" => request[d].job \in Jobs
    BY RequestFacts DEF FrozenInv, RequestOK
  <2>2. request'[d] = request[d]
    BY <1>1 DEF FrozenInv, SafeInv, TypeOK
  <2> QED
    BY <2>1, <2>2 DEF FrozenInv, PatchesRetries, RowsQuiet, RowQuiet
<1>2. request'[c] = q
  BY DEF FrozenInv, SafeInv, TypeOK
<1> QED
  BY <1>1, <1>2 DEF PatchesRetries

-----------------------------------------------------------------------------
(* Handlers, the user and the loop *)

LEMMA HandlerFrozen ==
  ASSUME FrozenInv, SafeInv', NEW c \in Clients, Handler(c)
  PROVE  FrozenInv'
<1> USE DEF handlerOnly, store
<1> DEFINE q == request[c]
<1>0. /\ SafeInv /\ q \in Request /\ RequestOK(q) /\ None \notin Jobs /\ 0 \in 0 .. MaxAttempts
      /\ q.exact => q.retryOf # None
  BY RequestFacts, PoolAssumption, BoundAssumption DEF FrozenInv, PatchesRetries
<1>i. Idle.pc = "idle" /\ ~Idle.exact
  BY DEF Idle
<1>r. ASSUME RowsQuiet, Reply(c) PROVE PatchesRetries'
  BY <1>i, <1>r, RequestQuietly DEF Reply
<1>1. ASSUME NEW p \in Projects, Submit(c, p) PROVE FrozenInv'
  <2> DEFINE q1 == [Idle EXCEPT !.pc = "insert", !.project = p, !.creation = revision[p]]
  <2>1. RowsQuiet /\ request' = [request EXCEPT ![c] = q1] /\ UNCHANGED <<files, worker>>
    BY <1>1, RowsSame DEF Submit
  <2>2. ~q1.exact /\ q1.pc = "insert"
    BY DEF Idle
  <2>3. PatchesRetries'
    <3> HIDE DEF q1
    <3> QED
      BY <2>1, <2>2, RequestQuietly
  <2> QED
    BY <2>1, <2>3, QuietRequest
<1>2. ASSUME NEW j \in Jobs, Retry(c, j) PROVE FrozenInv'
  <2> DEFINE r == jobs[j]
             held == r.status = "queued" /\ r.held
             q1 == [Idle EXCEPT !.pc = IF held THEN "cancelheld" ELSE "load",
                      !.project = ProjectOf[j], !.retryOf = j, !.exact = ~held,
                      !.frozen = r.creation, !.resolved = r.resolved]
  <2>1. RowsQuiet /\ request' = [request EXCEPT ![c] = q1] /\ UNCHANGED <<files, worker>>
    BY <1>2, RowsSame DEF Retry
  <2>2. q1.retryOf # None /\ q1.pc # "patch"
    BY <1>0 DEF Idle
  <2>3. PatchesRetries'
    <3> HIDE DEF q1
    <3> QED
      BY <2>1, <2>2, RequestQuietly
  <2> QED
    BY <2>1, <2>3, QuietRequest
<1>3. CASE CancelHeld(c)
  <2> DEFINE j == q.retryOf
             q1 == [q EXCEPT !.pc = "load"]
  <2>1. j \in Jobs /\ jobs[j] \in Row
    BY <1>0, <1>3, RowFacts DEF CancelHeld, RequestOK
  <2>2. RowsQuiet
    BY <1>0, <1>3, <2>1, QuietTransitions, RowQuietly DEF CancelHeld
  <2>3. q1.exact = q.exact /\ q1.retryOf = q.retryOf /\ q1.pc = "load"
    BY <1>0 DEF Request
  <2>4. request' = [request EXCEPT ![c] = q1]
    BY <1>3 DEF CancelHeld
  <2>5. PatchesRetries'
    <3> HIDE DEF q1
    <3> QED
      BY <1>0, <2>2, <2>3, <2>4, RequestQuietly
  <2> QED
    BY <1>3, <2>2, <2>5, QuietRequest DEF CancelHeld
<1>4. CASE Load(c)
  <2> DEFINE q1 == [[q EXCEPT !.pc = "insert"] EXCEPT !.creation = revision[q.project]]
  <2>1. RowsQuiet /\ UNCHANGED <<files, worker>>
    BY <1>4, RowsSame DEF Load
  <2>2. q1.exact = q.exact /\ q1.retryOf = q.retryOf /\ q1.pc = "insert"
    BY <1>0 DEF Request
  <2>3. \/ request' = [request EXCEPT ![c] = q1]
        \/ Reply(c)
    BY <1>4 DEF Load, FrozenInv, SafeInv, TypeOK
  <2>4. PatchesRetries'
    <3> HIDE DEF q1
    <3> QED
      BY <1>0, <1>r, <2>1, <2>2, <2>3, RequestQuietly
  <2> QED
    BY <2>1, <2>4, QuietRequest
<1>5. CASE Insert(c)
  <2> DEFINE row == NewRow(q.creation, q.retryOf)
  <2>1. PICK j \in Jobs \ Existing :
          /\ UpdateRow(j, row)
          /\ request' = [request EXCEPT ![c] =
                           IF q.exact THEN [q EXCEPT !.pc = "patch", !.job = j] ELSE Idle]
    BY <1>5 DEF Insert
  <2>2. j \in Jobs /\ jobs[j].status = "absent" /\ jobs[j].attempts = 0
    BY DEF Existing, FrozenInv, FilesClaimed
  <2>3. RowQuiet(jobs[j], row) /\ row.status # "absent" /\ row.retryOf = q.retryOf
    BY <2>2 DEF NewRow, RowQuiet
  <2>4. RowsQuiet /\ jobs'[j] = row
    <3> HIDE DEF row
    <3>1. jobs'[j] = row
      BY <2>1, <2>2 DEF UpdateRow, FrozenInv, SafeInv, TypeOK
    <3> QED
      BY <1>0, <2>1, <2>2, <2>3, <3>1, RowQuietly
  <2>5. PatchesRetries'
    <3>1. CASE q.exact
      <4> DEFINE q1 == [q EXCEPT !.pc = "patch", !.job = j]
      <4>1. q1.exact = q.exact /\ q1.retryOf = q.retryOf /\ q1.job = j
        BY <1>0 DEF Request
      <4>2. request' = [request EXCEPT ![c] = q1]
        BY <2>1, <3>1
      <4> HIDE DEF q1, row
      <4> QED
        BY <1>0, <2>3, <2>4, <3>1, <4>1, <4>2, RequestQuietly
    <3>2. CASE ~q.exact
      BY <1>r, <2>1, <2>4, <3>2 DEF Reply
    <3> QED
      BY <3>1, <3>2
  <2> QED
    BY <1>5, <2>4, <2>5, QuietRequest DEF Insert
<1>6. CASE Reject(c)
  BY <1>6, <1>r, RowsSame, QuietRequest DEF Reject
<1>7. CASE Patch(c)
  <2> DEFINE r == jobs[q.job]
             creation == IF q.frozen = 0 THEN r.creation ELSE q.frozen
             patched == [r EXCEPT !.creation = creation, !.resolved = q.resolved]
             row == IF r.status = "queued" THEN patched ELSE r
  <2>1. q.job \in Jobs /\ r \in Row /\ r.retryOf # None
    BY <1>0, <1>7, RowFacts DEF Patch, RequestOK, FrozenInv, PatchesRetries
  <2>2. RowQuiet(r, row)
    <3> HIDE DEF creation
    <3> QED
      BY <2>1 DEF RowQuiet, Row
  <2>3. RowsQuiet
    BY <1>0, <1>7, <2>1, <2>2, RowQuietly DEF Patch
  <2> QED
    BY <1>7, <1>r, <2>3, QuietRequest DEF Patch
<1>8. ASSUME NEW p \in Projects, DeleteBegin(c, p) PROVE FrozenInv'
  <2> DEFINE S == {j \in Jobs : ProjectOf[j] = p /\ jobs[j].status = "queued"}
             q1 == [Idle EXCEPT !.pc = "rmtree", !.project = p, !.swept = S]
  <2>1. jobs' = [j \in Jobs |-> IF j \in S THEN Swept(jobs[j]) ELSE jobs[j]]
    BY <1>8 DEF DeleteBegin, Swept
  <2>2. RowsQuiet
    <3> SUFFICES ASSUME NEW j \in Jobs PROVE RowQuiet(jobs[j], jobs'[j])
      BY DEF RowsQuiet
    <3>1. CASE j \in S
      <4>1. jobs[j].status = "queued" /\ jobs'[j] = Swept(jobs[j]) /\ jobs[j] \in Row
        BY <1>0, <2>1, <3>1, RowFacts
      <4> QED
        BY <1>0, <4>1, QuietTransitions
    <3>2. CASE j \notin S
      BY <2>1, <3>2, RowSame
    <3> QED
      BY <3>1, <3>2
  <2>3. request' = [request EXCEPT ![c] = q1] /\ UNCHANGED <<files, worker>>
    BY <1>8 DEF DeleteBegin
  <2>4. ~q1.exact /\ q1.pc = "rmtree"
    BY DEF Idle
  <2>5. PatchesRetries'
    <3> HIDE DEF q1
    <3> QED
      BY <2>2, <2>3, <2>4, RequestQuietly
  <2> QED
    BY <2>2, <2>3, <2>5, QuietRequest
<1>9. ASSUME NEW p, NEW lost, files' = Without(p, lost), UNCHANGED worker PROVE FilesQuiet
  BY <1>9 DEF FilesQuiet, FileQuiet, Without, NoFile
<1>10. CASE DeleteFiles(c)
  <2>1. RowsQuiet /\ FilesQuiet /\ AttemptsEasy
    BY <1>9, <1>10, RowsSame, AttemptsSame DEF DeleteFiles
  <2> QED
    BY <1>10, <1>r, <2>1, QuietFrozen DEF DeleteFiles, QuietStep
<1>11. CASE DeleteFails(c)
  <2> DEFINE q1 == [q EXCEPT !.pc = "abort"]
  <2>1. RowsQuiet /\ FilesQuiet /\ AttemptsEasy
    BY <1>9, <1>11, RowsSame, AttemptsSame DEF DeleteFails
  <2>2. q1.exact = q.exact /\ q1.retryOf = q.retryOf /\ q1.pc = "abort"
    BY <1>0 DEF Request
  <2>3. request' = [request EXCEPT ![c] = q1]
    BY <1>11 DEF DeleteFails
  <2>4. PatchesRetries'
    <3> HIDE DEF q1
    <3> QED
      BY <1>0, <2>1, <2>2, <2>3, RequestQuietly
  <2> QED
    BY <2>1, <2>4, QuietFrozen DEF QuietStep
<1>12. CASE DeleteAbort(c)
  <2> DEFINE S == {j \in q.swept : jobs[j].status = "error" /\ jobs[j].swept}
  <2>1. jobs' = [j \in Jobs |-> IF j \in S THEN GivenBack(jobs[j]) ELSE jobs[j]]
    BY <1>12 DEF DeleteAbort, GivenBack
  <2>2. RowsQuiet
    <3> SUFFICES ASSUME NEW j \in Jobs PROVE RowQuiet(jobs[j], jobs'[j])
      BY DEF RowsQuiet
    <3>1. CASE j \in S
      <4>1. jobs[j].status = "error" /\ jobs'[j] = GivenBack(jobs[j]) /\ jobs[j] \in Row
        BY <1>0, <2>1, <3>1, RowFacts
      <4> QED
        BY <1>0, <4>1, QuietTransitions
    <3>2. CASE j \notin S
      BY <2>1, <3>2, RowSame
    <3> QED
      BY <3>1, <3>2
  <2> QED
    BY <1>12, <1>r, <2>2, QuietRequest DEF DeleteAbort
<1> QED
  BY <1>1, <1>2, <1>3, <1>4, <1>5, <1>6, <1>7, <1>8, <1>10, <1>11, <1>12 DEF Handler

LEMMA OutsideFrozen ==
  ASSUME FrozenInv, SafeInv', User \/ ServerCrash \/ \E j \in Jobs : Lapse(j)
  PROVE  FrozenInv'
<1> USE DEF handlerOnly, clientSide
<1>0. SafeInv
  BY DEF FrozenInv
<1>1. ASSUME NEW j \in Jobs, CancelJob(j) PROVE FrozenInv'
  <2> DEFINE r == jobs[j]
             row == IF r.status = "queued" THEN Cancelled(r) ELSE [r EXCEPT !.cancel = TRUE]
  <2>0. r \in Row /\ r.status # "absent" /\ 0 \in 0 .. MaxAttempts
    BY <1>0, <1>1, RowFacts, BoundAssumption DEF CancelJob
  <2>1. RowQuiet(r, row)
    BY <2>0, QuietTransitions, QuietFlags
  <2>2. RowsQuiet
    BY <1>0, <1>1, <2>1, RowQuietly DEF CancelJob
  <2>3. UNCHANGED <<files, worker, request>>
    BY <1>1 DEF CancelJob
  <2> QED
    BY <2>2, <2>3, RequestsSame, QuietRequest
<1>2. ASSUME NEW j \in Jobs, NEW a \in Attempts, KeepTake(j, a) PROVE FrozenInv'
  BY <1>2, RowsSame, RequestsSame, QuietRequest DEF KeepTake
<1>3. ASSUME NEW p \in Projects, EditPlan(p) PROVE FrozenInv'
  BY <1>3, RowsSame, RequestsSame, QuietRequest DEF EditPlan
<1>4. CASE ServerCrash
  <2>1. PatchesRetries'
    BY <1>4 DEF ServerCrash, PatchesRetries, Idle
  <2> QED
    BY <1>4, <2>1, RowsSame, QuietRequest DEF ServerCrash
<1>5. ASSUME NEW j \in Jobs, Lapse(j) PROVE FrozenInv'
  <2>1. jobs[j] \in Row /\ jobs[j].status # "absent"
    BY <1>0, <1>5, RowFacts DEF Lapse
  <2>2. RowsQuiet
    BY <1>0, <1>5, <2>1, QuietFlags, RowQuietly DEF Lapse
  <2> QED
    BY <1>5, <2>2, RequestsSame, QuietRequest DEF Lapse
<1> QED
  BY <1>1, <1>2, <1>3, <1>4, <1>5 DEF User

LEMMA EasyBecome ==
  ASSUME SafeInv, NEW w \in Workers, NEW p, Become(w, p),
         p.pc \in JobPcs =>
           /\ worker[w].pc \in JobPcs /\ EasyMove(worker[w].pc, p.pc)
           /\ p.job = worker[w].job /\ p.attempt = worker[w].attempt
           /\ p.creation = worker[w].creation /\ p.seed = worker[w].seed
           /\ p.drawn = worker[w].drawn
  PROVE  AttemptsEasy /\ worker'[w] = p
<1>1. worker'[w] = p /\ \A v \in Workers \ {w} : worker'[v] = worker[v]
  BY DEF Become, SafeInv, TypeOK
<1>2. EasyAttempt(w)
  BY <1>1 DEF EasyAttempt, SameAttempt
<1>3. ASSUME NEW v \in Workers \ {w} PROVE EasyAttempt(v)
  BY <1>1, <1>3 DEF EasyAttempt, SameAttempt, EasyMove
<1> QED
  BY <1>1, <1>2, <1>3 DEF AttemptsEasy

LEMMA EasyGoto ==
  ASSUME SafeInv, NEW w \in Workers, NEW pc, Goto(w, pc),
         pc \in JobPcs => worker[w].pc \in JobPcs /\ EasyMove(worker[w].pc, pc)
  PROVE  AttemptsEasy /\ worker'[w].pc = pc
<1> DEFINE p == [worker[w] EXCEPT !.pc = pc]
<1>1. /\ p.pc = pc /\ p.job = worker[w].job /\ p.attempt = worker[w].attempt
      /\ p.creation = worker[w].creation /\ p.seed = worker[w].seed /\ p.drawn = worker[w].drawn
  BY DEF SafeInv, TypeOK, Process
<1>2. Become(w, p)
  BY DEF Goto, Become
<1> HIDE DEF p
<1> QED
  BY <1>1, <1>2, EasyBecome

LEMMA EasyWatched ==
  ASSUME SafeInv, NEW w \in Workers, worker[w].pc \in JobPcs, NEW mode, Watched(w, mode)
  PROVE  AttemptsEasy
<1> DEFINE p == [worker[w] EXCEPT !.watch = mode]
<1>1. /\ p.pc = worker[w].pc /\ p.job = worker[w].job /\ p.attempt = worker[w].attempt
      /\ p.creation = worker[w].creation /\ p.seed = worker[w].seed /\ p.drawn = worker[w].drawn
  BY DEF SafeInv, TypeOK, Process
<1>2. Become(w, p)
  BY DEF Watched, Become
<1> HIDE DEF p
<1> QED
  BY <1>1, <1>2, EasyBecome DEF EasyMove

\* An attempt that stops rendering may write its own files.
LEMMA OwnFileQuiet ==
  ASSUME FrozenInv, NEW w \in Workers, worker[w].pc \in JobPcs, AttemptsEasy,
         worker'[w].pc \notin RenderPcs, NEW f, f.state # "take",
         files' = [files EXCEPT ![worker[w].job][worker[w].attempt] = f]
  PROVE  FilesQuiet
<1> DEFINE W == worker[w]
<1>0. W.job \in Jobs /\ W.attempt \in Attempts /\ W.attempt <= jobs[W.job].attempts
  BY JobPcTypes DEF FrozenInv, SafeInv, AttemptsOK, AttemptOK, JobOf
<1>1. ASSUME NEW j \in Jobs, NEW a \in Attempts, j # W.job \/ a # W.attempt
      PROVE  files'[j][a] = files[j][a]
  BY <1>0, <1>1 DEF FrozenInv, SafeInv, TypeOK
<1>2. files'[W.job][W.attempt] = f
  BY <1>0 DEF FrozenInv, SafeInv, TypeOK
<1>3. ASSUME NEW v \in Workers, worker'[v].pc \in RenderPcs,
             worker[v].job = W.job, worker[v].attempt = W.attempt
      PROVE  FALSE
  BY <1>3, PcSets DEF AttemptsEasy, EasyAttempt, FrozenInv, OneProcessPerAttempt
<1>4. FileQuiet(W.job, W.attempt)
  BY <1>0, <1>2, <1>3 DEF FileQuiet
<1> QED
  BY <1>1, <1>4 DEF FilesQuiet, FileQuiet

LEMMA DiscardQuiet ==
  ASSUME FrozenInv, NEW w \in Workers, worker[w].pc \in JobPcs, AttemptsEasy,
         worker'[w].pc \notin RenderPcs,
         files' = Discarded(worker[w].job, worker[w].attempt)
  PROVE  FilesQuiet
<1>1. NoFile.state # "take"
  BY DEF NoFile
<1> QED
  BY <1>1, OwnFileQuiet, FilesSame DEF Discarded

LEMMA QuietAttempt ==
  ASSUME FrozenInv, SafeInv', RowsQuiet, AttemptsEasy, FilesQuiet, UNCHANGED request
  PROVE  FrozenInv'
BY RequestsSame, QuietFrozen DEF QuietStep

\* The row of the attempt, as the queue knows it.
LEMMA OwnRow ==
  ASSUME FrozenInv, NEW w \in Workers, worker[w].pc \in JobPcs
  PROVE  /\ worker[w] \in Process /\ worker[w].job \in Jobs /\ worker[w].attempt \in Attempts
         /\ worker[w].attempt \in 0 .. MaxAttempts /\ worker[w].take \in 0 .. MaxAttempts
         /\ jobs[worker[w].job] \in Row /\ jobs[worker[w].job].status # "absent"
         /\ AttemptOK(w)
BY JobPcTypes, AttemptFacts DEF FrozenInv, SafeInv, AttemptsOK, AttemptOK, JobOf, Attempts

LEMMA HeartbeatFrozen ==
  ASSUME FrozenInv, SafeInv', NEW w \in Workers, Heartbeat(w)
  PROVE  FrozenInv'
<1> USE DEF Watching, store, clientSide
<1> DEFINE W == worker[w]
           r == jobs[W.job]
<1>0. SafeInv /\ W.pc \in JobPcs /\ 0 \in 0 .. MaxAttempts
  BY WatchTypes, BoundAssumption
     DEF Heartbeat, Watchdog, Touch, ExpireRead, ExpireError, ExpireCancel,
         ExitProcess, HeartbeatDies, FrozenInv, SafeInv, Watch
<1>f. W.job \in Jobs /\ r \in Row /\ r.status # "absent"
  BY <1>0, OwnRow
<1>w. ASSUME NEW mode, Watched(w, mode) PROVE AttemptsEasy
  BY <1>0, <1>w, EasyWatched
<1>1. CASE Touch(w)
  <2>1. RowsQuiet
    BY <1>0, <1>1, <1>f, QuietFlags, RowQuietly DEF Touch
  <2> QED
    BY <1>1, <2>1, AttemptsSame, FilesSame, QuietAttempt DEF Touch
<1>2. CASE ExpireRead(w)
  BY <1>2, <1>w, RowsSame, FilesSame, QuietAttempt DEF ExpireRead
<1>3. CASE ExpireError(w)
  <2>1. RowsQuiet
    BY <1>0, <1>3, <1>f, QuietTransitions, RowQuietly, RowsSame DEF ExpireError
  <2> QED
    BY <1>3, <1>w, <2>1, FilesSame, QuietAttempt DEF ExpireError
<1>4. CASE ExpireCancel(w)
  <2>1. RowsQuiet
    BY <1>0, <1>4, <1>f, QuietTransitions, RowQuietly DEF ExpireCancel
  <2> QED
    BY <1>4, <1>w, <2>1, FilesSame, QuietAttempt DEF ExpireCancel
<1>5. CASE ExitProcess(w)
  <2>1. Looping("down").pc \notin JobPcs
    BY DEF Looping, JobPcs, CommitPcs
  <2>2. AttemptsEasy
    BY <1>0, <1>5, <2>1, EasyBecome DEF ExitProcess
  <2> QED
    BY <1>5, <2>2, RowsSame, FilesSame, QuietAttempt DEF ExitProcess
<1>6. CASE HeartbeatDies(w)
  BY <1>6, <1>w, RowsSame, FilesSame, QuietAttempt DEF HeartbeatDies
<1> QED
  BY <1>1, <1>2, <1>3, <1>4, <1>5, <1>6 DEF Heartbeat, Watchdog

\* A claim starts an attempt nobody runs, with what the row says.
LEMMA ClaimFrozen ==
  ASSUME FrozenInv, SafeInv', NEW w \in Workers, worker[w].pc = "claim", NEW j \in Jobs,
         jobs[j].status = "queued",
         NEW p, Become(w, p), p.pc = "claimed", p.job = j, p.attempt = jobs[j].attempts + 1,
         p.creation = jobs[j].creation, p.seed = jobs[j].resolved,
         p.drawn <=> jobs[j].resolved = None,
         NEW row, jobs'[j] = row, row.status = "running", row.attempts = jobs[j].attempts + 1,
         row.token = jobs[j].attempts + 1, row.creation = jobs[j].creation,
         row.resolved = jobs[j].resolved, row.retryOf = jobs[j].retryOf,
         \A k \in Jobs \ {j} : RowQuiet(jobs[k], jobs'[k]), UNCHANGED <<files, request>>
  PROVE  FrozenInv'
<1> DEFINE r == jobs[j]
<1>0. r.attempts \in Nat /\ worker'[w] = p /\ \A v \in Workers \ {w} : worker'[v] = worker[v]
  BY RowFacts, BoundAssumption DEF FrozenInv, SafeInv, TypeOK, Row, Become
<1>1. ASSUME NEW v \in Workers \ {w}, worker[v].pc \in JobPcs
      PROVE  AttemptOK(v)' /\ (worker[v].job = j => worker[v].attempt <= r.attempts)
  <2>1. worker[v].job \in Jobs /\ worker[v].attempt \in Attempts /\ AttemptOK(v)
        /\ worker'[v] = worker[v]
    BY <1>0, <1>1, OwnRow
  <2>2. CASE worker[v].job # j
    <3>1. RowQuiet(JobOf(v), JobOf(v)')
      BY <2>1, <2>2 DEF JobOf
    <3>2. SameAttempt(v) /\ EasyMove(worker[v].pc, worker'[v].pc)
      BY <2>1 DEF SameAttempt, EasyMove
    <3>3. FileOf(v)' = FileOf(v)
      BY <2>1 DEF FileOf
    <3> QED
      BY <1>1, <2>1, <2>2, <3>1, <3>2, <3>3, AttemptKept
  <2>3. CASE worker[v].job = j
    <3>1. worker[v].attempt <= r.attempts /\ worker[v].attempt \in Nat
      BY <2>1, <2>3 DEF AttemptOK, JobOf, Attempts
    <3>2. ~Holds(v)'
      BY <1>0, <2>1, <2>3, <3>1 DEF Holds, Owns
    <3>3. FileOf(v)' = FileOf(v) /\ StagedOK(v)
      BY <2>1 DEF FileOf, AttemptOK
    <3>4. StagedOK(v)' /\ BriefOK(v)'
      BY <2>1, <3>2, <3>3 DEF StagedOK, BriefOK
    <3> QED
      BY <1>0, <2>1, <2>3, <3>1, <3>4 DEF AttemptOK, JobOf
  <2> QED
    BY <2>2, <2>3
<1>2. AttemptOK(w)'
  <2>1. StagedOK(w)'
    BY <1>0 DEF StagedOK, RenderPcs, WrittenPcs
  <2>2. BriefOK(w)'
    BY <1>0 DEF BriefOK, JobOf, FrozenPcs, WrittenPcs
  <2>3. worker'[w].attempt <= JobOf(w)'.attempts /\ JobOf(w)'.status # "absent"
    BY <1>0 DEF JobOf
  <2>4. /\ worker'[w].pc \notin SeededPcs \cup {"submit", "freeze"}
        /\ ~worker'[w].drawn => worker'[w].seed # None
        /\ JobOf(w)'.retryOf = None => worker'[w].creation = JobOf(w)'.creation
    BY <1>0 DEF JobOf, SeededPcs, RenderPcs
  <2> QED
    BY <2>1, <2>2, <2>3, <2>4 DEF AttemptOK
<1>3. AttemptsOK'
  BY <1>0, <1>1, <1>2 DEF AttemptsOK, JobPcs, CommitPcs
<1>4. OneProcessPerAttempt'
  <2>1. ASSUME NEW v \in Workers \ {w}, worker[v].pc \in JobPcs, worker[v].job = j
        PROVE  worker[v].attempt # p.attempt
    <3>1. worker[v].attempt <= r.attempts /\ worker[v].attempt \in Nat
      BY <1>1, <2>1, OwnRow DEF Attempts
    <3> QED
      BY <1>0, <3>1
  <2> QED
    BY <1>0, <2>1 DEF FrozenInv, OneProcessPerAttempt, JobPcs, CommitPcs
<1>5. FilesClaimed'
  <2>1. ASSUME NEW k \in Jobs
        PROVE  /\ jobs'[k].status = "absent" => jobs'[k].attempts = 0
               /\ \A a \in Attempts : files[k][a].state # "none" => a <= jobs'[k].attempts
    <3>1. CASE k # j
      BY <3>1 DEF RowQuiet, FrozenInv, FilesClaimed
    <3>2. CASE k = j
      <4>1. \A a \in Attempts : a <= r.attempts => a <= r.attempts + 1
        BY <1>0 DEF Attempts
      <4> QED
        BY <3>2, <4>1 DEF FrozenInv, FilesClaimed
    <3> QED
      BY <3>1, <3>2
  <2> QED
    BY <2>1 DEF FilesClaimed
<1>6. TakesFrozen'
  <2> SUFFICES ASSUME NEW k \in Jobs, NEW a \in Attempts, files[k][a].state = "take"
               PROVE  TakeFrozen(k, a)'
    BY DEF TakesFrozen, CommittedTakes
  <2>1. TakeFrozen(k, a) /\ a <= jobs[k].attempts /\ a \in 1 .. MaxAttempts
    BY DEF FrozenInv, TakesFrozen, CommittedTakes, FilesClaimed, Attempts
  <2>2. jobs[k].status # "absent"
    BY <2>1, BoundAssumption DEF FrozenInv, FilesClaimed
  <2>3. CASE k # j
    BY <2>1, <2>2, <2>3 DEF TakeFrozen, RowQuiet
  <2>4. CASE k = j
    BY <2>1, <2>4 DEF TakeFrozen
  <2> QED
    BY <2>3, <2>4
<1>7. PatchesRetries'
  <2> SUFFICES ASSUME NEW c \in Clients, request[c].pc = "patch"
               PROVE  jobs'[request[c].job].status # "absent"
                      /\ jobs'[request[c].job].retryOf # None
    BY DEF PatchesRetries, FrozenInv
  <2> DEFINE k == request[c].job
  <2>1. k \in Jobs /\ jobs[k].status # "absent" /\ jobs[k].retryOf # None
    BY RequestFacts DEF FrozenInv, RequestOK, PatchesRetries
  <2>2. CASE k # j
    BY <2>1, <2>2 DEF RowQuiet
  <2>3. CASE k = j
    BY <2>1, <2>3
  <2> QED
    BY <2>2, <2>3
<1> QED
  BY <1>3, <1>4, <1>5, <1>6, <1>7 DEF FrozenInv

LEMMA LoopFrozen ==
  ASSUME FrozenInv, SafeInv', NEW w \in Workers, Loop(w)
  PROVE  FrozenInv'
<1> USE DEF store, clientSide
<1>0. SafeInv /\ \A pc \in LoopPcs : pc \notin JobPcs /\ Looping(pc).pc \notin JobPcs
  BY PcKinds DEF FrozenInv, Looping
<1>g. ASSUME NEW pc \in LoopPcs, Goto(w, pc) PROVE AttemptsEasy
  BY <1>0, <1>g, EasyGoto
<1>1. CASE WorkerStart(w) \/ WorkerStop(w)
  <2>1. AttemptsEasy
    BY <1>1, <1>g DEF WorkerStart, WorkerStop, LoopPcs
  <2> QED
    BY <1>1, <2>1, RowsSame, FilesSame, QuietAttempt DEF WorkerStart, WorkerStop
<1>2. CASE Reclaim(w)
  <2>1. RowsQuiet
    <3> SUFFICES ASSUME NEW j \in Jobs PROVE RowQuiet(jobs[j], jobs'[j])
      BY DEF RowsQuiet
    <3>1. jobs'[j] = IF jobs[j].status = "running" /\ jobs[j].stale
                       THEN Reclaimed(jobs[j]) ELSE jobs[j]
      BY <1>2 DEF Reclaim
    <3>2. 0 \in 0 .. MaxAttempts
      BY BoundAssumption
    <3>3. jobs[j].status = "running" => RowQuiet(jobs[j], Reclaimed(jobs[j]))
      BY <1>0, <3>2, RowFacts, QuietTransitions
    <3> QED
      BY <3>1, <3>3, RowSame
  <2>2. AttemptsEasy
    BY <1>2, <1>g DEF Reclaim, LoopPcs
  <2> QED
    BY <1>2, <2>1, <2>2, FilesSame, QuietAttempt DEF Reclaim
<1>3. CASE Cleanup(w) \/ Judge(w) \/ Discard(w)
  <2>1. FilesQuiet
    <3>1. CASE Discard(w)
      <4>1. PICK t \in worker[w].listed : files' = Discarded(t[1], t[2])
        BY <3>1 DEF Discard
      <4> QED
        BY <1>0, <4>1 DEF Discarded, FilesQuiet, FileQuiet, NoFile, SafeInv, TypeOK
    <3> QED
      BY <1>0, <1>3, <3>1, CleanupMoves, FilesSame DEF SafeInv
  <2>2. AttemptsEasy
    <3>1. worker'[w].pc \notin JobPcs /\ \A v \in Workers \ {w} : worker'[v] = worker[v]
      BY <1>0, <1>3, CleanupMoves DEF SafeInv, LoopPcs
    <3> QED
      BY <3>1 DEF AttemptsEasy, EasyAttempt, SameAttempt, EasyMove
  <2>3. UNCHANGED <<jobs, request>>
    BY <1>0, <1>3, CleanupMoves DEF SafeInv
  <2> QED
    BY <2>1, <2>2, <2>3, RowsSame, QuietAttempt
<1>4. CASE Claim(w)
  <2> DEFINE elig == {j \in Jobs : jobs[j].status = "queued" /\ ~jobs[j].held
                                   /\ ProjectOf[j] \notin tombstones}
             runnable == {j \in elig : jobs[j].creation # 0}
             oldest == {j \in runnable : \A k \in runnable : jobs[j].born <= jobs[k].born}
             Hold(S) == [j \in Jobs |-> IF j \in S THEN [jobs[j] EXCEPT !.held = TRUE] ELSE jobs[j]]
  <2>1. ASSUME NEW S \in SUBSET elig, NEW j \in Jobs PROVE RowQuiet(jobs[j], Hold(S)[j])
    <3>1. j \in S => jobs[j] \in Row /\ jobs[j].status # "absent"
      BY <1>0, RowFacts
    <3> QED
      BY <3>1, QuietFlags, RowSame
  <2>2. CASE jobs' = Hold(elig) /\ Goto(w, "reclaim")
    <3>1. RowsQuiet
      BY <2>1, <2>2 DEF RowsQuiet
    <3>2. AttemptsEasy
      BY <1>g, <2>2 DEF LoopPcs
    <3> QED
      BY <1>4, <3>1, <3>2, FilesSame, QuietAttempt DEF Claim
  <2>3. ASSUME NEW j \in oldest,
               LET r == jobs[j]  a == r.attempts + 1 IN
               /\ jobs' = [Hold({k \in elig \ runnable : jobs[k].born < r.born}) EXCEPT ![j] =
                    [r EXCEPT !.status = "running", !.stale = FALSE, !.attempts = a, !.token = a]]
               /\ Become(w, [pc |-> "claimed", job |-> j, attempt |-> a, creation |-> r.creation,
                             seed |-> r.resolved, drawn |-> r.resolved = None, take |-> 0,
                             watch |-> "armed", listed |-> {}, bare |-> {}, doomed |-> None])
        PROVE  FrozenInv'
    <3> DEFINE r == jobs[j]
               a == r.attempts + 1
               S == {k \in elig \ runnable : jobs[k].born < r.born}
               row == [r EXCEPT !.status = "running", !.stale = FALSE, !.attempts = a, !.token = a]
               p == [pc |-> "claimed", job |-> j, attempt |-> a, creation |-> r.creation,
                     seed |-> r.resolved, drawn |-> r.resolved = None, take |-> 0,
                     watch |-> "armed", listed |-> {}, bare |-> {}, doomed |-> None]
    <3>1. j \in Jobs /\ r.status = "queued" /\ S \in SUBSET elig
      OBVIOUS
    <3>2. r \in Row
      BY <1>0, <3>1, RowFacts
    <3>3. /\ row.status = "running" /\ row.attempts = a /\ row.token = a
          /\ row.creation = r.creation /\ row.resolved = r.resolved /\ row.retryOf = r.retryOf
      BY <3>2 DEF Row
    <3>4. /\ p.pc = "claimed" /\ p.job = j /\ p.attempt = a /\ p.creation = r.creation
          /\ p.seed = r.resolved /\ (p.drawn <=> r.resolved = None)
      OBVIOUS
    <3>5. Become(w, p) /\ jobs' = [Hold(S) EXCEPT ![j] = row]
      BY <2>3
    <3>6. jobs'[j] = row /\ \A k \in Jobs \ {j} : RowQuiet(jobs[k], jobs'[k])
      <4>1. jobs'[j] = row /\ \A k \in Jobs \ {j} : jobs'[k] = Hold(S)[k]
        BY <3>1, <3>5
      <4> HIDE DEF Hold, S, row
      <4> QED
        BY <2>1, <3>1, <4>1
    <3>7. worker[w].pc = "claim" /\ UNCHANGED <<files, request>>
      BY <1>4 DEF Claim, At
    <3> HIDE DEF p, row, S, Hold, oldest
    <3> QED
      BY <3>1, <3>3, <3>4, <3>5, <3>6, <3>7, ClaimFrozen
  <2> QED
    BY <1>4, <2>2, <2>3 DEF Claim
<1>5. CASE Crash(w)
  <2>1. AttemptsEasy
    BY <1>0, <1>5, EasyBecome DEF Crash, LoopPcs
  <2> QED
    BY <1>5, <2>1, RowsSame, FilesSame, QuietAttempt DEF Crash
<1> QED
  BY <1>1, <1>2, <1>3, <1>4, <1>5 DEF Loop

-----------------------------------------------------------------------------
(* The steps of an attempt *)

\* A step that changes what the attempt knows: it keeps every other attempt,
\* and leaves a committed take only as its row says.
LEMMA OwnFrozen ==
  ASSUME FrozenInv, SafeInv', NEW w \in Workers, worker[w].pc \in JobPcs,
         NEW p, Become(w, p), p.pc \in JobPcs, p.job = worker[w].job,
         p.attempt = worker[w].attempt, RowsQuiet, UNCHANGED request,
         \A j \in Jobs : \A a \in Attempts :
           j # worker[w].job \/ a # worker[w].attempt => files'[j][a] = files[j][a],
         FileOf(w)'.state = "take" => TakeFrozen(worker[w].job, worker[w].attempt)',
         AttemptOK(w)'
  PROVE  FrozenInv'
<1> DEFINE W == worker[w]
<1>0. /\ worker'[w] = p /\ \A v \in Workers \ {w} : worker'[v] = worker[v]
      /\ W.job \in Jobs /\ W.attempt \in Attempts /\ W.attempt <= jobs[W.job].attempts
  BY OwnRow DEF FrozenInv, SafeInv, TypeOK, Become, AttemptOK, JobOf
<1>1. AttemptsOK'
  <2> SUFFICES ASSUME NEW v \in Workers \ {w}, worker[v].pc \in JobPcs PROVE AttemptOK(v)'
    BY <1>0 DEF AttemptsOK, JobPcs, CommitPcs
  <2>1. worker[v].job \in Jobs /\ worker[v].attempt \in Attempts /\ AttemptOK(v)
        /\ worker'[v] = worker[v]
    BY <1>0, OwnRow
  <2>2. RowQuiet(JobOf(v), JobOf(v)') /\ SameAttempt(v) /\ EasyMove(worker[v].pc, worker'[v].pc)
    BY <2>1 DEF RowsQuiet, JobOf, SameAttempt, EasyMove
  <2>3. worker[v].job # W.job \/ worker[v].attempt # W.attempt
    BY DEF FrozenInv, OneProcessPerAttempt
  <2>4. FileOf(v)' = FileOf(v)
    BY <2>1, <2>3 DEF FileOf
  <2> QED
    BY <2>1, <2>2, <2>4, AttemptKept
<1>2. OneProcessPerAttempt'
  BY <1>0 DEF FrozenInv, OneProcessPerAttempt, JobPcs, CommitPcs
<1>3. \A j \in Jobs : RowQuiet(jobs[j], jobs'[j])
  BY DEF RowsQuiet
<1>4. FilesClaimed'
  <2>1. ASSUME NEW j \in Jobs, jobs'[j].status = "absent" PROVE jobs'[j].attempts = 0
    BY <1>3, <2>1 DEF RowQuiet, FrozenInv, FilesClaimed
  <2>2. ASSUME NEW j \in Jobs, NEW a \in Attempts, files'[j][a].state # "none"
        PROVE  a <= jobs'[j].attempts
    BY <1>0, <1>3, <2>2 DEF RowQuiet, FrozenInv, FilesClaimed
  <2> QED
    BY <2>1, <2>2 DEF FilesClaimed
<1>5. TakesFrozen'
  <2> SUFFICES ASSUME NEW j \in Jobs, NEW a \in Attempts, files'[j][a].state = "take"
               PROVE  TakeFrozen(j, a)'
    BY DEF TakesFrozen, CommittedTakes
  <2>1. CASE j = W.job /\ a = W.attempt
    BY <1>0, <2>1 DEF FileOf
  <2>2. CASE j # W.job \/ a # W.attempt
    <3>1. files'[j][a] = files[j][a]
      BY <2>2
    <3>2. TakeFrozen(j, a) /\ a <= jobs[j].attempts /\ a \in 1 .. MaxAttempts
      BY <3>1 DEF FrozenInv, TakesFrozen, CommittedTakes, FilesClaimed, Attempts
    <3>3. jobs[j].status # "absent"
      BY <3>2, BoundAssumption DEF FrozenInv, FilesClaimed
    <3> QED
      BY <1>3, <3>1, <3>2, <3>3 DEF TakeFrozen, RowQuiet
  <2> QED
    BY <2>1, <2>2
<1> QED
  BY <1>1, <1>2, <1>4, <1>5, RequestsSame DEF FrozenInv

\* Writing a state keeps what the file says, and the other files.
LEMMA StateWritten ==
  ASSUME TypeOK, NEW j \in Jobs, NEW a \in Attempts, NEW st,
         SetsState(j, a, st)
  PROVE  /\ files'[j][a].state = st /\ files'[j][a].creation = files[j][a].creation
         /\ files'[j][a].seed = files[j][a].seed
         /\ \A k \in Jobs : \A b \in Attempts :
              k # j \/ b # a => files'[k][b] = files[k][b]
<1>1. files[j] \in [Attempts -> File] /\ files[j][a] \in File
  BY DEF TypeOK
<1> QED
  BY <1>1 DEF SetsState, TypeOK, File

\* An attempt that draws a brief freezes it in a row that had none, so no
\* take of an earlier attempt carries another.
LEMMA FreezeFrozen ==
  ASSUME FrozenInv, SafeInv', NEW w \in Workers, worker[w].pc = "freeze", Holds(w),
         UpdateRow(worker[w].job, [JobOf(w) EXCEPT !.resolved = worker[w].seed]),
         Goto(w, "render"), UNCHANGED <<files, request>>
  PROVE  FrozenInv'
<1> DEFINE W == worker[w]
           j == W.job
           r == jobs[j]
           row == [r EXCEPT !.resolved = W.seed]
<1>0. W.pc \in JobPcs /\ SafeInv
  BY DEF JobPcs, FrozenInv
<1>1. /\ W \in Process /\ j \in Jobs /\ W.attempt \in Attempts /\ r \in Row
      /\ r.status # "absent" /\ AttemptOK(w)
  BY <1>0, OwnRow
<1>2. /\ row.status = r.status /\ row.token = r.token /\ row.attempts = r.attempts
      /\ row.creation = r.creation /\ row.retryOf = r.retryOf /\ row.resolved = W.seed
      /\ jobs'[j] = row /\ \A k \in Jobs \ {j} : jobs'[k] = jobs[k]
  BY <1>0, <1>1 DEF Row, UpdateRow, JobOf, SafeInv, TypeOK
<1>3. /\ \A v \in Workers \ {w} : worker'[v] = worker[v]
      /\ worker'[w].pc = "render" /\ SameAttempt(w)
  BY <1>0, <1>1 DEF Goto, SafeInv, TypeOK, Process, SameAttempt
<1>4. r.retryOf = None /\ ~RemoteGpu => r.resolved = None
  BY <1>1 DEF AttemptOK, BriefOK, JobOf, BeforeFreeze
<1> HIDE DEF row
<1>5. ASSUME NEW v \in Workers \ {w}, worker[v].pc \in JobPcs PROVE AttemptOK(v)'
  <2>1. worker[v].job \in Jobs /\ worker[v].attempt \in Attempts /\ AttemptOK(v)
        /\ worker'[v] = worker[v]
    BY <1>3, <1>5, OwnRow
  <2>2. CASE worker[v].job # j
    <3>1. JobOf(v)' = JobOf(v) /\ FileOf(v)' = FileOf(v)
      BY <1>2, <2>1, <2>2 DEF JobOf, FileOf
    <3>2. SameAttempt(v) /\ EasyMove(worker[v].pc, worker'[v].pc)
      BY <2>1 DEF SameAttempt, EasyMove
    <3> QED
      BY <1>5, <2>1, <3>1, <3>2, RowSame, AttemptKept
  <2>3. CASE worker[v].job = j
    <3>1. worker[v].attempt # W.attempt
      BY <1>0, <1>5, <2>3 DEF FrozenInv, OneProcessPerAttempt
    <3>2. ~Holds(v)'
      BY <1>2, <2>1, <2>3, <3>1 DEF Holds, Owns
    <3>3. FileOf(v)' = FileOf(v) /\ StagedOK(v)
      BY <2>1 DEF FileOf, AttemptOK
    <3>4. StagedOK(v)' /\ BriefOK(v)'
      BY <2>1, <3>2, <3>3 DEF StagedOK, BriefOK
    <3> QED
      BY <1>2, <2>1, <2>3, <3>4 DEF AttemptOK, JobOf
  <2> QED
    BY <2>2, <2>3
<1>6. AttemptOK(w)'
  <2>1. Holds(w)' <=> Holds(w)
    BY <1>1, <1>2, <1>3 DEF Holds, Owns, SameAttempt
  <2>2. FileOf(w)' = FileOf(w)
    BY <1>3 DEF FileOf, SameAttempt
  <2>3. StagedOK(w)'
    BY <1>1, <1>3, <2>1, <2>2 DEF StagedOK, AttemptOK, RenderPcs, WrittenPcs
  <2>4. BriefOK(w)'
    BY <1>2, <1>3 DEF BriefOK, JobOf, SameAttempt, BeforeFreeze
  <2>5. W.seed # None
    BY <1>1 DEF AttemptOK, SeededPcs, RenderPcs
  <2> QED
    BY <1>1, <1>2, <1>3, <2>3, <2>4, <2>5 DEF AttemptOK, JobOf, SameAttempt
<1>7. AttemptsOK' /\ OneProcessPerAttempt'
  BY <1>0, <1>3, <1>5, <1>6
     DEF AttemptsOK, FrozenInv, OneProcessPerAttempt, SameAttempt, JobPcs, CommitPcs
<1>8. FilesClaimed' /\ PatchesRetries'
  <2>1. \A k \in Jobs : /\ jobs'[k].status = jobs[k].status
                        /\ jobs'[k].attempts = jobs[k].attempts
                        /\ jobs'[k].retryOf = jobs[k].retryOf
    BY <1>2
  <2>2. \A c \in Clients : request[c].pc = "patch" => request[c].job \in Jobs
    BY <1>0, RequestFacts DEF RequestOK
  <2> QED
    BY <2>1, <2>2 DEF FrozenInv, FilesClaimed, PatchesRetries
<1>9. TakesFrozen'
  <2> SUFFICES ASSUME NEW k \in Jobs, NEW a \in Attempts, files[k][a].state = "take"
               PROVE  TakeFrozen(k, a)'
    BY DEF TakesFrozen, CommittedTakes
  <2>1. TakeFrozen(k, a)
    BY DEF FrozenInv, TakesFrozen, CommittedTakes
  <2>2. CASE k # j
    BY <1>2, <2>1, <2>2 DEF TakeFrozen
  <2>3. CASE k = j
    BY <1>2, <1>4, <2>1, <2>3 DEF TakeFrozen
  <2> QED
    BY <2>2, <2>3
<1> QED
  BY <1>7, <1>8, <1>9 DEF FrozenInv

\* An attempt that moves on without writing, or drops its files.
LEMMA GoFrozen ==
  ASSUME FrozenInv, SafeInv', NEW w \in Workers, worker[w].pc \in JobPcs, NEW pc, Goto(w, pc),
         EasyMove(worker[w].pc, pc), RowsQuiet, UNCHANGED request,
         \/ UNCHANGED files
         \/ pc \notin RenderPcs /\ files' = Discarded(worker[w].job, worker[w].attempt)
  PROVE  FrozenInv'
<1>1. AttemptsEasy /\ worker'[w].pc = pc
  BY EasyGoto DEF FrozenInv
<1>2. FilesQuiet
  BY <1>1, FilesSame, DiscardQuiet
<1> QED
  BY <1>1, <1>2, QuietAttempt

LEMMA AbandonFrozen ==
  ASSUME FrozenInv, SafeInv', NEW w \in Workers, worker[w].pc \in JobPcs, Abandon(w)
  PROVE  FrozenInv'
<1>1. RowsQuiet /\ UNCHANGED request
  BY RowsSame DEF Abandon, clientSide
<1>2. EasyMove(worker[w].pc, "cancelling") /\ "cancelling" \notin RenderPcs
  BY DEF EasyMove, FreePcs, RenderPcs
<1> QED
  BY <1>1, <1>2, GoFrozen DEF Abandon

\* A fenced write of an attempt that lost its job.
LEMMA FencedFrozen ==
  ASSUME FrozenInv, SafeInv', NEW w \in Workers, worker[w].pc \in JobPcs, NEW row, NEW pc,
         Fenced(w, row, pc), ~Holds(w)
  PROVE  FrozenInv'
<1>1. /\ RowsQuiet /\ UNCHANGED request /\ Goto(w, "ended")
      /\ files' = Discarded(worker[w].job, worker[w].attempt)
  BY RowsSame DEF Fenced, Holds, clientSide
<1>2. EasyMove(worker[w].pc, "ended") /\ "ended" \notin RenderPcs
  BY DEF EasyMove, FreePcs, RenderPcs
<1> QED
  BY <1>1, <1>2, GoFrozen

LEMMA BackendFrozen ==
  ASSUME FrozenInv, SafeInv', NEW w \in Workers, Backend(w)
  PROVE  FrozenInv'
<1> USE DEF store, clientSide
<1> DEFINE W == worker[w]
           j == W.job
           r == jobs[j]
<1>0. W.pc \in JobPcs /\ SafeInv
  BY DEF Backend, Freeze, RecordHandle, Render, BackendCancelled, Fail, At, BackendPcs,
         FaultPcs, JobPcs, CommitPcs, FrozenInv
<1>f. /\ W \in Process /\ j \in Jobs /\ W.attempt \in Attempts /\ r \in Row
      /\ r.status # "absent" /\ AttemptOK(w)
  BY <1>0, OwnRow
<1>1. CASE Freeze(w)
  <2>1. CASE Holds(w)
    BY <1>1, <2>1, FreezeFrozen DEF Freeze, Fenced, Holds, JobOf
  <2>2. CASE ~Holds(w)
    BY <1>0, <1>1, <2>2, FencedFrozen DEF Freeze
  <2> QED
    BY <2>1, <2>2
<1>2. CASE RecordHandle(w)
  <2>1. CASE Holds(w)
    <3> DEFINE row == [r EXCEPT !.remote = TRUE]
               p == [W EXCEPT !.pc = "render"]
    <3>1. /\ UpdateRow(j, row) /\ Goto(w, "render") /\ UNCHANGED <<files, request>>
          /\ W.pc = "submit"
      BY <1>2, <2>1 DEF RecordHandle, Fenced, Holds, At
    <3>2. RowQuiet(r, row)
      BY <1>f, QuietFlags
    <3>3. /\ RowsQuiet /\ jobs'[j] = row /\ row.status = r.status /\ row.token = r.token
          /\ row.attempts = r.attempts /\ row.retryOf = r.retryOf
          /\ row.creation = r.creation
      BY <1>0, <1>f, <3>1, <3>2, RowQuietly DEF Row, UpdateRow, SafeInv, TypeOK
    <3>4. /\ p.pc = "render" /\ p.job = j /\ p.attempt = W.attempt /\ p.seed = W.seed
          /\ p.creation = W.creation /\ Become(w, p) /\ worker'[w] = p
      BY <1>0, <1>f, <3>1 DEF Process, Goto, Become, SafeInv, TypeOK
    <3> HIDE DEF row, p
    <3>5. RemoteGpu /\ W.seed # None /\ r.status # "absent" /\ W.attempt <= r.attempts
          /\ (r.retryOf = None => W.creation = r.creation)
      BY <1>f, <3>1 DEF AttemptOK, SeededPcs, RenderPcs, JobOf
    <3>6. StagedOK(w)'
      <4>1. files[j][W.attempt].state \in {"none", "bare", "staged"}
        BY <1>f, <2>1, <3>1 DEF AttemptOK, StagedOK, RenderPcs, FileOf
      <4> QED
        BY <3>1, <3>4, <2>1, <4>1 DEF StagedOK, FileOf, WrittenPcs
    <3>7. BriefOK(w)'
      BY <3>5 DEF BriefOK
    <3>8. AttemptOK(w)'
      BY <3>3, <3>4, <3>5, <3>6, <3>7 DEF AttemptOK, JobOf
    <3>9. FileOf(w)'.state = "take" => TakeFrozen(j, W.attempt)'
      <4>1. FileOf(w).state # "take"
        BY <1>f, <2>1, <3>1 DEF AttemptOK, StagedOK, RenderPcs
      <4> QED
        BY <3>1, <3>4, <4>1 DEF FileOf
    <3> QED
      BY <1>0, <3>1, <3>3, <3>4, <3>8, <3>9, OwnFrozen DEF JobPcs
  <2>2. CASE ~Holds(w)
    BY <1>0, <1>2, <2>2, FencedFrozen DEF RecordHandle
  <2> QED
    BY <2>1, <2>2
<1>3. CASE Render(w)
  <2> DEFINE watch == IF W.watch = "armed" THEN "lifted" ELSE W.watch
             p == [W EXCEPT !.pc = "rendered", !.watch = watch]
             st == Rebuilt(j, W.attempt)
  <2>1. /\ Become(w, p) /\ files' = [files EXCEPT ![j][W.attempt].state = st]
        /\ UNCHANGED <<jobs, request>> /\ W.pc = "render"
    BY <1>3 DEF Render
  <2>2. /\ p.pc = "rendered" /\ p.job = j /\ p.attempt = W.attempt /\ p.seed = W.seed
        /\ p.creation = W.creation /\ (p.drawn <=> W.drawn) /\ worker'[w] = p
    <3> HIDE DEF watch
    <3> QED
      BY <1>0, <1>f, <2>1 DEF Process, Become, SafeInv, TypeOK
  <2>3. /\ files'[j][W.attempt].state = st
        /\ \A k \in Jobs : \A a \in Attempts :
             k # j \/ a # W.attempt => files'[k][a] = files[k][a]
    BY <1>0, <1>f, <2>1 DEF SafeInv, TypeOK, File
  <2> HIDE DEF p
  <2>4. StagedOK(w)'
    <3>1. Holds(w)' => Holds(w)
      BY <2>1, <2>2 DEF Holds, Owns
    <3>2. st # "take" /\ (Holds(w) => st \in {"bare", "staged"})
      BY <1>f, <2>1 DEF AttemptOK, StagedOK, RenderPcs, FileOf, Rebuilt
    <3>3. FileOf(w)'.state = st /\ worker'[w].pc \notin WrittenPcs
      BY <2>2, <2>3 DEF FileOf, WrittenPcs
    <3> HIDE DEF st
    <3> QED
      BY <3>1, <3>2, <3>3 DEF StagedOK
  <2>5. Holds(w)' <=> Holds(w)
    BY <2>1, <2>2 DEF Holds, Owns
  <2>6. BriefOK(w)'
    <3>1. W.pc \in FrozenPcs /\ "rendered" \in FrozenPcs /\ "rendered" \notin BeforeFreeze
      BY <2>1 DEF FrozenPcs, WrittenPcs, BeforeFreeze
    <3>2. BriefOK(w)
      BY <1>f DEF AttemptOK
    <3> QED
      BY <2>1, <2>2, <2>5, <3>1, <3>2 DEF BriefOK, JobOf
  <2>7. AttemptOK(w)'
    <3>1. W.pc \in SeededPcs
      BY <2>1 DEF SeededPcs, RenderPcs
    <3> QED
      BY <1>f, <2>1, <2>2, <2>4, <2>6, <3>1 DEF AttemptOK, JobOf
  <2>8. FileOf(w)'.state # "take"
    BY <2>2, <2>7 DEF AttemptOK, StagedOK, RenderPcs
  <2> HIDE DEF st
  <2> QED
    BY <1>0, <2>1, <2>2, <2>3, <2>7, <2>8, RowsSame, OwnFrozen DEF JobPcs
<1>4. CASE BackendCancelled(w)
  BY <1>0, <1>4, AbandonFrozen DEF BackendCancelled
<1>5. CASE Fail(w)
  <2> DEFINE take == IF W.pc = "finish" THEN 0 ELSE W.take
             p == [W EXCEPT !.pc = "raised", !.take = take]
  <2>1. Become(w, p) /\ UNCHANGED <<jobs, files, request>>
    BY <1>5 DEF Fail
  <2>2. /\ p.pc = "raised" /\ p.job = j /\ p.attempt = W.attempt /\ p.seed = W.seed
        /\ p.creation = W.creation /\ p.drawn = W.drawn
    <3> HIDE DEF take
    <3> QED
      BY <1>f DEF Process
  <2>3. AttemptsEasy
    <3> HIDE DEF p
    <3> QED
      BY <1>0, <2>1, <2>2, EasyBecome DEF EasyMove, FreePcs
  <2> QED
    BY <2>1, <2>3, RowsSame, FilesSame, QuietAttempt
<1> QED
  BY <1>1, <1>2, <1>3, <1>4, <1>5 DEF Backend

LEMMA BeforeCommitFrozen ==
  ASSUME FrozenInv, SafeInv', NEW w \in Workers,
         \/ CancelCheck(w) \/ FindCommitted(w) \/ FinishExisting(w) \/ Resolve(w)
         \/ Allocate(w) \/ Mark(w) \/ AfterRender(w) \/ MarkCancel(w)
  PROVE  FrozenInv'
<1> USE DEF store, clientSide
<1> DEFINE W == worker[w]
           j == W.job
           r == jobs[j]
<1>0. W.pc \in JobPcs /\ SafeInv
  BY DEF CancelCheck, FindCommitted, FinishExisting, Resolve, Allocate, Mark, AfterRender,
         MarkCancel, At, JobPcs, FrozenInv
<1>f. /\ W \in Process /\ j \in Jobs /\ W.attempt \in Attempts /\ r \in Row
      /\ W.attempt \in 0 .. MaxAttempts /\ W.take \in 0 .. MaxAttempts
      /\ r.status # "absent" /\ AttemptOK(w) /\ W.seed \in Brief
  <2>1. \A p \in Process : p.seed \in Brief
    BY DEF Process
  <2> QED
    BY <1>0, <2>1, OwnRow
<1>g. ASSUME NEW pc, Goto(w, pc), EasyMove(W.pc, pc), UNCHANGED <<files, request>>, RowsQuiet
      PROVE  FrozenInv'
  BY <1>0, <1>g, GoFrozen
<1>1. CASE CancelCheck(w)
  <2>1. EasyMove(W.pc, "cancelling") /\ EasyMove(W.pc, "lookup")
    BY <1>1 DEF CancelCheck, At, EasyMove, FreePcs
  <2> QED
    BY <1>1, <1>g, <2>1, RowsSame DEF CancelCheck
<1>2. CASE FindCommitted(w)
  <2>1. CASE Goto(w, "resolve")
    <3>1. EasyMove(W.pc, "resolve")
      BY <1>2 DEF FindCommitted, EasyMove
    <3> QED
      BY <1>2, <1>g, <2>1, <3>1, RowsSame DEF FindCommitted
  <2>2. ASSUME NEW a, Become(w, [W EXCEPT !.pc = "finish", !.take = a]) PROVE FrozenInv'
    <3> DEFINE p == [W EXCEPT !.pc = "finish", !.take = a]
    <3>1. /\ p.pc = "finish" /\ p.job = j /\ p.attempt = W.attempt /\ p.seed = W.seed
          /\ p.creation = W.creation /\ p.drawn = W.drawn
      BY <1>f DEF Process
    <3>2. AttemptsEasy
      <4>1. Become(w, p)
        BY <2>2
      <4> HIDE DEF p
      <4> QED
        BY <1>0, <3>1, <4>1, EasyBecome DEF EasyMove, FreePcs
    <3> QED
      BY <1>2, <3>2, RowsSame, FilesSame, QuietAttempt DEF FindCommitted
  <2> QED
    BY <1>2, <2>1, <2>2 DEF FindCommitted
<1>3. CASE FinishExisting(w)
  <2>1. RowsQuiet
    BY <1>0, <1>3, <1>f, QuietTransitions, RowQuietly DEF FinishExisting
  <2>2. EasyMove(W.pc, "ended")
    BY DEF EasyMove, FreePcs
  <2> QED
    BY <1>3, <1>g, <2>1, <2>2 DEF FinishExisting
<1>4. CASE Resolve(w)
  <2>1. CASE Goto(w, "cancelling")
    <3>1. EasyMove(W.pc, "cancelling")
      BY DEF EasyMove, FreePcs
    <3> QED
      BY <1>4, <1>g, <2>1, <3>1, RowsSame DEF Resolve
  <2>2. ASSUME NEW s \in (IF W.drawn THEN Seeds ELSE {W.seed}),
               Become(w, [W EXCEPT !.pc = "allocate", !.seed = s])
        PROVE  FrozenInv'
    <3> DEFINE p == [W EXCEPT !.pc = "allocate", !.seed = s]
    <3>1. /\ p.pc = "allocate" /\ p.job = j /\ p.attempt = W.attempt /\ p.seed = s
          /\ p.creation = W.creation /\ (p.drawn <=> W.drawn) /\ Become(w, p)
      BY <1>f, <2>2 DEF Process
    <3> HIDE DEF p
    <3>2. /\ worker'[w] = p /\ UNCHANGED <<jobs, files, request>> /\ W.pc = "resolve"
      BY <1>0, <1>4, <3>1 DEF Resolve, Become, SafeInv, TypeOK
    <3>3. ~W.drawn => s = W.seed /\ W.seed # None
      BY <1>f DEF AttemptOK
    <3>4. s # None
      BY <2>2, <3>3, PoolAssumption
    <3>5. Holds(w)' <=> Holds(w)
      BY <3>1, <3>2 DEF Holds, Owns
    <3>6. StagedOK(w)'
      BY <3>1, <3>2 DEF StagedOK, RenderPcs, WrittenPcs
    <3>7. BriefOK(w)'
      <4>1. BriefOK(w) /\ W.pc \in BeforeFreeze /\ "allocate" \notin FrozenPcs
        BY <1>f, <3>2 DEF AttemptOK, BeforeFreeze, FrozenPcs, WrittenPcs
      <4> QED
        BY <3>1, <3>2, <3>3, <3>5, <4>1 DEF BriefOK, JobOf
    <3>8. AttemptOK(w)'
      BY <1>f, <3>1, <3>2, <3>4, <3>6, <3>7 DEF AttemptOK, JobOf
    <3>9. FileOf(w)'.state = "take" => TakeFrozen(j, W.attempt)'
      <4>1. FileOf(w).state = "take" => TakeFrozen(j, W.attempt)
        BY <1>f DEF FrozenInv, TakesFrozen, CommittedTakes, FileOf
      <4> QED
        BY <3>1, <3>2, <4>1 DEF FileOf, TakeFrozen
    <3> QED
      BY <1>0, <3>1, <3>2, <3>8, <3>9, RowsSame, OwnFrozen DEF JobPcs
  <2> QED
    BY <1>4, <2>1, <2>2 DEF Resolve
<1>5. CASE Allocate(w)
  <2>1. CASE Loads(ProjectOf[j])
    <3> DEFINE p == [W EXCEPT !.pc = "mark"]
               f == [NoFile EXCEPT !.state = "bare"]
    <3>1. /\ Become(w, p) /\ files' = [files EXCEPT ![j][W.attempt] = f]
          /\ UNCHANGED <<jobs, request>> /\ W.pc = "allocate"
      BY <1>5, <2>1 DEF Allocate, Goto, Become
    <3>2. /\ p.pc = "mark" /\ p.job = j /\ p.attempt = W.attempt /\ p.seed = W.seed
          /\ p.creation = W.creation /\ (p.drawn <=> W.drawn) /\ f.state = "bare"
      BY <1>f DEF Process, NoFile
    <3> HIDE DEF p, f
    <3>3. /\ worker'[w] = p /\ files'[j][W.attempt] = f
          /\ \A k \in Jobs : \A a \in Attempts :
               k # j \/ a # W.attempt => files'[k][a] = files[k][a]
      BY <1>0, <1>f, <3>1 DEF SafeInv, TypeOK, Become
    <3>4. StagedOK(w)'
      BY <3>2, <3>3 DEF StagedOK, FileOf, WrittenPcs
    <3>5. Holds(w)' <=> Holds(w)
      BY <3>1, <3>2, <3>3 DEF Holds, Owns
    <3>6. BriefOK(w)'
      <4>1. BriefOK(w) /\ W.pc \in BeforeFreeze /\ "mark" \notin FrozenPcs
        BY <1>f, <3>1 DEF AttemptOK, BeforeFreeze, FrozenPcs, WrittenPcs
      <4> QED
        BY <3>1, <3>2, <3>3, <3>5, <4>1 DEF BriefOK, JobOf
    <3>7. AttemptOK(w)'
      <4>1. W.seed # None
        BY <1>f, <3>1 DEF AttemptOK, SeededPcs
      <4> QED
        BY <1>f, <3>1, <3>2, <3>3, <3>4, <3>6, <4>1 DEF AttemptOK, JobOf
    <3>8. FileOf(w)'.state # "take"
      BY <3>2, <3>3 DEF FileOf
    <3> QED
      BY <1>0, <3>1, <3>2, <3>3, <3>7, <3>8, RowsSame, OwnFrozen DEF JobPcs
  <2>2. CASE ~Loads(ProjectOf[j])
    <3>1. EasyMove(W.pc, "raised")
      BY DEF EasyMove, FreePcs
    <3> QED
      BY <1>5, <1>g, <2>2, <3>1, RowsSame DEF Allocate
  <2> QED
    BY <2>1, <2>2
<1>8. CASE Mark(w)
  <2> DEFINE pc == IF RemoteGpu THEN "submit" ELSE IF W.drawn THEN "freeze" ELSE "render"
             p == [W EXCEPT !.take = W.attempt, !.pc = pc]
  <2>1. /\ Become(w, p) /\ files' = [files EXCEPT ![j][W.attempt].state = "staged"]
        /\ UNCHANGED <<jobs, request>> /\ W.pc = "mark"
    BY <1>8 DEF Mark
  <2>2. /\ pc = "submit" => RemoteGpu
        /\ pc = "freeze" => W.drawn
        /\ pc = "render" => ~W.drawn
        /\ pc \in {"submit", "freeze", "render"}
    OBVIOUS
  <2>3. /\ p.pc = pc /\ p.job = j /\ p.attempt = W.attempt /\ p.seed = W.seed
        /\ p.creation = W.creation /\ (p.drawn <=> W.drawn)
    <3> HIDE DEF pc
    <3> QED
      BY <1>f DEF Process
  <2> HIDE DEF p, pc
  <2>4. worker'[w] = p
    BY <1>0, <1>f, <2>1 DEF SafeInv, TypeOK, Become
  <2>5. /\ files'[j][W.attempt].state = "staged"
        /\ \A k \in Jobs : \A a \in Attempts :
             k # j \/ a # W.attempt => files'[k][a] = files[k][a]
    <3>1. SetsState(j, W.attempt, "staged")
      BY <2>1 DEF SetsState
    <3> QED
      BY <1>0, <1>f, <3>1, StateWritten DEF SafeInv
  <2>6. StagedOK(w)'
    BY <2>2, <2>3, <2>4, <2>5 DEF StagedOK, FileOf, WrittenPcs
  <2>7. Holds(w)' <=> Holds(w)
    BY <2>1, <2>3, <2>4 DEF Holds, Owns
  <2>8. BriefOK(w)'
    <3>1. /\ BriefOK(w) /\ W.pc \in BeforeFreeze
          /\ pc \in FrozenPcs => ~W.drawn
      BY <1>f, <2>1, <2>2 DEF AttemptOK, BeforeFreeze, FrozenPcs, WrittenPcs
    <3> QED
      BY <2>1, <2>3, <2>4, <2>7, <3>1 DEF BriefOK, JobOf
  <2>9. AttemptOK(w)'
    <3>1. W.seed # None
      BY <1>f, <2>1 DEF AttemptOK, SeededPcs, RenderPcs
    <3>2. /\ worker'[w].pc = "submit" => RemoteGpu
          /\ worker'[w].pc = "freeze" => worker'[w].drawn
      BY <2>2, <2>3, <2>4
    <3>3. JobOf(w)' = r /\ worker'[w].attempt = W.attempt /\ worker'[w].seed = W.seed
          /\ worker'[w].creation = W.creation
      BY <2>1, <2>3, <2>4 DEF JobOf
    <3> QED
      BY <1>f, <2>6, <2>8, <3>1, <3>2, <3>3 DEF AttemptOK, JobOf
  <2>10. FileOf(w)'.state # "take"
    BY <2>3, <2>4, <2>5 DEF FileOf
  <2>11. p.pc \in JobPcs
    BY <2>2, <2>3 DEF JobPcs
  <2> QED
    BY <1>0, <2>1, <2>3, <2>4, <2>5, <2>9, <2>10, <2>11, RowsSame, OwnFrozen
<1>6. CASE AfterRender(w)
  <2>1. CASE r.cancel
    BY <1>0, <1>6, <2>1, AbandonFrozen DEF AfterRender
  <2>2. CASE ~r.cancel
    <3> DEFINE p == [W EXCEPT !.pc = "commit"]
               st == Rebuilt(j, W.attempt)
               f == [state |-> st, creation |-> W.creation, seed |-> W.seed]
    <3>1. /\ Become(w, p) /\ files' = [files EXCEPT ![j][W.attempt] = f]
          /\ UNCHANGED <<jobs, request>> /\ W.pc = "rendered"
      BY <1>6, <2>2 DEF AfterRender, Goto, Become, RenderedPlan
    <3>2. /\ p.pc = "commit" /\ p.job = j /\ p.attempt = W.attempt /\ p.seed = W.seed
          /\ p.creation = W.creation /\ (p.drawn <=> W.drawn)
          /\ f.state = st /\ f.creation = W.creation /\ f.seed = W.seed
      BY <1>f DEF Process
    <3> HIDE DEF p, f
    <3>3. /\ worker'[w] = p /\ files'[j][W.attempt] = f
          /\ \A k \in Jobs : \A a \in Attempts :
               k # j \/ a # W.attempt => files'[k][a] = files[k][a]
      BY <1>0, <1>f, <3>1 DEF SafeInv, TypeOK, Become
    <3>4. Holds(w)' <=> Holds(w)
      BY <3>1, <3>2, <3>3 DEF Holds, Owns
    <3>5. st # "take" /\ (Holds(w) => st \in {"bare", "staged"})
      BY <1>f, <3>1 DEF AttemptOK, StagedOK, RenderPcs, FileOf, Rebuilt
    <3>6. StagedOK(w)'
      <4> HIDE DEF st
      <4> QED
        BY <3>2, <3>3, <3>4, <3>5 DEF StagedOK, FileOf
    <3>7. BriefOK(w)'
      <4>1. BriefOK(w) /\ W.pc \in FrozenPcs /\ "commit" \notin BeforeFreeze
        BY <1>f, <3>1 DEF AttemptOK, BeforeFreeze, FrozenPcs, WrittenPcs
      <4> QED
        BY <3>1, <3>2, <3>3, <3>4, <4>1 DEF BriefOK, JobOf
    <3>8. W.seed # None
      BY <1>f, <3>1 DEF AttemptOK, SeededPcs, RenderPcs
    <3>9. AttemptOK(w)'
      BY <1>f, <3>1, <3>2, <3>3, <3>6, <3>7, <3>8 DEF AttemptOK, JobOf
    <3>10. FileOf(w)'.state # "take"
      BY <3>2, <3>3, <3>9 DEF AttemptOK, StagedOK, RenderPcs
    <3> HIDE DEF st
    <3> QED
      BY <1>0, <3>1, <3>2, <3>3, <3>9, <3>10, RowsSame, OwnFrozen DEF JobPcs
  <2> QED
    BY <2>1, <2>2
<1>7. CASE MarkCancel(w)
  <2>1. RowsQuiet
    BY <1>0, <1>7, <1>f, QuietTransitions, RowQuietly DEF MarkCancel
  <2>2. EasyMove(W.pc, "ended")
    BY DEF EasyMove, FreePcs
  <2> QED
    BY <1>7, <1>g, <2>1, <2>2 DEF MarkCancel
<1> QED
  BY <1>1, <1>2, <1>3, <1>4, <1>5, <1>6, <1>7, <1>8

LEMMA CommitFrozen ==
  ASSUME FrozenInv, SafeInv', NEW w \in Workers,
         \/ CommitCheck(w) \/ Unmark(w) \/ Promote(w) \/ MergeBrief(w) \/ CommitSql(w)
         \/ Activate(w)
  PROVE  FrozenInv'
<1> USE DEF store, clientSide
<1> DEFINE W == worker[w]
           j == W.job
           r == jobs[j]
<1>0. W.pc \in JobPcs /\ SafeInv
  BY DEF CommitCheck, Unmark, Promote, MergeBrief, CommitSql, Activate, JobPcs, CommitPcs,
         FrozenInv
<1>f. /\ W \in Process /\ j \in Jobs /\ W.attempt \in Attempts /\ r \in Row
      /\ W.attempt \in 0 .. MaxAttempts /\ r.status # "absent" /\ AttemptOK(w)
  BY <1>0, OwnRow
<1>e. \A pc \in {"ended", "cancelling", "failstatus", "renamed", "merged", "committed", "raised"} :
        EasyMove(W.pc, pc) /\ pc \notin RenderPcs
  BY DEF EasyMove, FreePcs, RenderPcs
<1>g. ASSUME NEW pc, Goto(w, pc), EasyMove(W.pc, pc), UNCHANGED request, RowsQuiet,
             UNCHANGED files \/ (pc \notin RenderPcs /\ files' = Discarded(j, W.attempt))
      PROVE  FrozenInv'
  BY <1>0, <1>g, GoFrozen
<1>1. CASE CommitCheck(w)
  <2> DEFINE drop == files' = Discarded(j, W.attempt)
  <2>0. UNCHANGED request /\ W.pc = "commit"
    BY <1>1 DEF CommitCheck
  <2>1. CASE drop /\ (Goto(w, "ended") \/ Goto(w, "cancelling")) /\ UNCHANGED jobs
    BY <1>e, <1>g, <2>0, <2>1, RowsSame
  <2>2. CASE drop /\ Become(w, [W EXCEPT !.pc = "failstatus", !.take = 0]) /\ UNCHANGED jobs
    <3> DEFINE p == [W EXCEPT !.pc = "failstatus", !.take = 0]
    <3>1. /\ p.pc = "failstatus" /\ p.job = j /\ p.attempt = W.attempt /\ p.seed = W.seed
          /\ p.creation = W.creation /\ p.drawn = W.drawn
      BY <1>f DEF Process
    <3>2. AttemptsEasy /\ worker'[w].pc \notin RenderPcs
      <4>1. Become(w, p)
        BY <2>2
      <4> HIDE DEF p
      <4> QED
        BY <1>0, <1>e, <3>1, <4>1, EasyBecome
    <3>3. FilesQuiet
      BY <1>0, <2>2, <3>2, DiscardQuiet
    <3> QED
      BY <2>0, <2>2, <3>2, <3>3, RowsSame, QuietAttempt
  <2>3. CASE Goto(w, "promote") /\ UNCHANGED <<jobs, files>>
    BY <1>g, <2>0, <2>3, RowsSame DEF EasyMove, WrittenPcs
  <2>4. ASSUME NEW a \in PriorTakes(j), UpdateRow(j, [r EXCEPT !.status = "done", !.take = a]),
               drop, Goto(w, "ended")
        PROVE  FrozenInv'
    <3>1. a \in 0 .. MaxAttempts
      BY DEF PriorTakes, CommittedTakes, Attempts
    <3>2. RowsQuiet
      BY <1>0, <1>f, <2>4, <3>1, QuietTransitions, RowQuietly
    <3> QED
      BY <1>e, <1>g, <2>0, <2>4, <3>2
  <2> QED
    BY <1>1, <2>1, <2>2, <2>3, <2>4 DEF CommitCheck
<1>2. ASSUME Unmark(w) \/ Promote(w), Goto(w, "raised"), UNCHANGED files PROVE FrozenInv'
  BY <1>2, <1>e, <1>g, RowsSame DEF Unmark, Promote
<1>5. ASSUME NEW pc \in {"unmarked", "renamed", "merged"}, Goto(w, pc), EasyMove(W.pc, pc),
             NEW st, files' = [files EXCEPT ![j][W.attempt].state = st],
             W.pc \in {"promote", "unmarked"}, files[j][W.attempt].state # "none",
             UNCHANGED <<jobs, request>>,
             IF pc = "unmarked" THEN st = "bare" ELSE st = "take"
      PROVE  FrozenInv'
  <2> DEFINE p == [W EXCEPT !.pc = pc]
             g == files[j][W.attempt]
  <2>1. /\ p.pc = pc /\ p.job = j /\ p.attempt = W.attempt /\ p.seed = W.seed
        /\ p.creation = W.creation /\ (p.drawn <=> W.drawn) /\ Become(w, p)
    BY <1>f, <1>5 DEF Process, Goto, Become
  <2> HIDE DEF p
  <2>2. /\ files'[j][W.attempt].state = st /\ files'[j][W.attempt].creation = g.creation
        /\ files'[j][W.attempt].seed = g.seed
        /\ \A k \in Jobs : \A a \in Attempts :
             k # j \/ a # W.attempt => files'[k][a] = files[k][a]
    <3>1. SetsState(j, W.attempt, st)
      BY <1>5 DEF SetsState
    <3> QED
      BY <1>0, <1>f, <3>1, StateWritten DEF SafeInv
  <2>3. worker'[w] = p
    BY <1>0, <2>1 DEF Become, SafeInv, TypeOK
  <2>4. Holds(w)' <=> Holds(w)
    BY <1>5, <2>1, <2>3 DEF Holds, Owns
  <2>5. /\ StagedOK(w) /\ BriefOK(w) /\ W.seed # None /\ W.attempt <= r.attempts
        /\ (r.retryOf = None => W.creation = r.creation)
        /\ W.pc \in RenderPcs /\ W.pc \in WrittenPcs
    BY <1>f, <1>5 DEF AttemptOK, JobOf, SeededPcs, RenderPcs, WrittenPcs
  <2>6. Holds(w)
    BY <1>0, <1>5 DEF SafeInv, CommitReady, DbPcs, Holds, Owns
  <2>7. g.creation = W.creation /\ g.seed = W.seed
    BY <1>5, <2>5, <2>6 DEF StagedOK, FileOf
  <2>8. StagedOK(w)'
    BY <1>5, <2>1, <2>2, <2>3, <2>7 DEF StagedOK, FileOf, RenderPcs
  <2>9. BriefOK(w)'
    <3>1. pc \notin BeforeFreeze /\ W.pc \in FrozenPcs
      BY <1>5, <2>5 DEF BeforeFreeze, FrozenPcs
    <3>2. JobOf(w)' = r
      BY <1>5, <2>1, <2>3 DEF JobOf
    <3> QED
      BY <2>1, <2>3, <2>5, <2>6, <3>1, <3>2 DEF BriefOK, JobOf
  <2>10. AttemptOK(w)'
    <3>1. pc # "submit" /\ pc # "freeze"
      BY <1>5
    <3>2. JobOf(w)' = r
      BY <1>5, <2>1, <2>3 DEF JobOf
    <3> QED
      BY <1>f, <2>1, <2>3, <2>5, <2>8, <2>9, <3>1, <3>2 DEF AttemptOK
  <2>11. FileOf(w)'.state = "take" => TakeFrozen(j, W.attempt)'
    <3>1. r.retryOf = None /\ ~RemoteGpu => W.seed = r.resolved
      BY <2>5, <2>6 DEF BriefOK, JobOf, FrozenPcs
    <3>2. files'[j][W.attempt].creation = W.creation /\ files'[j][W.attempt].seed = W.seed
      BY <2>2, <2>7
    <3>3. worker'[w].job = j /\ worker'[w].attempt = W.attempt
      BY <2>1, <2>3
    <3> HIDE DEF g
    <3> QED
      BY <1>5, <2>5, <3>1, <3>2, <3>3 DEF TakeFrozen
  <2>12. p.pc \in JobPcs
    BY <1>5, <2>1 DEF JobPcs, CommitPcs
  <2> QED
    BY <1>0, <1>5, <2>1, <2>2, <2>10, <2>11, <2>12, RowsSame, OwnFrozen
<1>6. CASE Unmark(w)
  <2>1. CASE Goto(w, "raised") /\ UNCHANGED files
    BY <1>2, <1>6, <2>1
  <2>2. CASE /\ files' = [files EXCEPT ![j][W.attempt].state = "bare"] /\ Goto(w, "unmarked")
             /\ files[j][W.attempt].state \in Staging
    <3>1. EasyMove(W.pc, "unmarked") /\ files[j][W.attempt].state # "none"
      BY <1>6, <2>2 DEF Unmark, EasyMove, WrittenPcs, Staging
    <3> QED
      BY <1>5, <1>6, <2>2, <3>1 DEF Unmark
  <2> QED
    BY <1>6, <2>1, <2>2 DEF Unmark
<1>7. CASE Promote(w)
  <2>1. CASE Goto(w, "raised") /\ UNCHANGED files
    BY <1>2, <1>7, <2>1
  <2>2. ASSUME NEW pc \in {"renamed", "merged"}, Goto(w, pc),
               files' = [files EXCEPT ![j][W.attempt].state = "take"],
               files[j][W.attempt].state \in Staging
        PROVE  FrozenInv'
    <3>1. EasyMove(W.pc, pc) /\ files[j][W.attempt].state # "none"
      BY <1>e, <2>2 DEF Staging
    <3>2. W.pc = "unmarked" /\ UNCHANGED <<jobs, request>> /\ pc # "unmarked"
      BY <1>7 DEF Promote
    <3> QED
      BY <1>5, <2>2, <3>1, <3>2
  <2> QED
    BY <1>7, <2>1, <2>2 DEF Promote
<1>3. CASE MergeBrief(w) \/ Activate(w)
  BY <1>3, <1>e, <1>g, RowsSame DEF MergeBrief, Activate
<1>4. CASE CommitSql(w)
  <2>1. RowsQuiet
    BY <1>0, <1>4, <1>f, QuietTransitions, RowQuietly DEF CommitSql
  <2> QED
    BY <1>4, <1>e, <1>g, <2>1 DEF CommitSql
<1> QED
  BY <1>1, <1>3, <1>4, <1>6, <1>7

LEMMA AfterFailureFrozen ==
  ASSUME FrozenInv, SafeInv', NEW w \in Workers,
         Handle(w) \/ WriteErrorTake(w) \/ SetErrorStatus(w) \/ Join(w)
  PROVE  FrozenInv'
<1> USE DEF store, clientSide
<1> DEFINE W == worker[w]
           j == W.job
           r == jobs[j]
<1>0. W.pc \in JobPcs /\ SafeInv
  BY DEF Handle, WriteErrorTake, SetErrorStatus, Join, At, JobPcs, FrozenInv
<1>f. /\ W \in Process /\ j \in Jobs /\ W.attempt \in Attempts /\ r \in Row
      /\ W.attempt \in 0 .. MaxAttempts /\ W.take \in 0 .. MaxAttempts
  BY <1>0, OwnRow
<1>e. \A pc \in {"cancelling", "failing", "failstatus", "ended"} :
        EasyMove(W.pc, pc) /\ pc \notin RenderPcs
  BY DEF EasyMove, FreePcs, RenderPcs
<1>1. CASE Handle(w)
  <2>1. PICK pc \in {"cancelling", "failing", "failstatus"} : Goto(w, pc)
    BY <1>1 DEF Handle
  <2>2. files' = Discarded(j, W.attempt) \/ UNCHANGED files
    BY <1>1 DEF Handle
  <2>3. RowsQuiet /\ UNCHANGED request
    BY <1>1, RowsSame DEF Handle
  <2> QED
    BY <1>0, <1>e, <2>1, <2>2, <2>3, GoFrozen
<1>2. CASE WriteErrorTake(w)
  <2>0. UNCHANGED <<jobs, request>>
    BY <1>2 DEF WriteErrorTake
  <2>1. CASE files' = [files EXCEPT ![j][W.attempt].state = "error"] /\ Goto(w, "failstatus")
    <3> DEFINE f == [files[j][W.attempt] EXCEPT !.state = "error"]
    <3>1. files[j][W.attempt] \in File
      BY <1>0, <1>f DEF SafeInv, TypeOK
    <3>2. f.state # "take" /\ files' = [files EXCEPT ![j][W.attempt] = f]
      BY <2>1, <3>1 DEF File
    <3>3. AttemptsEasy /\ worker'[w].pc \notin RenderPcs
      BY <1>0, <1>e, <2>1, EasyGoto
    <3>4. FilesQuiet
      <4> HIDE DEF f
      <4> QED
        BY <1>0, <3>2, <3>3, OwnFileQuiet
    <3> QED
      BY <2>0, <3>3, <3>4, RowsSame, QuietAttempt
  <2>2. CASE Become(w, [W EXCEPT !.pc = "failstatus", !.take = 0]) /\ UNCHANGED files
    <3> DEFINE p == [W EXCEPT !.pc = "failstatus", !.take = 0]
    <3>1. /\ p.pc = "failstatus" /\ p.job = j /\ p.attempt = W.attempt /\ p.seed = W.seed
          /\ p.creation = W.creation /\ p.drawn = W.drawn
      BY <1>f DEF Process
    <3>2. AttemptsEasy
      <4>1. Become(w, p)
        BY <2>2
      <4> HIDE DEF p
      <4> QED
        BY <1>0, <1>e, <3>1, <4>1, EasyBecome
    <3> QED
      BY <2>0, <2>2, <3>2, RowsSame, FilesSame, QuietAttempt
  <2> QED
    BY <1>2, <2>1, <2>2 DEF WriteErrorTake
<1>3. CASE SetErrorStatus(w)
  <2>1. RowsQuiet
    BY <1>0, <1>3, <1>f, QuietTransitions, RowQuietly DEF SetErrorStatus
  <2> QED
    BY <1>0, <1>3, <1>e, <2>1, GoFrozen DEF SetErrorStatus
<1>4. CASE Join(w)
  <2>1. Looping("reclaim").pc \notin JobPcs
    BY DEF Looping, JobPcs, CommitPcs
  <2>2. AttemptsEasy
    BY <1>0, <1>4, <2>1, EasyBecome DEF Join
  <2> QED
    BY <1>4, <2>2, RowsSame, FilesSame, QuietAttempt DEF Join
<1> QED
  BY <1>1, <1>2, <1>3, <1>4

-----------------------------------------------------------------------------
(* The theorems *)

LEMMA NextFrozen == FrozenInv /\ [Next]_vars => FrozenInv'
<1> SUFFICES ASSUME FrozenInv, [Next]_vars PROVE FrozenInv'
  OBVIOUS
<1>1. SafeInv'
  BY NextSafe DEF FrozenInv
<1>2. ASSUME NEW c \in Clients, Handler(c) PROVE FrozenInv'
  BY <1>1, <1>2, HandlerFrozen
<1>3. ASSUME NEW w \in Workers, Loop(w) \/ Backend(w) \/ Heartbeat(w) PROVE FrozenInv'
  BY <1>1, <1>3, LoopFrozen, BackendFrozen, HeartbeatFrozen
<1>4. ASSUME NEW w \in Workers, Orchestrate(w) PROVE FrozenInv'
  BY <1>1, <1>4, BeforeCommitFrozen, CommitFrozen, AfterFailureFrozen DEF Orchestrate
<1>5. CASE UNCHANGED vars
  <2>1. RowsQuiet /\ FilesQuiet /\ AttemptsEasy /\ UNCHANGED request
    BY <1>5, RowsSame, FilesSame, AttemptsSame DEF vars
  <2> QED
    BY <1>1, <2>1, QuietAttempt
<1> QED
  BY <1>1, <1>2, <1>3, <1>4, <1>5, OutsideFrozen DEF Next

\* The inductive invariant always holds.
LEMMA Frozen == Spec => []FrozenInv
  BY InitFrozen, NextFrozen, PTL DEF Spec

\* Whichever attempt publishes the take of a first submission, it holds the
\* plan of the submission and, rendered locally, the brief and seed that the
\* first attempt to reach the backend froze: later attempts, plan edits and
\* the patch of a retry change neither.
THEOREM TakeHoldsFrozenBrief == Spec => []FrozenBrief
<1>1. FrozenInv => FrozenBrief
  BY DEF FrozenInv, TakesFrozen, TakeFrozen, FrozenBrief
<1> QED
  BY <1>1, Frozen, PTL

-----------------------------------------------------------------------------
(* Cleanups: what one knows of the takes it listed *)

\* What is listed belongs to attempts that were claimed, and the take a
\* cleanup is to discard to an attempt that has lost its job for good, unless
\* the read that told so failed.
SweepOK(v) ==
  LET V == worker[v] IN
  /\ \A t \in V.listed : t[2] <= jobs[t[1]].attempts
  /\ V.doomed # None =>
       /\ V.pc = "sweep" /\ V.doomed[2] <= jobs[V.doomed[1]].attempts
       /\ ~Owns(V.doomed[1], V.doomed[2]) \/ "store" \in Faults
SweepsOK == \A v \in Workers : SweepOK(v)

SweepInv == FrozenInv /\ SweepsOK

\* A row gets a token only with a new attempt.
TokenStep(r, s) ==
  /\ s.attempts >= r.attempts
  /\ s.status = "running" =>
       (r.status = "running" /\ s.token = r.token) \/ s.token > r.attempts
TokensStep == \A j \in Jobs : TokenStep(jobs[j], jobs'[j])

\* A process forgets its list or keeps it, and leaves no sweep on the way.
SweepMove(p, q) ==
  \/ q.listed = {} /\ q.doomed = None
  \/ q.listed = p.listed /\ q.doomed = p.doomed /\ (p.pc = "sweep" => q.pc = "sweep")
SweepsMove == \A v \in Workers : SweepMove(worker[v], worker'[v])

LEMMA SweepsKept ==
  ASSUME SweepInv, SafeInv', TokensStep, SweepsMove
  PROVE  SweepsOK'
<1> SUFFICES ASSUME NEW v \in Workers PROVE SweepOK(v)'
  BY DEF SweepsOK
<1> DEFINE p == worker[v]
           q == worker'[v]
<1>1. p.listed \subseteq Takes /\ p.doomed \in Takes \cup {None} /\ SweepOK(v)
  BY DEF SweepInv, SweepsOK, FrozenInv, SafeInv, TypeOK, Process
<1>2. ASSUME NEW j \in Jobs, NEW a \in Attempts, a <= jobs[j].attempts
      PROVE  a <= jobs'[j].attempts /\ (Owns(j, a)' => Owns(j, a))
  <2>1. jobs[j] \in Row /\ jobs'[j] \in Row
    BY DEF SweepInv, FrozenInv, SafeInv, TypeOK
  <2>2. jobs[j].attempts \in Nat /\ jobs'[j].attempts \in Nat /\ a \in Nat
    BY <2>1, BoundAssumption DEF Row, Attempts
  <2>3. TokenStep(jobs[j], jobs'[j])
    BY DEF TokensStep
  <2> QED
    BY <1>2, <2>2, <2>3 DEF TokenStep, Owns
<1>3. SweepMove(p, q)
  BY DEF SweepsMove
<1>4. \A t \in Takes : t[1] \in Jobs /\ t[2] \in Attempts
  BY DEF Takes
<1>5. CASE q.listed = {} /\ q.doomed = None
  BY <1>5 DEF SweepOK
<1>6. CASE q.listed = p.listed /\ q.doomed = p.doomed /\ (p.pc = "sweep" => q.pc = "sweep")
  <2>1. \A t \in q.listed : t[2] <= jobs'[t[1]].attempts
    BY <1>1, <1>2, <1>4, <1>6 DEF SweepOK
  <2>2. ASSUME NEW t \in Takes, q.doomed = t
        PROVE  /\ q.pc = "sweep" /\ t[2] <= jobs'[t[1]].attempts
               /\ ~Owns(t[1], t[2])' \/ "store" \in Faults
    <3>1. p.doomed = t /\ t # None /\ t[1] \in Jobs /\ t[2] \in Attempts
      BY <1>4, <1>6, <2>2, PoolAssumption
    <3>2. /\ p.pc = "sweep" /\ t[2] <= jobs[t[1]].attempts
          /\ ~Owns(t[1], t[2]) \/ "store" \in Faults
      BY <1>1, <3>1 DEF SweepOK
    <3> QED
      BY <1>2, <1>6, <3>1, <3>2
  <2>3. q.doomed \in Takes \cup {None}
    BY <1>1, <1>6
  <2>4. q.doomed # None =>
          /\ q.pc = "sweep" /\ q.doomed[2] <= jobs'[q.doomed[1]].attempts
          /\ \/ jobs'[q.doomed[1]].status # "running" \/ jobs'[q.doomed[1]].token # q.doomed[2]
             \/ "store" \in Faults
    BY <2>2, <2>3 DEF Owns
  <2> QED
    BY <2>1, <2>4 DEF SweepOK, Owns
<1> QED
  BY <1>3, <1>5, <1>6 DEF SweepMove

LEMMA TokensSame == ASSUME SafeInv, UNCHANGED jobs PROVE TokensStep
<1>1. ASSUME NEW j \in Jobs PROVE jobs[j].attempts \in Nat
  BY RowFacts DEF Row
<1> QED
  BY <1>1 DEF TokensStep, TokenStep

\* A row of which nobody claims a new attempt.
LEMMA QuietToken ==
  ASSUME SafeInv, NEW j \in Jobs, NEW s, RowQuiet(jobs[j], s)
  PROVE  TokenStep(jobs[j], s)
BY RowFacts DEF TokenStep, RowQuiet, Row

LEMMA QuietTokens == ASSUME SafeInv, RowsQuiet PROVE TokensStep
BY QuietToken DEF TokensStep, RowsQuiet

LEMMA TokenWritten ==
  ASSUME SafeInv, NEW j \in Jobs, NEW r, RowQuiet(jobs[j], r), UpdateRow(j, r)
  PROVE  TokensStep
BY RowQuietly, QuietTokens

LEMMA SweepsSame == UNCHANGED worker => SweepsMove
BY DEF SweepsMove, SweepMove

\* A process that does not sweep takes a step of its own.
LEMMA SweepBecome ==
  ASSUME SafeInv, NEW v \in Workers, NEW p, Become(v, p), SweepMove(worker[v], p)
  PROVE  SweepsMove /\ worker'[v] = p
<1>1. worker'[v] = p /\ \A u \in Workers \ {v} : worker'[u] = worker[u]
  BY DEF Become, SafeInv, TypeOK
<1> QED
  BY <1>1 DEF SweepsMove, SweepMove

LEMMA SweepGoto ==
  ASSUME SafeInv, NEW v \in Workers, worker[v].pc # "sweep", NEW pc, Goto(v, pc)
  PROVE  SweepsMove /\ worker'[v].pc = pc
<1> DEFINE p == [worker[v] EXCEPT !.pc = pc]
<1>1. p.pc = pc /\ p.listed = worker[v].listed /\ p.doomed = worker[v].doomed
  BY DEF SafeInv, TypeOK, Process
<1>2. Become(v, p)
  BY DEF Goto, Become
<1> HIDE DEF p
<1> QED
  BY <1>1, <1>2, SweepBecome DEF SweepMove

LEMMA SweepTake ==
  ASSUME SafeInv, NEW v \in Workers, worker[v].pc # "sweep", NEW pc, NEW t,
         Become(v, [worker[v] EXCEPT !.pc = pc, !.take = t])
  PROVE  SweepsMove /\ worker'[v].pc = pc
<1> DEFINE p == [worker[v] EXCEPT !.pc = pc, !.take = t]
<1>1. p.pc = pc /\ p.listed = worker[v].listed /\ p.doomed = worker[v].doomed
  BY DEF SafeInv, TypeOK, Process
<1>2. Become(v, p)
  OBVIOUS
<1> HIDE DEF p
<1> QED
  BY <1>1, <1>2, SweepBecome DEF SweepMove

LEMMA SweepWatched ==
  ASSUME SafeInv, NEW v \in Workers, NEW mode, Watched(v, mode)
  PROVE  SweepsMove
<1> DEFINE p == [worker[v] EXCEPT !.watch = mode]
<1>1. p.pc = worker[v].pc /\ p.listed = worker[v].listed /\ p.doomed = worker[v].doomed
  BY DEF SafeInv, TypeOK, Process
<1>2. Become(v, p)
  BY DEF Watched, Become
<1> HIDE DEF p
<1> QED
  BY <1>1, <1>2, SweepBecome DEF SweepMove

LEMMA SweepEnds ==
  ASSUME SafeInv, NEW v \in Workers, NEW pc, Become(v, Looping(pc))
  PROVE  SweepsMove /\ worker'[v].pc = pc
BY SweepBecome DEF Looping, SweepMove

\* No staged render disappears.
StagedKept ==
  \A j \in Jobs : \A a \in Attempts :
    files[j][a].state \in Staging => files'[j][a].state \in Staging

LEMMA StagedSame == UNCHANGED files => StagedKept
BY DEF StagedKept

\* Handlers, the user, heartbeats: rows, and the takes of a deleted project.
LEMMA HandlerTokens ==
  ASSUME FrozenInv, NEW c \in Clients, Handler(c)
  PROVE  TokensStep /\ StagedKept /\ UNCHANGED worker
<1> USE DEF handlerOnly, store
<1> DEFINE q == request[c]
<1>0. /\ SafeInv /\ q \in Request /\ RequestOK(q) /\ 0 \in 0 .. MaxAttempts
  BY RequestFacts, BoundAssumption DEF FrozenInv
<1>1. CASE \/ \E p \in Projects : Submit(c, p)
           \/ \E j \in Jobs : Retry(c, j)
           \/ Load(c) \/ Reject(c)
  BY <1>0, <1>1, TokensSame, StagedSame DEF Submit, Retry, Load, Reject
<1>2. CASE CancelHeld(c)
  <2>1. q.retryOf \in Jobs /\ jobs[q.retryOf] \in Row
    BY <1>0, <1>2, RowFacts DEF CancelHeld, RequestOK
  <2> QED
    BY <1>0, <1>2, <2>1, QuietTransitions, TokenWritten, StagedSame DEF CancelHeld
<1>3. CASE Insert(c)
  <2> DEFINE row == NewRow(q.creation, q.retryOf)
  <2>1. PICK j \in Jobs \ Existing : UpdateRow(j, row)
    BY <1>3 DEF Insert
  <2>2. j \in Jobs /\ jobs[j].status = "absent" /\ jobs[j].attempts = 0
    BY DEF Existing, FrozenInv, FilesClaimed
  <2>3. RowQuiet(jobs[j], row)
    BY <2>2 DEF NewRow, RowQuiet
  <2>4. TokensStep
    <3> HIDE DEF row
    <3> QED
      BY <1>0, <2>1, <2>2, <2>3, TokenWritten
  <2> QED
    BY <1>3, <2>4, StagedSame DEF Insert
<1>4. CASE Patch(c)
  <2> DEFINE r == jobs[q.job]
             creation == IF q.frozen = 0 THEN r.creation ELSE q.frozen
             patched == [r EXCEPT !.creation = creation, !.resolved = q.resolved]
             row == IF r.status = "queued" THEN patched ELSE r
  <2>1. q.job \in Jobs /\ r \in Row /\ r.retryOf # None
    BY <1>0, <1>4, RowFacts DEF Patch, RequestOK, FrozenInv, PatchesRetries
  <2>2. RowQuiet(r, row)
    <3> HIDE DEF creation
    <3> QED
      BY <2>1 DEF RowQuiet, Row
  <2>3. UpdateRow(q.job, row)
    BY <1>4 DEF Patch
  <2>4. TokensStep
    <3> HIDE DEF row
    <3> QED
      BY <1>0, <2>1, <2>2, <2>3, TokenWritten
  <2> QED
    BY <1>4, <2>4, StagedSame DEF Patch
<1>5. ASSUME NEW p \in Projects, DeleteBegin(c, p)
      PROVE  TokensStep /\ StagedKept /\ UNCHANGED worker
  <2>1. ASSUME NEW j \in Jobs PROVE TokenStep(jobs[j], jobs'[j])
    <3>1. jobs[j] \in Row /\ jobs[j].attempts \in Nat
      BY <1>0, RowFacts, BoundAssumption DEF Row
    <3>2. \/ jobs'[j] = jobs[j]
          \/ jobs'[j] = [jobs[j] EXCEPT !.status = "error", !.swept = TRUE]
      BY <1>5 DEF DeleteBegin
    <3>3. jobs'[j] = jobs[j] \/ (jobs'[j].attempts = jobs[j].attempts /\ jobs'[j].status = "error")
      BY <3>1, <3>2 DEF Row
    <3> QED
      BY <3>1, <3>3 DEF TokenStep
  <2> QED
    BY <1>5, <2>1, StagedSame DEF DeleteBegin, TokensStep
<1>6. ASSUME NEW p, NEW lost, files' = Without(p, lost) PROVE StagedKept
  BY <1>6 DEF StagedKept, Without
<1>7. CASE DeleteFiles(c) \/ DeleteFails(c)
  <2>1. TokensStep /\ UNCHANGED worker
    BY <1>0, <1>7, TokensSame DEF DeleteFiles, DeleteFails
  <2>2. StagedKept
    BY <1>6, <1>7 DEF DeleteFiles, DeleteFails
  <2> QED
    BY <2>1, <2>2
<1>8. CASE DeleteAbort(c)
  <2>1. ASSUME NEW j \in Jobs PROVE TokenStep(jobs[j], jobs'[j])
    <3>1. jobs[j] \in Row /\ jobs[j].attempts \in Nat
      BY <1>0, RowFacts, BoundAssumption DEF Row
    <3>2. \/ jobs'[j] = jobs[j]
          \/ jobs'[j] = [jobs[j] EXCEPT !.status = "queued", !.swept = FALSE]
      BY <1>8 DEF DeleteAbort
    <3>3. jobs'[j] = jobs[j] \/ (jobs'[j].attempts = jobs[j].attempts /\ jobs'[j].status = "queued")
      BY <3>1, <3>2 DEF Row
    <3> QED
      BY <3>1, <3>3 DEF TokenStep
  <2> QED
    BY <1>8, <2>1, StagedSame DEF DeleteAbort, TokensStep
<1> QED
  BY <1>1, <1>2, <1>3, <1>4, <1>5, <1>7, <1>8 DEF Handler

LEMMA OutsideTokens ==
  ASSUME FrozenInv, User \/ ServerCrash \/ \E j \in Jobs : Lapse(j)
  PROVE  TokensStep /\ UNCHANGED <<files, worker>>
<1> USE DEF handlerOnly, clientSide
<1>0. SafeInv
  BY DEF FrozenInv
<1>1. ASSUME NEW j \in Jobs, CancelJob(j) PROVE TokensStep /\ UNCHANGED <<files, worker>>
  <2> DEFINE r == jobs[j]
             row == IF r.status = "queued" THEN Cancelled(r) ELSE [r EXCEPT !.cancel = TRUE]
  <2>0. r \in Row /\ r.status # "absent" /\ 0 \in 0 .. MaxAttempts
    BY <1>0, <1>1, RowFacts, BoundAssumption DEF CancelJob
  <2>1. RowQuiet(r, row)
    BY <2>0, QuietTransitions, QuietFlags
  <2> QED
    BY <1>0, <1>1, <2>1, TokenWritten DEF CancelJob
<1>2. ASSUME NEW j \in Jobs, Lapse(j) PROVE TokensStep /\ UNCHANGED <<files, worker>>
  <2>1. jobs[j] \in Row /\ jobs[j].status # "absent"
    BY <1>0, <1>2, RowFacts DEF Lapse
  <2> QED
    BY <1>0, <1>2, <2>1, QuietFlags, TokenWritten DEF Lapse
<1> QED
  BY <1>0, <1>1, <1>2, TokensSame DEF User, KeepTake, EditPlan, ServerCrash

LEMMA HeartbeatTokens ==
  ASSUME FrozenInv, NEW w \in Workers, Heartbeat(w)
  PROVE  TokensStep /\ SweepsMove /\ UNCHANGED files
<1> USE DEF Watching, store, clientSide
<1> DEFINE W == worker[w]
           r == jobs[W.job]
<1>0. SafeInv /\ W.pc \in JobPcs /\ 0 \in 0 .. MaxAttempts
  BY WatchTypes, BoundAssumption
     DEF Heartbeat, Watchdog, Touch, ExpireRead, ExpireError, ExpireCancel,
         ExitProcess, HeartbeatDies, FrozenInv, SafeInv, Watch
<1>f. W.job \in Jobs /\ r \in Row /\ r.status # "absent"
  BY <1>0, OwnRow
<1>1. CASE Touch(w)
  BY <1>0, <1>1, <1>f, QuietFlags, TokenWritten, SweepsSame DEF Touch
<1>2. CASE ExpireRead(w) \/ HeartbeatDies(w)
  BY <1>0, <1>2, TokensSame, SweepWatched DEF ExpireRead, HeartbeatDies
<1>3. CASE ExpireError(w)
  <2>1. TokensStep
    BY <1>0, <1>3, <1>f, QuietTransitions, TokenWritten, TokensSame DEF ExpireError
  <2> QED
    BY <1>0, <1>3, <2>1, SweepWatched DEF ExpireError
<1>4. CASE ExpireCancel(w)
  <2>1. TokensStep
    BY <1>0, <1>4, <1>f, QuietTransitions, TokenWritten DEF ExpireCancel
  <2> QED
    BY <1>0, <1>4, <2>1, SweepWatched DEF ExpireCancel
<1>5. CASE ExitProcess(w)
  BY <1>0, <1>5, TokensSame, SweepEnds DEF ExitProcess
<1> QED
  BY <1>1, <1>2, <1>3, <1>4, <1>5 DEF Heartbeat, Watchdog

\* A step of an attempt: it moves on and writes no files but its own.
OwnFiles(v) ==
  \A j \in Jobs : \A a \in Attempts :
    <<j, a>> # <<worker[v].job, worker[v].attempt>> => files'[j][a] = files[j][a]
OwnStep(v) ==
  TokensStep /\ SweepsMove /\ worker'[v].pc # worker[v].pc /\ OwnFiles(v)

LEMMA OwnFilesSame == ASSUME NEW v \in Workers, UNCHANGED files PROVE OwnFiles(v)
BY DEF OwnFiles

LEMMA OwnFilesWritten ==
  ASSUME SafeInv, NEW v \in Workers, worker[v].pc \in JobPcs,
         \/ \E f : files' = [files EXCEPT ![worker[v].job][worker[v].attempt] = f]
         \/ \E st : SetsState(worker[v].job, worker[v].attempt, st)
         \/ files' = Discarded(worker[v].job, worker[v].attempt)
  PROVE  OwnFiles(v)
<1>1. worker[v].job \in Jobs /\ worker[v].attempt \in Attempts
      /\ files \in [Jobs -> [Attempts -> File]]
  BY JobPcTypes DEF SafeInv, TypeOK
<1> DEFINE j == worker[v].job
           a == worker[v].attempt
<1>2. ASSUME NEW f, files' = [files EXCEPT ![j][a] = f] PROVE OwnFiles(v)
  BY <1>1, <1>2 DEF OwnFiles
<1>3. ASSUME NEW st, SetsState(j, a, st) PROVE OwnFiles(v)
  <2> DEFINE f == [files[j][a] EXCEPT !.state = st]
  <2>1. files' = [files EXCEPT ![j][a] = f]
    BY <1>3 DEF SetsState
  <2> HIDE DEF f
  <2> QED
    BY <1>2, <2>1
<1>4. CASE files' = Discarded(j, a)
  BY <1>2, <1>4, OwnFilesSame DEF Discarded
<1> QED
  BY <1>2, <1>3, <1>4

LEMMA AbandonOwn ==
  ASSUME SafeInv, NEW v \in Workers, worker[v].pc \in JobPcs \ {"cancelling"}, Abandon(v)
  PROVE  OwnStep(v)
<1>1. worker[v].pc # "sweep" /\ Goto(v, "cancelling")
  BY DEF JobPcs, CommitPcs, Abandon
<1>2. SweepsMove /\ worker'[v].pc = "cancelling"
  BY <1>1, SweepGoto
<1>3. TokensStep /\ OwnFiles(v)
  BY TokensSame, OwnFilesWritten DEF Abandon
<1> QED
  BY <1>2, <1>3 DEF OwnStep

\* A write fenced by the token.
LEMMA FencedOwn ==
  ASSUME SafeInv, NEW v \in Workers, worker[v].pc \in JobPcs \ {"render", "ended"}, NEW row,
         TokenStep(jobs[worker[v].job], row), Fenced(v, row, "render")
  PROVE  OwnStep(v)
<1>1. worker[v].pc # "sweep" /\ worker[v].job \in Jobs
  BY JobPcTypes DEF JobPcs, CommitPcs, SafeInv
<1>2. SweepsMove /\ worker'[v].pc # worker[v].pc
  BY <1>1, SweepGoto DEF Fenced
<1>3. OwnFiles(v)
  BY OwnFilesSame, OwnFilesWritten DEF Fenced
<1>4. TokensStep
  <2>1. CASE UpdateRow(worker[v].job, row)
    <3>1. ASSUME NEW j \in Jobs PROVE TokenStep(jobs[j], jobs'[j])
      <4>1. jobs'[j] = IF j = worker[v].job THEN row ELSE jobs[j]
        BY <1>1, <2>1 DEF UpdateRow, SafeInv, TypeOK
      <4>2. TokenStep(jobs[j], jobs[j])
        BY QuietToken, RowSame
      <4> QED
        BY <4>1, <4>2
    <3> QED
      BY <3>1 DEF TokensStep
  <2> QED
    BY <2>1, TokensSame DEF Fenced
<1> QED
  BY <1>2, <1>3, <1>4 DEF OwnStep

LEMMA BackendOwn ==
  ASSUME FrozenInv, NEW w \in Workers, Backend(w)
  PROVE  worker[w].pc \in JobPcs /\ OwnStep(w)
<1> USE DEF store, clientSide
<1> DEFINE W == worker[w]
           j == W.job
           r == jobs[j]
<1>0. W.pc \in JobPcs /\ SafeInv /\ W.pc # "sweep"
  BY DEF Backend, Freeze, RecordHandle, Render, BackendCancelled, Fail, At, BackendPcs,
         FaultPcs, JobPcs, CommitPcs, FrozenInv
<1>f. r \in Row
  BY <1>0, OwnRow
<1>1. CASE Freeze(w)
  <2> DEFINE row == [r EXCEPT !.resolved = W.seed]
  <2>1. TokenStep(r, row)
    BY <1>f DEF TokenStep, Row
  <2>2. Fenced(w, row, "render") /\ W.pc = "freeze"
    BY <1>1 DEF Freeze
  <2> HIDE DEF row
  <2> QED
    BY <1>0, <2>1, <2>2, FencedOwn
<1>2. CASE RecordHandle(w)
  <2> DEFINE row == [r EXCEPT !.remote = TRUE]
  <2>1. TokenStep(r, row)
    BY <1>f DEF TokenStep, Row
  <2>2. Fenced(w, row, "render") /\ W.pc = "submit"
    BY <1>2 DEF RecordHandle, At
  <2> HIDE DEF row
  <2> QED
    BY <1>0, <2>1, <2>2, FencedOwn
<1>3. CASE Render(w)
  <2> DEFINE p == [W EXCEPT !.pc = "rendered",
                            !.watch = IF @ = "armed" THEN "lifted" ELSE @]
             st == Rebuilt(j, W.attempt)
  <2>1. p.pc = "rendered" /\ p.listed = W.listed /\ p.doomed = W.doomed
    BY <1>0 DEF SafeInv, TypeOK, Process
  <2>2. Become(w, p) /\ W.pc = "render"
    BY <1>3 DEF Render
  <2>3. SweepsMove /\ worker'[w].pc = "rendered"
    <3> HIDE DEF p
    <3> QED
      BY <1>0, <2>1, <2>2, SweepBecome DEF SweepMove
  <2>4. SetsState(j, W.attempt, st) /\ UNCHANGED jobs
    BY <1>3 DEF Render, SetsState
  <2>5. OwnFiles(w) /\ TokensStep
    <3> HIDE DEF st
    <3> QED
      BY <1>0, <2>4, OwnFilesWritten, TokensSame
  <2> QED
    BY <1>0, <2>2, <2>3, <2>5 DEF OwnStep
<1>4. CASE BackendCancelled(w)
  BY <1>0, <1>4, AbandonOwn DEF BackendCancelled
<1>5. CASE Fail(w)
  <2>1. PICK t : Become(w, [W EXCEPT !.pc = "raised", !.take = t])
    <3>1. Become(w, [W EXCEPT !.pc = "raised", !.take = IF W.pc = "finish" THEN 0 ELSE W.take])
      BY <1>5 DEF Fail
    <3> QED
      BY <3>1
  <2>2. SweepsMove /\ worker'[w].pc = "raised"
    BY <1>0, <2>1, SweepTake
  <2>3. W.pc # "raised" /\ UNCHANGED <<jobs, files>>
    BY <1>5 DEF Fail, BackendPcs, FaultPcs
  <2> QED
    BY <1>0, <2>2, <2>3, TokensSame, OwnFilesSame DEF OwnStep
<1> QED
  BY <1>0, <1>1, <1>2, <1>3, <1>4, <1>5 DEF Backend

LEMMA BeforeCommitOwn ==
  ASSUME FrozenInv, NEW w \in Workers,
         \/ CancelCheck(w) \/ FindCommitted(w) \/ FinishExisting(w) \/ Resolve(w)
         \/ Allocate(w) \/ Mark(w) \/ AfterRender(w) \/ MarkCancel(w)
  PROVE  worker[w].pc \in JobPcs /\ OwnStep(w)
<1> USE DEF store, clientSide
<1> DEFINE W == worker[w]
           j == W.job
           r == jobs[j]
<1>0. W.pc \in JobPcs /\ SafeInv /\ W.pc # "sweep"
  BY DEF CancelCheck, FindCommitted, FinishExisting, Resolve, Allocate, Mark, AfterRender,
         MarkCancel, At, JobPcs, CommitPcs, FrozenInv
<1>f. r \in Row /\ j \in Jobs /\ W.attempt \in 0 .. MaxAttempts /\ W.take \in 0 .. MaxAttempts
      /\ W \in Process
  BY <1>0, OwnRow
<1>g. ASSUME NEW pc, Goto(w, pc) PROVE SweepsMove /\ worker'[w].pc = pc
  BY <1>0, <1>g, SweepGoto
<1>1. CASE CancelCheck(w)
  BY <1>0, <1>1, <1>g, TokensSame, OwnFilesSame DEF CancelCheck, At, OwnStep
<1>2. CASE FindCommitted(w)
  <2>1. W.pc = "lookup" /\ UNCHANGED <<jobs, files>>
    BY <1>2 DEF FindCommitted
  <2>2. SweepsMove /\ worker'[w].pc \in {"resolve", "finish"}
    <3>1. CASE Goto(w, "resolve")
      BY <1>g, <3>1
    <3>2. ASSUME NEW a, Become(w, [W EXCEPT !.pc = "finish", !.take = a])
          PROVE  SweepsMove /\ worker'[w].pc \in {"resolve", "finish"}
      BY <1>0, <3>2, SweepTake
    <3> QED
      BY <1>2, <3>1, <3>2 DEF FindCommitted
  <2> QED
    BY <1>0, <2>1, <2>2, TokensSame, OwnFilesSame DEF OwnStep
<1>3. CASE FinishExisting(w)
  <2>1. TokensStep
    BY <1>0, <1>3, <1>f, QuietTransitions, TokenWritten DEF FinishExisting
  <2> QED
    BY <1>0, <1>3, <1>g, <2>1, OwnFilesSame DEF FinishExisting, OwnStep
<1>4. CASE Resolve(w)
  <2>1. W.pc = "resolve" /\ UNCHANGED <<jobs, files>>
    BY <1>4 DEF Resolve
  <2>2. SweepsMove /\ worker'[w].pc \in {"cancelling", "allocate"}
    <3>1. CASE Goto(w, "cancelling")
      BY <1>g, <3>1
    <3>2. ASSUME NEW s, Become(w, [W EXCEPT !.pc = "allocate", !.seed = s])
          PROVE  SweepsMove /\ worker'[w].pc \in {"cancelling", "allocate"}
      <4> DEFINE p == [W EXCEPT !.pc = "allocate", !.seed = s]
      <4>1. p.pc = "allocate" /\ p.listed = W.listed /\ p.doomed = W.doomed
        BY <1>f DEF Process
      <4>2. Become(w, p)
        BY <3>2
      <4> HIDE DEF p
      <4> QED
        BY <1>0, <4>1, <4>2, SweepBecome DEF SweepMove
    <3> QED
      BY <1>4, <3>1, <3>2 DEF Resolve
  <2> QED
    BY <1>0, <2>1, <2>2, TokensSame, OwnFilesSame DEF OwnStep
<1>5. CASE Allocate(w)
  <2>1. W.pc = "allocate" /\ UNCHANGED jobs
    BY <1>5 DEF Allocate
  <2>2. SweepsMove /\ worker'[w].pc \in {"mark", "raised"}
    BY <1>5, <1>g DEF Allocate
  <2>3. OwnFiles(w)
    <3>1. \/ UNCHANGED files
          \/ files' = [files EXCEPT ![j][W.attempt] = [NoFile EXCEPT !.state = "bare"]]
      BY <1>5 DEF Allocate
    <3> DEFINE f == [NoFile EXCEPT !.state = "bare"]
    <3>2. UNCHANGED files \/ files' = [files EXCEPT ![j][W.attempt] = f]
      BY <3>1
    <3> HIDE DEF f
    <3> QED
      BY <1>0, <3>2, OwnFilesSame, OwnFilesWritten
  <2> QED
    BY <1>0, <2>1, <2>2, <2>3, TokensSame DEF OwnStep
<1>6. CASE Mark(w)
  <2> DEFINE pc == IF RemoteGpu THEN "submit" ELSE IF W.drawn THEN "freeze" ELSE "render"
  <2>1. W.pc = "mark" /\ UNCHANGED jobs /\ SetsState(j, W.attempt, "staged")
    BY <1>6 DEF Mark, SetsState
  <2>2. Become(w, [W EXCEPT !.pc = pc, !.take = W.attempt]) /\ pc # "mark"
    <3>1. [W EXCEPT !.take = W.attempt, !.pc = pc] = [W EXCEPT !.pc = pc, !.take = W.attempt]
      BY <1>f DEF Process
    <3> QED
      BY <1>6, <3>1 DEF Mark
  <2>3. SweepsMove /\ worker'[w].pc = pc
    <3> HIDE DEF pc
    <3> QED
      BY <1>0, <2>2, SweepTake
  <2> QED
    BY <1>0, <2>1, <2>2, <2>3, TokensSame, OwnFilesWritten DEF OwnStep
<1>7. CASE AfterRender(w)
  <2>1. CASE Abandon(w)
    BY <1>0, <1>7, <2>1, AbandonOwn DEF AfterRender
  <2>2. CASE ~jobs[j].cancel
    <3> DEFINE f == [state |-> Rebuilt(j, W.attempt), creation |-> RenderedPlan(W),
                     seed |-> W.seed]
    <3>1. W.pc = "rendered" /\ UNCHANGED jobs /\ Goto(w, "commit")
          /\ files' = [files EXCEPT ![j][W.attempt] = f]
      BY <1>7, <2>2 DEF AfterRender
    <3> HIDE DEF f
    <3>2. OwnFiles(w)
      BY <1>0, <3>1, OwnFilesWritten
    <3>3. SweepsMove /\ worker'[w].pc = "commit"
      BY <1>g, <3>1
    <3> QED
      BY <1>0, <3>1, <3>2, <3>3, TokensSame DEF OwnStep
  <2> QED
    BY <1>7, <2>1, <2>2 DEF AfterRender
<1>8. CASE MarkCancel(w)
  <2>1. TokensStep
    BY <1>0, <1>8, <1>f, QuietTransitions, TokenWritten DEF MarkCancel
  <2> QED
    BY <1>0, <1>8, <1>g, <2>1, OwnFilesSame DEF MarkCancel, OwnStep
<1> QED
  BY <1>0, <1>1, <1>2, <1>3, <1>4, <1>5, <1>6, <1>7, <1>8

LEMMA CommitOwn ==
  ASSUME FrozenInv, NEW w \in Workers,
         \/ CommitCheck(w) \/ Unmark(w) \/ Promote(w) \/ MergeBrief(w) \/ CommitSql(w)
         \/ Activate(w)
  PROVE  worker[w].pc \in JobPcs /\ OwnStep(w)
<1> USE DEF store, clientSide
<1> DEFINE W == worker[w]
           j == W.job
           r == jobs[j]
           drop == files' = Discarded(j, W.attempt)
<1>0. W.pc \in JobPcs /\ SafeInv /\ W.pc # "sweep"
  BY DEF CommitCheck, Unmark, Promote, MergeBrief, CommitSql, Activate, JobPcs, CommitPcs,
         FrozenInv
<1>f. /\ r \in Row /\ j \in Jobs /\ W.attempt \in 0 .. MaxAttempts /\ r.status # "absent"
      /\ W \in Process
  BY <1>0, OwnRow
<1>g. ASSUME NEW pc, Goto(w, pc) PROVE SweepsMove /\ worker'[w].pc = pc
  BY <1>0, <1>g, SweepGoto
<1>d. ASSUME NEW t \in 0 .. MaxAttempts, UpdateRow(j, [r EXCEPT !.status = "done", !.take = t])
      PROVE  TokensStep
  <2>1. RowQuiet(r, [r EXCEPT !.status = "done", !.take = t])
    BY <1>f, QuietTransitions
  <2> QED
    BY <1>0, <1>d, <1>f, <2>1, TokenWritten
<1>1. CASE CommitCheck(w)
  <2>1. W.pc = "commit"
    BY <1>1 DEF CommitCheck
  <2>2. CASE UNCHANGED jobs /\ (drop \/ UNCHANGED files)
             /\ \E pc \in {"ended", "cancelling", "promote"} : Goto(w, pc)
    BY <1>0, <1>g, <2>1, <2>2, TokensSame, OwnFilesSame, OwnFilesWritten DEF OwnStep
  <2>3. CASE drop /\ Become(w, [W EXCEPT !.pc = "failstatus", !.take = 0]) /\ UNCHANGED jobs
    BY <1>0, <2>1, <2>3, SweepTake, TokensSame, OwnFilesWritten DEF OwnStep
  <2>4. ASSUME NEW a \in PriorTakes(j), UpdateRow(j, [r EXCEPT !.status = "done", !.take = a]),
               drop, Goto(w, "ended")
        PROVE  OwnStep(w)
    <3>1. a \in 0 .. MaxAttempts
      BY BoundAssumption DEF PriorTakes, CommittedTakes, Attempts
    <3>2. TokensStep
      BY <1>d, <2>4, <3>1
    <3> QED
      BY <1>0, <1>g, <2>1, <2>4, <3>2, OwnFilesWritten DEF OwnStep
  <2> QED
    BY <1>0, <1>1, <2>2, <2>3, <2>4 DEF CommitCheck
<1>2. CASE Unmark(w) \/ Promote(w)
  <2>1. /\ W.pc \in {"promote", "unmarked"} /\ UNCHANGED jobs
        /\ UNCHANGED files \/ \E st : SetsState(j, W.attempt, st)
        /\ \E pc \in {"unmarked", "raised", "renamed", "merged"} : Goto(w, pc) /\ pc # W.pc
    BY <1>2 DEF Unmark, Promote, SetsState
  <2> QED
    BY <1>0, <1>g, <2>1, TokensSame, OwnFilesSame, OwnFilesWritten DEF OwnStep
<1>3. CASE MergeBrief(w) \/ Activate(w)
  BY <1>0, <1>3, <1>g, TokensSame, OwnFilesSame DEF MergeBrief, Activate, OwnStep
<1>4. CASE CommitSql(w)
  <2>1. UpdateRow(j, [r EXCEPT !.status = "done", !.take = W.attempt]) /\ UNCHANGED files
        /\ W.pc = "merged" /\ Goto(w, "committed")
    BY <1>4 DEF CommitSql
  <2>2. TokensStep
    BY <1>d, <1>f, <2>1
  <2> QED
    BY <1>0, <1>g, <2>1, <2>2, OwnFilesSame DEF OwnStep
<1> QED
  BY <1>0, <1>1, <1>2, <1>3, <1>4

LEMMA AfterFailureOwn ==
  ASSUME FrozenInv, NEW w \in Workers,
         Handle(w) \/ WriteErrorTake(w) \/ SetErrorStatus(w) \/ Join(w)
  PROVE  worker[w].pc \in JobPcs /\ OwnStep(w)
<1> USE DEF store, clientSide
<1> DEFINE W == worker[w]
           j == W.job
           r == jobs[j]
<1>0. W.pc \in JobPcs /\ SafeInv /\ W.pc # "sweep"
  BY DEF Handle, WriteErrorTake, SetErrorStatus, Join, At, JobPcs, CommitPcs, FrozenInv
<1>f. /\ r \in Row /\ j \in Jobs /\ W.attempt \in 0 .. MaxAttempts /\ W.take \in 0 .. MaxAttempts
      /\ W \in Process
  BY <1>0, OwnRow
<1>g. ASSUME NEW pc, Goto(w, pc) PROVE SweepsMove /\ worker'[w].pc = pc
  BY <1>0, <1>g, SweepGoto
<1>1. CASE Handle(w)
  <2>1. /\ W.pc = "raised" /\ UNCHANGED jobs
        /\ UNCHANGED files \/ files' = Discarded(j, W.attempt)
        /\ \E pc \in {"cancelling", "failing", "failstatus"} : Goto(w, pc)
    BY <1>1 DEF Handle
  <2> QED
    BY <1>0, <1>g, <2>1, TokensSame, OwnFilesSame, OwnFilesWritten DEF OwnStep
<1>2. CASE WriteErrorTake(w)
  <2>1. W.pc = "failing" /\ UNCHANGED jobs
        /\ (UNCHANGED files \/ SetsState(j, W.attempt, "error"))
    BY <1>2 DEF WriteErrorTake, SetsState
  <2>2. Goto(w, "failstatus") \/ Become(w, [W EXCEPT !.pc = "failstatus", !.take = 0])
    BY <1>2 DEF WriteErrorTake
  <2>3. SweepsMove /\ worker'[w].pc = "failstatus"
    BY <1>0, <1>g, <2>2, SweepTake
  <2> QED
    BY <1>0, <2>1, <2>3, TokensSame, OwnFilesSame, OwnFilesWritten DEF OwnStep
<1>3. CASE SetErrorStatus(w)
  <2>1. TokensStep
    BY <1>0, <1>3, <1>f, QuietTransitions, TokenWritten DEF SetErrorStatus
  <2> QED
    BY <1>0, <1>3, <1>g, <2>1, OwnFilesSame DEF SetErrorStatus, OwnStep
<1>4. CASE Join(w)
  BY <1>0, <1>4, SweepEnds, TokensSame, OwnFilesSame DEF Join, At, OwnStep
<1> QED
  BY <1>0, <1>1, <1>2, <1>3, <1>4

\* The loop: a claim, and the three steps of a cleanup.
LEMMA LoopTokens ==
  ASSUME FrozenInv, NEW w \in Workers, Loop(w)
  PROVE  TokensStep /\ (Discard(w) \/ UNCHANGED files)
<1> USE DEF store, clientSide
<1>0. SafeInv
  BY DEF FrozenInv
<1>1. CASE WorkerStart(w) \/ WorkerStop(w) \/ Crash(w)
  BY <1>0, <1>1, TokensSame DEF WorkerStart, WorkerStop, Crash
<1>2. CASE Reclaim(w)
  <2>1. ASSUME NEW j \in Jobs PROVE TokenStep(jobs[j], jobs'[j])
    <3>1. jobs'[j] = IF jobs[j].status = "running" /\ jobs[j].stale
                       THEN Reclaimed(jobs[j]) ELSE jobs[j]
      BY <1>2 DEF Reclaim
    <3>2. jobs[j].status = "running" => RowQuiet(jobs[j], Reclaimed(jobs[j]))
      <4>1. jobs[j] \in Row /\ 0 \in 0 .. MaxAttempts
        BY <1>0, RowFacts, BoundAssumption
      <4> QED
        BY <4>1, QuietTransitions
    <3> QED
      BY <1>0, <3>1, <3>2, QuietToken, RowSame
  <2> QED
    BY <1>2, <2>1 DEF Reclaim, TokensStep
<1>3. CASE Cleanup(w) \/ Judge(w) \/ Discard(w)
  BY <1>0, <1>3, CleanupMoves, TokensSame DEF SafeInv
<1>4. CASE Claim(w)
  <2>1. ASSUME NEW j \in Jobs PROVE TokenStep(jobs[j], jobs'[j])
    <3>1. jobs[j] \in Row /\ jobs[j].attempts \in Nat
      BY <1>0, RowFacts DEF Row
    <3>2. \/ jobs'[j] = jobs[j]
          \/ jobs'[j] = [jobs[j] EXCEPT !.held = TRUE]
          \/ \E a : a = jobs[j].attempts + 1 /\ jobs'[j] =
               [jobs[j] EXCEPT !.status = "running", !.stale = FALSE, !.attempts = a, !.token = a]
      <4> DEFINE elig == {k \in Jobs : jobs[k].status = "queued" /\ ~jobs[k].held
                                       /\ ProjectOf[k] \notin tombstones}
                 runnable == {k \in elig : jobs[k].creation # 0}
                 oldest == {k \in runnable : \A i \in runnable : jobs[k].born <= jobs[i].born}
                 Hold(S) == [k \in Jobs |-> IF k \in S THEN [jobs[k] EXCEPT !.held = TRUE]
                                                       ELSE jobs[k]]
      <4>1. CASE jobs' = Hold(elig)
        BY <4>1
      <4>2. ASSUME NEW k \in oldest,
                   LET r == jobs[k]  a == r.attempts + 1 IN
                   jobs' = [Hold({i \in elig \ runnable : jobs[i].born < r.born}) EXCEPT ![k] =
                     [r EXCEPT !.status = "running", !.stale = FALSE, !.attempts = a, !.token = a]]
            PROVE  <3>2!1 \/ <3>2!2 \/ <3>2!3
        BY <4>2
      <4> QED
        BY <1>4, <4>1, <4>2 DEF Claim
    <3>3. \/ jobs'[j] = jobs[j]
          \/ /\ jobs'[j].attempts = jobs[j].attempts /\ jobs'[j].status = jobs[j].status
             /\ jobs'[j].token = jobs[j].token
          \/ jobs'[j].attempts = jobs[j].attempts + 1 /\ jobs'[j].token = jobs[j].attempts + 1
      BY <3>1, <3>2 DEF Row
    <3> QED
      BY <3>1, <3>3 DEF TokenStep
  <2> QED
    BY <1>4, <2>1 DEF Claim, TokensStep
<1> QED
  BY <1>1, <1>2, <1>3, <1>4 DEF Loop

LEMMA CleanupSweeps ==
  ASSUME SweepInv, NEW w \in Workers, Cleanup(w) \/ Judge(w) \/ Discard(w)
  PROVE  SweepsOK'
<1> DEFINE W == worker[w]
<1>0. /\ SafeInv /\ SweepOK(w) /\ W \in Process /\ W.listed \subseteq Takes
      /\ W.doomed \in Takes \cup {None}
  BY DEF SweepInv, FrozenInv, SafeInv, TypeOK, Process, SweepsOK
<1>1. UNCHANGED jobs /\ \A v \in Workers \ {w} : worker'[v] = worker[v]
  BY <1>0, CleanupMoves DEF SafeInv
<1>2. ASSUME NEW v \in Workers \ {w} PROVE SweepOK(v)'
  BY <1>1 DEF SweepInv, SweepsOK, SweepOK, Owns
<1>p. ASSUME NEW t, Become(w, Past(W, t)) PROVE SweepOK(w)'
  <2>1. worker'[w] = Past(W, t)
    BY <1>p, <1>0 DEF Become, SafeInv, TypeOK
  <2>2. Past(W, t).listed \subseteq W.listed /\ Past(W, t).doomed = None
    BY <1>0 DEF Past, Process
  <2> QED
    BY <1>0, <1>1, <2>1, <2>2 DEF SweepOK
<1>3. ASSUME Cleanup(w) PROVE SweepOK(w)'
  <2> DEFINE L == {t \in Takes : files[t[1]][t[2]].state \in Staging}
             B == {t \in Takes : files[t[1]][t[2]].state \in {"bare"}}
             pc == IF L = {} THEN "claim" ELSE "sweep"
             p == [W EXCEPT !.pc = pc, !.listed = L, !.bare = B]
  <2>1. Become(w, p) /\ W.pc = "cleanup"
    BY <1>3 DEF Cleanup, At
  <2>2. p.listed = L /\ p.doomed = None
    BY <1>0, <2>1 DEF SweepOK, Process
  <2>3. worker'[w] = p
    BY <1>0, <2>1 DEF Become, SafeInv, TypeOK
  <2>4. ASSUME NEW t \in L PROVE t[2] <= jobs[t[1]].attempts
    BY <2>4 DEF Takes, Staging, SweepInv, FrozenInv, FilesClaimed
  <2> HIDE DEF L, p
  <2> QED
    BY <1>1, <2>2, <2>3, <2>4 DEF SweepOK
<1>4. ASSUME Judge(w) PROVE SweepOK(w)'
  <2>1. PICK t \in W.listed \ W.bare :
          \/ Become(w, Past(W, t))
          \/ /\ ~Alive(t[1], t[2]) \/ "store" \in Faults
             /\ Become(w, [W EXCEPT !.doomed = t])
    BY <1>4 DEF Judge
  <2>2. CASE Become(w, Past(W, t))
    BY <1>p, <2>2
  <2>3. CASE (~Alive(t[1], t[2]) \/ "store" \in Faults) /\ Become(w, [W EXCEPT !.doomed = t])
    <3> DEFINE p == [W EXCEPT !.doomed = t]
    <3>1. worker'[w] = p
      BY <1>0, <2>3 DEF Become, SafeInv, TypeOK
    <3>2. p.listed = W.listed /\ p.doomed = t /\ p.pc = "sweep"
      BY <1>0, <1>4 DEF Judge, Process
    <3>3. t[2] <= jobs[t[1]].attempts /\ (~Owns(t[1], t[2]) \/ "store" \in Faults)
      BY <1>0, <2>1, <2>3 DEF SweepOK, Alive
    <3>4. /\ \A u \in p.listed : u[2] <= jobs[u[1]].attempts
          /\ p.pc = "sweep" /\ p.doomed[2] <= jobs[p.doomed[1]].attempts
          /\ ~Owns(p.doomed[1], p.doomed[2]) \/ "store" \in Faults
      BY <1>0, <3>2, <3>3 DEF SweepOK
    <3> HIDE DEF p
    <3> QED
      BY <1>1, <3>1, <3>4 DEF SweepOK, Owns
  <2> QED
    BY <2>1, <2>2, <2>3
<1>5. ASSUME Discard(w) PROVE SweepOK(w)'
  BY <1>p, <1>5 DEF Discard
<1>6. SweepOK(w)'
  BY <1>3, <1>4, <1>5
<1> QED
  BY <1>2, <1>6 DEF SweepsOK

LEMMA LoopSweeps ==
  ASSUME SweepInv, SafeInv', NEW w \in Workers, Loop(w)
  PROVE  SweepsOK'
<1>0. SafeInv /\ FrozenInv /\ TokensStep
  BY LoopTokens DEF SweepInv, FrozenInv
<1>1. CASE WorkerStart(w) \/ WorkerStop(w) \/ Reclaim(w)
  <2>1. \E pc : Goto(w, pc) /\ worker[w].pc # "sweep"
    BY <1>1 DEF WorkerStart, WorkerStop, Reclaim, At
  <2> QED
    BY <1>0, <2>1, SweepGoto, SweepsKept
<1>2. CASE Crash(w)
  BY <1>0, <1>2, SweepEnds, SweepsKept DEF Crash
<1>3. CASE Claim(w)
  <2>1. worker[w].pc = "claim"
    BY <1>3 DEF Claim, At
  <2>2. CASE Goto(w, "reclaim")
    BY <1>0, <2>1, <2>2, SweepGoto, SweepsKept
  <2>3. ASSUME NEW p, Become(w, p), p.listed = {}, p.doomed = None PROVE SweepsOK'
    BY <1>0, <2>3, SweepBecome, SweepsKept DEF SweepMove
  <2>4. ASSUME NEW j, NEW a, NEW creation, NEW seed, NEW drawn,
               Become(w, [pc |-> "claimed", job |-> j, attempt |-> a, creation |-> creation,
                          seed |-> seed, drawn |-> drawn, take |-> 0, watch |-> "armed",
                          listed |-> {}, bare |-> {}, doomed |-> None])
        PROVE  SweepsOK'
    BY <2>3, <2>4
  <2> QED
    BY <1>3, <2>2, <2>4 DEF Claim
<1> QED
  BY <1>1, <1>2, <1>3, CleanupSweeps DEF Loop

LEMMA NextSweeps == SweepInv /\ [Next]_vars => SweepInv'
<1> SUFFICES ASSUME SweepInv, [Next]_vars PROVE SweepInv'
  OBVIOUS
<1>0. FrozenInv /\ SafeInv /\ FrozenInv' /\ SafeInv'
  BY NextFrozen DEF SweepInv, FrozenInv
<1>1. ASSUME NEW c \in Clients, Handler(c) PROVE SweepsOK'
  BY <1>0, <1>1, HandlerTokens, SweepsSame, SweepsKept
<1>2. ASSUME User \/ ServerCrash \/ \E j \in Jobs : Lapse(j) PROVE SweepsOK'
  BY <1>0, <1>2, OutsideTokens, SweepsSame, SweepsKept
<1>3. ASSUME NEW w \in Workers, Loop(w) PROVE SweepsOK'
  BY <1>0, <1>3, LoopSweeps
<1>4. ASSUME NEW w \in Workers, Orchestrate(w) \/ Backend(w) PROVE SweepsOK'
  <2>1. OwnStep(w)
    BY <1>0, <1>4, BackendOwn, BeforeCommitOwn, CommitOwn, AfterFailureOwn DEF Orchestrate
  <2> QED
    BY <1>0, <2>1, SweepsKept DEF OwnStep
<1>5. ASSUME NEW w \in Workers, Heartbeat(w) PROVE SweepsOK'
  BY <1>0, <1>5, HeartbeatTokens, SweepsKept
<1>6. ASSUME UNCHANGED vars PROVE SweepsOK'
  BY <1>0, <1>6, TokensSame, SweepsSame, SweepsKept DEF vars
<1> QED
  BY <1>0, <1>1, <1>2, <1>3, <1>4, <1>5, <1>6 DEF Next, SweepInv

\* While an attempt owns its job and works on, no cleanup of another worker
\* removes its staged take on the strength of a row it read: only one that
\* listed the directory while it had no marker takes it, and a lost attempt
\* dropping its files, a late error take or a deletion never do.
THEOREM LiveRenderStays == ASSUME "store" \notin Faults PROVE Spec => LiveRenderKept
<1>1. Init => SweepInv
  <2> SUFFICES ASSUME Init PROVE SweepsOK
    BY InitFrozen DEF SweepInv
  <2> QED
    BY DEF Init, Looping, SweepsOK, SweepOK
<1> DEFINE Kept == \A w \in Workers :
             LET W == worker[w]  j == W.job  a == W.attempt IN
             /\ W.pc \in RenderPcs /\ Owns(j, a) /\ UNCHANGED worker[w]
             /\ files[j][a].state \in Staging /\ files'[j][a].state \notin Staging
             => \E v \in Workers : <<j, a>> \in worker[v].bare
<1>2. SweepInv /\ [Next]_vars => Kept
  <2> SUFFICES ASSUME SweepInv, [Next]_vars, NEW w \in Workers, worker[w].pc \in RenderPcs,
                      Owns(worker[w].job, worker[w].attempt), UNCHANGED worker[w],
                      files[worker[w].job][worker[w].attempt].state \in Staging,
                      files'[worker[w].job][worker[w].attempt].state \notin Staging
               PROVE  \E v \in Workers : <<worker[w].job, worker[w].attempt>> \in worker[v].bare
    OBVIOUS
  <2> DEFINE j == worker[w].job
             a == worker[w].attempt
  <2>0. /\ FrozenInv /\ SafeInv /\ worker[w].pc \in JobPcs /\ j \in Jobs /\ a \in Attempts
    BY PcSets, OwnRow DEF SweepInv, FrozenInv
  <2>1. ASSUME NEW c \in Clients, Handler(c) PROVE FALSE
    BY <2>0, <2>1, HandlerTokens DEF StagedKept
  <2>2. CASE User \/ ServerCrash \/ \E k \in Jobs : Lapse(k)
    BY <2>0, <2>2, OutsideTokens
  <2>3. ASSUME NEW v \in Workers, Loop(v) PROVE <<j, a>> \in worker[v].bare
    <3>1. Discard(v)
      BY <2>0, <2>3, LoopTokens
    <3>2. PICK t \in worker[v].listed :
            /\ worker[v].doomed = t \/ (worker[v].doomed = None /\ t \in worker[v].bare)
            /\ files' = Discarded(t[1], t[2])
      BY <3>1 DEF Discard
    <3>3. t \in Takes /\ t # None
      BY <2>0, <3>2, PoolAssumption DEF SafeInv, TypeOK, Process
    <3>4. t = <<j, a>>
      <4>1. t[1] = j /\ t[2] = a
        BY <2>0, <3>2, <3>3 DEF Discarded, Takes, SafeInv, TypeOK
      <4> QED
        BY <3>3, <4>1 DEF Takes
    <3>5. worker[v].doomed # t
      BY <3>3, <3>4 DEF SweepInv, SweepsOK, SweepOK
    <3> QED
      BY <3>2, <3>4, <3>5
  <2>4. ASSUME NEW v \in Workers, Orchestrate(v) \/ Backend(v) PROVE FALSE
    <3>1. OwnStep(v) /\ worker[v].pc \in JobPcs
      BY <2>0, <2>4, BackendOwn, BeforeCommitOwn, CommitOwn, AfterFailureOwn DEF Orchestrate
    <3>2. v # w
      BY <3>1 DEF OwnStep
    <3>3. <<j, a>> # <<worker[v].job, worker[v].attempt>>
      BY <2>0, <3>1, <3>2 DEF FrozenInv, OneProcessPerAttempt
    <3> QED
      BY <2>0, <3>1, <3>3 DEF OwnStep, OwnFiles
  <2>5. ASSUME NEW v \in Workers, Heartbeat(v) PROVE FALSE
    BY <2>0, <2>5, HeartbeatTokens
  <2>6. CASE UNCHANGED vars
    BY <2>6 DEF vars
  <2> QED
    BY <2>1, <2>2, <2>3, <2>4, <2>5, <2>6 DEF Next
<1>3. SweepInv /\ [Next]_vars => [Kept]_vars
  BY <1>2
<1> QED
  BY <1>1, <1>3, NextSweeps, PTL DEF Spec, LiveRenderKept

-----------------------------------------------------------------------------
(* The lifecycle: the inductive invariant *)

\* The worker's storage works, and a directory is removed as a whole: a failure
\* of either can cost a done job its take.
Calm == "store" \notin Faults /\ "rmtree" \notin Faults

\* A deletion that runs has its tombstone, and is never taken back.
DeletionsFinal ==
  \A c \in Clients :
    /\ request[c].pc # "abort"
    /\ request[c].pc = "rmtree" => request[c].project \in tombstones

\* A held row waits in the queue until a retry cancels it.
HeldRow(r) == r.held => r.status \notin {"absent", "running"}
HeldRows ==
  /\ \A j \in Jobs : HeldRow(jobs[j])
  /\ \A c \in Clients : request[c].pc = "cancelheld" => jobs[request[c].retryOf].held

\* What an attempt knows of the takes of its job: its own is not published
\* before the rename and is there up to the SQL commit, and the one it found
\* from an earlier attempt stays, unless the project is deleted.
UnpublishedPcs == JobPcs \ {"renamed", "merged", "committed", "ended"}
PublishOK(w) ==
  LET W == worker[w] IN
  /\ W.pc \in UnpublishedPcs => FileOf(w).state # "take"
  /\ W.pc \in {"renamed", "merged"} => FileOf(w).state = "take"
  /\ W.pc = "finish" => ProjectOf[W.job] \in tombstones \/ W.take \in CommittedTakes(W.job)
  /\ W.pc = "cancelling" \/ W.watch = "cancel" => JobOf(w).cancel
PublishersOK == \A w \in Workers : worker[w].pc \in JobPcs => PublishOK(w)

DoneInv == FrozenInv /\ DeletionsFinal /\ HeldRows /\ PublishersOK /\ DoneNamesTake

LEMMA InitDone == Init => DoneInv /\ Lifecycle!Init
<1> SUFFICES ASSUME Init PROVE DoneInv /\ Lifecycle!Init
  OBVIOUS
<1>1. \A w \in Workers : worker[w].pc \notin JobPcs
  BY DEF Init, Looping, JobPcs, CommitPcs
<1>2. DeletionsFinal
  BY DEF Init, DeletionsFinal, Idle
<1>3. HeldRows /\ DoneNamesTake
  BY DEF Init, HeldRows, HeldRow, DoneNamesTake, AbsentRow, Idle
<1>4. Lifecycle!Init
  <2>1. \A j \in Jobs : jobs[j].status \in {"absent", "queued"} /\ jobs[j].cancel = FALSE
                        /\ CommittedTakes(j) = {}
    BY DEF Init, AbsentRow, CommittedTakes, NoFile
  <2>2. {j \in Jobs : ProjectOf[j] \in tombstones} = {}
    BY DEF Init
  <2> QED
    BY <2>1, <2>2 DEF Lifecycle!Init
<1> QED
  BY <1>1, <1>2, <1>3, <1>4, InitFrozen DEF DoneInv, PublishersOK

-----------------------------------------------------------------------------
(* What a step does to the rows *)

\* The row of a job takes a step of its lifecycle.
Settles(j, r, s) ==
  \/ s.status = r.status /\ (s.cancel <=> r.cancel)
  \/ r.status = "absent" /\ s.status = "queued" /\ ~s.cancel
  \/ r.status = "queued" /\ s.status = "running" /\ ~r.cancel /\ ~s.cancel
  \/ r.status = "running" /\ s.status = "queued" /\ ~r.cancel /\ ~s.cancel
  \/ r.status = "running" /\ s.status = "running" /\ s.cancel
  \/ r.status = "queued" /\ s.status = "cancelled" /\ s.cancel
  \/ r.status = "running" /\ s.status = "done" /\ ~r.cancel /\ ~s.cancel
  \/ r.status = "running" /\ s.status = "error" /\ (s.cancel <=> r.cancel)
  \/ /\ r.status = "queued" /\ s.status = "error" /\ (s.cancel <=> r.cancel)
     /\ ProjectOf[j] \in tombstones' \ tombstones
  \/ r.status = "running" /\ s.status = "cancelled" /\ r.cancel /\ s.cancel

\* A row that becomes done names a take.
RowMove(j, r, s) ==
  /\ Settles(j, r, s) /\ HeldRow(s) /\ (r.held => s.held)
  /\ s.status = "done" =>
       \/ r.status = "done" /\ s.take = r.take
       \/ ProjectOf[j] \in tombstones \/ s.take \in CommittedTakes(j)
RowsMove == \A j \in Jobs : RowMove(j, jobs[j], jobs'[j])

LEMMA MoveSame == ASSUME DoneInv, NEW j \in Jobs PROVE RowMove(j, jobs[j], jobs[j])
BY DEF RowMove, Settles, DoneInv, HeldRows

LEMMA MovesSame == ASSUME DoneInv, UNCHANGED jobs PROVE RowsMove
BY MoveSame DEF RowsMove

LEMMA MovesOne ==
  ASSUME DoneInv, NEW j \in Jobs, NEW r, RowMove(j, jobs[j], r), UpdateRow(j, r)
  PROVE  RowsMove
BY MoveSame DEF RowsMove, UpdateRow, DoneInv, FrozenInv, SafeInv, TypeOK

\* A row whose status and flags stay.
LEMMA MoveControl ==
  ASSUME DoneInv, NEW j \in Jobs, NEW s, s.status = jobs[j].status,
         s.cancel <=> jobs[j].cancel, s.held <=> jobs[j].held, s.take = jobs[j].take
  PROVE  RowMove(j, jobs[j], s)
BY DEF RowMove, Settles, DoneInv, HeldRows, HeldRow

LEMMA RowKnown ==
  ASSUME DoneInv, NEW j \in Jobs
  PROVE  jobs[j] \in Row /\ RowOK(jobs[j]) /\ SafeRow(jobs[j]) /\ HeldRow(jobs[j])
BY RowFacts DEF DoneInv, FrozenInv, HeldRows

\* A row that leaves the queue or stops running.
LEMMA MoveSettled ==
  ASSUME DoneInv, NEW j \in Jobs, NEW t \in 0 .. MaxAttempts
  PROVE  LET r == jobs[j] IN
         /\ r.status = "queued" => RowMove(j, r, Cancelled(r))
         /\ r.status = "running" /\ r.cancel => RowMove(j, r, Cancelled(r))
         /\ r.status = "running" /\ r.cancel =>
              RowMove(j, r, [r EXCEPT !.status = "cancelled", !.take = 0])
         /\ r.status = "running" => RowMove(j, r, [r EXCEPT !.status = "error", !.take = t])
         /\ r.status = "running" => RowMove(j, r, [r EXCEPT !.status = "error", !.token = 0])
         /\ /\ r.status = "running" /\ ~r.cancel
            /\ ProjectOf[j] \in tombstones \/ t \in CommittedTakes(j)
            => RowMove(j, r, [r EXCEPT !.status = "done", !.take = t])
<1> DEFINE r == jobs[j]
<1>0. r \in Row /\ HeldRow(r)
  BY RowKnown
<1> USE DEF RowMove, Settles, HeldRow, Row
<1>1. r.status = "queued" \/ (r.status = "running" /\ r.cancel) => RowMove(j, r, Cancelled(r))
  BY <1>0 DEF Cancelled
<1>2. r.status = "running" /\ r.cancel =>
        RowMove(j, r, [r EXCEPT !.status = "cancelled", !.take = 0])
  BY <1>0
<1>3. r.status = "running" => RowMove(j, r, [r EXCEPT !.status = "error", !.take = t])
  BY <1>0
<1>4. r.status = "running" => RowMove(j, r, [r EXCEPT !.status = "error", !.token = 0])
  BY <1>0
<1>5. /\ r.status = "running" /\ ~r.cancel
      /\ ProjectOf[j] \in tombstones \/ t \in CommittedTakes(j)
      => RowMove(j, r, [r EXCEPT !.status = "done", !.take = t])
  BY <1>0
<1> HIDE DEF RowMove, Settles, HeldRow, Row
<1> QED
  BY <1>1, <1>2, <1>3, <1>4, <1>5

LEMMA MoveTransitions ==
  ASSUME DoneInv, NEW j \in Jobs, NEW a \in 0 .. MaxAttempts, NEW t \in 0 .. MaxAttempts
  PROVE  LET r == jobs[j] IN
         /\ (r.status = "running" => r.cancel) => RowMove(j, r, MarkCancelled(r, a))
         /\ ProjectOf[j] \in tombstones \/ t \in CommittedTakes(j) =>
              RowMove(j, r, FinishDone(r, a, t))
         /\ RowMove(j, r, SetError(r, a, t))
         /\ r.status = "running" => RowMove(j, r, Reclaimed(r))
         /\ r.status = "queued" /\ ProjectOf[j] \in tombstones' \ tombstones =>
              RowMove(j, r, Swept(r))
<1> DEFINE r == jobs[j]
<1>1. (r.status = "running" => r.cancel) => RowMove(j, r, MarkCancelled(r, a))
  BY MoveSame, MoveSettled DEF MarkCancelled
<1>2. ProjectOf[j] \in tombstones \/ t \in CommittedTakes(j) =>
        RowMove(j, r, FinishDone(r, a, t))
  BY MoveSame, MoveSettled DEF FinishDone
<1>3. RowMove(j, r, SetError(r, a, t))
  BY MoveSame, MoveSettled DEF SetError
<1>4. r.status = "running" => RowMove(j, r, Reclaimed(r))
  <2> SUFFICES ASSUME r.status = "running" PROVE RowMove(j, r, Reclaimed(r))
    OBVIOUS
  <2>0. r \in Row /\ HeldRow(r)
    BY RowKnown
  <2>1. CASE r.cancel
    BY <2>1, MoveSettled DEF Reclaimed
  <2>2. CASE ~r.cancel /\ (r.remote \/ r.attempts >= MaxAttempts)
    BY <2>2, MoveSettled DEF Reclaimed
  <2>3. CASE ~r.cancel /\ ~(r.remote \/ r.attempts >= MaxAttempts)
    BY <2>0, <2>3 DEF Reclaimed, RowMove, Settles, HeldRow, Row
  <2> QED
    BY <2>1, <2>2, <2>3
<1>5. r.status = "queued" /\ ProjectOf[j] \in tombstones' \ tombstones => RowMove(j, r, Swept(r))
  BY RowKnown DEF Swept, RowMove, Settles, HeldRow, Row
<1> QED
  BY <1>1, <1>2, <1>3, <1>4, <1>5

-----------------------------------------------------------------------------
(* What a step does to the takes and the processes *)

TakesKept == \A j \in Jobs : CommittedTakes(j)' = CommittedTakes(j)

\* The attempt knows no less than it needs after the step.
KnowsMore(w) ==
  LET W == worker[w]  V == worker'[w] IN
  /\ W.pc \in JobPcs /\ V.job = W.job /\ V.attempt = W.attempt
  /\ V.pc \in UnpublishedPcs => W.pc \in UnpublishedPcs
  /\ V.pc \in {"renamed", "merged"} => W.pc \in {"renamed", "merged"}
  /\ V.pc = "finish" => \/ W.pc = "finish" /\ V.take = W.take
                        \/ V.take \in CommittedTakes(W.job)
  /\ V.pc = "cancelling" => W.pc = "cancelling" \/ JobOf(w).cancel
  /\ V.watch = "cancel" => W.watch = "cancel" \/ JobOf(w).cancel
ProcessesKnow ==
  \A w \in Workers : worker'[w].pc \in JobPcs => KnowsMore(w) \/ PublishOK(w)'

TombstonesKept == tombstones \subseteq tombstones'

\* An accepted cancel stays with a row that is in use.
LEMMA CancelStays ==
  ASSUME DoneInv, RowsMove, NEW j \in Jobs, jobs[j].status # "absent", jobs[j].cancel
  PROVE  jobs'[j].cancel
<1>1. SafeRow(jobs[j]) /\ Settles(j, jobs[j], jobs'[j])
  BY RowKnown DEF RowsMove, RowMove
<1> QED
  BY <1>1 DEF SafeRow, Settles

LEMMA KnowsKept ==
  ASSUME DoneInv, RowsMove, TombstonesKept, NEW w \in Workers, KnowsMore(w),
         FileOf(w)'.state = "take" <=> FileOf(w).state = "take",
         \/ ProjectOf[worker[w].job] \in tombstones
         \/ CommittedTakes(worker[w].job) \subseteq CommittedTakes(worker[w].job)'
  PROVE  PublishOK(w)'
<1> DEFINE W == worker[w]
           V == worker'[w]
           j == W.job
<1>0. W.pc \in JobPcs /\ V.job = j /\ PublishOK(w) /\ j \in Jobs /\ jobs[j].status # "absent"
  BY OwnRow DEF KnowsMore, DoneInv, PublishersOK
<1>1. /\ V.pc \in UnpublishedPcs => FileOf(w)'.state # "take"
      /\ V.pc \in {"renamed", "merged"} => FileOf(w)'.state = "take"
  BY <1>0 DEF KnowsMore, PublishOK
<1>2. V.pc = "finish" => ProjectOf[j] \in tombstones' \/ V.take \in CommittedTakes(j)'
  BY <1>0 DEF KnowsMore, PublishOK, TombstonesKept
<1>3. V.pc = "cancelling" \/ V.watch = "cancel" => JobOf(w)'.cancel
  <2>1. JobOf(w).cancel => jobs'[j].cancel
    BY <1>0, CancelStays DEF JobOf
  <2> QED
    BY <1>0, <2>1 DEF KnowsMore, PublishOK, JobOf
<1> QED
  BY <1>0, <1>1, <1>2, <1>3 DEF PublishOK, CommittedTakes

\* Steps that leave the takes alone: all but the rename and a deletion.
LEMMA QuietDone ==
  ASSUME DoneInv, FrozenInv', RowsMove, TakesKept, TombstonesKept, ProcessesKnow,
         DeletionsFinal', \A c \in Clients : request'[c].pc = "cancelheld" =>
                            jobs'[request'[c].retryOf].held
  PROVE  DoneInv'
<1>1. PublishersOK'
  <2> SUFFICES ASSUME NEW w \in Workers, worker'[w].pc \in JobPcs, KnowsMore(w)
               PROVE  PublishOK(w)'
    BY DEF PublishersOK, ProcessesKnow, JobPcs, CommitPcs
  <2>1. worker[w].job \in Jobs /\ worker[w].attempt \in Attempts
        /\ worker'[w].job = worker[w].job /\ worker'[w].attempt = worker[w].attempt
    BY OwnRow DEF KnowsMore, DoneInv
  <2>2. FileOf(w)'.state = "take" <=> FileOf(w).state = "take"
    BY <2>1 DEF TakesKept, CommittedTakes, FileOf
  <2> QED
    BY <2>1, <2>2, KnowsKept DEF TakesKept
<1>2. HeldRows'
  BY DEF HeldRows, RowsMove, RowMove
<1>3. DoneNamesTake'
  <2> SUFFICES ASSUME NEW j \in Jobs, jobs'[j].status = "done", ProjectOf[j] \notin tombstones'
               PROVE  jobs'[j].take \in CommittedTakes(j)'
    BY DEF DoneNamesTake
  <2> QED
    BY DEF RowsMove, RowMove, DoneInv, DoneNamesTake, TakesKept, TombstonesKept
<1> QED
  BY <1>1, <1>2, <1>3 DEF DoneInv

\* The lifecycle of one job.
LEMMA RowLifecycle ==
  ASSUME DoneInv, FrozenInv', NEW j \in Jobs, RowMove(j, jobs[j], jobs'[j]),
         CommittedTakes(j)' = CommittedTakes(j), TombstonesKept
  PROVE  Lifecycle!Step(j)
<1> DEFINE r == jobs[j]
           s == jobs'[j]
<1>0. r \in Row /\ s \in Row
  BY RowKnown DEF DoneInv, FrozenInv, SafeInv, TypeOK
<1>c. r.cancel \in BOOLEAN /\ s.cancel \in BOOLEAN
  BY <1>0 DEF Row
<1>k. Lifecycle!KeepsTakes(j)
  BY DEF Lifecycle!KeepsTakes
<1>a. (s.cancel <=> r.cancel) => Lifecycle!KeepsAsked(j)
  BY <1>c DEF Lifecycle!KeepsAsked
<1>d. s.status = "done" /\ r.status = "running" =>
        CommittedTakes(j) # {} \/ j \in {k \in Jobs : ProjectOf[k] \in tombstones}
  BY DEF RowMove
<1>1. CASE s.status = r.status /\ (s.cancel <=> r.cancel)
  BY <1>1, <1>a, <1>k DEF Lifecycle!Step, Lifecycle!Stay
<1>2. CASE r.status = "absent" /\ s.status = "queued" /\ ~s.cancel
  BY <1>2, <1>k DEF Lifecycle!Step, Lifecycle!Submit, Lifecycle!Moves
<1>3. CASE r.status = "queued" /\ s.status = "running" /\ ~r.cancel /\ ~s.cancel
  BY <1>3, <1>a, <1>k DEF Lifecycle!Step, Lifecycle!Start, Lifecycle!Moves
<1>4. CASE r.status = "running" /\ s.status = "queued" /\ ~r.cancel /\ ~s.cancel
  BY <1>4, <1>a, <1>k DEF Lifecycle!Step, Lifecycle!Requeue, Lifecycle!Moves
<1>5. CASE \/ r.status = "running" /\ s.status = "running" /\ s.cancel
           \/ r.status = "queued" /\ s.status = "cancelled" /\ s.cancel
  BY <1>5, <1>k DEF Lifecycle!Step, Lifecycle!AskCancel, Lifecycle!Moves
<1>6. CASE r.status = "running" /\ s.status = "done" /\ ~r.cancel /\ ~s.cancel
  BY <1>6, <1>a, <1>d, <1>k DEF Lifecycle!Step, Lifecycle!Finish, Lifecycle!Moves
<1>7. CASE r.status = "running" /\ s.status = "error" /\ (s.cancel <=> r.cancel)
  BY <1>7, <1>a, <1>k DEF Lifecycle!Step, Lifecycle!Fail, Lifecycle!Moves
<1>8. CASE /\ r.status = "queued" /\ s.status = "error" /\ (s.cancel <=> r.cancel)
           /\ ProjectOf[j] \in tombstones' \ tombstones
  BY <1>8, <1>a, <1>k DEF Lifecycle!Step, Lifecycle!Fail, Lifecycle!Moves
<1>9. CASE r.status = "running" /\ s.status = "cancelled" /\ r.cancel /\ s.cancel
  BY <1>9, <1>a, <1>k DEF Lifecycle!Step, Lifecycle!Cancel, Lifecycle!Moves
<1> QED
  BY <1>1, <1>2, <1>3, <1>4, <1>5, <1>6, <1>7, <1>8, <1>9 DEF RowMove, Settles

LEMMA QuietLifecycle ==
  ASSUME DoneInv, FrozenInv', RowsMove, TakesKept, TombstonesKept
  PROVE  Lifecycle!Next
BY RowLifecycle DEF RowsMove, TakesKept, Lifecycle!Next

-----------------------------------------------------------------------------
(* The parts of a quiet step *)

LEMMA TakesSame == UNCHANGED files => TakesKept
BY DEF TakesKept, CommittedTakes

LEMMA TakesBut ==
  ASSUME DoneInv, NEW j \in Jobs, NEW a \in Attempts, NEW f, f.state # "take",
         files[j][a].state # "take", files' = [files EXCEPT ![j][a] = f]
  PROVE  TakesKept
BY DEF TakesKept, CommittedTakes, DoneInv, FrozenInv, SafeInv, TypeOK

LEMMA TakesDiscard ==
  ASSUME DoneInv, NEW j \in Jobs, NEW a \in Attempts, files' = Discarded(j, a)
  PROVE  TakesKept
BY TakesBut, TakesSame DEF Discarded, Staging, NoFile

LEMMA ProcessesSame == UNCHANGED worker => ProcessesKnow
BY DEF ProcessesKnow, KnowsMore

\* One process moves.
LEMMA KnowsBecome ==
  ASSUME DoneInv, NEW w \in Workers, NEW p, Become(w, p),
         p.pc \in JobPcs /\ worker'[w] = p => KnowsMore(w) \/ PublishOK(w)'
  PROVE  ProcessesKnow
<1>1. worker'[w] = p /\ \A v \in Workers \ {w} : worker'[v] = worker[v]
  BY DEF Become, DoneInv, FrozenInv, SafeInv, TypeOK
<1>2. \A v \in Workers \ {w} : worker'[v].pc \in JobPcs => KnowsMore(v)
  BY <1>1 DEF KnowsMore
<1> QED
  BY <1>1, <1>2 DEF ProcessesKnow

LEMMA KnowsGoto ==
  ASSUME DoneInv, NEW w \in Workers, NEW pc, Goto(w, pc),
         pc \in JobPcs => worker[w].pc \in JobPcs,
         pc \in UnpublishedPcs => worker[w].pc \in UnpublishedPcs,
         pc \in {"renamed", "merged"} => worker[w].pc \in {"renamed", "merged"},
         pc # "finish", pc = "cancelling" => JobOf(w).cancel
  PROVE  ProcessesKnow
<1> DEFINE p == [worker[w] EXCEPT !.pc = pc]
<1>1. /\ p.pc = pc /\ p.job = worker[w].job /\ p.attempt = worker[w].attempt
      /\ p.take = worker[w].take /\ p.watch = worker[w].watch
  BY DEF DoneInv, FrozenInv, SafeInv, TypeOK, Process
<1>2. Become(w, p)
  BY DEF Goto, Become
<1>3. p.pc \in JobPcs /\ worker'[w] = p => KnowsMore(w)
  <2> HIDE DEF p
  <2> QED
    BY <1>1 DEF KnowsMore
<1> HIDE DEF p
<1> QED
  BY <1>2, <1>3, KnowsBecome

LEMMA KnowsWatched ==
  ASSUME DoneInv, NEW w \in Workers, worker[w].pc \in JobPcs, NEW mode, Watched(w, mode),
         mode = "cancel" => JobOf(w).cancel
  PROVE  ProcessesKnow
<1> DEFINE p == [worker[w] EXCEPT !.watch = mode]
<1>1. /\ p.pc = worker[w].pc /\ p.job = worker[w].job /\ p.attempt = worker[w].attempt
      /\ p.take = worker[w].take /\ p.watch = mode
  BY DEF DoneInv, FrozenInv, SafeInv, TypeOK, Process
<1>2. Become(w, p)
  BY DEF Watched, Become
<1>3. worker'[w] = p => KnowsMore(w)
  <2> HIDE DEF p
  <2> QED
    BY <1>1 DEF KnowsMore
<1> HIDE DEF p
<1> QED
  BY <1>2, <1>3, KnowsBecome

\* A step of a worker that leaves requests and tombstones alone.
LEMMA WorkerDone ==
  ASSUME DoneInv, FrozenInv', RowsMove, TakesKept, ProcessesKnow,
         UNCHANGED <<tombstones, request>>
  PROVE  DoneInv' /\ Lifecycle!Next
<1>1. TombstonesKept /\ DeletionsFinal'
  BY DEF TombstonesKept, DoneInv, DeletionsFinal
<1>2. ASSUME NEW c \in Clients, request'[c].pc = "cancelheld"
      PROVE  jobs'[request'[c].retryOf].held
  <2>1. request[c].retryOf \in Jobs /\ jobs[request[c].retryOf].held
    BY <1>2, RequestFacts DEF DoneInv, FrozenInv, RequestOK, HeldRows
  <2> QED
    BY <2>1 DEF RowsMove, RowMove
<1> QED
  BY <1>1, <1>2, QuietDone, QuietLifecycle

\* A step of a handler.
LEMMA RequestDone ==
  ASSUME DoneInv, FrozenInv', RowsMove, TombstonesKept, UNCHANGED <<files, worker>>,
         NEW c \in Clients, NEW q, request' = [request EXCEPT ![c] = q], q.pc # "abort",
         q.pc = "rmtree" => q.project \in tombstones',
         q.pc = "cancelheld" => jobs'[q.retryOf].held
  PROVE  DoneInv' /\ Lifecycle!Next
<1>1. request'[c] = q /\ \A d \in Clients \ {c} : request'[d] = request[d]
  BY DEF DoneInv, FrozenInv, SafeInv, TypeOK
<1>2. DeletionsFinal'
  BY <1>1 DEF DoneInv, DeletionsFinal, TombstonesKept
<1>3. ASSUME NEW d \in Clients \ {c}, request[d].pc = "cancelheld"
      PROVE  jobs'[request[d].retryOf].held
  <2>1. request[d].retryOf \in Jobs /\ jobs[request[d].retryOf].held
    BY <1>3, RequestFacts DEF DoneInv, FrozenInv, RequestOK, HeldRows
  <2> QED
    BY <2>1 DEF RowsMove, RowMove
<1>4. \A d \in Clients : request'[d].pc = "cancelheld" => jobs'[request'[d].retryOf].held
  BY <1>1, <1>3
<1> QED
  BY <1>2, <1>4, TakesSame, ProcessesSame, QuietDone, QuietLifecycle

\* A deletion removes the takes of a project whose tombstone is written, while
\* no commit of that project is under way.
LEMMA DeleteFilesDone ==
  ASSUME DoneInv, FrozenInv', NEW c \in Clients, DeleteFiles(c)
  PROVE  DoneInv' /\ Lifecycle!Next
<1> DEFINE p == request[c].project
<1>0. /\ p \in tombstones /\ LockFree(p) /\ files' = Without(p, Takes)
      /\ request' = [request EXCEPT ![c] = Idle] /\ UNCHANGED <<jobs, tombstones, worker>>
  BY DEF DeleteFiles, DoneInv, DeletionsFinal, Reply
<1>1. /\ \A j \in Jobs : ProjectOf[j] = p => CommittedTakes(j)' = {}
      /\ \A j \in Jobs : ProjectOf[j] # p => CommittedTakes(j)' = CommittedTakes(j)
      /\ \A j \in Jobs : \A a \in Attempts :
           /\ files'[j][a].state = "take" => files[j][a].state = "take"
           /\ ProjectOf[j] # p => files'[j][a] = files[j][a]
  BY <1>0 DEF Without, Staging, Takes, CommittedTakes, NoFile
<1>2. RowsMove /\ TombstonesKept
  BY <1>0, MovesSame DEF TombstonesKept
<1>3. PublishersOK'
  <2> SUFFICES ASSUME NEW w \in Workers, worker[w].pc \in JobPcs PROVE PublishOK(w)'
    BY <1>0 DEF PublishersOK, JobPcs, CommitPcs
  <2>1. /\ worker[w].job \in Jobs /\ worker[w].attempt \in Attempts /\ PublishOK(w)
        /\ worker'[w] = worker[w]
    BY <1>0, OwnRow DEF DoneInv, PublishersOK
  <2>2. CASE ProjectOf[worker[w].job] = p
    <3>1. worker[w].pc \notin {"renamed", "merged"}
      BY <1>0, <2>2 DEF LockFree, LockPcs, CommitPcs
    <3> QED
      BY <1>0, <1>1, <2>1, <2>2, <3>1 DEF PublishOK, FileOf, JobOf
  <2>3. CASE ProjectOf[worker[w].job] # p
    <3>1. FileOf(w)' = FileOf(w)
          /\ CommittedTakes(worker[w].job)' = CommittedTakes(worker[w].job)
      BY <1>1, <2>1, <2>3 DEF FileOf, CommittedTakes
    <3>2. KnowsMore(w)
      BY <2>1 DEF KnowsMore
    <3> QED
      BY <1>2, <3>1, <3>2, KnowsKept
  <2> QED
    BY <2>2, <2>3
<1>4. DoneNamesTake'
  BY <1>0, <1>1 DEF DoneInv, DoneNamesTake, CommittedTakes
<1>5. DeletionsFinal' /\ HeldRows'
  BY <1>0 DEF DoneInv, DeletionsFinal, HeldRows, FrozenInv, SafeInv, TypeOK, Idle
<1>6. ASSUME NEW j \in Jobs PROVE Lifecycle!Step(j)
  <2>1. CASE ProjectOf[j] # p
    BY <1>1, <1>2, <2>1, RowLifecycle DEF RowsMove
  <2>2. CASE ProjectOf[j] = p
    BY <1>0, <1>1, <2>2 DEF Lifecycle!Step, Lifecycle!Erase, Lifecycle!KeepsAsked
  <2> QED
    BY <2>1, <2>2
<1> QED
  BY <1>3, <1>4, <1>5, <1>6 DEF DoneInv, Lifecycle!Next

LEMMA HandlerDone ==
  ASSUME Calm, DoneInv, FrozenInv', NEW c \in Clients, Handler(c)
  PROVE  DoneInv' /\ Lifecycle!Next
<1> USE DEF handlerOnly, store
<1> DEFINE q == request[c]
<1>0. /\ FrozenInv /\ SafeInv /\ q \in Request /\ RequestOK(q) /\ 0 \in 0 .. MaxAttempts
      /\ jobs \in [Jobs -> Row]
  BY RequestFacts, BoundAssumption DEF DoneInv, FrozenInv, SafeInv, TypeOK
<1>t. UNCHANGED tombstones => TombstonesKept
  BY DEF TombstonesKept
<1>r. ASSUME RowsMove, Reply(c), UNCHANGED <<tombstones, files, worker>>
      PROVE  DoneInv' /\ Lifecycle!Next
  <2>1. Idle.pc = "idle"
    BY DEF Idle
  <2> QED
    BY <1>r, <1>t, <2>1, RequestDone DEF Reply
<1>1. ASSUME NEW p \in Projects, Submit(c, p) PROVE DoneInv' /\ Lifecycle!Next
  <2> DEFINE q1 == [Idle EXCEPT !.pc = "insert", !.project = p, !.creation = revision[p]]
  <2>1. request' = [request EXCEPT ![c] = q1] /\ UNCHANGED <<jobs, tombstones, files, worker>>
    BY <1>1 DEF Submit
  <2>2. q1.pc = "insert"
    BY DEF Idle
  <2> HIDE DEF q1
  <2> QED
    BY <1>t, <2>1, <2>2, MovesSame, RequestDone
<1>2. ASSUME NEW j \in Jobs, Retry(c, j) PROVE DoneInv' /\ Lifecycle!Next
  <2> DEFINE r == jobs[j]
             held == r.status = "queued" /\ r.held
             q1 == [Idle EXCEPT !.pc = IF held THEN "cancelheld" ELSE "load",
                      !.project = ProjectOf[j], !.retryOf = j, !.exact = ~held,
                      !.frozen = r.creation, !.resolved = r.resolved]
  <2>1. request' = [request EXCEPT ![c] = q1] /\ UNCHANGED <<jobs, tombstones, files, worker>>
    BY <1>2 DEF Retry
  <2>2. q1.retryOf = j /\ q1.pc \in {"cancelheld", "load"} /\ (q1.pc = "cancelheld" => r.held)
    BY DEF Idle
  <2> HIDE DEF q1
  <2> QED
    BY <1>t, <2>1, <2>2, MovesSame, RequestDone
<1>3. CASE CancelHeld(c)
  <2> DEFINE j == q.retryOf
             q1 == [q EXCEPT !.pc = "load"]
  <2>1. j \in Jobs /\ jobs[j].held /\ HeldRow(jobs[j])
    BY <1>0, <1>3, RowKnown DEF CancelHeld, RequestOK, DoneInv, HeldRows
  <2>2. jobs[j].status # "running"
    BY <2>1 DEF HeldRow
  <2>3. RowsMove
    <3>1. RowMove(j, jobs[j], MarkCancelled(jobs[j], 0))
      BY <1>0, <2>1, <2>2, MoveTransitions
    <3> QED
      BY <1>3, <2>1, <3>1, MovesOne DEF CancelHeld
  <2>4. q1.pc = "load"
    BY <1>0 DEF Request
  <2>5. request' = [request EXCEPT ![c] = q1] /\ UNCHANGED <<tombstones, files, worker>>
    BY <1>3 DEF CancelHeld
  <2> HIDE DEF q1
  <2> QED
    BY <1>t, <2>3, <2>4, <2>5, RequestDone
<1>4. CASE Load(c)
  <2> DEFINE q1 == [[q EXCEPT !.pc = "insert"] EXCEPT !.creation = revision[q.project]]
  <2>1. UNCHANGED <<jobs, tombstones, files, worker>>
    BY <1>4 DEF Load
  <2>2. q1.pc = "insert"
    BY <1>0 DEF Request
  <2>3. \/ request' = [request EXCEPT ![c] = q1]
        \/ Reply(c)
    BY <1>0, <1>4 DEF Load, SafeInv, TypeOK
  <2> HIDE DEF q1
  <2> QED
    BY <1>r, <1>t, <2>1, <2>2, <2>3, MovesSame, RequestDone
<1>5. CASE Insert(c)
  <2> DEFINE row == NewRow(q.creation, q.retryOf)
  <2>1. PICK j \in Jobs \ Existing :
          /\ UpdateRow(j, row)
          /\ request' = [request EXCEPT ![c] =
                           IF q.exact THEN [q EXCEPT !.pc = "patch", !.job = j] ELSE Idle]
    BY <1>5 DEF Insert
  <2>2. jobs[j].status = "absent" /\ HeldRow(jobs[j])
    BY RowKnown DEF Existing
  <2>3. RowMove(j, jobs[j], row)
    BY <2>2 DEF RowMove, Settles, NewRow, HeldRow
  <2>4. RowsMove /\ UNCHANGED <<tombstones, files, worker>>
    BY <1>5, <2>1, <2>3, MovesOne DEF Insert
  <2>5. CASE q.exact
    <3> DEFINE q1 == [q EXCEPT !.pc = "patch", !.job = j]
    <3>1. q1.pc = "patch" /\ request' = [request EXCEPT ![c] = q1]
      BY <1>0, <2>1, <2>5 DEF Request
    <3> HIDE DEF q1
    <3> QED
      BY <1>t, <2>4, <3>1, RequestDone
  <2>6. CASE ~q.exact
    BY <1>r, <2>1, <2>4, <2>6 DEF Reply
  <2> QED
    BY <2>5, <2>6
<1>6. CASE Reject(c)
  BY <1>6, <1>r, MovesSame DEF Reject
<1>7. CASE Patch(c)
  <2> DEFINE r == jobs[q.job]
             creation == IF q.frozen = 0 THEN r.creation ELSE q.frozen
             patched == [r EXCEPT !.creation = creation, !.resolved = q.resolved]
             row == IF r.status = "queued" THEN patched ELSE r
  <2>1. q.job \in Jobs /\ r \in Row
    BY <1>0, <1>7 DEF Patch, RequestOK
  <2>2. RowMove(q.job, r, patched)
    <3> HIDE DEF creation
    <3>1. /\ patched.status = r.status /\ patched.cancel = r.cancel /\ patched.take = r.take
          /\ patched.held = r.held
      BY <2>1 DEF Row
    <3> HIDE DEF patched
    <3> QED
      BY <2>1, <3>1, MoveControl
  <2>3. RowMove(q.job, r, row)
    BY <2>1, <2>2, MoveSame
  <2>4. RowsMove
    BY <1>7, <2>1, <2>3, MovesOne DEF Patch
  <2> QED
    BY <1>7, <1>r, <2>4 DEF Patch
<1>8. ASSUME NEW p \in Projects, DeleteBegin(c, p) PROVE DoneInv' /\ Lifecycle!Next
  <2> DEFINE S == {j \in Jobs : ProjectOf[j] = p /\ jobs[j].status = "queued"}
             q1 == [Idle EXCEPT !.pc = "rmtree", !.project = p, !.swept = S]
  <2>1. jobs' = [j \in Jobs |-> IF j \in S THEN Swept(jobs[j]) ELSE jobs[j]]
    BY <1>8 DEF DeleteBegin, Swept
  <2>2. tombstones' = tombstones \cup {p} /\ p \notin tombstones
        /\ request' = [request EXCEPT ![c] = q1] /\ UNCHANGED <<files, worker>>
    BY <1>8 DEF DeleteBegin
  <2>3. RowsMove
    <3> SUFFICES ASSUME NEW j \in Jobs PROVE RowMove(j, jobs[j], jobs'[j])
      BY DEF RowsMove
    <3>1. CASE j \in S
      <4>1. jobs[j].status = "queued" /\ jobs'[j] = Swept(jobs[j])
            /\ ProjectOf[j] \in tombstones' \ tombstones
        BY <2>1, <2>2, <3>1
      <4> QED
        BY <1>0, <4>1, MoveTransitions
    <3>2. CASE j \notin S
      BY <2>1, <3>2, MoveSame
    <3> QED
      BY <3>1, <3>2
  <2>4. q1.pc = "rmtree" /\ q1.project = p
    BY DEF Idle
  <2> HIDE DEF q1, S
  <2> QED
    BY <2>2, <2>3, <2>4, RequestDone DEF TombstonesKept
<1>9. CASE DeleteFiles(c)
  BY <1>9, DeleteFilesDone
<1>10. ~DeleteFails(c) /\ ~DeleteAbort(c)
  BY DEF Calm, DeleteFails, DeleteAbort, DoneInv, DeletionsFinal
<1> QED
  BY <1>1, <1>2, <1>3, <1>4, <1>5, <1>6, <1>7, <1>8, <1>9, <1>10 DEF Handler

LEMMA OutsideDone ==
  ASSUME DoneInv, FrozenInv', User \/ ServerCrash \/ \E j \in Jobs : Lapse(j)
  PROVE  DoneInv' /\ Lifecycle!Next
<1> USE DEF handlerOnly, store, clientSide
<1>1. ASSUME NEW j \in Jobs, CancelJob(j) PROVE DoneInv' /\ Lifecycle!Next
  <2> DEFINE r == jobs[j]
             row == IF r.status = "queued" THEN Cancelled(r) ELSE [r EXCEPT !.cancel = TRUE]
  <2>0. r \in Row /\ HeldRow(r) /\ r.status \in {"queued", "running"} /\ 0 \in 0 .. MaxAttempts
    BY <1>1, RowKnown, BoundAssumption DEF CancelJob
  <2>1. RowMove(j, r, row)
    <3>1. CASE r.status = "queued"
      BY <2>0, <3>1, MoveSettled
    <3>2. CASE r.status = "running"
      BY <2>0, <3>2 DEF RowMove, Settles, HeldRow, Row
    <3> QED
      BY <2>0, <3>1, <3>2
  <2>2. RowsMove
    BY <1>1, <2>1, MovesOne DEF CancelJob
  <2> QED
    BY <1>1, <2>2, TakesSame, ProcessesSame, WorkerDone DEF CancelJob
<1>2. ASSUME NEW j \in Jobs, NEW a \in Attempts, KeepTake(j, a) PROVE DoneInv' /\ Lifecycle!Next
  BY <1>2, MovesSame, TakesSame, ProcessesSame, WorkerDone DEF KeepTake
<1>3. ASSUME NEW p \in Projects, EditPlan(p) PROVE DoneInv' /\ Lifecycle!Next
  BY <1>3, MovesSame, TakesSame, ProcessesSame, WorkerDone DEF EditPlan
<1>4. CASE ServerCrash
  <2>1. RowsMove /\ TakesKept /\ ProcessesKnow /\ TombstonesKept
    BY <1>4, MovesSame, TakesSame, ProcessesSame DEF ServerCrash, TombstonesKept
  <2>2. \A c \in Clients : request'[c].pc = "idle"
    BY <1>4 DEF ServerCrash, Idle
  <2>3. DeletionsFinal'
    BY <2>2 DEF DeletionsFinal
  <2> QED
    BY <2>1, <2>2, <2>3, QuietDone, QuietLifecycle
<1>5. ASSUME NEW j \in Jobs, Lapse(j) PROVE DoneInv' /\ Lifecycle!Next
  <2> DEFINE row == [jobs[j] EXCEPT !.stale = TRUE]
  <2>1. /\ row.status = jobs[j].status /\ row.cancel = jobs[j].cancel /\ row.take = jobs[j].take
        /\ row.held = jobs[j].held
    BY RowKnown DEF Row
  <2>2. UpdateRow(j, row)
    BY <1>5 DEF Lapse
  <2>3. RowsMove
    <3> HIDE DEF row
    <3> QED
      BY <2>1, <2>2, MoveControl, MovesOne
  <2> QED
    BY <1>5, <2>3, TakesSame, ProcessesSame, WorkerDone DEF Lapse
<1> QED
  BY <1>1, <1>2, <1>3, <1>4, <1>5 DEF User

-----------------------------------------------------------------------------
(* The steps of a worker *)

\* A step of an attempt that only moves its program counter, drops its own
\* staged files or writes the row.
LEMMA GoDone ==
  ASSUME DoneInv, FrozenInv', NEW w \in Workers, worker[w].pc \in JobPcs, NEW pc, Goto(w, pc),
         pc \in UnpublishedPcs => worker[w].pc \in UnpublishedPcs,
         pc \in {"renamed", "merged"} => worker[w].pc \in {"renamed", "merged"},
         pc # "finish", pc = "cancelling" => JobOf(w).cancel, RowsMove,
         UNCHANGED files \/ files' = Discarded(worker[w].job, worker[w].attempt),
         UNCHANGED <<tombstones, request>>
  PROVE  DoneInv' /\ Lifecycle!Next
<1>1. TakesKept
  BY OwnRow, TakesSame, TakesDiscard DEF DoneInv
<1>2. ProcessesKnow
  BY KnowsGoto
<1> QED
  BY <1>1, <1>2, WorkerDone

\* The attempt's own row.
LEMMA OwnKnown ==
  ASSUME DoneInv, NEW w \in Workers, worker[w].pc \in JobPcs
  PROVE  /\ worker[w] \in Process /\ worker[w].job \in Jobs /\ worker[w].attempt \in Attempts
         /\ worker[w].attempt \in 0 .. MaxAttempts /\ worker[w].take \in 0 .. MaxAttempts
         /\ jobs[worker[w].job] \in Row /\ HeldRow(jobs[worker[w].job])
         /\ SafeRow(jobs[worker[w].job]) /\ PublishOK(w)
BY OwnRow, RowKnown DEF DoneInv, PublishersOK

\* The fields of a process and of a row that a step leaves alone.
LEMMA OwnFields ==
  ASSUME DoneInv, NEW w \in Workers, worker[w].pc \in JobPcs, NEW pc
  PROVE  LET W == worker[w] IN
         /\ \A t : LET p == [W EXCEPT !.pc = pc, !.take = t] IN
              /\ p.pc = pc /\ p.job = W.job /\ p.attempt = W.attempt
              /\ p.take = t /\ p.watch = W.watch
         /\ \A s : LET p == [W EXCEPT !.pc = pc, !.seed = s] IN
              /\ p.pc = pc /\ p.job = W.job /\ p.attempt = W.attempt
              /\ p.take = W.take /\ p.watch = W.watch
         /\ \A m : LET p == [W EXCEPT !.pc = pc, !.watch = m] IN
              /\ p.pc = pc /\ p.job = W.job /\ p.attempt = W.attempt
              /\ p.take = W.take /\ p.watch = m
BY OwnKnown DEF Process

LEMMA HeartbeatDone ==
  ASSUME Calm, DoneInv, FrozenInv', NEW w \in Workers, Heartbeat(w)
  PROVE  DoneInv' /\ Lifecycle!Next
<1> USE DEF Watching, store, clientSide
<1> DEFINE W == worker[w]
           r == jobs[W.job]
<1>0. W.pc \in JobPcs /\ 0 \in 0 .. MaxAttempts
  BY WatchTypes, BoundAssumption
     DEF Heartbeat, Watchdog, Touch, ExpireRead, ExpireError, ExpireCancel,
         ExitProcess, HeartbeatDies, DoneInv, FrozenInv, SafeInv, Watch
<1>f. W.job \in Jobs /\ r \in Row /\ PublishOK(w)
  BY <1>0, OwnKnown
<1>d. ASSUME NEW mode, Watched(w, mode), mode = "cancel" => r.cancel, RowsMove,
             UNCHANGED <<files, tombstones, request>>
      PROVE  DoneInv' /\ Lifecycle!Next
  <2>1. ProcessesKnow
    BY <1>0, <1>d, KnowsWatched DEF JobOf
  <2> QED
    BY <1>d, <2>1, TakesSame, WorkerDone
<1>1. CASE Touch(w)
  <2> DEFINE row == [r EXCEPT !.stale = FALSE]
  <2>1. row.status = r.status /\ row.cancel = r.cancel /\ row.take = r.take /\ row.held = r.held
    BY <1>f DEF Row
  <2>2. UpdateRow(W.job, row)
    BY <1>1 DEF Touch
  <2>3. RowsMove
    <3> HIDE DEF row
    <3> QED
      BY <1>f, <2>1, <2>2, MoveControl, MovesOne
  <2> QED
    BY <1>1, <2>3, TakesSame, ProcessesSame, WorkerDone DEF Touch
<1>2. CASE ExpireRead(w)
  BY <1>2, <1>d, MovesSame DEF ExpireRead
<1>3. CASE ExpireError(w)
  <2>1. CASE r.status = "running"
    <3>1. RowMove(W.job, r, [r EXCEPT !.status = "error", !.take = 0])
      BY <1>0, <1>f, <2>1, MoveSettled
    <3>2. RowsMove
      BY <1>3, <1>f, <2>1, <3>1, MovesOne DEF ExpireError
    <3> QED
      BY <1>3, <1>d, <2>1, <3>2 DEF ExpireError
  <2>2. CASE r.status # "running"
    BY <1>3, <1>d, <2>2, MovesSame DEF ExpireError
  <2> QED
    BY <2>1, <2>2
<1>4. CASE ExpireCancel(w)
  <2>1. r.cancel
    BY <1>4, <1>f DEF ExpireCancel, PublishOK, JobOf
  <2>2. RowMove(W.job, r, MarkCancelled(r, 0))
    BY <1>0, <1>f, <2>1, MoveTransitions
  <2>3. RowsMove
    BY <1>4, <1>f, <2>2, MovesOne DEF ExpireCancel
  <2> QED
    BY <1>4, <1>d, <2>3 DEF ExpireCancel
<1>5. CASE ExitProcess(w)
  <2>1. Looping("down").pc \notin JobPcs
    BY DEF Looping, JobPcs, CommitPcs
  <2>2. ProcessesKnow
    BY <1>5, <2>1, KnowsBecome DEF ExitProcess
  <2> QED
    BY <1>5, <2>2, MovesSame, TakesSame, WorkerDone DEF ExitProcess
<1>6. ~HeartbeatDies(w)
  BY DEF Calm, HeartbeatDies
<1> QED
  BY <1>1, <1>2, <1>3, <1>4, <1>5, <1>6 DEF Heartbeat, Watchdog

LEMMA LoopDone ==
  ASSUME DoneInv, FrozenInv', NEW w \in Workers, Loop(w)
  PROVE  DoneInv' /\ Lifecycle!Next
<1> USE DEF store, clientSide
<1>0. \A pc \in LoopPcs : pc \notin JobPcs /\ Looping(pc).pc \notin JobPcs
  BY PcKinds DEF Looping
<1>g. ASSUME NEW pc \in LoopPcs, Goto(w, pc) PROVE ProcessesKnow
  <2>1. pc \notin JobPcs /\ pc \notin UnpublishedPcs /\ pc \notin {"renamed", "merged"}
        /\ pc # "finish" /\ pc # "cancelling"
    BY <1>0 DEF UnpublishedPcs, LoopPcs
  <2> QED
    BY <1>g, <2>1, KnowsGoto
<1>1. CASE WorkerStart(w) \/ WorkerStop(w)
  <2>1. ProcessesKnow
    BY <1>1, <1>g DEF WorkerStart, WorkerStop, LoopPcs
  <2> QED
    BY <1>1, <2>1, MovesSame, TakesSame, WorkerDone DEF WorkerStart, WorkerStop
<1>2. CASE Reclaim(w)
  <2>1. RowsMove
    <3> SUFFICES ASSUME NEW j \in Jobs PROVE RowMove(j, jobs[j], jobs'[j])
      BY DEF RowsMove
    <3>1. jobs'[j] = IF jobs[j].status = "running" /\ jobs[j].stale
                       THEN Reclaimed(jobs[j]) ELSE jobs[j]
      BY <1>2 DEF Reclaim
    <3>2. 0 \in 0 .. MaxAttempts
      BY BoundAssumption
    <3>3. jobs[j].status = "running" => RowMove(j, jobs[j], Reclaimed(jobs[j]))
      BY <3>2, MoveTransitions
    <3> QED
      BY <3>1, <3>3, MoveSame
  <2>2. ProcessesKnow
    BY <1>2, <1>g DEF Reclaim, LoopPcs
  <2> QED
    BY <1>2, <2>1, <2>2, TakesSame, WorkerDone DEF Reclaim
<1>3. CASE Cleanup(w) \/ Judge(w) \/ Discard(w)
  <2>1. /\ worker'[w].pc \in {"claim", "sweep"} /\ UNCHANGED <<jobs, tombstones, request>>
        /\ \A v \in Workers \ {w} : worker'[v] = worker[v]
        /\ Discard(w) \/ UNCHANGED files
    BY <1>3, CleanupMoves DEF DoneInv, FrozenInv, SafeInv
  <2>2. TakesKept
    <3>1. CASE Discard(w)
      <4>1. PICK t \in worker[w].listed : files' = Discarded(t[1], t[2])
        BY <3>1 DEF Discard
      <4>2. t[1] \in Jobs /\ t[2] \in Attempts
        BY <4>1 DEF DoneInv, FrozenInv, SafeInv, TypeOK, Process, Takes
      <4> QED
        BY <4>1, <4>2, TakesDiscard
    <3> QED
      BY <2>1, <3>1, TakesSame
  <2>3. ProcessesKnow
    <3>1. worker'[w].pc \notin JobPcs
      BY <2>1 DEF JobPcs, CommitPcs
    <3> QED
      BY <2>1, <3>1 DEF ProcessesKnow, KnowsMore
  <2> QED
    BY <2>1, <2>2, <2>3, MovesSame, WorkerDone
<1>4. CASE Claim(w)
  <2> DEFINE elig == {j \in Jobs : jobs[j].status = "queued" /\ ~jobs[j].held
                                   /\ ProjectOf[j] \notin tombstones}
             runnable == {j \in elig : jobs[j].creation # 0}
             oldest == {j \in runnable : \A k \in runnable : jobs[j].born <= jobs[k].born}
             Hold(S) == [j \in Jobs |-> IF j \in S THEN [jobs[j] EXCEPT !.held = TRUE] ELSE jobs[j]]
  <2>0. UNCHANGED <<files, tombstones, request>> /\ TakesKept
    BY <1>4, TakesSame DEF Claim
  <2>1. ASSUME NEW S \in SUBSET elig, NEW j \in Jobs PROVE RowMove(j, jobs[j], Hold(S)[j])
    <3>1. CASE j \in S
      <4> DEFINE s == [jobs[j] EXCEPT !.held = TRUE]
      <4>1. s.status = "queued" /\ jobs[j].status = "queued" /\ s.held
            /\ s.cancel = jobs[j].cancel
        BY <3>1, RowKnown DEF Row
      <4> HIDE DEF s
      <4>2. RowMove(j, jobs[j], s)
        BY <4>1 DEF RowMove, Settles, HeldRow
      <4> QED
        BY <3>1, <4>2 DEF s
    <3>2. CASE j \notin S
      BY <3>2, MoveSame
    <3> QED
      BY <3>1, <3>2
  <2>2. CASE jobs' = Hold(elig) /\ Goto(w, "reclaim")
    <3>1. RowsMove
      BY <2>1, <2>2 DEF RowsMove
    <3>2. ProcessesKnow
      BY <1>g, <2>2 DEF LoopPcs
    <3> QED
      BY <2>0, <3>1, <3>2, WorkerDone
  <2>3. ASSUME NEW j \in oldest,
               LET r == jobs[j]  a == r.attempts + 1 IN
               /\ jobs' = [Hold({k \in elig \ runnable : jobs[k].born < r.born}) EXCEPT ![j] =
                    [r EXCEPT !.status = "running", !.stale = FALSE, !.attempts = a, !.token = a]]
               /\ Become(w, [pc |-> "claimed", job |-> j, attempt |-> a, creation |-> r.creation,
                             seed |-> r.resolved, drawn |-> r.resolved = None, take |-> 0,
                             watch |-> "armed", listed |-> {}, bare |-> {}, doomed |-> None])
        PROVE  DoneInv' /\ Lifecycle!Next
    <3> DEFINE r == jobs[j]
               a == r.attempts + 1
               S == {k \in elig \ runnable : jobs[k].born < r.born}
               row == [r EXCEPT !.status = "running", !.stale = FALSE, !.attempts = a, !.token = a]
               p == [pc |-> "claimed", job |-> j, attempt |-> a, creation |-> r.creation,
                     seed |-> r.resolved, drawn |-> r.resolved = None, take |-> 0,
                     watch |-> "armed", listed |-> {}, bare |-> {}, doomed |-> None]
    <3>1. j \in Jobs /\ r.status = "queued" /\ ~r.held /\ S \in SUBSET elig
      OBVIOUS
    <3>2. r \in Row /\ SafeRow(r)
      BY <3>1, RowKnown
    <3>3. row.status = "running" /\ row.cancel = r.cancel /\ row.held = r.held
      BY <3>2 DEF Row
    <3>4. p.pc = "claimed" /\ p.job = j /\ p.attempt = a /\ p.watch = "armed"
      OBVIOUS
    <3>5. Become(w, p) /\ jobs' = [Hold(S) EXCEPT ![j] = row]
      BY <2>3
    <3>6. RowMove(j, r, row)
      <4> HIDE DEF row
      <4> QED
        BY <3>1, <3>2, <3>3 DEF RowMove, Settles, HeldRow, SafeRow
    <3>7. RowsMove
      <4>1. jobs'[j] = row /\ \A k \in Jobs \ {j} : jobs'[k] = Hold(S)[k]
        BY <3>1, <3>5
      <4> HIDE DEF Hold, S, row
      <4> QED
        BY <2>1, <3>1, <3>6, <4>1 DEF RowsMove
    <3> HIDE DEF p, row, S, Hold, oldest
    <3>8. worker'[w] = p => PublishOK(w)'
      <4> SUFFICES ASSUME worker'[w] = p PROVE PublishOK(w)'
        OBVIOUS
      <4>1. a \in Attempts /\ ~(a <= r.attempts)
        BY <3>1, <3>2, RowKnown, BoundAssumption DEF RowOK, MayRun, Row, Attempts
      <4>2. files[j][a].state = "none"
        BY <3>1, <4>1 DEF DoneInv, FrozenInv, FilesClaimed
      <4>3. FileOf(w)'.state = "none"
        BY <2>0, <3>4, <4>2 DEF FileOf
      <4> QED
        BY <3>4, <4>3 DEF PublishOK
    <3>9. ProcessesKnow
      BY <3>5, <3>8, KnowsBecome
    <3> QED
      BY <2>0, <3>7, <3>9, WorkerDone
  <2> QED
    BY <1>4, <2>2, <2>3 DEF Claim
<1>5. CASE Crash(w)
  <2>1. ProcessesKnow
    BY <1>0, <1>5, KnowsBecome DEF Crash, LoopPcs
  <2> QED
    BY <1>5, <2>1, MovesSame, TakesSame, WorkerDone DEF Crash
<1> QED
  BY <1>1, <1>2, <1>3, <1>4, <1>5 DEF Loop

-----------------------------------------------------------------------------
(* The steps of an attempt *)

LEMMA AbandonDone ==
  ASSUME DoneInv, FrozenInv', NEW w \in Workers, worker[w].pc \in JobPcs, Abandon(w),
         JobOf(w).cancel, worker[w].pc \in UnpublishedPcs
  PROVE  DoneInv' /\ Lifecycle!Next
BY MovesSame, GoDone DEF Abandon, store, clientSide

\* A fenced write that leaves the status and the flags of the row.
LEMMA FencedDone ==
  ASSUME DoneInv, FrozenInv', NEW w \in Workers, worker[w].pc \in UnpublishedPcs,
         NEW row, row.status = JobOf(w).status, row.cancel = JobOf(w).cancel,
         row.held = JobOf(w).held, row.take = JobOf(w).take, Fenced(w, row, "render")
  PROVE  DoneInv' /\ Lifecycle!Next
<1> USE DEF store, clientSide
<1>0. worker[w].pc \in JobPcs /\ worker[w].job \in Jobs
  BY OwnKnown DEF UnpublishedPcs
<1>1. CASE Holds(w)
  <2>1. UpdateRow(worker[w].job, row) /\ Goto(w, "render")
        /\ UNCHANGED <<files, tombstones, request>>
    BY <1>1 DEF Fenced, Holds
  <2>2. RowsMove
    BY <1>0, <2>1, MoveControl, MovesOne DEF JobOf
  <2> QED
    BY <1>0, <2>1, <2>2, GoDone
<1>2. CASE ~Holds(w)
  <2>1. /\ files' = Discarded(worker[w].job, worker[w].attempt) /\ Goto(w, "ended")
        /\ UNCHANGED <<jobs, tombstones, request>>
    BY <1>2 DEF Fenced, Holds
  <2> QED
    BY <1>0, <2>1, MovesSame, GoDone DEF UnpublishedPcs
<1> QED
  BY <1>1, <1>2

LEMMA BackendDone ==
  ASSUME Calm, DoneInv, FrozenInv', NEW w \in Workers, Backend(w)
  PROVE  DoneInv' /\ Lifecycle!Next
<1> USE DEF store, clientSide
<1> DEFINE W == worker[w]
           j == W.job
           r == jobs[j]
<1>0. W.pc \in UnpublishedPcs /\ W.pc \in JobPcs /\ W.pc # "finish"
  BY DEF Calm, Backend, Freeze, RecordHandle, Render, BackendCancelled, Fail, At, BackendPcs,
         UnpublishedPcs, JobPcs, CommitPcs
<1>f. j \in Jobs /\ W.attempt \in Attempts /\ r \in Row /\ PublishOK(w)
  BY <1>0, OwnKnown
<1>1. CASE Freeze(w)
  <2> DEFINE row == [r EXCEPT !.resolved = W.seed]
  <2>1. row.status = r.status /\ row.cancel = r.cancel /\ row.held = r.held /\ row.take = r.take
    BY <1>f DEF Row
  <2>2. Fenced(w, row, "render")
    BY <1>1 DEF Freeze
  <2> HIDE DEF row
  <2> QED
    BY <1>0, <2>1, <2>2, FencedDone DEF JobOf
<1>2. CASE RecordHandle(w)
  <2> DEFINE row == [r EXCEPT !.remote = TRUE]
  <2>1. row.status = r.status /\ row.cancel = r.cancel /\ row.held = r.held /\ row.take = r.take
    BY <1>f DEF Row
  <2>2. Fenced(w, row, "render")
    BY <1>2 DEF RecordHandle
  <2> HIDE DEF row
  <2> QED
    BY <1>0, <2>1, <2>2, FencedDone DEF JobOf
<1>3. CASE Render(w)
  <2> DEFINE mode == IF W.watch = "armed" THEN "lifted" ELSE W.watch
             p == [W EXCEPT !.pc = "rendered", !.watch = mode]
             f == [files[j][W.attempt] EXCEPT !.state = Rebuilt(j, W.attempt)]
  <2>1. /\ Become(w, p) /\ files' = [files EXCEPT ![j][W.attempt] = f]
        /\ UNCHANGED <<jobs, tombstones, request>>
    BY <1>3 DEF Render
  <2>2. p.pc = "rendered" /\ p.job = j /\ p.attempt = W.attempt /\ p.watch = mode
    <3> HIDE DEF mode
    <3> QED
      BY <1>0, OwnFields
  <2>3. f.state # "take" /\ files[j][W.attempt].state # "take"
    <3>1. files[j][W.attempt] \in File
      BY <1>f DEF DoneInv, FrozenInv, SafeInv, TypeOK
    <3>2. f.state = Rebuilt(j, W.attempt)
      BY <3>1 DEF File
    <3>3. files[j][W.attempt].state # "take"
      BY <1>0, <1>f DEF PublishOK, FileOf
    <3> QED
      BY <3>2, <3>3 DEF Rebuilt
  <2>4. mode = "cancel" => W.watch = "cancel"
    OBVIOUS
  <2> HIDE DEF p, f, mode
  <2>5. TakesKept
    BY <1>f, <2>1, <2>3, TakesBut
  <2>6. worker'[w] = p => KnowsMore(w)
    BY <1>0, <2>2, <2>4 DEF KnowsMore
  <2>7. ProcessesKnow
    BY <2>1, <2>6, KnowsBecome
  <2> QED
    BY <2>1, <2>5, <2>7, MovesSame, WorkerDone
<1>4. CASE BackendCancelled(w)
  BY <1>0, <1>4, AbandonDone DEF BackendCancelled, JobOf
<1>5. CASE Fail(w)
  <2> DEFINE p == [W EXCEPT !.pc = "raised", !.take = W.take]
  <2>1. Become(w, p) /\ UNCHANGED <<jobs, files, tombstones, request>>
    BY <1>0, <1>5 DEF Fail
  <2>2. p.pc = "raised" /\ p.job = j /\ p.attempt = W.attempt /\ p.watch = W.watch
    BY <1>0, OwnFields
  <2> HIDE DEF p
  <2>3. worker'[w] = p => KnowsMore(w)
    BY <1>0, <2>2 DEF KnowsMore
  <2>4. ProcessesKnow
    BY <2>1, <2>3, KnowsBecome
  <2> QED
    BY <2>1, <2>4, MovesSame, TakesSame, WorkerDone
<1> QED
  BY <1>1, <1>2, <1>3, <1>4, <1>5 DEF Backend

LEMMA BeforeCommitDone ==
  ASSUME DoneInv, FrozenInv', NEW w \in Workers,
         \/ CancelCheck(w) \/ FindCommitted(w) \/ FinishExisting(w) \/ Resolve(w)
         \/ Allocate(w) \/ Mark(w) \/ AfterRender(w) \/ MarkCancel(w)
  PROVE  DoneInv' /\ Lifecycle!Next
<1> USE DEF store, clientSide
<1> DEFINE W == worker[w]
           j == W.job
           r == jobs[j]
<1>0. W.pc \in UnpublishedPcs /\ W.pc \in JobPcs
  BY DEF CancelCheck, FindCommitted, FinishExisting, Resolve, Allocate, Mark, AfterRender,
         MarkCancel, At, UnpublishedPcs, JobPcs, CommitPcs
<1>f. /\ j \in Jobs /\ W.attempt \in Attempts /\ r \in Row /\ PublishOK(w)
      /\ W.attempt \in 0 .. MaxAttempts /\ W.take \in 0 .. MaxAttempts
  BY <1>0, OwnKnown
<1>g. ASSUME NEW pc, Goto(w, pc), pc \notin {"renamed", "merged", "finish"},
             pc = "cancelling" => r.cancel, RowsMove, UNCHANGED <<files, tombstones, request>>
      PROVE  DoneInv' /\ Lifecycle!Next
  BY <1>0, <1>g, GoDone DEF JobOf
<1>b. ASSUME NEW p, Become(w, p), worker'[w] = p => KnowsMore(w), TakesKept,
             UNCHANGED <<jobs, tombstones, request>>
      PROVE  DoneInv' /\ Lifecycle!Next
  <2>1. ProcessesKnow
    BY <1>b, KnowsBecome
  <2> QED
    BY <1>b, <2>1, MovesSame, WorkerDone
<1>w. ASSUME NEW f, f.state # "take", files' = [files EXCEPT ![j][W.attempt] = f] PROVE TakesKept
  BY <1>0, <1>f, <1>w, TakesBut DEF PublishOK, FileOf
<1>m. ASSUME NEW pc, pc \in UnpublishedPcs \ {"finish", "cancelling"}, Goto(w, pc), TakesKept,
             UNCHANGED <<jobs, tombstones, request>>
      PROVE  DoneInv' /\ Lifecycle!Next
  <2>1. ProcessesKnow
    BY <1>0, <1>m, KnowsGoto DEF UnpublishedPcs
  <2> QED
    BY <1>m, <2>1, MovesSame, WorkerDone
<1>1. CASE CancelCheck(w)
  BY <1>1, <1>g, MovesSame DEF CancelCheck
<1>2. CASE FindCommitted(w)
  <2>1. CASE Goto(w, "resolve")
    BY <1>2, <1>g, <2>1, MovesSame DEF FindCommitted
  <2>2. ASSUME NEW a \in PriorTakes(j), Become(w, [W EXCEPT !.pc = "finish", !.take = a])
        PROVE  DoneInv' /\ Lifecycle!Next
    <3> DEFINE p == [W EXCEPT !.pc = "finish", !.take = a]
    <3>1. /\ p.pc = "finish" /\ p.job = j /\ p.attempt = W.attempt /\ p.take = a
          /\ p.watch = W.watch /\ Become(w, p)
      BY <1>0, <2>2, OwnFields
    <3> HIDE DEF p
    <3>2. worker'[w] = p => KnowsMore(w)
      BY <1>0, <3>1 DEF KnowsMore, PriorTakes
    <3> QED
      BY <1>2, <1>b, <3>1, <3>2, TakesSame DEF FindCommitted
  <2> QED
    BY <1>2, <2>1, <2>2 DEF FindCommitted
<1>3. CASE FinishExisting(w)
  <2>1. ProjectOf[j] \in tombstones \/ W.take \in CommittedTakes(j)
    BY <1>3, <1>f DEF FinishExisting, PublishOK
  <2>2. RowMove(j, r, FinishDone(r, W.attempt, W.take))
    BY <1>f, <2>1, MoveTransitions
  <2>3. RowsMove
    BY <1>3, <1>f, <2>2, MovesOne DEF FinishExisting
  <2> QED
    BY <1>3, <1>g, <2>3 DEF FinishExisting
<1>4. CASE Resolve(w)
  <2>1. CASE r.cancel
    BY <1>4, <1>g, <2>1, MovesSame DEF Resolve
  <2>2. CASE ~r.cancel
    <3>1. PICK s \in (IF W.drawn THEN Seeds ELSE {W.seed}) :
                 Become(w, [W EXCEPT !.pc = "allocate", !.seed = s])
      BY <1>4, <2>2 DEF Resolve
    <3> DEFINE p == [W EXCEPT !.pc = "allocate", !.seed = s]
    <3>2. /\ p.pc = "allocate" /\ p.job = j /\ p.attempt = W.attempt
          /\ p.watch = W.watch /\ Become(w, p)
      BY <1>0, <3>1, OwnFields
    <3> HIDE DEF p
    <3>3. worker'[w] = p => KnowsMore(w)
      BY <1>0, <3>2 DEF KnowsMore
    <3> QED
      BY <1>4, <1>b, <3>2, <3>3, TakesSame DEF Resolve
  <2> QED
    BY <2>1, <2>2
<1>5. CASE Allocate(w)
  <2>1. CASE Loads(ProjectOf[j])
    <3> DEFINE f == [NoFile EXCEPT !.state = "bare"]
    <3>1. Goto(w, "mark") /\ files' = [files EXCEPT ![j][W.attempt] = f]
          /\ UNCHANGED <<jobs, tombstones, request>>
      BY <1>5, <2>1 DEF Allocate
    <3>2. f.state # "take" /\ "mark" \in UnpublishedPcs
      BY DEF NoFile, UnpublishedPcs, JobPcs
    <3> HIDE DEF f
    <3>3. TakesKept
      BY <1>w, <3>1, <3>2
    <3> QED
      BY <1>m, <3>1, <3>2, <3>3
  <2>2. CASE ~Loads(ProjectOf[j])
    BY <1>5, <1>g, <2>2, MovesSame DEF Allocate
  <2> QED
    BY <2>1, <2>2
<1>8. CASE Mark(w)
  <2> DEFINE pc == IF RemoteGpu THEN "submit" ELSE IF W.drawn THEN "freeze" ELSE "render"
             p == [W EXCEPT !.pc = pc, !.take = W.attempt]
             f == [files[j][W.attempt] EXCEPT !.state = "staged"]
  <2>1. /\ Become(w, p) /\ files' = [files EXCEPT ![j][W.attempt] = f]
        /\ UNCHANGED <<jobs, tombstones, request>>
    <3>1. [W EXCEPT !.take = W.attempt, !.pc = pc] = p
      <4> HIDE DEF pc
      <4>1. W \in Process
        BY <1>0, OwnKnown
      <4> QED
        BY <4>1 DEF Process
    <3> QED
      BY <1>8, <3>1 DEF Mark
  <2>2. pc \in {"submit", "freeze", "render"}
    OBVIOUS
  <2>3. p.pc = pc /\ p.job = j /\ p.attempt = W.attempt /\ p.watch = W.watch
    <3> HIDE DEF pc
    <3> QED
      BY <1>0, OwnFields
  <2>4. f.state # "take"
    <3>1. files[j][W.attempt] \in File
      BY <1>f DEF DoneInv, FrozenInv, SafeInv, TypeOK
    <3> QED
      BY <3>1 DEF File
  <2> HIDE DEF p, pc, f
  <2>5. TakesKept
    BY <1>w, <2>1, <2>4
  <2>6. worker'[w] = p => KnowsMore(w)
    BY <1>0, <2>2, <2>3 DEF KnowsMore
  <2> QED
    BY <1>b, <2>1, <2>5, <2>6
<1>6. CASE AfterRender(w)
  <2>1. CASE r.cancel
    BY <1>0, <1>6, <2>1, AbandonDone DEF AfterRender, JobOf
  <2>2. CASE ~r.cancel
    <3> DEFINE f == [state |-> Rebuilt(j, W.attempt), creation |-> RenderedPlan(W),
                     seed |-> W.seed]
    <3>1. Goto(w, "commit") /\ files' = [files EXCEPT ![j][W.attempt] = f]
          /\ UNCHANGED <<jobs, tombstones, request>>
      BY <1>6, <2>2 DEF AfterRender
    <3>2. f.state # "take" /\ "commit" \in UnpublishedPcs
      BY <1>0, <1>f DEF Rebuilt, PublishOK, FileOf, UnpublishedPcs, JobPcs
    <3> HIDE DEF f
    <3>3. TakesKept
      BY <1>w, <3>1, <3>2
    <3> QED
      BY <1>m, <3>1, <3>2, <3>3
  <2> QED
    BY <2>1, <2>2
<1>7. CASE MarkCancel(w)
  <2>1. r.cancel
    BY <1>7, <1>f DEF MarkCancel, PublishOK, JobOf
  <2>2. RowMove(j, r, MarkCancelled(r, W.attempt))
    BY <1>f, <2>1, MoveTransitions
  <2>3. RowsMove
    BY <1>7, <1>f, <2>2, MovesOne DEF MarkCancel
  <2> QED
    BY <1>7, <1>g, <2>3 DEF MarkCancel
<1> QED
  BY <1>1, <1>2, <1>3, <1>4, <1>5, <1>6, <1>7, <1>8

\* The rename publishes the first take of a running job that nobody
\* cancelled, in a project that is there.
LEMMA PromoteDone ==
  ASSUME DoneInv, FrozenInv', NEW w \in Workers, Promote(w),
         NEW j \in Jobs, worker[w].job = j, ~Goto(w, "raised")
  PROVE  DoneInv' /\ Lifecycle!Next
<1> USE DEF store, clientSide
<1> DEFINE W == worker[w]
           r == jobs[j]
           f == [files[j][W.attempt] EXCEPT !.state = "take"]
<1>0. W.pc = "unmarked" /\ W.pc \in JobPcs /\ UNCHANGED <<jobs, tombstones, request>>
  BY DEF Promote, JobPcs, CommitPcs
<1>f. j \in Jobs /\ W.attempt \in Attempts /\ r \in Row /\ PublishOK(w)
  BY <1>0, OwnKnown
<1>1. /\ r.status = "running" /\ ~r.cancel /\ ProjectOf[j] \notin tombstones
      /\ CommittedTakes(j) = {}
  BY <1>0, <1>f DEF DoneInv, FrozenInv, SafeInv, CommitReady, DbPcs, CommittedTakes
<1>2. PICK pc \in {"renamed", "merged"} : Goto(w, pc)
  BY DEF Promote
<1> DEFINE p == [W EXCEPT !.pc = pc]
<1>3. /\ p.pc = pc /\ p.job = j /\ p.attempt = W.attempt /\ p.watch = W.watch
      /\ Become(w, p)
  <2>1. W \in Process
    BY <1>0, OwnKnown
  <2> QED
    BY <1>2, <2>1 DEF Process, Goto, Become
<1> HIDE DEF p
<1>4. worker'[w] = p /\ \A v \in Workers \ {w} : worker'[v] = worker[v]
  BY <1>3 DEF Become, DoneInv, FrozenInv, SafeInv, TypeOK
<1>5. /\ files'[j][W.attempt].state = "take"
      /\ \A k \in Jobs : \A a \in Attempts :
           k # j \/ a # W.attempt => files'[k][a] = files[k][a]
  <2>1. files[j][W.attempt] \in File
    BY <1>f DEF DoneInv, FrozenInv, SafeInv, TypeOK
  <2>2. f.state = "take"
    BY <2>1 DEF File
  <2>3. files' = [files EXCEPT ![j][W.attempt] = f]
    BY DEF Promote
  <2> HIDE DEF f
  <2> QED
    BY <1>f, <2>2, <2>3 DEF DoneInv, FrozenInv, SafeInv, TypeOK
<1>6. /\ CommittedTakes(j)' = {W.attempt}
      /\ \A k \in Jobs \ {j} : CommittedTakes(k)' = CommittedTakes(k)
  BY <1>f, <1>1, <1>5 DEF CommittedTakes
<1>7. RowsMove /\ TombstonesKept
  BY <1>0, MovesSame DEF TombstonesKept
<1>8. PublishersOK'
  <2>1. PublishOK(w)'
    <3>1. FileOf(w)'.state = "take" /\ JobOf(w)' = r
      BY <1>0, <1>3, <1>4, <1>5 DEF FileOf, JobOf
    <3>2. W.watch = "cancel" => r.cancel
      BY <1>f DEF PublishOK, JobOf
    <3> QED
      BY <1>3, <1>4, <3>1, <3>2 DEF PublishOK, UnpublishedPcs
  <2>2. ASSUME NEW v \in Workers \ {w}, worker[v].pc \in JobPcs PROVE PublishOK(v)'
    <3>1. worker[v].job \in Jobs /\ worker[v].attempt \in Attempts
      BY <2>2, OwnKnown
    <3>2. worker[v].job # j \/ worker[v].attempt # W.attempt
      BY <1>0, <2>2 DEF DoneInv, FrozenInv, OneProcessPerAttempt
    <3>3. FileOf(v)' = FileOf(v) /\ KnowsMore(v)
      BY <1>4, <1>5, <2>2, <3>1, <3>2 DEF FileOf, KnowsMore
    <3>4. PICK k \in Jobs : k = worker[v].job /\ k = worker'[v].job
      BY <1>4, <3>1
    <3>5. CommittedTakes(k) \subseteq CommittedTakes(k)'
      BY <1>1, <1>6
    <3>6. CommittedTakes(worker[v].job) \subseteq CommittedTakes(worker[v].job)'
      BY <3>4, <3>5 DEF CommittedTakes
    <3> QED
      BY <1>7, <3>3, <3>6, KnowsKept
  <2> QED
    BY <1>4, <2>1, <2>2 DEF PublishersOK
<1>9. DoneNamesTake'
  BY <1>0, <1>1, <1>6 DEF DoneInv, DoneNamesTake
<1>10. DeletionsFinal' /\ HeldRows'
  BY <1>0 DEF DoneInv, DeletionsFinal, HeldRows
<1>11. Lifecycle!Step(j)
  <2>1. Lifecycle!Publish(j)
    BY <1>0, <1>f, <1>1, <1>6 DEF Lifecycle!Publish, Lifecycle!Moves, Lifecycle!KeepsAsked
  <2> QED
    BY <2>1 DEF Lifecycle!Step
<1>12. ASSUME NEW k \in Jobs \ {j} PROVE Lifecycle!Step(k)
  BY <1>6, <1>7, RowLifecycle DEF RowsMove
<1> QED
  BY <1>8, <1>9, <1>10, <1>11, <1>12 DEF DoneInv, Lifecycle!Next

LEMMA CommitDone ==
  ASSUME DoneInv, FrozenInv', NEW w \in Workers,
         \/ CommitCheck(w) \/ Unmark(w) \/ Promote(w) \/ MergeBrief(w) \/ CommitSql(w)
         \/ Activate(w)
  PROVE  DoneInv' /\ Lifecycle!Next
<1> USE DEF store, clientSide
<1> DEFINE W == worker[w]
           j == W.job
           r == jobs[j]
<1>0. W.pc \in JobPcs
  BY DEF CommitCheck, Unmark, Promote, MergeBrief, CommitSql, Activate, JobPcs, CommitPcs
<1>f. j \in Jobs /\ W.attempt \in Attempts /\ r \in Row /\ PublishOK(w)
  BY <1>0, OwnKnown
<1>1. CASE CommitCheck(w)
  <2> DEFINE drop == files' = Discarded(j, W.attempt)
  <2>0. W.pc = "commit" /\ W.pc \in UnpublishedPcs /\ UNCHANGED <<tombstones, request>>
    BY <1>1 DEF CommitCheck, UnpublishedPcs, JobPcs
  <2>1. CASE drop /\ Goto(w, "ended") /\ UNCHANGED jobs
    BY <1>0, <2>0, <2>1, MovesSame, GoDone
  <2>2. CASE drop /\ r.cancel /\ Goto(w, "cancelling") /\ UNCHANGED jobs
    BY <1>0, <2>0, <2>2, MovesSame, GoDone DEF JobOf
  <2>3. CASE drop /\ Become(w, [W EXCEPT !.pc = "failstatus", !.take = 0]) /\ UNCHANGED jobs
    <3> DEFINE p == [W EXCEPT !.pc = "failstatus", !.take = 0]
    <3>1. /\ p.pc = "failstatus" /\ p.job = j /\ p.attempt = W.attempt /\ p.watch = W.watch
          /\ Become(w, p)
      BY <1>0, <2>3, OwnFields
    <3> HIDE DEF p
    <3>2. worker'[w] = p => KnowsMore(w)
      BY <1>0, <2>0, <3>1 DEF KnowsMore
    <3>3. ProcessesKnow
      BY <3>1, <3>2, KnowsBecome
    <3> QED
      BY <1>f, <2>0, <2>3, <3>3, MovesSame, TakesDiscard, WorkerDone
  <2>4. CASE Goto(w, "promote") /\ UNCHANGED <<jobs, files>>
    BY <1>0, <2>0, <2>4, MovesSame, GoDone
  <2>5. ASSUME NEW a \in PriorTakes(j), UpdateRow(j, [r EXCEPT !.status = "done", !.take = a]),
               Owns(j, W.attempt), ~r.cancel, drop, Goto(w, "ended")
        PROVE  DoneInv' /\ Lifecycle!Next
    <3>1. a \in 0 .. MaxAttempts /\ a \in CommittedTakes(j) /\ r.status = "running"
      BY <2>5 DEF PriorTakes, CommittedTakes, Attempts, Owns
    <3>2. RowMove(j, r, [r EXCEPT !.status = "done", !.take = a])
      BY <1>f, <2>5, <3>1, MoveSettled
    <3>3. RowsMove
      BY <1>f, <2>5, <3>2, MovesOne
    <3> QED
      BY <1>0, <2>0, <2>5, <3>3, GoDone
  <2> QED
    BY <1>1, <2>1, <2>2, <2>3, <2>4, <2>5 DEF CommitCheck
<1>2. ASSUME Unmark(w) \/ Promote(w), Goto(w, "raised"), UNCHANGED files
      PROVE  DoneInv' /\ Lifecycle!Next
  BY <1>0, <1>2, MovesSame, GoDone DEF Unmark, Promote, UnpublishedPcs, JobPcs, CommitPcs
<1>6. CASE Unmark(w)
  <2>1. CASE Goto(w, "raised") /\ UNCHANGED files
    BY <1>2, <1>6, <2>1
  <2>2. CASE files' = [files EXCEPT ![j][W.attempt].state = "bare"] /\ Goto(w, "unmarked")
    <3> DEFINE f == [files[j][W.attempt] EXCEPT !.state = "bare"]
    <3>1. files[j][W.attempt] \in File
      BY <1>f DEF DoneInv, FrozenInv, SafeInv, TypeOK
    <3>2. f.state # "take" /\ files' = [files EXCEPT ![j][W.attempt] = f]
      BY <2>2, <3>1 DEF File
    <3>3. W.pc \in UnpublishedPcs /\ UNCHANGED <<jobs, tombstones, request>>
      BY <1>6 DEF Unmark, UnpublishedPcs, JobPcs, CommitPcs
    <3>4. files[j][W.attempt].state # "take"
      BY <1>f, <3>3 DEF PublishOK, FileOf
    <3> HIDE DEF f
    <3>5. TakesKept
      BY <1>f, <3>2, <3>4, TakesBut
    <3>6. ProcessesKnow
      BY <1>0, <2>2, <3>3, KnowsGoto
    <3> QED
      BY <3>3, <3>5, <3>6, MovesSame, WorkerDone
  <2> QED
    BY <1>6, <2>1, <2>2 DEF Unmark
<1>7. CASE Promote(w)
  <2>1. CASE Goto(w, "raised")
    <3>1. worker'[w].pc = "raised"
      BY <1>f, <2>1 DEF Goto, DoneInv, FrozenInv, SafeInv, TypeOK, Process
    <3>2. \A pc : Goto(w, pc) => worker'[w].pc = pc
      BY <1>f DEF Goto, DoneInv, FrozenInv, SafeInv, TypeOK, Process
    <3>3. UNCHANGED files
      BY <1>7, <3>1, <3>2 DEF Promote
    <3> QED
      BY <1>2, <1>7, <2>1, <3>3
  <2>2. CASE ~Goto(w, "raised")
    BY <1>7, <1>f, <2>2, PromoteDone
  <2> QED
    BY <2>1, <2>2
<1>3. CASE MergeBrief(w)
  BY <1>0, <1>3, MovesSame, GoDone DEF MergeBrief, UnpublishedPcs
<1>4. CASE CommitSql(w)
  <2>1. /\ W.pc = "merged" /\ UpdateRow(j, [r EXCEPT !.status = "done", !.take = W.attempt])
        /\ Goto(w, "committed") /\ UNCHANGED <<files, tombstones, request>>
    BY <1>4 DEF CommitSql
  <2>2. r.status = "running" /\ ~r.cancel
    BY <2>1 DEF DoneInv, FrozenInv, SafeInv, CommitReady, DbPcs
  <2>3. W.attempt \in CommittedTakes(j) /\ W.attempt \in 0 .. MaxAttempts
    BY <1>0, <1>f, <2>1, OwnKnown DEF PublishOK, FileOf, CommittedTakes
  <2>4. RowMove(j, r, [r EXCEPT !.status = "done", !.take = W.attempt])
    BY <1>f, <2>2, <2>3, MoveSettled
  <2>5. RowsMove
    BY <1>f, <2>1, <2>4, MovesOne
  <2> QED
    BY <1>0, <2>1, <2>5, GoDone DEF UnpublishedPcs
<1>5. CASE Activate(w)
  BY <1>0, <1>5, MovesSame, GoDone DEF Activate, UnpublishedPcs
<1> QED
  BY <1>1, <1>3, <1>4, <1>5, <1>6, <1>7

LEMMA AfterFailureDone ==
  ASSUME Calm, DoneInv, FrozenInv', NEW w \in Workers,
         Handle(w) \/ WriteErrorTake(w) \/ SetErrorStatus(w) \/ Join(w)
  PROVE  DoneInv' /\ Lifecycle!Next
<1> USE DEF store, clientSide
<1> DEFINE W == worker[w]
           j == W.job
           r == jobs[j]
<1>0. W.pc \in JobPcs
  BY DEF Handle, WriteErrorTake, SetErrorStatus, Join, At, JobPcs
<1>f. /\ j \in Jobs /\ W.attempt \in Attempts /\ r \in Row /\ PublishOK(w)
      /\ W.attempt \in 0 .. MaxAttempts /\ W.take \in 0 .. MaxAttempts
  BY <1>0, OwnKnown
<1>1. CASE Handle(w)
  <2>1. W.pc \in UnpublishedPcs
    BY <1>1 DEF Handle, UnpublishedPcs, JobPcs
  <2>2. /\ UNCHANGED files \/ files' = Discarded(j, W.attempt)
        /\ UNCHANGED <<jobs, tombstones, request>>
    BY <1>1 DEF Handle
  <2>3. PICK pc \in {"cancelling", "failing", "failstatus"} :
          Goto(w, pc) /\ (pc = "cancelling" => r.cancel)
    BY <1>1 DEF Handle
  <2> QED
    BY <1>0, <2>1, <2>2, <2>3, MovesSame, GoDone DEF JobOf
<1>2. CASE WriteErrorTake(w)
  <2>0. UNCHANGED <<jobs, tombstones, request>> /\ W.pc \in UnpublishedPcs
    BY <1>2 DEF WriteErrorTake, UnpublishedPcs, JobPcs
  <2>1. CASE files' = [files EXCEPT ![j][W.attempt].state = "error"] /\ Goto(w, "failstatus")
    <3> DEFINE f == [files[j][W.attempt] EXCEPT !.state = "error"]
    <3>1. files[j][W.attempt] \in File
      BY <1>f DEF DoneInv, FrozenInv, SafeInv, TypeOK
    <3>2. f.state # "take" /\ files' = [files EXCEPT ![j][W.attempt] = f]
      BY <2>1, <3>1 DEF File
    <3>3. files[j][W.attempt].state # "take"
      BY <1>f, <2>0 DEF PublishOK, FileOf
    <3> HIDE DEF f
    <3>4. TakesKept
      BY <1>f, <3>2, <3>3, TakesBut
    <3>5. ProcessesKnow
      BY <1>0, <2>0, <2>1, KnowsGoto
    <3> QED
      BY <2>0, <3>4, <3>5, MovesSame, WorkerDone
  <2>2. CASE Become(w, [W EXCEPT !.pc = "failstatus", !.take = 0]) /\ UNCHANGED files
    <3> DEFINE p == [W EXCEPT !.pc = "failstatus", !.take = 0]
    <3>1. /\ p.pc = "failstatus" /\ p.job = j /\ p.attempt = W.attempt /\ p.watch = W.watch
          /\ Become(w, p)
      BY <1>0, <2>2, OwnFields
    <3> HIDE DEF p
    <3>2. worker'[w] = p => KnowsMore(w)
      BY <1>0, <2>0, <3>1 DEF KnowsMore
    <3>3. ProcessesKnow
      BY <3>1, <3>2, KnowsBecome
    <3> QED
      BY <2>0, <2>2, <3>3, MovesSame, TakesSame, WorkerDone
  <2> QED
    BY <1>2, <2>1, <2>2 DEF WriteErrorTake
<1>3. CASE SetErrorStatus(w)
  <2>1. RowMove(j, r, SetError(r, W.attempt, W.take))
    BY <1>f, MoveTransitions
  <2>2. RowsMove
    BY <1>3, <1>f, <2>1, MovesOne DEF SetErrorStatus
  <2> QED
    BY <1>0, <1>3, <2>2, GoDone DEF SetErrorStatus, UnpublishedPcs
<1>4. CASE Join(w)
  <2>1. Looping("reclaim").pc \notin JobPcs
    BY DEF Looping, JobPcs, CommitPcs
  <2>2. ProcessesKnow
    BY <1>4, <2>1, KnowsBecome DEF Join
  <2> QED
    BY <1>4, <2>2, MovesSame, TakesSame, WorkerDone DEF Join
<1> QED
  BY <1>1, <1>2, <1>3, <1>4

-----------------------------------------------------------------------------
(* The theorems *)

LEMMA NextDone ==
  ASSUME Calm, DoneInv, [Next]_vars
  PROVE  DoneInv' /\ [Lifecycle!Next]_(Lifecycle!vars)
<1>0. FrozenInv'
  BY NextFrozen DEF DoneInv
<1>1. ASSUME NEW c \in Clients, Handler(c) PROVE DoneInv' /\ Lifecycle!Next
  BY <1>0, <1>1, HandlerDone
<1>2. ASSUME NEW w \in Workers, Loop(w) \/ Backend(w) \/ Heartbeat(w)
      PROVE  DoneInv' /\ Lifecycle!Next
  BY <1>0, <1>2, LoopDone, BackendDone, HeartbeatDone
<1>3. ASSUME NEW w \in Workers, Orchestrate(w) PROVE DoneInv' /\ Lifecycle!Next
  BY <1>0, <1>3, BeforeCommitDone, CommitDone, AfterFailureDone DEF Orchestrate
<1>4. CASE UNCHANGED vars
  <2>1. RowsMove /\ TakesKept /\ ProcessesKnow /\ UNCHANGED <<tombstones, request>>
    BY <1>4, MovesSame, TakesSame, ProcessesSame DEF vars
  <2> QED
    BY <1>0, <2>1, WorkerDone
<1> QED
  BY <1>0, <1>1, <1>2, <1>3, <1>4, OutsideDone DEF Next

\* A done job names a playable take until its project is deleted, whichever
\* attempt published it and wherever the workers crashed, as long as neither
\* the worker's storage nor the removal of a project fails.
THEOREM DoneHasItsTake == ASSUME Calm PROVE Spec => []DoneNamesTake
<1>1. Init => DoneInv
  BY InitDone
<1>2. DoneInv /\ [Next]_vars => DoneInv'
  BY NextDone
<1>3. DoneInv => DoneNamesTake
  BY DEF DoneInv
<1> QED
  BY <1>1, <1>2, <1>3, PTL DEF Spec

\* The queue implements the lifecycle of every job: it settles once, with at
\* most one take, is done only with a take, and never queued again or done
\* after an accepted cancel, whatever the interleaving of handlers, workers
\* and watchdogs and wherever they crash.
THEOREM ImplementsTheLifecycle == ASSUME Calm PROVE Spec => ImplementsLifecycle
<1>1. Init => DoneInv /\ Lifecycle!Init
  BY InitDone
<1>2. DoneInv /\ [Next]_vars => DoneInv' /\ [Lifecycle!Next]_(Lifecycle!vars)
  BY NextDone
<1> QED
  BY <1>1, <1>2, PTL DEF Spec, ImplementsLifecycle, Lifecycle!Spec
=============================================================================
