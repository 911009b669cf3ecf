---------------------------- MODULE BackupProofs ----------------------------
(* The safety properties of Backup, proved for every set of jobs and every  *)
(* fault.                                                                    *)
EXTENDS Backup, TLAPS

-----------------------------------------------------------------------------
(* The inductive invariant *)

\* The install: without a database there are no rows and nobody works; every row
\* and project has an id that was given out.
InstallOK ==
  /\ ~install.db => ~server /\ ~worker.on /\ \A j \in Jobs : install.rows[j] = "none"
  /\ install.projects \subseteq used
  /\ \A j \in Jobs : install.rows[j] # "none" => j \in used
  /\ \A j \in Jobs : install.takes[j] <= 1
  /\ ~install.loud => \A j \in Jobs : install.rows[j] = "done" => install.takes[j] > 0

\* The worker: what the lookup found still holds as long as the job is its own.
WorkerOK ==
  /\ ~worker.on => worker.at = "idle"
  /\ worker.at # "idle" => worker.job \in Jobs
  /\ worker.at = "render" /\ Owned => install.takes[worker.job] = 0
  /\ worker.at = "renamed" /\ Owned /\ ~install.loud => install.takes[worker.job] > 0

\* The backup set, complete or not.
SetOK ==
  /\ set.of.projects \subseteq used
  /\ \A j \in Jobs : set.of.rows[j] # "none" => j \in used
  /\ \A j \in Jobs : set.of.takes[j] <= 1 /\ (set.of.takes[j] > 0 => j \in set.of.projects)
  /\ ~set.of.db => \A j \in Jobs : set.of.rows[j] = "none"
  /\ set.complete /\ ~set.of.loud => \A j \in Jobs : set.of.rows[j] = "done" => set.of.takes[j] > 0

\* A backup under way: the takes of the rows that were copied are still there,
\* or listed, or copied, unless a server may have deleted them.
BackupOK ==
  /\ Backing => ~set.complete /\ (~set.of.loud => ~server)
  /\ \A j \in Jobs : tool.listed[j] <= 1
  /\ tool.pc \in {"db", "keys", "list"} => set.of.projects = {}
  /\ tool.pc = "files" => tool.todo \subseteq used /\ tool.todo \cap set.of.projects = {}
  /\ tool.pc \in {"keys", "list"} /\ ~set.of.loud =>
       \A j \in Jobs : set.of.rows[j] = "done" => install.takes[j] > 0
  /\ tool.pc = "files" /\ ~set.of.loud =>
       \A j \in Jobs : set.of.rows[j] = "done" =>
         set.of.takes[j] > 0 \/ (j \in tool.todo /\ tool.listed[j] > 0)

Undamaged == set.damaged \cap {"db", "files"} = {}
Ids == set.of.projects \cup {j \in Jobs : set.of.rows[j] # "none"}

\* A restore of the tree: what is still to be restored is not there yet, and what
\* a server or a worker began meanwhile has no id of the set.
TreeOK == tool.pc = "tree" =>
  /\ tool.todo \subseteq set.of.projects
  /\ \A j \in tool.todo : install.takes[j] = 0
  /\ \A j \in Jobs : install.rows[j] # "none" => j \notin Ids
  /\ worker.at # "idle" => install.rows[worker.job] # "none"
  /\ ~install.loud =>
       /\ ~server /\ worker.at = "idle" /\ \A j \in Jobs : install.rows[j] = "none"
       /\ \A j \in set.of.projects \ tool.todo : install.takes[j] = set.of.takes[j]
  /\ tool.calm =>
       /\ ~worker.on /\ \A j \in Jobs : install.rows[j] = "none"
       /\ install.projects = set.of.projects \ tool.todo
       /\ \A j \in install.projects : install.takes[j] = set.of.takes[j]

RestoreOK ==
  /\ Restoring => set.complete /\ (tool.calm => ~server)
  /\ tool.pc \in {"tree", "rows"} => Undamaged
  /\ TreeOK
  /\ tool.pc = "rows" /\ tool.calm =>
       /\ install.rows = set.of.rows /\ install.projects = set.of.projects
       /\ install.takes = set.of.takes

Safe == TypeOK /\ InstallOK /\ WorkerOK /\ SetOK /\ BackupOK /\ RestoreOK

-----------------------------------------------------------------------------
(* Types *)

SetType == [of: Content, complete: BOOLEAN, damaged: SUBSET Parts]
WorkerType == [on: BOOLEAN, lease: {"none", "fresh", "stale"}, job: Jobs \cup {None},
               at: {"idle", "lookup", "render", "renamed"}]
ToolType == [pc: {"none", "db", "keys", "list", "files", "verify", "tree", "rows", "ended"},
             todo: SUBSET Jobs, listed: [Jobs -> 0 .. 2], calm: BOOLEAN]

LEMMA Types ==
  ASSUME TypeOK
  PROVE  /\ install \in Content /\ set \in SetType /\ server \in BOOLEAN /\ used \subseteq Jobs
         /\ worker \in WorkerType /\ tool \in ToolType
         /\ \A j \in Jobs : install.takes[j] > 0 => j \in install.projects
BY DEF TypeOK, SetType, WorkerType, ToolType

LEMMA InstallFacts ==
  ASSUME TypeOK
  PROVE  /\ install.db \in BOOLEAN /\ install.rows \in [Jobs -> Rows] /\ install.projects \subseteq Jobs
         /\ install.takes \in [Jobs -> 0 .. 2] /\ install.keys \in {"none", "good", "bad"}
         /\ install.loud \in BOOLEAN
         /\ \A j \in Jobs : install.takes[j] \in 0 .. 2 /\ install.rows[j] \in Rows
BY Types DEF Content

LEMMA SetFacts ==
  ASSUME TypeOK
  PROVE  /\ set.of.db \in BOOLEAN /\ set.of.rows \in [Jobs -> Rows] /\ set.of.projects \subseteq Jobs
         /\ set.of.takes \in [Jobs -> 0 .. 2] /\ set.of.keys \in {"none", "good", "bad"}
         /\ set.of.loud \in BOOLEAN /\ set.of \in Content
         /\ set.complete \in BOOLEAN /\ set.damaged \subseteq Parts
         /\ \A j \in Jobs : set.of.takes[j] \in 0 .. 2
BY Types DEF Content, SetType

LEMMA ToolFacts ==
  ASSUME TypeOK
  PROVE  /\ tool.pc \in {"none", "db", "keys", "list", "files", "verify", "tree", "rows", "ended"}
         /\ tool.todo \subseteq Jobs /\ tool.listed \in [Jobs -> 0 .. 2] /\ tool.calm \in BOOLEAN
         /\ \A j \in Jobs : tool.listed[j] \in 0 .. 2
BY Types DEF ToolType

LEMMA WorkerFacts ==
  ASSUME TypeOK
  PROVE  /\ worker.on \in BOOLEAN /\ worker.job \in Jobs \cup {None}
         /\ worker.lease \in {"none", "fresh", "stale"}
         /\ worker.at \in {"idle", "lookup", "render", "renamed"}
BY Types DEF WorkerType

LEMMA NoContentFacts ==
  /\ NoContent \in Content /\ ~NoContent.db /\ NoContent.projects = {} /\ ~NoContent.loud
  /\ \A j \in Jobs : NoContent.rows[j] = "none" /\ NoContent.takes[j] = 0
BY DEF NoContent, Content, Rows

LEMMA NoSetFacts ==
  /\ NoSet \in SetType /\ NoSet.of = NoContent /\ ~NoSet.complete /\ NoSet.damaged = {}
BY NoContentFacts DEF NoSet, SetType

LEMMA OffFacts ==
  ASSUME NEW lease \in {"none", "fresh", "stale"}
  PROVE  /\ Off \in WorkerType /\ ~Off.on /\ Off.at = "idle"
         /\ [Off EXCEPT !.lease = lease] \in WorkerType /\ ~[Off EXCEPT !.lease = lease].on
         /\ [Off EXCEPT !.lease = lease].at = "idle"
BY DEF Off, WorkerType

LEMMA NoToolFacts ==
  ASSUME NEW pc \in {"none", "db", "verify"}
  PROVE  LET q == [NoTool EXCEPT !.pc = pc]
         IN  /\ q \in ToolType /\ q.pc = pc /\ q.todo = {} /\ q.calm
             /\ \A j \in Jobs : q.listed[j] = 0
             /\ NoTool \in ToolType /\ NoTool.pc = "none" /\ NoTool.todo = {}
             /\ \A j \in Jobs : NoTool.listed[j] = 0
<1>1. /\ NoTool \in ToolType /\ NoTool.pc = "none" /\ NoTool.todo = {} /\ NoTool.calm
      /\ \A j \in Jobs : NoTool.listed[j] = 0
  BY DEF NoTool, ToolType
<1> DEFINE q == [NoTool EXCEPT !.pc = pc]
<1>2. /\ q \in ToolType /\ q.pc = pc
      /\ q.todo = NoTool.todo /\ q.calm = NoTool.calm /\ q.listed = NoTool.listed
  BY <1>1 DEF ToolType
<1> HIDE DEF q
<1>3. \A j \in Jobs : q.listed[j] = 0
  BY <1>1, <1>2
<1> QED
  BY <1>1, <1>2, <1>3 DEF q

\* A command that is disturbed goes on, and is not calm.
DisturbedTool ==
  /\ tool' \in ToolType /\ tool'.pc = tool.pc /\ tool'.todo = tool.todo /\ tool'.listed = tool.listed
  /\ tool.pc # "none" => ~tool'.calm

LEMMA DisturbedFacts ==
  ASSUME TypeOK, tool' = Disturbed
  PROVE  DisturbedTool
<1>1. tool \in ToolType
  BY Types
<1> QED
  BY <1>1 DEF Disturbed, DisturbedTool, ToolType

LEMMA StepFacts ==
  ASSUME TypeOK, NEW pc \in {"keys", "list", "rows", "ended"}, Step(pc)
  PROVE  /\ tool' \in ToolType /\ tool'.pc = pc /\ tool'.todo = tool.todo
         /\ tool'.listed = tool.listed /\ tool'.calm = tool.calm
<1>1. tool \in ToolType
  BY Types
<1> QED
  BY <1>1 DEF Step, ToolType

-----------------------------------------------------------------------------
(* The worker *)

\* What any step of the worker does to the install: rows and takes of jobs that
\* have a row, and takes only grow.
WorkStep ==
  /\ UNCHANGED <<set, server, used>> /\ tool' = Disturbed
  /\ install' \in Content /\ worker' \in WorkerType /\ install'.db
  /\ install'.loud = install.loud /\ install'.projects = install.projects
  /\ \A j \in Jobs :
       /\ install'.rows[j] = install.rows[j] \/ (install.rows[j] # "none" /\ install'.rows[j] # "none")
       /\ \/ install'.takes[j] = install.takes[j]
          \/ /\ install.takes[j] = 0 /\ install'.takes[j] = 1
             /\ install.rows[j] # "none" /\ j \in install.projects
  /\ ~install.loud => \A j \in Jobs : install'.rows[j] = "done" => install'.takes[j] > 0
  /\ worker'.at # "idle" => /\ worker.at # "idle" \/ install.rows[worker'.job] # "none"
                            /\ worker.at # "idle" => worker'.job = worker.job

LEMMA WorkStepSafe ==
  ASSUME Safe, WorkStep, WorkerOK'
  PROVE  Safe'
<1>1. TypeOK
  BY DEF Safe
<1>2. DisturbedTool
  BY <1>1, DisturbedFacts DEF WorkStep
<1>3. \A j \in Jobs : install'.takes[j] >= install.takes[j] /\ install'.takes[j] <= 1
  BY <1>1, InstallFacts DEF WorkStep, Safe, InstallOK
<1>4. \A j \in Jobs : install'.rows[j] = "none" <=> install.rows[j] = "none"
  BY DEF WorkStep
<1>5. TypeOK'
  <2>1. \A j \in Jobs : install'.takes[j] > 0 => j \in install'.projects
    BY <1>1, Types DEF WorkStep
  <2> QED
    BY <1>1, <1>2, <2>1, Types DEF WorkStep, DisturbedTool, TypeOK, SetType, WorkerType, ToolType
<1>6. InstallOK'
  BY <1>3, <1>4 DEF WorkStep, Safe, InstallOK
<1>7. SetOK'
  BY DEF WorkStep, Safe, SetOK
<1>8. BackupOK'
  <2>1. \A j \in Jobs : install.takes[j] > 0 => install'.takes[j] > 0
    BY <1>1, <1>3, InstallFacts DEF WorkStep
  <2> QED
    BY <1>2, <2>1 DEF WorkStep, DisturbedTool, Safe, BackupOK, Backing
<1>9. TreeOK'
  <2> SUFFICES ASSUME tool.pc = "tree" PROVE TreeOK'
    BY <1>2 DEF TreeOK, DisturbedTool
  <2>1. TreeOK
    BY DEF Safe, RestoreOK
  <2>2. ~tool'.calm /\ tool'.todo = tool.todo
    BY <1>2 DEF DisturbedTool
  <2>3. \A j \in tool.todo : install'.takes[j] = 0
    BY <1>1, <2>1, ToolFacts DEF WorkStep, TreeOK, Ids
  <2>4. worker'.at # "idle" => install'.rows[worker'.job] # "none"
    <3>1. ASSUME worker'.at # "idle" PROVE worker'.job \in Jobs /\ install.rows[worker'.job] # "none"
      <4>1. worker'.job \in Jobs
        BY <3>1 DEF WorkerOK
      <4> QED
        BY <2>1, <3>1, <4>1 DEF WorkStep, TreeOK
    <3> QED
      BY <1>4, <3>1
  <2>5. ASSUME ~install.loud
        PROVE  /\ ~server /\ worker'.at = "idle" /\ \A j \in Jobs : install'.rows[j] = "none"
               /\ \A j \in set.of.projects \ tool.todo : install'.takes[j] = set.of.takes[j]
    <3>1. ~server /\ worker.at = "idle" /\ \A j \in Jobs : install.rows[j] = "none"
      BY <2>1, <2>5 DEF TreeOK
    <3>2. worker'.at = "idle"
      BY <3>1 DEF WorkStep, WorkerOK
    <3>3. \A j \in set.of.projects : install'.takes[j] = install.takes[j]
      BY <1>1, <3>1, SetFacts DEF WorkStep
    <3> QED
      BY <1>4, <2>1, <2>5, <3>1, <3>2, <3>3 DEF TreeOK
  <2> QED
    BY <1>4, <2>1, <2>2, <2>3, <2>4, <2>5 DEF TreeOK, WorkStep, Ids
<1>10. RestoreOK'
  <2>1. Restoring' => Restoring /\ ~tool'.calm
    BY <1>2 DEF Restoring, DisturbedTool
  <2> QED
    BY <1>2, <1>9, <2>1 DEF Safe, RestoreOK, Restoring, DisturbedTool, WorkStep, Undamaged
<1> QED
  BY <1>5, <1>6, <1>7, <1>8, <1>10 DEF Safe

LEMMA OnHasDb ==
  ASSUME Safe
  PROVE  /\ TypeOK /\ InstallOK /\ WorkerOK /\ install.db \in BOOLEAN
         /\ worker.on => install.db
BY InstallFacts DEF Safe, InstallOK

\* Steps of the worker that leave the install alone.
LEMMA LivesStep ==
  ASSUME Safe, NEW record \in WorkerType, Lives(record), UNCHANGED install,
         record.at # "idle" => worker.at # "idle" /\ record.job = worker.job
  PROVE  WorkStep
<1>1. install \in Content
  BY OnHasDb, Types
<1> QED
  BY <1>1, OnHasDb DEF Lives, WorkStep, InstallOK

LEMMA IdleSafe ==
  ASSUME Safe, WorkerStop \/ WorkerCrash
  PROVE  Safe'
<1>1. PICK record \in WorkerType : ~record.on /\ record.at = "idle" /\ Lives(record) /\ UNCHANGED install
  BY OffFacts, OnHasDb, WorkerFacts DEF WorkerStop, WorkerCrash
<1>2. WorkStep
  BY <1>1, LivesStep
<1>3. WorkerOK'
  BY <1>1 DEF Lives, WorkerOK
<1> QED
  BY <1>2, <1>3, WorkStepSafe

LEMMA BeatSafe ==
  ASSUME Safe, Beat
  PROVE  Safe'
<1> DEFINE record == [worker EXCEPT !.lease = "fresh"]
<1>1. worker \in WorkerType
  BY OnHasDb, Types
<1>2. /\ record \in WorkerType /\ record.on = worker.on /\ record.at = worker.at
      /\ record.job = worker.job
  BY <1>1 DEF WorkerType
<1>3. Lives(record) /\ UNCHANGED install
  BY DEF Beat
<1> HIDE DEF record
<1>4. WorkStep
  BY <1>2, <1>3, LivesStep
<1>5. WorkerOK'
  BY <1>2, <1>3, OnHasDb DEF Lives, WorkerOK, Owned
<1> QED
  BY <1>4, <1>5, WorkStepSafe

LEMMA LapseSafe ==
  ASSUME Safe, Lapse
  PROVE  Safe'
<1>1. worker \in WorkerType
  BY OnHasDb, Types
<1>2. /\ worker' \in WorkerType /\ worker'.on = worker.on /\ worker'.at = worker.at
      /\ worker'.job = worker.job
  BY <1>1 DEF Lapse, WorkerType
<1>3. UNCHANGED <<install, set, server, tool, used>>
  BY DEF Lapse
<1>4. TypeOK'
  BY <1>2, <1>3, OnHasDb DEF TypeOK, WorkerType
<1>5. InstallOK' /\ WorkerOK' /\ SetOK' /\ BackupOK'
  BY <1>2, <1>3 DEF Safe, InstallOK, WorkerOK, Owned, SetOK, BackupOK, Backing
<1>6. RestoreOK'
  BY <1>2, <1>3 DEF Safe, RestoreOK, TreeOK, Restoring, Undamaged, Ids
<1> QED
  BY <1>4, <1>5, <1>6 DEF Safe

LEMMA WorkerStartSafe ==
  ASSUME Safe, WorkerStart
  PROVE  Safe'
<1>1. /\ install \in Content /\ tool' = Disturbed /\ UNCHANGED <<set, server, used>>
      /\ worker' = [Off EXCEPT !.on = TRUE, !.lease = "fresh"]
      /\ install' = [install EXCEPT !.db = TRUE]
  BY OnHasDb, Types DEF WorkerStart
<1>2. worker' \in WorkerType /\ worker'.on /\ worker'.at = "idle"
  BY <1>1 DEF Off, WorkerType
<1>3. /\ install' \in Content /\ install'.db /\ install'.rows = install.rows
      /\ install'.takes = install.takes /\ install'.projects = install.projects
      /\ install'.loud = install.loud
  BY <1>1 DEF Content
<1>4. WorkStep
  BY <1>1, <1>2, <1>3, OnHasDb DEF WorkStep, InstallOK
<1>5. WorkerOK'
  BY <1>2 DEF WorkerOK
<1> QED
  BY <1>4, <1>5, WorkStepSafe

\* A row of the install changes its status.
LEMMA RowMoves ==
  ASSUME TypeOK, NEW j \in Jobs, NEW status \in Rows, Row(j, status)
  PROVE  /\ install' \in Content /\ install'.db = install.db /\ install'.loud = install.loud
         /\ install'.projects = install.projects /\ install'.takes = install.takes
         /\ install'.rows[j] = status
         /\ \A k \in Jobs \ {j} : install'.rows[k] = install.rows[k]
<1>1. install \in Content
  BY Types
<1> QED
  BY <1>1 DEF Row, Content

LEMMA ReclaimSafe ==
  ASSUME Safe, NEW j \in Jobs, Reclaim(j)
  PROVE  Safe'
<1>1. worker.at = "idle" /\ install.rows[j] = "running" /\ worker \in WorkerType
  BY OnHasDb, Types DEF Reclaim
<1>2. /\ worker.on /\ worker' = worker /\ tool' = Disturbed /\ UNCHANGED <<set, server, used>>
      /\ Row(j, "queued")
  BY DEF Reclaim, Lives
<1>3. /\ install' \in Content /\ install'.db = install.db /\ install'.loud = install.loud
      /\ install'.projects = install.projects /\ install'.takes = install.takes
      /\ install'.rows[j] = "queued"
      /\ \A k \in Jobs \ {j} : install'.rows[k] = install.rows[k]
  BY <1>2, RowMoves, OnHasDb DEF Rows
<1>4. WorkStep
  BY <1>1, <1>2, <1>3, OnHasDb DEF WorkStep, InstallOK
<1>5. WorkerOK'
  BY <1>1, <1>2 DEF WorkerOK
<1> QED
  BY <1>4, <1>5, WorkStepSafe

LEMMA ClaimSafe ==
  ASSUME Safe, NEW j \in Jobs, Claim(j)
  PROVE  Safe'
<1>1. worker.at = "idle" /\ install.rows[j] = "queued" /\ worker \in WorkerType
  BY OnHasDb, Types DEF Claim
<1>2. /\ worker.on /\ worker' = [worker EXCEPT !.job = j, !.at = "lookup"]
      /\ tool' = Disturbed /\ UNCHANGED <<set, server, used>>
      /\ Row(j, "running")
  BY DEF Claim, Lives
<1>3. /\ install' \in Content /\ install'.db = install.db /\ install'.loud = install.loud
      /\ install'.projects = install.projects /\ install'.takes = install.takes
      /\ install'.rows[j] = "running"
      /\ \A k \in Jobs \ {j} : install'.rows[k] = install.rows[k]
  BY <1>2, RowMoves, OnHasDb DEF Rows
<1>4. worker' \in WorkerType /\ worker'.on /\ worker'.job = j /\ worker'.at = "lookup"
  BY <1>1, <1>2 DEF WorkerType
<1>5. WorkStep
  BY <1>1, <1>2, <1>3, <1>4, OnHasDb DEF WorkStep, InstallOK
<1>6. WorkerOK'
  BY <1>4 DEF WorkerOK
<1> QED
  BY <1>5, <1>6, WorkStepSafe

LEMMA LookupSafe ==
  ASSUME Safe, Lookup
  PROVE  Safe'
<1> DEFINE at == IF install.takes[worker.job] > 0 THEN "renamed" ELSE "render"
           record == [worker EXCEPT !.at = at]
<1>1. worker.at = "lookup" /\ worker \in WorkerType /\ worker.job \in Jobs
  BY OnHasDb, Types DEF Lookup, WorkerOK
<1>2. at \in {"renamed", "render"} /\ (at = "renamed" <=> install.takes[worker.job] > 0)
  OBVIOUS
<1>3. Lives(record) /\ UNCHANGED install
  BY DEF Lookup
<1> HIDE DEF at
<1>4. record \in WorkerType /\ record.on = worker.on /\ record.at = at /\ record.job = worker.job
  BY <1>1, <1>2 DEF WorkerType
<1> HIDE DEF record
<1>5. WorkStep
  BY <1>1, <1>3, <1>4, LivesStep
<1>6. install.takes[worker.job] \in 0 .. 2
  BY <1>1, OnHasDb, InstallFacts
<1>7. WorkerOK'
  BY <1>1, <1>2, <1>3, <1>4, <1>6 DEF Lives, WorkerOK, Owned
<1> QED
  BY <1>5, <1>7, WorkStepSafe

LEMMA RenameSafe ==
  ASSUME Safe, Rename
  PROVE  Safe'
<1>1. /\ worker.at = "render" /\ Owned /\ worker \in WorkerType /\ worker.job \in Jobs
      /\ install.takes[worker.job] = 0 /\ install \in Content
  BY OnHasDb, Types DEF Rename, WorkerOK
<1>2. /\ worker.on /\ worker' = [worker EXCEPT !.at = "renamed"]
      /\ tool' = Disturbed /\ UNCHANGED <<set, server, used>>
      /\ install' = [install EXCEPT !.takes[worker.job] = @ + 1]
  BY DEF Rename, Lives
<1>3. /\ install' \in Content /\ install'.db = install.db /\ install'.loud = install.loud
      /\ install'.projects = install.projects /\ install'.rows = install.rows
      /\ install'.takes[worker.job] = 1
      /\ \A k \in Jobs \ {worker.job} : install'.takes[k] = install.takes[k]
  BY <1>1, <1>2 DEF Content
<1>4. worker' \in WorkerType /\ worker'.on /\ worker'.job = worker.job /\ worker'.at = "renamed"
  BY <1>1, <1>2 DEF WorkerType
<1>5. WorkStep
  BY <1>1, <1>2, <1>3, <1>4, OnHasDb DEF WorkStep, InstallOK, Owned
<1>6. WorkerOK'
  BY <1>1, <1>3, <1>4 DEF WorkerOK
<1> QED
  BY <1>5, <1>6, WorkStepSafe

LEMMA EndSafe ==
  ASSUME Safe, Commit \/ Abandon
  PROVE  Safe'
<1>1. /\ worker.at \in {"render", "renamed"} /\ worker \in WorkerType /\ worker.job \in Jobs
      /\ install \in Content
  BY OnHasDb, Types DEF Commit, Abandon, WorkerOK
<1>2. /\ worker.on /\ worker' = [worker EXCEPT !.job = None, !.at = "idle"]
      /\ tool' = Disturbed /\ UNCHANGED <<set, server, used>>
  BY DEF Commit, Abandon, Lives
<1>3. worker' \in WorkerType /\ worker'.on /\ worker'.at = "idle"
  BY <1>1, <1>2 DEF WorkerType
<1>4. /\ install' \in Content /\ install'.db = install.db /\ install'.loud = install.loud
      /\ install'.projects = install.projects /\ install'.takes = install.takes
      /\ \A k \in Jobs \ {worker.job} : install'.rows[k] = install.rows[k]
      /\ \/ install'.rows[worker.job] = install.rows[worker.job]
         \/ install.rows[worker.job] = "running" /\ install'.rows[worker.job] = "failed"
         \/ Commit /\ install'.rows[worker.job] = "done"
  <2>1. CASE Commit
    BY <1>1, <2>1, RowMoves, OnHasDb DEF Commit, Rows
  <2>2. CASE Abandon
    <3>1. install' = [install EXCEPT !.rows[worker.job] = IF @ = "running" THEN "failed" ELSE @]
      BY <2>2 DEF Abandon
    <3> QED
      BY <1>1, <3>1 DEF Content, Rows
  <2> QED
    BY <2>1, <2>2
<1>5. Commit => Owned /\ install.rows[worker.job] = "running" /\ (~install.loud => install.takes[worker.job] > 0)
  BY OnHasDb DEF Commit, WorkerOK, Owned
<1>6. WorkStep
  BY <1>1, <1>2, <1>3, <1>4, <1>5, OnHasDb DEF WorkStep, InstallOK
<1>7. WorkerOK'
  BY <1>3 DEF WorkerOK
<1> QED
  BY <1>6, <1>7, WorkStepSafe

LEMMA WorksSafe ==
  ASSUME Safe, Works
  PROVE  Safe'
BY IdleSafe, BeatSafe, LapseSafe, WorkerStartSafe, ReclaimSafe, ClaimSafe, LookupSafe, RenameSafe,
   EndSafe DEF Works

-----------------------------------------------------------------------------
(* The server *)

\* A server that runs: the backup under way is loud, the restore disturbed.
LEMMA ServerRuns ==
  ASSUME Safe, server
  PROVE  /\ install.db /\ (Backing => set.of.loud /\ ~set.complete)
         /\ Restoring => ~tool.calm /\ set.complete
         /\ tool.pc = "tree" => install.loud
<1>1. install.db \in BOOLEAN /\ set.of.loud \in BOOLEAN /\ tool.calm \in BOOLEAN /\ install.loud \in BOOLEAN
  BY InstallFacts, SetFacts, ToolFacts DEF Safe
<1> QED
  BY <1>1 DEF Safe, InstallOK, BackupOK, RestoreOK, TreeOK, Restoring

LEMMA ServerStartSafe ==
  ASSUME Safe, ServerStart
  PROVE  Safe'
<1>1. TypeOK /\ install \in Content /\ set \in SetType /\ set.of \in Content
  BY Types, SetFacts DEF Safe
<1>2. DisturbedTool /\ server' = TRUE /\ UNCHANGED <<worker, used>>
  BY <1>1, DisturbedFacts DEF ServerStart
<1>3. /\ install' \in Content /\ install'.db /\ install'.rows = install.rows
      /\ install'.projects = install.projects /\ install'.takes = install.takes
      /\ install'.loud = (install.loud \/ Restoring)
  BY <1>1 DEF ServerStart, Content
<1>4. /\ set' \in SetType /\ set'.complete = set.complete /\ set'.damaged = set.damaged
      /\ set'.of.db = set.of.db /\ set'.of.rows = set.of.rows /\ set'.of.projects = set.of.projects
      /\ set'.of.takes = set.of.takes /\ set'.of.loud = (set.of.loud \/ Backing)
  BY <1>1 DEF ServerStart, SetType, Content
<1>5. TypeOK'
  BY <1>1, <1>2, <1>3, <1>4, Types DEF TypeOK, SetType, WorkerType, ToolType, DisturbedTool
<1>6. InstallOK' /\ WorkerOK'
  BY <1>2, <1>3 DEF Safe, InstallOK, WorkerOK, Owned
<1>7. SetOK'
  BY <1>2, <1>4 DEF Safe, SetOK
<1>8. Backing' <=> Backing
  BY <1>2 DEF Backing, DisturbedTool
<1>9. BackupOK'
  <2>1. Backing' => set'.of.loud /\ ~set'.complete
    BY <1>4, <1>8 DEF Safe, BackupOK
  <2> QED
    BY <1>2, <1>4, <2>1 DEF Safe, BackupOK, Backing, DisturbedTool
<1>10. RestoreOK'
  <2>1. Restoring' => Restoring /\ install'.loud /\ ~tool'.calm
    BY <1>2, <1>3 DEF Restoring, DisturbedTool
  <2>2. TreeOK'
    BY <1>2, <1>3, <1>4, <2>1 DEF Safe, RestoreOK, TreeOK, Restoring, DisturbedTool, Ids
  <2> QED
    BY <1>2, <1>4, <2>1, <2>2 DEF Safe, RestoreOK, Restoring, DisturbedTool, Undamaged
<1> QED
  BY <1>5, <1>6, <1>7, <1>9, <1>10 DEF Safe

LEMMA ServerStopSafe ==
  ASSUME Safe, ServerStop
  PROVE  Safe'
<1>1. server' = FALSE /\ UNCHANGED <<install, set, worker, tool, used>>
  BY DEF ServerStop
<1>2. TypeOK'
  <2>1. /\ install \in Content /\ set \in SetType /\ worker \in WorkerType /\ tool \in ToolType
        /\ used \subseteq Jobs /\ \A j \in Jobs : install.takes[j] > 0 => j \in install.projects
    BY Types DEF Safe
  <2>2. server' \in BOOLEAN
    BY <1>1
  <2> QED
    BY <1>1, <2>1, <2>2 DEF TypeOK, SetType, WorkerType, ToolType
<1>5. InstallOK' /\ SetOK'
  BY <1>1 DEF Safe, InstallOK, SetOK
<1>6. WorkerOK'
  BY <1>1 DEF Safe, WorkerOK, Owned
<1>3. BackupOK'
  BY <1>1 DEF Safe, BackupOK, Backing
<1>4. RestoreOK'
  BY <1>1 DEF Safe, RestoreOK, TreeOK, Restoring, Undamaged, Ids
<1> QED
  BY <1>2, <1>3, <1>4, <1>5, <1>6 DEF Safe

\* A row and a project of an install that a server works on.
ServerStep(j) ==
  /\ UNCHANGED <<set, server, worker, tool>> /\ used \subseteq used' /\ used' \subseteq Jobs
  /\ install' \in Content /\ install'.db = install.db /\ install'.loud = install.loud
  /\ \A k \in Jobs \ {j} : install'.rows[k] = install.rows[k] /\ install'.takes[k] = install.takes[k]
  /\ \A k \in Jobs \ {j} : (k \in install'.projects) <=> (k \in install.projects)
  /\ install'.takes[j] = 0 /\ install'.rows[j] \notin {"running", "done"}
  /\ (j \in install'.projects \/ install'.rows[j] # "none") => j \in used'
  /\ install'.rows[j] = "none" => install.rows[j] = "none"
  /\ install'.rows[j] # "none" => install.rows[j] # "none" \/ j \notin used

LEMMA ServerStepSafe ==
  ASSUME Safe, server, NEW j \in Jobs, ServerStep(j)
  PROVE  Safe'
<1>1. TypeOK /\ (worker.at # "idle" => worker.job \in Jobs)
  BY DEF Safe, WorkerOK
<1>2. TypeOK'
  <2>1. \A k \in Jobs : install'.takes[k] > 0 => k \in install'.projects
    BY <1>1, Types DEF ServerStep
  <2> QED
    BY <1>1, <2>1, Types DEF ServerStep, TypeOK, SetType, WorkerType, ToolType
<1>3. InstallOK'
  <2>1. install'.projects \subseteq Jobs
    BY DEF ServerStep, Content
  <2> QED
    BY <2>1, ServerRuns DEF ServerStep, Safe, InstallOK
<1>4. WorkerOK'
  <2>1. Owned' /\ worker.job \in Jobs => worker.job # j /\ Owned
    BY DEF ServerStep, Owned
  <2> QED
    BY <1>1, <2>1 DEF ServerStep, Safe, WorkerOK
<1>5. SetOK'
  BY DEF ServerStep, Safe, SetOK
<1>6. BackupOK'
  BY ServerRuns DEF ServerStep, Safe, BackupOK, Backing
<1>7. TreeOK'
  <2> SUFFICES ASSUME tool.pc = "tree" PROVE TreeOK'
    BY DEF TreeOK, ServerStep
  <2>1. TreeOK /\ install.loud /\ ~tool.calm
    BY ServerRuns DEF Safe, RestoreOK, Restoring
  <2>2. \A k \in tool.todo : install'.takes[k] = 0
    BY <1>1, <2>1, ToolFacts DEF ServerStep, TreeOK
  <2>3. Ids \subseteq used
    BY DEF Ids, Safe, SetOK
  <2>4. \A k \in Jobs : install'.rows[k] # "none" => k \notin Ids
    BY <2>1, <2>3 DEF ServerStep, TreeOK
  <2>5. worker.at # "idle" => install'.rows[worker.job] # "none"
    BY <1>1, <2>1 DEF ServerStep, TreeOK
  <2> QED
    BY <2>1, <2>2, <2>4, <2>5 DEF TreeOK, ServerStep, Ids
<1>8. RestoreOK'
  BY <1>7, ServerRuns DEF ServerStep, Safe, RestoreOK, Restoring, Undamaged
<1> QED
  BY <1>2, <1>3, <1>4, <1>5, <1>6, <1>8 DEF Safe

LEMMA CreateJobSafe ==
  ASSUME Safe, NEW j \in Jobs, CreateJob(j)
  PROVE  Safe'
<1>1. TypeOK /\ install \in Content /\ server /\ j \notin used
  BY Types DEF CreateJob, Safe
<1>2. install.takes[j] = 0
  BY <1>1, Types, InstallFacts DEF Safe, InstallOK
<1>3. install' = [install EXCEPT !.rows[j] = "queued", !.projects = @ \cup {j}]
  BY DEF CreateJob
<1>4. /\ install' \in Content /\ install'.db = install.db /\ install'.loud = install.loud
      /\ install'.takes = install.takes /\ install'.projects = install.projects \cup {j}
      /\ install'.rows[j] = "queued" /\ \A k \in Jobs \ {j} : install'.rows[k] = install.rows[k]
  BY <1>1, <1>3 DEF Content, Rows
<1>5. UNCHANGED <<set, server, worker, tool>> /\ used' = used \cup {j} /\ used \subseteq Jobs
  BY <1>1, Types DEF CreateJob
<1>6. ServerStep(j)
  BY <1>1, <1>2, <1>4, <1>5 DEF ServerStep
<1> QED
  BY <1>1, <1>6, ServerStepSafe

LEMMA DeleteProjectSafe ==
  ASSUME Safe, NEW j \in Jobs, DeleteProject(j)
  PROVE  Safe'
<1>1. TypeOK /\ install \in Content /\ server
  BY Types DEF DeleteProject, Safe
<1>2. install' = [install EXCEPT !.rows[j] = IF @ = "none" THEN "none" ELSE "deleted",
                                 !.projects = @ \ {j}, !.takes[j] = 0]
  BY DEF DeleteProject
<1>3. /\ install' \in Content /\ install'.db = install.db /\ install'.loud = install.loud
      /\ install'.projects = install.projects \ {j}
      /\ install'.takes[j] = 0 /\ install'.rows[j] = IF install.rows[j] = "none" THEN "none" ELSE "deleted"
      /\ \A k \in Jobs \ {j} : install'.rows[k] = install.rows[k] /\ install'.takes[k] = install.takes[k]
  <2> DEFINE rows == [install.rows EXCEPT ![j] = IF @ = "none" THEN "none" ELSE "deleted"]
             takes == [install.takes EXCEPT ![j] = 0]
  <2>1. rows \in [Jobs -> Rows] /\ rows[j] = IF install.rows[j] = "none" THEN "none" ELSE "deleted"
    BY <1>1, InstallFacts DEF Rows
  <2>2. takes \in [Jobs -> 0 .. 2] /\ takes[j] = 0
    BY <1>1, InstallFacts
  <2>3. \A k \in Jobs \ {j} : rows[k] = install.rows[k] /\ takes[k] = install.takes[k]
    BY <1>1, InstallFacts
  <2>4. install' = [install EXCEPT !.rows = rows, !.projects = @ \ {j}, !.takes = takes]
    BY <1>1, <1>2 DEF Content
  <2> HIDE DEF rows, takes
  <2>5. /\ install' \in Content /\ install'.db = install.db /\ install'.loud = install.loud
        /\ install'.projects = install.projects \ {j} /\ install'.takes = takes /\ install'.rows = rows
    BY <1>1, <2>1, <2>2, <2>4 DEF Content
  <2> QED
    BY <2>1, <2>2, <2>3, <2>5
<1>4. UNCHANGED <<set, server, worker, tool, used>> /\ used \subseteq Jobs
  BY <1>1, Types DEF DeleteProject
<1>5. ServerStep(j)
  BY <1>3, <1>4 DEF ServerStep, Safe, InstallOK
<1> QED
  BY <1>1, <1>5, ServerStepSafe

-----------------------------------------------------------------------------
(* The commands: they leave the install alone until a restore writes it *)

LEMMA CommandSafe ==
  ASSUME Safe, UNCHANGED <<install, server, worker, used>>, tool' \in ToolType, set' \in SetType,
         SetOK', BackupOK', RestoreOK'
  PROVE  Safe'
<1>1. TypeOK'
  BY Types DEF Safe, TypeOK, SetType, WorkerType, ToolType
<1>2. InstallOK' /\ WorkerOK'
  BY DEF Safe, InstallOK, WorkerOK, Owned
<1> QED
  BY <1>1, <1>2 DEF Safe

LEMMA EmptySetOK ==
  ASSUME set' = NoSet
  PROVE  set' \in SetType /\ SetOK'
BY NoSetFacts, NoContentFacts DEF SetOK

\* No command is under way.
LEMMA RestsOK ==
  ASSUME tool'.pc \in {"none", "ended"}, \A j \in Jobs : tool'.listed[j] <= 1
  PROVE  BackupOK' /\ RestoreOK'
BY DEF BackupOK, Backing, RestoreOK, Restoring, TreeOK

LEMMA GivesUpSafe ==
  ASSUME Safe, UNCHANGED <<install, server, worker, used>>, GivesUp
  PROVE  Safe'
<1>1. tool' = NoTool
  BY DEF GivesUp
<1>2. tool' \in ToolType /\ tool'.pc = "none" /\ \A j \in Jobs : tool'.listed[j] <= 1
  BY <1>1, NoToolFacts
<1>3. set' \in SetType /\ SetOK'
  <2>1. CASE set.complete
    BY <2>1, Types DEF GivesUp, Safe, SetOK
  <2>2. CASE ~set.complete
    BY <2>2, EmptySetOK DEF GivesUp
  <2> QED
    BY <2>1, <2>2
<1> QED
  BY <1>2, <1>3, RestsOK, CommandSafe

LEMMA BeginBackupSafe ==
  ASSUME Safe, BeginBackup
  PROVE  Safe'
<1>1. UNCHANGED <<install, server, worker, used>> /\ tool' = [NoTool EXCEPT !.pc = "db"] /\ set' = NoSet
  BY DEF BeginBackup, Only
<1>2. ~server
  BY DEF BeginBackup, NoWriters
<1>3. /\ tool' \in ToolType /\ tool'.pc = "db" /\ \A j \in Jobs : tool'.listed[j] <= 1
  BY <1>1, NoToolFacts
<1>4. set' \in SetType /\ SetOK' /\ ~set'.complete /\ set'.of.projects = {}
  BY <1>1, EmptySetOK, NoSetFacts, NoContentFacts
<1>5. BackupOK' /\ RestoreOK'
  BY <1>1, <1>2, <1>3, <1>4 DEF BackupOK, Backing, RestoreOK, Restoring, TreeOK
<1> QED
  BY <1>1, <1>3, <1>4, <1>5, CommandSafe

LEMMA CopyDbSafe ==
  ASSUME Safe, CopyDb
  PROVE  Safe'
<1>1. /\ UNCHANGED <<install, server, worker, used>> /\ tool.pc = "db" /\ set \in SetType
      /\ set.of \in Content /\ TypeOK
  BY Types, SetFacts DEF CopyDb, Only, Safe
<1>2. /\ tool' \in ToolType /\ tool'.pc = "keys" /\ tool'.todo = tool.todo
      /\ tool'.listed = tool.listed
  BY <1>1, StepFacts DEF CopyDb
<1>3. /\ set' \in SetType /\ set'.complete = set.complete
      /\ set'.of.db = install.db /\ set'.of.rows = install.rows /\ set'.of.projects = set.of.projects
      /\ set'.of.takes = set.of.takes /\ set'.of.loud = (set.of.loud \/ install.loud)
  BY <1>1, InstallFacts DEF CopyDb, SetType, Content
<1>4. SetOK'
  BY <1>1, <1>3, InstallFacts DEF Safe, SetOK, InstallOK, BackupOK, Backing
<1>5. BackupOK'
  BY <1>1, <1>2, <1>3 DEF Safe, InstallOK, BackupOK, Backing
<1>6. RestoreOK'
  BY <1>2 DEF RestoreOK, Restoring, TreeOK
<1> QED
  BY <1>1, <1>2, <1>3, <1>4, <1>5, <1>6, CommandSafe

LEMMA CopyKeysSafe ==
  ASSUME Safe, CopyKeys
  PROVE  Safe'
<1>1. /\ UNCHANGED <<install, server, worker, used>> /\ tool.pc = "keys" /\ set \in SetType
      /\ set.of \in Content /\ TypeOK
  BY Types, SetFacts DEF CopyKeys, Only, Safe
<1>2. /\ tool' \in ToolType /\ tool'.pc = "list" /\ tool'.todo = tool.todo
      /\ tool'.listed = tool.listed
  BY <1>1, StepFacts DEF CopyKeys
<1>3. /\ set' \in SetType /\ set'.complete = set.complete
      /\ set'.of.db = set.of.db /\ set'.of.rows = set.of.rows /\ set'.of.projects = set.of.projects
      /\ set'.of.takes = set.of.takes /\ set'.of.loud = set.of.loud
  BY <1>1, InstallFacts DEF CopyKeys, SetType, Content
<1>4. SetOK'
  BY <1>1, <1>3 DEF Safe, SetOK
<1>5. BackupOK'
  BY <1>1, <1>2, <1>3 DEF Safe, BackupOK, Backing
<1>6. RestoreOK'
  BY <1>2 DEF RestoreOK, Restoring, TreeOK
<1> QED
  BY <1>1, <1>2, <1>3, <1>4, <1>5, <1>6, CommandSafe

LEMMA ListTreeSafe ==
  ASSUME Safe, ListTree
  PROVE  Safe'
<1>1. /\ UNCHANGED <<install, set, server, worker, used>> /\ tool.pc = "list" /\ set \in SetType
      /\ tool \in ToolType /\ TypeOK
  BY Types DEF ListTree, Only, Safe
<1>2. /\ tool' \in ToolType /\ tool'.pc = "files" /\ tool'.todo = install.projects
      /\ tool'.listed = install.takes
  BY <1>1, InstallFacts DEF ListTree, ToolType
<1>3. SetOK'
  BY <1>1 DEF Safe, SetOK
<1>4. BackupOK'
  BY <1>1, <1>2, Types DEF Safe, InstallOK, BackupOK, Backing
<1>5. RestoreOK'
  BY <1>2 DEF RestoreOK, Restoring, TreeOK
<1> QED
  BY <1>1, <1>2, <1>3, <1>4, <1>5, CommandSafe

LEMMA CopyProjectSafe ==
  ASSUME Safe, NEW j \in Jobs, CopyProject(j)
  PROVE  Safe'
<1>1. /\ UNCHANGED <<install, server, worker, used>> /\ tool.pc = "files" /\ j \in tool.todo
      /\ set \in SetType /\ set.of \in Content /\ tool \in ToolType /\ TypeOK
  BY Types, SetFacts DEF CopyProject, Only, Safe
<1>2. CASE j \notin install.projects
  BY <1>1, <1>2, GivesUpSafe DEF CopyProject
<1>3. CASE j \in install.projects
  <2>1. tool' = [tool EXCEPT !.todo = @ \ {j}]
    BY <1>3 DEF CopyProject
  <2>2. /\ tool' \in ToolType /\ tool'.pc = "files" /\ tool'.todo = tool.todo \ {j}
        /\ tool'.listed = tool.listed
    BY <1>1, <2>1 DEF ToolType
  <2> DEFINE takes == [set.of.takes EXCEPT ![j] = tool.listed[j]]
  <2>3. takes \in [Jobs -> 0 .. 2] /\ takes[j] = tool.listed[j]
    BY <1>1, SetFacts, ToolFacts
  <2>4. \A k \in Jobs \ {j} : takes[k] = set.of.takes[k]
    BY <1>1, SetFacts
  <2> DEFINE projects == set.of.projects \cup {j}
             content == [set.of EXCEPT !.projects = projects, !.takes = takes]
  <2>5. set' = [set EXCEPT !.of = content]
    <3>1. set' = [set EXCEPT !.of.projects = projects, !.of.takes[j] = tool.listed[j]]
      BY <1>3 DEF CopyProject
    <3> QED
      BY <1>1, <3>1 DEF SetType, Content
  <2> HIDE DEF takes
  <2>10. /\ content \in Content /\ content.db = set.of.db /\ content.rows = set.of.rows
         /\ content.projects = set.of.projects \cup {j}
         /\ content.takes = takes /\ content.loud = set.of.loud
    BY <1>1, <2>3, SetFacts DEF Content
  <2> HIDE DEF content
  <2>6. /\ set' \in SetType /\ set'.complete = set.complete
        /\ set'.of.db = set.of.db /\ set'.of.rows = set.of.rows
        /\ set'.of.projects = set.of.projects \cup {j}
        /\ set'.of.takes = takes /\ set'.of.loud = set.of.loud
    BY <1>1, <2>5, <2>10 DEF SetType
  <2>7. SetOK'
    BY <1>1, <2>3, <2>4, <2>6 DEF Safe, SetOK, BackupOK, Backing
  <2>8. BackupOK'
    <3>1. ASSUME ~set.of.loud, NEW k \in Jobs, set.of.rows[k] = "done"
          PROVE  takes[k] > 0 \/ (k \in tool'.todo /\ tool.listed[k] > 0)
      <4>1. set.of.takes[k] > 0 \/ (k \in tool.todo /\ tool.listed[k] > 0)
        BY <1>1, <3>1 DEF Safe, BackupOK
      <4>2. CASE k = j
        <5>1. ~(set.of.takes[j] > 0)
          BY <1>1 DEF Safe, SetOK, BackupOK
        <5> QED
          BY <2>3, <4>1, <4>2, <5>1
      <4>3. CASE k # j
        BY <2>2, <2>4, <4>1, <4>3
      <4> QED
        BY <4>2, <4>3
    <3> QED
      BY <1>1, <2>2, <2>6, <3>1 DEF Safe, BackupOK, Backing
  <2>9. RestoreOK'
    BY <2>2 DEF RestoreOK, Restoring, TreeOK
  <2> QED
    BY <1>1, <2>2, <2>6, <2>7, <2>8, <2>9, CommandSafe
<1> QED
  BY <1>2, <1>3

LEMMA RecordSafe ==
  ASSUME Safe, Record
  PROVE  Safe'
<1>1. /\ UNCHANGED <<install, server, worker, used>> /\ tool.pc = "files" /\ tool.todo = {}
      /\ set \in SetType /\ tool' = NoTool
  BY Types DEF Record, Only, Safe
<1>2. set' \in SetType /\ set'.of = set.of
  BY <1>1 DEF Record, SetType
<1>3. tool' \in ToolType /\ tool'.pc = "none" /\ \A j \in Jobs : tool'.listed[j] <= 1
  BY <1>1, NoToolFacts
<1>4. SetOK'
  BY <1>1, <1>2 DEF Safe, SetOK, BackupOK
<1> QED
  BY <1>1, <1>2, <1>3, <1>4, RestsOK, CommandSafe

LEMMA RotSafe ==
  ASSUME Safe, NEW part \in Parts, Rot(part)
  PROVE  Safe'
<1>1. /\ UNCHANGED <<install, server, worker, tool, used>> /\ tool.pc \in {"none", "ended"}
      /\ set \in SetType /\ tool \in ToolType
  BY Types DEF Rot, Safe
<1>2. set' \in SetType /\ set'.of = set.of /\ set'.complete = set.complete
  BY <1>1 DEF Rot, SetType
<1>3. SetOK'
  BY <1>1, <1>2 DEF Safe, SetOK
<1>4. \A j \in Jobs : tool'.listed[j] <= 1
  BY <1>1 DEF Safe, BackupOK
<1> QED
  BY <1>1, <1>2, <1>3, <1>4, RestsOK, CommandSafe

LEMMA BeginRestoreSafe ==
  ASSUME Safe, BeginRestore
  PROVE  Safe'
<1>1. /\ UNCHANGED <<install, set, server, worker, used>> /\ tool' = [NoTool EXCEPT !.pc = "verify"]
      /\ set.complete /\ ~server
  BY DEF BeginRestore, Only, NoWriters
<1>2. /\ tool' \in ToolType /\ tool'.pc = "verify" /\ \A j \in Jobs : tool'.listed[j] <= 1
  BY <1>1, NoToolFacts
<1>3. set' \in SetType /\ SetOK'
  BY <1>1, Types DEF Safe, SetOK
<1>4. BackupOK' /\ RestoreOK'
  BY <1>1, <1>2 DEF BackupOK, Backing, RestoreOK, Restoring, TreeOK
<1> QED
  BY <1>1, <1>2, <1>3, <1>4, CommandSafe

LEMMA VerifySafe ==
  ASSUME Safe, Verify
  PROVE  Safe'
<1>1. /\ UNCHANGED <<install, set, server, worker, used>> /\ tool.pc = "verify" /\ TypeOK
      /\ tool \in ToolType
  BY Types DEF Verify, Only, Safe
<1>2. set' \in SetType /\ SetOK'
  BY <1>1, Types DEF Safe, SetOK
<1>3. CASE Undamaged /\ Empty
  <2>1. tool' = [tool EXCEPT !.pc = "tree", !.todo = set.of.projects]
    BY <1>3 DEF Verify, Undamaged
  <2>2. /\ tool' \in ToolType /\ tool'.pc = "tree" /\ tool'.todo = set.of.projects
        /\ tool'.listed = tool.listed /\ tool'.calm = tool.calm
    BY <1>1, <2>1, SetFacts DEF ToolType
  <2>3. /\ ~server /\ ~worker.on /\ worker.at = "idle" /\ install.projects = {}
        /\ \A j \in Jobs : install.rows[j] = "none"
    BY <1>3 DEF Empty, Safe, InstallOK, WorkerOK
  <2>4. \A j \in Jobs : install.takes[j] = 0
    BY <1>1, <2>3, InstallFacts, Types
  <2>5. set.of.projects \subseteq Jobs
    BY <1>1, SetFacts
  <2>6. BackupOK'
    BY <1>1, <2>2 DEF Safe, BackupOK, Backing
  <2>7. TreeOK'
    BY <1>1, <2>2, <2>3, <2>4, <2>5 DEF TreeOK
  <2>8. RestoreOK'
    BY <1>1, <1>3, <2>2, <2>3, <2>7 DEF Safe, RestoreOK, Restoring, Undamaged
  <2> QED
    BY <1>1, <1>2, <2>2, <2>6, <2>8, CommandSafe
<1>4. CASE ~(Undamaged /\ Empty)
  <2>1. tool' = NoTool
    BY <1>4 DEF Verify, Undamaged
  <2>2. tool' \in ToolType /\ tool'.pc = "none" /\ \A j \in Jobs : tool'.listed[j] <= 1
    BY <2>1, NoToolFacts
  <2> QED
    BY <1>1, <1>2, <2>2, RestsOK, CommandSafe
<1> QED
  BY <1>3, <1>4

\* What the restore of a project writes.
LEMMA RestoreProjectFacts ==
  ASSUME Safe, NEW j \in Jobs, RestoreProject(j)
  PROVE  /\ UNCHANGED <<set, server, worker, used>> /\ tool.pc = "tree" /\ j \in tool.todo
         /\ tool' \in ToolType /\ tool'.pc = "tree" /\ tool'.todo = tool.todo \ {j}
         /\ tool'.listed = tool.listed /\ tool'.calm = tool.calm
         /\ install' \in Content /\ install'.db = install.db /\ install'.rows = install.rows
         /\ install'.projects = install.projects \cup {j}
         /\ install'.takes[j] = set.of.takes[j]
         /\ \A k \in Jobs \ {j} : install'.takes[k] = install.takes[k]
         /\ install'.loud = (install.loud \/ set.of.loud)
<1>1. /\ UNCHANGED <<set, server, worker, used>> /\ tool.pc = "tree" /\ j \in tool.todo
      /\ install \in Content /\ tool \in ToolType /\ TypeOK
  BY Types DEF RestoreProject, Only, Safe
<1>2. tool' = [tool EXCEPT !.todo = @ \ {j}]
  BY DEF RestoreProject
<1>3. /\ tool' \in ToolType /\ tool'.pc = "tree" /\ tool'.todo = tool.todo \ {j}
      /\ tool'.listed = tool.listed /\ tool'.calm = tool.calm
  BY <1>1, <1>2 DEF ToolType
<1>4. Undamaged /\ install.takes[j] = 0
  BY <1>1 DEF Safe, RestoreOK, TreeOK
<1>5. Restored(j) = set.of.takes[j] /\ set.of.takes[j] \in 0 .. 2
  BY <1>1, <1>4, SetFacts DEF Restored, Undamaged
<1> DEFINE takes == [install.takes EXCEPT ![j] = install.takes[j] + Restored(j)]
           projects == install.projects \cup {j}
           loud == install.loud \/ set.of.loud
           content == [install EXCEPT !.projects = projects, !.takes = takes, !.loud = loud]
<1>6. install' = content
  <2>1. install' = [install EXCEPT !.projects = @ \cup {j}, !.takes[j] = @ + Restored(j),
                                   !.loud = @ \/ set.of.loud]
    BY DEF RestoreProject
  <2> QED
    BY <1>1, <2>1 DEF Content
<1>7. takes \in [Jobs -> 0 .. 2] /\ takes[j] = set.of.takes[j]
  BY <1>1, <1>4, <1>5, InstallFacts
<1>8. \A k \in Jobs \ {j} : takes[k] = install.takes[k]
  BY <1>1, InstallFacts
<1> HIDE DEF takes
<1>9. loud \in BOOLEAN /\ projects \subseteq Jobs
  BY <1>1, InstallFacts, SetFacts
<1> HIDE DEF loud, projects
<1>10. /\ content \in Content /\ content.db = install.db /\ content.rows = install.rows
       /\ content.projects = projects /\ content.takes = takes /\ content.loud = loud
  BY <1>1, <1>7, <1>9 DEF Content
<1> HIDE DEF content
<1>11. /\ install' \in Content /\ install'.db = install.db /\ install'.rows = install.rows
       /\ install'.projects = projects /\ install'.takes = takes /\ install'.loud = loud
  BY <1>6, <1>10
<1> QED
  BY <1>1, <1>3, <1>7, <1>8, <1>11 DEF projects, loud

LEMMA RestoreProjectSafe ==
  ASSUME Safe, NEW j \in Jobs, RestoreProject(j)
  PROVE  Safe'
<1>1. /\ UNCHANGED <<set, server, worker, used>> /\ tool.pc = "tree" /\ j \in tool.todo
      /\ tool' \in ToolType /\ tool'.pc = "tree" /\ tool'.todo = tool.todo \ {j}
      /\ tool'.listed = tool.listed /\ tool'.calm = tool.calm
  BY RestoreProjectFacts
<1>2. /\ install' \in Content /\ install'.db = install.db /\ install'.rows = install.rows
      /\ install'.projects = install.projects \cup {j}
      /\ install'.takes[j] = set.of.takes[j]
      /\ \A k \in Jobs \ {j} : install'.takes[k] = install.takes[k]
      /\ install'.loud = (install.loud \/ set.of.loud)
  BY RestoreProjectFacts
<1>3. TypeOK /\ TreeOK
  BY DEF Safe, RestoreOK
<1>4. /\ j \in set.of.projects /\ install.takes[j] = 0 /\ j \in Ids /\ install.rows[j] = "none"
      /\ set.of.takes[j] \in 0 .. 2 /\ set.of.takes[j] <= 1 /\ tool.todo \subseteq Jobs
  BY <1>1, <1>3, SetFacts, ToolFacts DEF TreeOK, Ids, Safe, SetOK
<1>5. worker.at # "idle" => worker.job \in Jobs \ {j}
  BY <1>1, <1>3, <1>4 DEF TreeOK, Safe, WorkerOK
<1>6. TypeOK'
  <2>1. \A k \in Jobs : install'.takes[k] > 0 => k \in install'.projects
    BY <1>2, <1>3, Types
  <2> QED
    BY <1>1, <1>2, <1>3, <2>1, Types DEF TypeOK, SetType, WorkerType, ToolType
<1>7. InstallOK'
  <2>1. install'.projects \subseteq used
    BY <1>2, <1>4 DEF Safe, InstallOK, SetOK
  <2>2. \A k \in Jobs : install'.takes[k] <= 1 /\ install'.takes[k] >= install.takes[k]
    BY <1>2, <1>3, <1>4, InstallFacts DEF Safe, InstallOK
  <2>3. ~install'.loud => \A k \in Jobs : install'.rows[k] = "done" => install'.takes[k] > 0
    BY <1>2, <1>3, <2>2, InstallFacts, <1>4 DEF Safe, InstallOK
  <2> QED
    BY <1>1, <1>2, <2>1, <2>2, <2>3 DEF Safe, InstallOK
<1>8. WorkerOK'
  BY <1>1, <1>2, <1>5 DEF Safe, WorkerOK, Owned
<1>9. SetOK' /\ BackupOK'
  BY <1>1 DEF Safe, SetOK, BackupOK, Backing
<1>10. TreeOK'
  <2>1. \A k \in tool'.todo : install'.takes[k] = 0
    BY <1>1, <1>2, <1>3, <1>4 DEF TreeOK
  <2>2. \A k \in Jobs : install'.rows[k] # "none" => k \notin Ids'
    BY <1>1, <1>2, <1>3 DEF TreeOK, Ids
  <2>3. worker'.at # "idle" => install'.rows[worker'.job] # "none"
    BY <1>1, <1>2, <1>3 DEF TreeOK
  <2>4. set.of.projects \subseteq Jobs
    BY <1>3, SetFacts
  <2>5. ASSUME ~install'.loud
        PROVE  /\ ~server' /\ worker'.at = "idle" /\ \A k \in Jobs : install'.rows[k] = "none"
               /\ \A k \in set'.of.projects \ tool'.todo : install'.takes[k] = set'.of.takes[k]
    <3>1. /\ ~server /\ worker.at = "idle" /\ \A k \in Jobs : install.rows[k] = "none"
          /\ \A k \in set.of.projects \ tool.todo : install.takes[k] = set.of.takes[k]
      BY <1>1, <1>2, <1>3, <2>5 DEF TreeOK
    <3>2. \A k \in set.of.projects \ tool'.todo : install'.takes[k] = set.of.takes[k]
      <4> TAKE k \in set.of.projects \ tool'.todo
      <4>1. CASE k = j
        BY <1>2, <4>1
      <4>2. CASE k # j
        BY <1>1, <1>2, <2>4, <3>1, <4>2
      <4> QED
        BY <4>1, <4>2
    <3> QED
      BY <1>1, <1>2, <3>1, <3>2
  <2>6. ASSUME tool'.calm
        PROVE  /\ ~worker'.on /\ \A k \in Jobs : install'.rows[k] = "none"
               /\ install'.projects = set'.of.projects \ tool'.todo
               /\ \A k \in install'.projects : install'.takes[k] = set'.of.takes[k]
    BY <1>1, <1>2, <1>3, <1>4, <2>4, <2>6 DEF TreeOK
  <2> QED
    BY <1>1, <1>3, <2>1, <2>2, <2>3, <2>5, <2>6 DEF TreeOK
<1>11. RestoreOK'
  BY <1>1, <1>10 DEF Safe, RestoreOK, Restoring, Undamaged
<1> QED
  BY <1>6, <1>7, <1>8, <1>9, <1>11 DEF Safe

\* What the restore of the database writes; no row of the install is lost by it.
LEMMA RestoreDbFacts ==
  ASSUME Safe, RestoreDb
  PROVE  /\ UNCHANGED <<set, server, used>> /\ tool.pc = "tree" /\ tool.todo = {}
         /\ tool' \in ToolType /\ tool'.pc = "rows" /\ tool'.todo = {}
         /\ tool'.listed = tool.listed /\ tool'.calm = tool.calm
         /\ worker' \in WorkerType /\ worker'.on = worker.on /\ worker'.at = worker.at
         /\ worker'.job = worker.job
         /\ install' \in Content /\ (install.db => install'.db)
         /\ install'.projects = install.projects /\ install'.takes = install.takes
         /\ IF set.of.db THEN /\ install'.db /\ install'.rows = set.of.rows
                              /\ install'.loud = (install.loud \/ set.of.loud)
                         ELSE install' = install
<1>1. /\ UNCHANGED <<set, server, used>> /\ tool.pc = "tree" /\ tool.todo = {} /\ Step("rows")
      /\ install \in Content /\ worker \in WorkerType /\ TypeOK
  BY Types DEF RestoreDb, Safe
<1>2. /\ tool' \in ToolType /\ tool'.pc = "rows" /\ tool'.todo = {}
      /\ tool'.listed = tool.listed /\ tool'.calm = tool.calm
  BY <1>1, StepFacts
<1>3. CASE ~set.of.db
  <2>1. install' = install /\ worker' = worker
    BY <1>3 DEF RestoreDb
  <2> QED
    BY <1>1, <1>2, <1>3, <2>1
<1>4. CASE set.of.db
  <2> DEFINE loud == install.loud \/ set.of.loud
             content == [install EXCEPT !.db = TRUE, !.rows = set.of.rows, !.loud = loud]
  <2>1. install' = content /\ worker' = [worker EXCEPT !.lease = "none"]
    <3>1. /\ install' = [install EXCEPT !.db = TRUE, !.rows = set.of.rows, !.loud = @ \/ set.of.loud]
          /\ worker' = [worker EXCEPT !.lease = "none"]
      BY <1>4 DEF RestoreDb
    <3> QED
      BY <1>1, <3>1 DEF Content
  <2>2. /\ worker' \in WorkerType /\ worker'.on = worker.on /\ worker'.at = worker.at
        /\ worker'.job = worker.job
    BY <1>1, <2>1 DEF WorkerType
  <2>3. loud \in BOOLEAN /\ set.of.rows \in [Jobs -> Rows]
    BY <1>1, InstallFacts, SetFacts
  <2> HIDE DEF loud
  <2>4. /\ content \in Content /\ content.db /\ content.rows = set.of.rows /\ content.loud = loud
        /\ content.projects = install.projects /\ content.takes = install.takes
    BY <1>1, <2>3 DEF Content
  <2> HIDE DEF content
  <2>5. /\ install' \in Content /\ install'.db /\ install'.rows = set.of.rows /\ install'.loud = loud
        /\ install'.projects = install.projects /\ install'.takes = install.takes
    BY <2>1, <2>4
  <2> QED
    BY <1>1, <1>2, <1>4, <2>2, <2>5 DEF loud
<1> QED
  BY <1>3, <1>4

LEMMA RestoreDbSafe ==
  ASSUME Safe, RestoreDb
  PROVE  Safe'
<1>1. /\ UNCHANGED <<set, server, used>> /\ tool.pc = "tree" /\ tool.todo = {}
      /\ tool' \in ToolType /\ tool'.pc = "rows" /\ tool'.todo = {}
      /\ tool'.listed = tool.listed /\ tool'.calm = tool.calm
  BY RestoreDbFacts
<1>2. /\ worker' \in WorkerType /\ worker'.on = worker.on /\ worker'.at = worker.at
      /\ worker'.job = worker.job
  BY RestoreDbFacts
<1>3. /\ install' \in Content /\ (install.db => install'.db)
      /\ install'.projects = install.projects /\ install'.takes = install.takes
      /\ IF set.of.db THEN /\ install'.db /\ install'.rows = set.of.rows
                           /\ install'.loud = (install.loud \/ set.of.loud)
                      ELSE install' = install
  BY RestoreDbFacts
<1>4. TypeOK /\ TreeOK /\ set.complete
  BY <1>1 DEF Safe, RestoreOK, Restoring
<1>5. TypeOK'
  BY <1>1, <1>2, <1>3, <1>4, Types DEF TypeOK, SetType, WorkerType, ToolType
<1>6. InstallOK'
  <2>1. CASE ~set.of.db
    BY <1>1, <1>2, <1>3, <2>1 DEF Safe, InstallOK
  <2>2. CASE set.of.db
    <3>1. \A j \in Jobs : install'.rows[j] # "none" => j \in used
      BY <1>3, <2>2 DEF Safe, SetOK
    <3>2. ASSUME ~install'.loud, NEW j \in Jobs, install'.rows[j] = "done" PROVE install'.takes[j] > 0
      <4>1. ~install.loud /\ set.of.takes[j] > 0 /\ j \in set.of.projects
        BY <1>3, <1>4, <2>2, <3>2 DEF Safe, SetOK
      <4>2. install.takes[j] = set.of.takes[j]
        BY <1>1, <1>4, <4>1 DEF TreeOK
      <4> QED
        BY <1>3, <4>1, <4>2
    <3> QED
      BY <1>1, <1>3, <2>2, <3>1, <3>2 DEF Safe, InstallOK
  <2> QED
    BY <2>1, <2>2
<1>7. WorkerOK'
  <2>1. CASE ~set.of.db
    BY <1>2, <1>3, <2>1 DEF Safe, WorkerOK, Owned
  <2>2. CASE set.of.db
    <3>1. ASSUME worker.at # "idle" PROVE worker.job \in Jobs /\ ~Owned'
      <4>1. worker.job \in Jobs /\ install.rows[worker.job] # "none"
        BY <1>1, <1>4, <3>1 DEF TreeOK, Safe, WorkerOK
      <4>2. worker.job \notin Ids
        BY <1>1, <1>4, <4>1 DEF TreeOK
      <4> QED
        BY <1>2, <1>3, <2>2, <4>1, <4>2 DEF Ids, Owned
    <3> QED
      BY <1>2, <3>1 DEF Safe, WorkerOK
  <2> QED
    BY <2>1, <2>2
<1>8. SetOK' /\ BackupOK'
  BY <1>1 DEF Safe, SetOK, BackupOK, Backing
<1>9. RestoreOK'
  <2>1. TreeOK'
    BY <1>1 DEF TreeOK
  <2>2. ASSUME tool.calm
        PROVE  /\ install'.rows = set.of.rows /\ install'.projects = set.of.projects
               /\ install'.takes = set.of.takes
    <3>1. /\ \A j \in Jobs : install.rows[j] = "none"
          /\ install.projects = set.of.projects
          /\ \A j \in install.projects : install.takes[j] = set.of.takes[j]
      BY <1>1, <1>4, <2>2 DEF TreeOK
    <3>2. \A j \in Jobs : install.takes[j] = set.of.takes[j]
      <4> TAKE j \in Jobs
      <4>1. CASE j \in install.projects
        BY <3>1, <4>1
      <4>2. CASE j \notin install.projects
        <5>1. ~(install.takes[j] > 0) /\ ~(set.of.takes[j] > 0)
          BY <1>4, <3>1, <4>2, Types DEF Safe, SetOK
        <5> QED
          BY <1>4, <5>1, InstallFacts, SetFacts
      <4> QED
        BY <4>1, <4>2
    <3>3. install.takes = set.of.takes
      BY <1>4, <3>2, InstallFacts, SetFacts
    <3>4. install'.rows = set.of.rows
      <4>1. CASE set.of.db
        BY <1>3, <4>1
      <4>2. CASE ~set.of.db
        <5>1. \A j \in Jobs : install.rows[j] = set.of.rows[j]
          BY <3>1, <4>2 DEF Safe, SetOK
        <5>2. install.rows = set.of.rows
          BY <1>4, <5>1, InstallFacts, SetFacts
        <5> QED
          BY <1>3, <4>2, <5>2
      <4> QED
        BY <4>1, <4>2
    <3> QED
      BY <1>3, <3>1, <3>3, <3>4
  <2> QED
    BY <1>1, <2>1, <2>2 DEF Safe, RestoreOK, Restoring, Undamaged
<1> QED
  BY <1>5, <1>6, <1>7, <1>8, <1>9 DEF Safe

LEMMA RestoreKeysFacts ==
  ASSUME Safe, RestoreKeys
  PROVE  /\ UNCHANGED <<set, server, worker, used>> /\ tool.pc = "rows"
         /\ tool' \in ToolType /\ tool'.pc = "ended" /\ tool'.listed = tool.listed
         /\ install' \in Content /\ install'.db /\ install'.rows = install.rows
         /\ install'.projects = install.projects /\ install'.takes = install.takes
         /\ install'.loud = install.loud
<1>1. /\ UNCHANGED <<set, server, worker, used>> /\ tool.pc = "rows" /\ Step("ended")
      /\ install \in Content /\ TypeOK
  BY Types DEF RestoreKeys, Only, Safe
<1> DEFINE keys == IF "keys" \in set.damaged THEN "bad" ELSE set.of.keys
           content == [install EXCEPT !.db = TRUE, !.keys = keys]
<1>2. keys \in {"none", "good", "bad"}
  BY <1>1, SetFacts
<1>3. install' = content
  BY DEF RestoreKeys
<1> HIDE DEF keys
<1>4. /\ content \in Content /\ content.db /\ content.rows = install.rows
      /\ content.projects = install.projects /\ content.takes = install.takes
      /\ content.loud = install.loud
  BY <1>1, <1>2 DEF Content
<1> HIDE DEF content
<1>5. tool' \in ToolType /\ tool'.pc = "ended" /\ tool'.listed = tool.listed
  BY <1>1, StepFacts
<1> QED
  BY <1>1, <1>3, <1>4, <1>5

LEMMA RestoreKeysSafe ==
  ASSUME Safe, RestoreKeys
  PROVE  Safe'
<1>1. /\ UNCHANGED <<set, server, worker, used>> /\ tool.pc = "rows"
      /\ tool' \in ToolType /\ tool'.pc = "ended" /\ tool'.listed = tool.listed
  BY RestoreKeysFacts
<1>2. /\ install' \in Content /\ install'.db /\ install'.rows = install.rows
      /\ install'.projects = install.projects /\ install'.takes = install.takes
      /\ install'.loud = install.loud
  BY RestoreKeysFacts
<1>3. TypeOK'
  BY <1>1, <1>2, Types DEF Safe, TypeOK, SetType, WorkerType, ToolType
<1>4. InstallOK' /\ WorkerOK' /\ SetOK'
  BY <1>1, <1>2 DEF Safe, InstallOK, WorkerOK, Owned, SetOK
<1>5. \A j \in Jobs : tool'.listed[j] <= 1
  BY <1>1 DEF Safe, BackupOK
<1> QED
  BY <1>1, <1>3, <1>4, <1>5, RestsOK DEF Safe

LEMMA ToolCrashSafe ==
  ASSUME Safe, ToolCrash
  PROVE  Safe'
BY GivesUpSafe DEF ToolCrash, Only

LEMMA MoveAsideSafe ==
  ASSUME Safe, MoveAside
  PROVE  Safe'
<1>1. /\ UNCHANGED <<set, server, used>> /\ ~server /\ install' = NoContent
      /\ worker' = Off /\ tool' = NoTool
  BY DEF MoveAside
<1>2. /\ install' \in Content /\ install'.projects = {}
      /\ \A j \in Jobs : install'.rows[j] = "none" /\ install'.takes[j] = 0
  BY <1>1, NoContentFacts
<1>3. worker' \in WorkerType /\ ~worker'.on /\ worker'.at = "idle"
  BY <1>1, OffFacts
<1>4. tool' \in ToolType /\ tool'.pc = "none" /\ \A j \in Jobs : tool'.listed[j] <= 1
  BY <1>1, NoToolFacts
<1>5. TypeOK'
  BY <1>1, <1>2, <1>3, <1>4, Types DEF Safe, TypeOK, SetType, WorkerType, ToolType
<1>6. InstallOK' /\ WorkerOK' /\ SetOK'
  BY <1>1, <1>2, <1>3 DEF Safe, InstallOK, WorkerOK, SetOK
<1> QED
  BY <1>4, <1>5, <1>6, RestsOK DEF Safe

-----------------------------------------------------------------------------
(* The invariant, from the first state on *)

LEMMA InitSafe ==
  ASSUME Init
  PROVE  Safe
<1>1. /\ set = NoSet /\ server = FALSE /\ worker = Off /\ tool = NoTool /\ used = {}
      /\ install \in {[NoContent EXCEPT !.keys = k] : k \in {"none", "good"}}
  BY DEF Init
<1>2. PICK k \in {"none", "good"} : install = [NoContent EXCEPT !.keys = k]
  BY <1>1
<1>3. /\ install \in Content /\ ~install.db /\ install.projects = {} /\ ~install.loud
      /\ install.rows = NoContent.rows /\ install.takes = NoContent.takes
  BY <1>2, NoContentFacts DEF Content
<1>4. \A j \in Jobs : install.rows[j] = "none" /\ install.takes[j] = 0
  BY <1>3, NoContentFacts
<1>5. /\ set \in SetType /\ ~set.complete /\ ~set.of.db /\ set.of.projects = {}
      /\ \A j \in Jobs : set.of.rows[j] = "none" /\ set.of.takes[j] = 0
  BY <1>1, NoSetFacts, NoContentFacts
<1>6. worker \in WorkerType /\ ~worker.on /\ worker.at = "idle"
  BY <1>1, OffFacts
<1>7. tool \in ToolType /\ tool.pc = "none" /\ \A j \in Jobs : tool.listed[j] = 0
  BY <1>1, NoToolFacts
<1>8. TypeOK
  <2>1. \A j \in Jobs : install.takes[j] > 0 => j \in install.projects
    BY <1>4
  <2>2. server \in BOOLEAN /\ used \subseteq Jobs
    BY <1>1
  <2> QED
    BY <1>3, <1>5, <1>6, <1>7, <2>1, <2>2 DEF TypeOK, SetType, WorkerType, ToolType
<1>9. InstallOK /\ WorkerOK /\ SetOK
  BY <1>1, <1>3, <1>4, <1>5, <1>6 DEF InstallOK, WorkerOK, SetOK
<1>10. BackupOK /\ RestoreOK
  BY <1>7 DEF BackupOK, Backing, RestoreOK, Restoring, TreeOK
<1> QED
  BY <1>8, <1>9, <1>10 DEF Safe

LEMMA StutterSafe ==
  ASSUME Safe, UNCHANGED vars
  PROVE  Safe'
<1>1. UNCHANGED <<install, set, server, worker, tool, used>>
  BY DEF vars
<1>2. TypeOK'
  BY <1>1, Types DEF Safe, TypeOK, SetType, WorkerType, ToolType
<1>3. InstallOK' /\ WorkerOK' /\ SetOK' /\ BackupOK'
  BY <1>1 DEF Safe, InstallOK, WorkerOK, Owned, SetOK, BackupOK, Backing
<1>4. RestoreOK'
  BY <1>1 DEF Safe, RestoreOK, TreeOK, Restoring, Undamaged, Ids
<1> QED
  BY <1>2, <1>3, <1>4 DEF Safe

LEMMA NextSafe ==
  ASSUME Safe, [Next]_vars
  PROVE  Safe'
<1>1. CASE UNCHANGED vars
  BY <1>1, StutterSafe
<1>2. CASE ServerStart \/ ServerStop \/ \E j \in Jobs : CreateJob(j) \/ DeleteProject(j)
  BY <1>2, ServerStartSafe, ServerStopSafe, CreateJobSafe, DeleteProjectSafe
<1>3. CASE Works
  BY <1>3, WorksSafe
<1>4. CASE BacksUp
  BY <1>4, BeginBackupSafe, CopyDbSafe, CopyKeysSafe, ListTreeSafe, RecordSafe, CopyProjectSafe DEF BacksUp
<1>5. CASE Restores
  BY <1>5, BeginRestoreSafe, VerifySafe, RestoreDbSafe, RestoreKeysSafe, RestoreProjectSafe DEF Restores
<1>6. CASE ToolCrash \/ MoveAside \/ \E part \in Parts : Rot(part)
  BY <1>6, ToolCrashSafe, MoveAsideSafe, RotSafe
<1> QED
  BY <1>1, <1>2, <1>3, <1>4, <1>5, <1>6 DEF Next

LEMMA AlwaysSafe == Spec => []Safe
<1>1. Init => Safe
  BY InitSafe
<1>2. Safe /\ [Next]_vars => Safe'
  BY NextSafe
<1> QED
  BY <1>1, <1>2, PTL DEF Spec

-----------------------------------------------------------------------------
(* The theorems *)

\* Every state has the types of the module, and a take lies in a project.
THEOREM BackupTyped == Spec => []TypeOK
<1>1. Safe => TypeOK
  BY DEF Safe
<1> QED
  BY <1>1, AlwaysSafe, PTL

\* Whatever lives on, starts, dies or lapses while a command runs: a done row has
\* its take, in the install and in a finished set, unless a server deleted under
\* the copy (create_backup and restore_backup of server/backup.py).
THEOREM RowsNeverOutrunTheTree == Spec => []DoneHasTake
<1>1. Safe => DoneHasTake
  BY DEF Safe, InstallOK, SetOK, DoneHasTake
<1> QED
  BY <1>1, AlwaysSafe, PTL

\* No history of renders, backups, restores and removals leaves a job two takes:
\* what a restore brings back is found by the lookup of the next attempt.
THEOREM NoJobTakenTwice == Spec => []OneTake
<1>1. Safe => OneTake
  BY DEF Safe, InstallOK, OneTake
<1> QED
  BY <1>1, AlwaysSafe, PTL

\* What one step of a restore may do.
Exact ==
  Restoring /\ <<tool.pc, tool.todo>>' # <<tool.pc, tool.todo>> =>
    /\ install'.loud \/ \A j \in Jobs : install.rows[j] # "none" => install'.rows[j] = install.rows[j]
    /\ tool'.pc = "ended" /\ tool.calm =>
         /\ install'.rows = set.of.rows /\ install'.projects = set.of.projects
         /\ install'.takes = set.of.takes

LEMMA StepExact ==
  ASSUME Safe, [Next]_vars
  PROVE  Exact
<1> SUFFICES ASSUME Restoring, <<tool.pc, tool.todo>>' # <<tool.pc, tool.todo>>
             PROVE  /\ \/ install'.loud
                       \/ \A j \in Jobs : install.rows[j] # "none" => install'.rows[j] = install.rows[j]
                    /\ tool'.pc = "ended" /\ tool.calm =>
                         /\ install'.rows = set.of.rows /\ install'.projects = set.of.projects
                         /\ install'.takes = set.of.takes
  BY DEF Exact
<1>1. TypeOK /\ tool' # tool
  BY DEF Safe
<1>2. tool' # Disturbed
  BY <1>1, DisturbedFacts DEF DisturbedTool
<1>3. \/ Verify \/ RestoreDb \/ RestoreKeys \/ ToolCrash
      \/ \E j \in Jobs : RestoreProject(j)
  <2>1. ~UNCHANGED vars /\ ~(\E part \in Parts : Rot(part)) /\ ~ServerStart /\ ~ServerStop
    BY <1>1, <1>2 DEF vars, Rot, ServerStart, ServerStop
  <2>2. ~(\E j \in Jobs : CreateJob(j) \/ DeleteProject(j)) /\ ~MoveAside
    BY <1>1 DEF CreateJob, DeleteProject, MoveAside, Restoring
  <2>3. ~Works
    BY <1>1, <1>2 DEF Works, WorkerStart, WorkerStop, WorkerCrash, Beat, Lapse, Lookup, Rename, Commit,
                      Abandon, Reclaim, Claim, Lives
  <2>4. ~BacksUp /\ ~BeginRestore
    BY DEF BacksUp, BeginBackup, CopyDb, CopyKeys, ListTree, Record, CopyProject, BeginRestore, Restoring
  <2> QED
    BY <2>1, <2>2, <2>3, <2>4 DEF Next, Restores
<1>4. CASE Verify \/ ToolCrash
  <2>1. UNCHANGED install
    BY <1>4 DEF Verify, ToolCrash, Only
  <2>2. tool'.pc # "ended"
    <3>1. CASE tool' = NoTool
      BY <3>1, NoToolFacts
    <3>2. CASE tool' = [tool EXCEPT !.pc = "tree", !.todo = set.of.projects]
      BY <1>1, <3>2, Types DEF ToolType
    <3> QED
      BY <1>4, <3>1, <3>2 DEF Verify, ToolCrash, GivesUp
  <2> QED
    BY <2>1, <2>2
<1>5. CASE \E j \in Jobs : RestoreProject(j)
  BY <1>5, RestoreProjectFacts
<1>6. CASE RestoreDb
  <2>1. /\ tool.pc = "tree" /\ tool'.pc = "rows"
        /\ IF set.of.db THEN install'.loud = (install.loud \/ set.of.loud) ELSE install' = install
    BY <1>6, RestoreDbFacts
  <2>2. ~install.loud => \A j \in Jobs : install.rows[j] = "none"
    BY <2>1 DEF Safe, RestoreOK, TreeOK
  <2> QED
    BY <2>1, <2>2
<1>7. CASE RestoreKeys
  <2>1. /\ tool.pc = "rows" /\ install'.rows = install.rows
        /\ install'.projects = install.projects /\ install'.takes = install.takes
    BY <1>7, RestoreKeysFacts
  <2> QED
    BY <2>1 DEF Safe, RestoreOK
<1> QED
  BY <1>3, <1>4, <1>5, <1>6, <1>7

\* A restore takes the place of no row unless a server ran under it, and one that
\* ends undisturbed has restored rows, projects and takes as they were recorded.
THEOREM RestoresWhatWasRecorded == Spec => RestoreExact
<1>1. Safe /\ [Next]_vars => Exact
  BY StepExact
<1>2. Spec => [][Exact]_vars
  BY <1>1, AlwaysSafe, PTL DEF Spec
<1>3. [][Exact]_vars => RestoreExact
  BY DEF Exact, RestoreExact
<1> QED
  BY <1>2, <1>3, PTL
=============================================================================
