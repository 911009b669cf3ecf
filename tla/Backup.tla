-------------------------------- MODULE Backup --------------------------------
(***************************************************************************)
(* Backup and restore of an install (server/backup.py): the jobs database, *)
(* the key file and the project tree, copied one after the other. Both     *)
(* commands look for writers once, before they start; the server may start *)
(* later, and a worker whose lease lapsed (it slept, or the database was   *)
(* locked for long) may be alive. Of the queue there is what ties rows to  *)
(* takes: claim, the lookup of an earlier take, rename, commit, reclaim    *)
(* and deletion; JobQueue has the rest. Each job has a project of its own. *)
(***************************************************************************)
EXTENDS Naturals

CONSTANTS
  Jobs,
  None,
  Faults     \* what may go wrong: see BackupFaultKinds

\* "crash": a command or the worker dies; "lapse": the lease of a living worker
\* goes stale; "rot": a file of the backup changes; "server": the server is
\* started while a command runs.
BackupFaultKinds == {"crash", "lapse", "rot", "server"}
ASSUME BackupAssumption == Faults \subseteq BackupFaultKinds /\ None \notin Jobs

VARIABLES
  install,    \* what is on disk
  set,        \* the backup directory last written
  server,     \* is the server listening?
  worker,     \* the worker process and its lease
  tool,       \* the backup or restore command
  used        \* job ids given out: an id is never given out twice

vars == <<install, set, server, worker, tool, used>>

Rows == {"none", "queued", "running", "done", "failed", "deleted"}
Parts == {"db", "keys", "files"}
\* A database, the rows and what the tree holds; `loud` is history: the server ran
\* while it was copied.
Content == [db: BOOLEAN, rows: [Jobs -> Rows], projects: SUBSET Jobs, takes: [Jobs -> 0 .. 2],
            keys: {"none", "good", "bad"}, loud: BOOLEAN]
NoContent == [db |-> FALSE, rows |-> [j \in Jobs |-> "none"], projects |-> {},
              takes |-> [j \in Jobs |-> 0], keys |-> "none", loud |-> FALSE]
NoSet == [of |-> NoContent, complete |-> FALSE, damaged |-> {}]
Off == [on |-> FALSE, lease |-> "none", job |-> None, at |-> "idle"]
NoTool == [pc |-> "none", todo |-> {}, listed |-> [j \in Jobs |-> 0], calm |-> TRUE]

TypeOK ==
  /\ install \in Content
  /\ set \in [of: Content, complete: BOOLEAN, damaged: SUBSET Parts]
  /\ server \in BOOLEAN /\ used \subseteq Jobs
  /\ worker \in [on: BOOLEAN, lease: {"none", "fresh", "stale"}, job: Jobs \cup {None},
                 at: {"idle", "lookup", "render", "renamed"}]
  /\ tool \in [pc: {"none", "db", "keys", "list", "files", "verify", "tree", "rows", "ended"},
               todo: SUBSET Jobs, listed: [Jobs -> 0 .. 2], calm: BOOLEAN]
  /\ \A j \in Jobs : install.takes[j] > 0 => j \in install.projects

Init ==
  /\ install \in {[NoContent EXCEPT !.keys = k] : k \in {"none", "good"}}
  /\ set = NoSet /\ server = FALSE /\ worker = Off /\ tool = NoTool /\ used = {}

Backing == tool.pc \in {"db", "keys", "list", "files"}
Restoring == tool.pc \in {"verify", "tree", "rows"}
\* A process that starts or works in the middle of a command.
Disturbed == [tool EXCEPT !.calm = tool.pc = "none"]
\* A command that fails leaves an incomplete set to no further use.
GivesUp == tool' = NoTool /\ set' = IF set.complete THEN set ELSE NoSet
Row(j, status) == install' = [install EXCEPT !.rows[j] = status]

-----------------------------------------------------------------------------
(* The server *)

ServerStart ==
  /\ ~server /\ (tool.pc \notin {"none", "ended"} => "server" \in Faults)
  /\ server' = TRUE /\ tool' = Disturbed
  /\ install' = [install EXCEPT !.db = TRUE, !.loud = @ \/ Restoring]
  /\ set' = [set EXCEPT !.of.loud = @ \/ Backing]
  /\ UNCHANGED <<worker, used>>
ServerStop == server /\ server' = FALSE /\ UNCHANGED <<install, set, worker, tool, used>>

CreateJob(j) ==
  /\ server /\ j \notin used
  /\ used' = used \cup {j}
  /\ install' = [install EXCEPT !.rows[j] = "queued", !.projects = @ \cup {j}]
  /\ UNCHANGED <<set, server, worker, tool>>

DeleteProject(j) ==
  /\ server /\ j \in install.projects
  /\ install' = [install EXCEPT !.rows[j] = IF @ = "none" THEN "none" ELSE "deleted",
                                !.projects = @ \ {j}, !.takes[j] = 0]
  /\ UNCHANGED <<set, server, worker, tool, used>>

-----------------------------------------------------------------------------
(* The worker *)

Lives(record) == worker.on /\ worker' = record /\ tool' = Disturbed /\ UNCHANGED <<set, server, used>>

WorkerStart ==
  /\ ~worker.on /\ worker.lease # "fresh"
  /\ worker' = [Off EXCEPT !.on = TRUE, !.lease = "fresh"]
  /\ install' = [install EXCEPT !.db = TRUE] /\ tool' = Disturbed
  /\ UNCHANGED <<set, server, used>>
WorkerStop == worker.at = "idle" /\ Lives(Off) /\ UNCHANGED install
WorkerCrash ==
  "crash" \in Faults /\ Lives([Off EXCEPT !.lease = worker.lease]) /\ UNCHANGED install
\* The lease heartbeat, and its absence. A worker whose lease is gone stops.
Beat == worker.lease = "stale" /\ Lives([worker EXCEPT !.lease = "fresh"]) /\ UNCHANGED install
Lapse ==
  /\ worker.lease = "fresh" /\ (worker.on => "lapse" \in Faults)
  /\ worker' = [worker EXCEPT !.lease = "stale"]
  /\ UNCHANGED <<install, set, server, tool, used>>

Reclaim(j) ==
  /\ worker.at = "idle" /\ install.rows[j] = "running"
  /\ Lives(worker) /\ Row(j, "queued")
Claim(j) ==
  /\ worker.at = "idle" /\ install.rows[j] = "queued"
  /\ Lives([worker EXCEPT !.job = j, !.at = "lookup"]) /\ Row(j, "running")
\* committed_take_for_job: a take of an earlier attempt is finished with.
Lookup ==
  /\ worker.at = "lookup"
  /\ Lives([worker EXCEPT !.at = IF install.takes[worker.job] > 0 THEN "renamed" ELSE "render"])
  /\ UNCHANGED install
Owned == install.rows[worker.job] = "running" /\ worker.job \in install.projects
Rename ==
  /\ worker.at = "render" /\ Owned
  /\ Lives([worker EXCEPT !.at = "renamed"])
  /\ install' = [install EXCEPT !.takes[worker.job] = @ + 1]
Commit ==
  /\ worker.at = "renamed" /\ Owned
  /\ Lives([worker EXCEPT !.job = None, !.at = "idle"]) /\ Row(worker.job, "done")
Abandon ==
  /\ worker.at \in {"render", "renamed"} /\ ~Owned
  /\ Lives([worker EXCEPT !.job = None, !.at = "idle"])
  /\ install' = [install EXCEPT !.rows[worker.job] = IF @ = "running" THEN "failed" ELSE @]

-----------------------------------------------------------------------------
(* The commands *)

\* _writers_running: the lease and the running rows of the database, and the port.
NoWorker ==                                                    \* mutant: looks for no server
  /\ ~(install.db /\ worker.lease = "fresh")
  /\ \A j \in Jobs : install.rows[j] # "running"
NoWriters ==
  /\ ~server /\ ~(install.db /\ worker.lease = "fresh")
  /\ \A j \in Jobs : install.rows[j] # "running"

Step(pc) == tool' = [tool EXCEPT !.pc = pc]
Only(part) == UNCHANGED <<server, worker, used>> /\ UNCHANGED part

\* create_backup, into a new directory.
BeginBackup ==
  /\ tool.pc \in {"none", "ended"} /\ NoWriters
  /\ tool' = [NoTool EXCEPT !.pc = "db"] /\ set' = NoSet
  /\ Only(install)
\* _sqlite_copy: committed pages, all of one moment.
CopyDb ==
  /\ tool.pc = "db" /\ Step("keys")
  /\ set' = [set EXCEPT !.of.db = install.db, !.of.rows = install.rows, !.of.loud = @ \/ install.loud]
  /\ Only(install)
CopyKeys ==
  /\ tool.pc = "keys" /\ Step("list")
  /\ set' = [set EXCEPT !.of.keys = install.keys]
  /\ Only(install)
\* The names first, then file by file; a file that is gone ends the backup.
ListTree ==
  /\ tool.pc = "list"
  /\ tool' = [tool EXCEPT !.pc = "files", !.todo = install.projects, !.listed = install.takes]
  /\ Only(<<install, set>>)
CopyProject(j) ==
  /\ tool.pc = "files" /\ j \in tool.todo
  /\ IF j \in install.projects
     THEN /\ set' = [set EXCEPT !.of.projects = @ \cup {j}, !.of.takes[j] = tool.listed[j]]
          /\ tool' = [tool EXCEPT !.todo = @ \ {j}]
     ELSE GivesUp
  /\ Only(install)
Record ==
  /\ tool.pc = "files" /\ tool.todo = {}
  /\ set' = [set EXCEPT !.complete = TRUE] /\ tool' = NoTool
  /\ Only(install)

Rot(part) ==
  /\ "rot" \in Faults /\ set.complete /\ set.damaged = {} /\ tool.pc \in {"none", "ended"}
  /\ part = "keys" => set.of.keys # "none"
  /\ part = "db" => set.of.db
  /\ part = "files" => set.of.projects # {}
  /\ set' = [set EXCEPT !.damaged = @ \cup {part}]
  /\ UNCHANGED <<install, server, worker, tool, used>>

\* restore_backup: a complete set, checked against its record, into an empty install.
BeginRestore ==
  /\ tool.pc \in {"none", "ended"} /\ NoWriters /\ set.complete
  /\ tool' = [NoTool EXCEPT !.pc = "verify"]
  /\ Only(<<install, set>>)
Empty == install.projects = {} /\ ~install.db /\ install.keys = "none"
VerifyDb ==                                                    \* mutant: checks the database alone
  /\ tool.pc = "verify"
  /\ IF "db" \notin set.damaged /\ Empty
     THEN tool' = [tool EXCEPT !.pc = "tree", !.todo = set.of.projects] ELSE tool' = NoTool
  /\ Only(<<install, set>>)
Verify ==
  /\ tool.pc = "verify"
  /\ IF set.damaged \cap {"db", "files"} = {} /\ Empty
     THEN tool' = [tool EXCEPT !.pc = "tree", !.todo = set.of.projects] ELSE tool' = NoTool
  /\ Only(<<install, set>>)
\* What is read of a damaged file is not what was written.
Restored(j) == IF "files" \in set.damaged THEN 0 ELSE set.of.takes[j]
RestoreProject(j) ==
  /\ tool.pc = "tree" /\ j \in tool.todo
  /\ tool' = [tool EXCEPT !.todo = @ \ {j}]
  /\ install' = [install EXCEPT !.projects = @ \cup {j}, !.takes[j] = @ + Restored(j),
                                !.loud = @ \/ set.of.loud]
  /\ Only(set)
\* The database of the set takes the place of any other, its lease included.
RestoreDbFirst ==                                              \* mutant: before the tree
  /\ tool.pc = "tree"
  /\ IF install.rows = set.of.rows THEN tool.todo = {} /\ Step("rows") ELSE UNCHANGED tool
  /\ install' = [install EXCEPT !.db = @ \/ set.of.db, !.rows = set.of.rows, !.loud = @ \/ set.of.loud]
  /\ worker' = [worker EXCEPT !.lease = "none"] /\ UNCHANGED <<set, server, used>>
RestoreDb ==
  /\ tool.pc = "tree" /\ tool.todo = {} /\ Step("rows")
  /\ install' = IF set.of.db
                THEN [install EXCEPT !.db = TRUE, !.rows = set.of.rows, !.loud = @ \/ set.of.loud]
                ELSE install
  /\ worker' = IF set.of.db THEN [worker EXCEPT !.lease = "none"] ELSE worker
  /\ UNCHANGED <<set, server, used>>
\* The keys, and init_db.
RestoreKeys ==
  /\ tool.pc = "rows" /\ Step("ended")
  /\ install' = [install EXCEPT !.db = TRUE, !.keys = IF "keys" \in set.damaged THEN "bad" ELSE set.of.keys]
  /\ Only(set)

ToolCrash ==
  /\ "crash" \in Faults /\ tool.pc \notin {"none", "ended"}
  /\ GivesUp
  /\ Only(install)

\* The operator moves the install aside, or sets up a new machine.
MoveAside ==
  /\ tool.pc \in {"none", "ended"} /\ ~server /\ ~worker.on /\ install # NoContent
  /\ install' = NoContent /\ worker' = Off /\ tool' = NoTool
  /\ UNCHANGED <<set, server, used>>

-----------------------------------------------------------------------------
Works == \/ WorkerStart \/ WorkerStop \/ WorkerCrash \/ Beat \/ Lapse \/ Lookup \/ Rename \/ Commit \/ Abandon
         \/ \E j \in Jobs : Reclaim(j) \/ Claim(j)
BacksUp == BeginBackup \/ CopyDb \/ CopyKeys \/ ListTree \/ Record \/ \E j \in Jobs : CopyProject(j)
Restores == BeginRestore \/ Verify \/ RestoreDb \/ RestoreKeys \/ \E j \in Jobs : RestoreProject(j)
Next ==
  \/ ServerStart \/ ServerStop \/ \E j \in Jobs : CreateJob(j) \/ DeleteProject(j)
  \/ Works \/ BacksUp \/ Restores
  \/ ToolCrash \/ MoveAside \/ \E part \in Parts : Rot(part)

Spec == Init /\ [][Next]_vars

-----------------------------------------------------------------------------
(* Properties *)

\* A done row has its take, in the install and in every set: the database is
\* copied before the tree and restored after it, so that even a worker that lives
\* on, starts or dies meanwhile leaves the tree ahead of the rows and never behind.
\* (A server may delete what is being copied.)
DoneHasTake ==
  \A content \in {install} \cup (IF set.complete THEN {set.of} ELSE {}) :
    ~content.loud => \A j \in Jobs : content.rows[j] = "done" => content.takes[j] > 0

\* A restored install renders no job again whose take it has.
OneTake == \A j \in Jobs : install.takes[j] <= 1

\* A restore takes the place of no row of the install, unless a server was
\* started under it; and one that ends undisturbed has restored what was recorded.
RestoreExact ==
  [][Restoring /\ <<tool.pc, tool.todo>>' # <<tool.pc, tool.todo>> =>
       /\ install'.loud \/ \A j \in Jobs : install.rows[j] # "none" => install'.rows[j] = install.rows[j]
       /\ tool'.pc = "ended" /\ tool.calm =>
            /\ install'.rows = set.of.rows /\ install'.projects = set.of.projects
            /\ install'.takes = set.of.takes]_vars

-----------------------------------------------------------------------------
(* What the documents say, and TLC refutes *)

\* backup.py: "a copy taken around a live writer is not a matching set": the
\* writers are looked for once, before the copy.
MatchingSet ==
  set.complete => \A j \in Jobs : set.of.takes[j] > 0 => set.of.rows[j] = "done"

\* backup.py: backup.json records sizes and sha256 "so a restore can be checked
\* against it": the hash of the key file is recorded and never compared.
KeysAsRecorded == tool.pc = "ended" => install.keys # "bad"
=============================================================================
