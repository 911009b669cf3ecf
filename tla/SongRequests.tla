---------------------------- MODULE SongRequests ----------------------------
(***************************************************************************)
(* POSTs of /v1 that queue a job (server/v1/songs.py, server/v1/routes.py, *)
(* server/jobs/queue.py enqueue_job), behind the Idempotency-Key           *)
(* middleware (server/v1/idempotency.py): clients that repeat a request    *)
(* until they have an answer, a server that fails and dies at every step,  *)
(* and the project a song request makes and takes back.                    *)
(***************************************************************************)
EXTENDS Naturals, Sequences, FiniteSets

CONSTANTS
  Calls,        \* what clients want done, each of them once
  KeyOf,        \* the Idempotency-Key each sends
  BodyOf,       \* the body each sends: see Body
  Keys, Words, Submissions,
  None,         \* no submission id, no call
  PostFaults,   \* what may go wrong: see PostFaultKinds
  MaxFaults     \* how often

\* "crash": the server dies; "lost": an answer does not reach its client; "db",
\* "disk": a statement fails, a write or a removal; "remove": somebody deletes a project;
\* "day": a key may get older than its 24 hours, even while its request runs.
PostFaultKinds == {"crash", "lost", "db", "disk", "remove", "day"}

Body == [kind: {"song", "job"}, words: Words, submission: Submissions \cup {None}]

ASSUME PostAssumption ==
  /\ KeyOf \in [Calls -> Keys] /\ BodyOf \in [Calls -> Body]
  /\ None \notin Submissions \cup Calls
  /\ PostFaults \subseteq PostFaultKinds /\ MaxFaults \in Nat

VARIABLES
  keys,         \* idempotency_keys
  call,         \* each call: its request at the server, and the answer heard
  projects,     \* the projects ever made; the first was there before
  jobs,         \* the job rows: what the worker makes of them is JobQueue's
  faults        \* how many are left

vars == <<keys, call, projects, jobs, faults>>

Home == 1
Answer == [status: {"none", "accepted", "rejected", "broken"}, job: Nat]
NoAnswer == [status |-> "none", job |-> 0]
Accepted(j) == [status |-> "accepted", job |-> j]       \* a 202, or its replay
Rejected == [status |-> "rejected", job |-> 0]          \* a 4xx
Broken == [status |-> "broken", job |-> 0]              \* a 5xx, or an exception

\* A row, with the history of who reserved it and how often it has been free.
KeyRow == [state: {"none", "pending", "done"}, body: Body \cup {None}, by: Calls \cup {None},
           answer: Answer, old: BOOLEAN, epoch: Nat]
Unused(n) == [state |-> "none", body |-> None, by |-> None, answer |-> NoAnswer, old |-> FALSE, epoch |-> n]

Pcs == {"rest", "create", "plan", "enqueue", "inserted", "read", "undo",
        "reply", "store", "raise", "answer"}
Call == [pc: Pcs, project: Nat, outcome: Answer, heard: Answer]
\* "left": there, by a request that a crash, a failed create_project or a failed
\* delete_project cut short.
Project == [state: {"there", "left", "gone"}, tombstone: BOOLEAN]
JobRow == [project: Nat \ {0}, status: {"queued", "error"}, by: Calls, epoch: Nat]

TypeOK ==
  /\ keys \in [Keys -> KeyRow] /\ call \in [Calls -> Call]
  /\ projects \in Seq(Project) /\ jobs \in Seq(JobRow) /\ faults \in 0 .. MaxFaults
  /\ \A k \in Keys : keys[k].state = "none" => keys[k] = Unused(keys[k].epoch)
  /\ \A c \in Calls : call[c].project \in 0 .. Len(projects)
  /\ \A c \in Calls : call[c].outcome.job \in 0 .. Len(jobs) /\ call[c].heard.job \in 0 .. Len(jobs)

Resting == [pc |-> "rest", project |-> 0, outcome |-> NoAnswer, heard |-> NoAnswer]

Init ==
  /\ keys = [k \in Keys |-> Unused(0)]
  /\ call = [c \in Calls |-> Resting]
  /\ projects = <<[state |-> "there", tombstone |-> FALSE]>>
  /\ jobs = <<>> /\ faults = MaxFaults

Key(c) == KeyOf[c]
Is(c, kind) == BodyOf[c].kind = kind
At(c, pc) == call[c].pc = pc
Visible == {p \in DOMAIN projects : projects[p].state # "gone"}
Goto(c, pc) == call' = [call EXCEPT ![c].pc = pc]
Finish(c) == call' = [call EXCEPT ![c] = [Resting EXCEPT !.heard = call[c].heard]]
Outcome(c, pc, outcome) == call' = [call EXCEPT ![c].pc = pc, ![c].outcome = outcome]
\* One fault of a kind, counted.
Fault(kind) == kind \in PostFaults /\ faults > 0 /\ faults' = faults - 1

-----------------------------------------------------------------------------
(* The middleware *)

\* _purge_expired takes no notice of the state of a row.
PurgedDone ==                                      \* mutant: spares pending rows
  [k \in Keys |-> IF keys[k].old /\ keys[k].state = "done" THEN Unused(keys[k].epoch + 1) ELSE keys[k]]
Purged == [k \in Keys |-> IF keys[k].old THEN Unused(keys[k].epoch + 1) ELSE keys[k]]

Reserved(c) ==
  [Purged EXCEPT ![Key(c)] = [@ EXCEPT !.state = "pending", !.body = BodyOf[c], !.by = c]]

\* A client sends until it has an answer. A job may be for any project.
Waits(c) == At(c, "rest") /\ call[c].heard = NoAnswer
Begin(c) ==
  \E p \in IF Is(c, "song") THEN {0} ELSE DOMAIN projects :
    call' = [call EXCEPT ![c].pc = IF Is(c, "song") THEN "create" ELSE "enqueue", ![c].project = p]

\* reserve: BEGIN IMMEDIATE around the purge, the lookup and the insert. A
\* replay and a conflict are answers; "already in progress" is not one.
ReserveBlind(c) ==                                 \* mutant: no look at pending
  /\ Waits(c)
  /\ LET row == Purged[Key(c)] IN
     IF row.state # "done" THEN keys' = Reserved(c) /\ Begin(c)
     ELSE Outcome(c, "answer", IF row.body # BodyOf[c] THEN Rejected ELSE row.answer) /\ UNCHANGED keys
  /\ UNCHANGED <<projects, jobs, faults>>
ReserveAnyBody(c) ==                               \* mutant: no look at the body
  /\ Waits(c)
  /\ LET row == Purged[Key(c)] IN
     CASE row.state = "none" -> keys' = Reserved(c) /\ Begin(c)
       [] row.state = "done" -> Outcome(c, "answer", row.answer) /\ UNCHANGED keys
       [] OTHER -> UNCHANGED <<keys, call>>
  /\ UNCHANGED <<projects, jobs, faults>>
Reserve(c) ==
  /\ Waits(c)
  /\ LET row == Purged[Key(c)] same == row.body = BodyOf[c] IN
     CASE row.state = "none" -> keys' = Reserved(c) /\ Begin(c)
       [] row.state # "none" /\ ~same -> Outcome(c, "answer", Rejected) /\ UNCHANGED keys
       [] row.state = "done" /\ same -> Outcome(c, "answer", row.answer) /\ UNCHANGED keys
       [] OTHER -> UNCHANGED <<keys, call>>
  /\ UNCHANGED <<projects, jobs, faults>>

\* The outcome of a handler goes out and is remembered after it (capture_send);
\* a replay and a conflict only go out.
Reply(c) ==
  /\ At(c, "reply") \/ At(c, "answer")
  /\ \E heard \in {call[c].outcome, NoAnswer} :
       /\ IF heard = NoAnswer THEN Fault("lost") ELSE UNCHANGED faults
       /\ call' = [call EXCEPT ![c] = IF At(c, "reply")
                     THEN [@ EXCEPT !.pc = "store", !.heard = heard]
                     ELSE [Resting EXCEPT !.heard = heard]]
  /\ UNCHANGED <<keys, projects, jobs>>

\* remember: whichever pending row has the key. What it raises is released.
Store(c) ==
  /\ At(c, "store")
  /\ \/ /\ Finish(c) /\ UNCHANGED faults
        /\ keys' = [keys EXCEPT ![Key(c)] = IF @.state # "pending" THEN @
                      ELSE [@ EXCEPT !.state = "done", !.answer = call[c].outcome]]
     \/ Fault("db") /\ Goto(c, "raise") /\ UNCHANGED keys
  /\ UNCHANGED <<projects, jobs>>

Raise(c) ==
  /\ At(c, "raise") /\ Finish(c)
  /\ keys' = [keys EXCEPT ![Key(c)] = IF @.state # "pending" THEN @ ELSE Unused(@.epoch + 1)]
  /\ UNCHANGED <<projects, jobs, faults>>

-----------------------------------------------------------------------------
(* create_song and enqueue_job *)

\* What create_song raises takes its project back; enqueue_job alone has none.
FailedKept(c, outcome) ==                          \* mutant: keeps the project
  Outcome(c, IF outcome = Broken THEN "raise" ELSE "reply", outcome)
Failed(c, outcome) ==
  Outcome(c, IF Is(c, "song") THEN "undo" ELSE IF outcome = Broken THEN "raise" ELSE "reply", outcome)

Create(c) ==
  /\ At(c, "create")
  /\ \/ /\ projects' = Append(projects, [state |-> "there", tombstone |-> FALSE])
        /\ call' = [call EXCEPT ![c].pc = "plan", ![c].project = Len(projects) + 1]
        /\ UNCHANGED faults
     \* project.json may be there without its plan
     \/ /\ Fault("disk") /\ Outcome(c, "raise", Broken)
        /\ \E made \in {<<>>, <<[state |-> "left", tombstone |-> FALSE]>>} : projects' = projects \o made
  /\ UNCHANGED <<keys, jobs>>

\* replace_plan
WritePlan(c) ==
  /\ At(c, "plan")
  /\ \/ call[c].project \in Visible /\ Goto(c, "enqueue") /\ UNCHANGED faults
     \/ call[c].project \notin Visible /\ Failed(c, Rejected) /\ UNCHANGED faults
     \/ Fault("disk") /\ Failed(c, Broken)
  /\ UNCHANGED <<keys, projects, jobs>>

SameSubmission(c) ==
  {j \in DOMAIN jobs : /\ BodyOf[c].submission # None
                       /\ BodyOf[jobs[j].by].submission = BodyOf[c].submission
                       /\ jobs[j].project = call[c].project}
Insert(c) ==
  /\ jobs' = Append(jobs, [project |-> call[c].project, status |-> "queued", by |-> c,
                           epoch |-> keys[Key(c)].epoch])
  /\ Outcome(c, "inserted", Accepted(Len(jobs) + 1))

\* The project is read, the body validated, and the tombstone and the submission
\* id checked in the transaction that inserts the row. The body may be refused.
EnqueueAlways(c) ==                                \* mutant: no submission lookup
  /\ At(c, "enqueue")
  /\ \/ call[c].project \in Visible /\ ~projects[call[c].project].tombstone /\ Insert(c) /\ UNCHANGED faults
     \/ Failed(c, Rejected) /\ UNCHANGED <<jobs, faults>>
     \/ Fault("db") /\ Failed(c, Broken) /\ UNCHANGED jobs
  /\ UNCHANGED <<keys, projects>>
Enqueue(c) ==
  /\ At(c, "enqueue")
  /\ \/ /\ call[c].project \in Visible /\ ~projects[call[c].project].tombstone
        /\ IF SameSubmission(c) = {} THEN Insert(c)
           ELSE /\ \E j \in SameSubmission(c) :
                     IF BodyOf[jobs[j].by] = BodyOf[c] THEN Outcome(c, "inserted", Accepted(j))
                     ELSE Failed(c, Rejected)
                /\ UNCHANGED jobs
        /\ UNCHANGED faults
     \/ Failed(c, Rejected) /\ UNCHANGED <<jobs, faults>>
     \/ Fault("db") /\ Failed(c, Broken) /\ UNCHANGED jobs
  /\ UNCHANGED <<keys, projects>>

\* The get_job of enqueue_job, and the read_job of _accepted_job, which is no
\* longer inside create_song.
GetJob(c) ==
  /\ At(c, "inserted")
  /\ \/ Goto(c, "read") /\ UNCHANGED faults
     \/ Fault("db") /\ Failed(c, Broken)
  /\ UNCHANGED <<keys, projects, jobs>>
ReadJob(c) ==
  /\ At(c, "read")
  /\ \/ Goto(c, "reply") /\ UNCHANGED faults
     \/ Fault("db") /\ Outcome(c, "raise", Broken)
  /\ UNCHANGED <<keys, projects, jobs>>

\* delete_project of the storage: no tombstone, and the rows of the project stay.
\* What it raises replaces what was raised before: ProjectNotFound, a lock that
\* is not to be had, or a removal that has failed before or after project.json.
Undo(c) ==
  /\ At(c, "undo")
  /\ LET p == call[c].project IN
     \/ /\ p \in Visible /\ projects' = [projects EXCEPT ![p].state = "gone"]
        /\ Goto(c, IF call[c].outcome = Broken THEN "raise" ELSE "reply") /\ UNCHANGED faults
     \/ p \notin Visible /\ Outcome(c, "reply", Rejected) /\ UNCHANGED <<projects, faults>>
     \/ /\ Fault("disk") /\ Outcome(c, "raise", Broken)
        /\ projects' \in IF p \in Visible THEN {[projects EXCEPT ![p].state = state] : state \in {"left", "gone"}}
                         ELSE {projects}
  /\ UNCHANGED <<keys, jobs>>

-----------------------------------------------------------------------------
(* The rest of the system *)

Running(c) == ~At(c, "rest")
Inside(c) == call[c].pc \notin {"rest", "answer"}   \* past its reservation

\* Everything in memory goes; what a song request had made stays for good.
Crash ==
  /\ Fault("crash") /\ \E c \in Calls : Running(c)
  /\ call' = [c \in Calls |-> [Resting EXCEPT !.heard = call[c].heard]]
  /\ projects' = [p \in DOMAIN projects |->
       IF projects[p].state = "there" /\ \E c \in Calls : Is(c, "song") /\ call[c].project = p /\ Running(c)
       THEN [projects[p] EXCEPT !.state = "left"] ELSE projects[p]]
  /\ UNCHANGED <<keys, jobs>>

\* A day passes. No request takes as long, unless "day" lets it.
Expire(k) ==
  /\ keys[k].state # "none" /\ ~keys[k].old
  /\ "day" \in PostFaults \/ ~\E c \in Calls : Inside(c) /\ keys[k].by = c
  /\ keys' = [keys EXCEPT ![k].old = TRUE]
  /\ UNCHANGED <<call, projects, jobs, faults>>

\* remove_project, by another client: tombstone, sweep and removal.
RemoveProject(p) ==
  /\ Fault("remove") /\ p \in Visible
  /\ projects' = [projects EXCEPT ![p] = [state |-> "gone", tombstone |-> TRUE]]
  /\ jobs' = [j \in DOMAIN jobs |-> IF jobs[j].project = p /\ jobs[j].status = "queued"
                THEN [jobs[j] EXCEPT !.status = "error"] ELSE jobs[j]]
  /\ UNCHANGED <<keys, call>>

-----------------------------------------------------------------------------
Handle(c) == Create(c) \/ WritePlan(c) \/ Enqueue(c) \/ GetJob(c) \/ ReadJob(c) \/ Undo(c)
Request(c) == Reserve(c) \/ Handle(c) \/ Reply(c) \/ Store(c) \/ Raise(c)

Next ==
  \/ \E c \in Calls : Request(c)
  \/ \E k \in Keys : Expire(k)
  \/ \E p \in DOMAIN projects : RemoveProject(p)
  \/ Crash

Spec == Init /\ [][Next]_vars

\* Clients repeat themselves, requests come to their end, and days pass.
FairSpec == /\ Spec
            /\ \A c \in Calls : WF_vars(Request(c))
            /\ \A k \in Keys : WF_vars(Expire(k))

-----------------------------------------------------------------------------
(* Properties *)

\* One reservation of a key queues one job, and a submission id names one job of
\* its project, however requests overlap, fail and are repeated (idempotency.py,
\* "do not run the handler again"; queue.py, submission_id).
RunsOnce ==
  \A i, j \in DOMAIN jobs : i # j =>
    LET c == jobs[i].by d == jobs[j].by IN
    /\ Key(c) # Key(d) \/ jobs[i].epoch # jobs[j].epoch
    /\ \/ BodyOf[c].submission = None \/ BodyOf[c].submission # BodyOf[d].submission
       \/ jobs[i].project # jobs[j].project

\* A 2xx, replayed or not, names a job made from the body that was sent, and two
\* of them under one reservation name the same job.
AnswersAgree ==
  \A c \in Calls : call[c].heard.status = "accepted" =>
    LET job == jobs[call[c].heard.job] IN
    /\ BodyOf[job.by] = BodyOf[c]
    /\ \A k \in Keys : keys[k].state = "done" /\ Key(job.by) = k /\ job.epoch = keys[k].epoch =>
         keys[k].answer = call[c].heard

\* While a handler runs, the pending row of its key is its own: release and
\* remember, which only name the key, end nobody else's reservation.
OwnReservation ==
  \A c \in Calls : Inside(c) =>
    keys[Key(c)].state = "pending" /\ keys[Key(c)].by = c

\* No song is refused with a 4xx while its project is still in the library: the
\* answer waits for the removal, and a removal that fails makes it a 5xx
\* (songs.py, "a rejected song does not stay in the library"). Any other project
\* of a request that is over has a job, but for those a crash, a failed
\* create_project or a failed delete_project has left: these stay, with no job.
NoStrayProject ==
  /\ \A c \in Calls : Is(c, "song") /\ At(c, "reply") /\ call[c].outcome = Rejected => call[c].project \notin Visible
  /\ \A p \in DOMAIN projects : p # Home /\ projects[p].state = "there" =>
       \/ \E c \in Calls : Running(c) /\ call[c].project = p
       \/ \E j \in DOMAIN jobs : jobs[j].project = p

\* Every client that goes on asking has an answer in the end, whatever has
\* become of the request that first took its key.
ClientServed == \A c \in Calls : <>(call[c].heard # NoAnswer)

-----------------------------------------------------------------------------
(* What the documents say, and TLC refutes *)

\* queue.py: the tombstone check and the insert are one transaction, lest there
\* be "an orphaned queued job"; the project of a failed song is taken back
\* without a tombstone.
QueuedHasProject == \A j \in DOMAIN jobs : jobs[j].status = "queued" => jobs[j].project \in Visible
=============================================================================
