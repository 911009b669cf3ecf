---------------------------- MODULE RemoteRender ----------------------------
(***************************************************************************)
(* The remote worker backend (worker/remote_backend.py) over the host: the *)
(* attempts at the rows of the job queue submit, poll, download and        *)
(* acknowledge through a network that may lose a request or a reply.       *)
(* Each attempt has a take id of its own, which is its client id.          *)
(***************************************************************************)
EXTENDS RemoteHost

CONSTANTS
  JobIds,       \* rows of the job queue
  JobOf,        \* the row each attempt (client id) belongs to
  NetFaults     \* what may go wrong: see NetFaultKinds

\* "lost": a request or a reply; "crash": a worker dies; "lapse": a heartbeat goes stale while the worker
\* runs; "restart": the host restarts; "connection": no host is connected when an
\* attempt begins (server/remote_gpu/connection.py: the user disconnected).
NetFaultKinds == {"lost", "crash", "lapse", "restart", "connection"}

ASSUME RemoteAssumption ==
  /\ JobOf \in [ClientIds -> JobIds]
  /\ NetFaults \subseteq NetFaultKinds

VARIABLES
  rows,         \* the jobs table, as far as this backend meets it
  attempts,     \* each attempt's run_job and the commit that follows it
  wire         \* submits that were sent and have not reached the host

vars == <<records, clientTokens, queue, thread, renders, rows, attempts, wire>>

-----------------------------------------------------------------------------
Row == [status: {"queued", "running", "done", "error", "cancelled"},
        owner: ClientIds \cup {None}, cancel: BOOLEAN, handle: Tokens \cup {None}]
Waiting == {"submit", "handle", "poll", "ask", "audio", "ack"}   \* inside run_job
Attempt == [pc: {"new", "open", "commit", "end", "dead"} \cup Waiting,
            token: Tokens \cup {None}]

TypeOK ==
  /\ HostTypeOK
  /\ rows \in [JobIds -> Row]
  /\ attempts \in [ClientIds -> Attempt]
  /\ wire \subseteq ClientIds

Init ==
  /\ HostInit
  /\ rows = [j \in JobIds |-> [status |-> "queued", owner |-> None, cancel |-> FALSE, handle |-> None]]
  /\ attempts = [c \in ClientIds |-> [pc |-> "new", token |-> None]]
  /\ wire = {}

RowOf(c) == rows[JobOf[c]]
Owns(c) == RowOf(c).status = "running" /\ RowOf(c).owner = c
At(c, pc) == attempts[c].pc = pc
Goto(c, pc) == attempts' = [attempts EXCEPT ![c].pc = pc]
Lossy == "lost" \in NetFaults

-----------------------------------------------------------------------------
(* The queue around run_job *)

\* The attempts of a job that have not begun are interchangeable.
NextAttempt(j) == CHOOSE c \in ClientIds : JobOf[c] = j /\ At(c, "new")
Claim(c) ==
  /\ At(c, "new") /\ RowOf(c).status = "queued" /\ c = NextAttempt(JobOf[c])
  /\ rows' = [rows EXCEPT ![JobOf[c]].status = "running", ![JobOf[c]].owner = c]
  /\ Goto(c, "open")
  /\ UNCHANGED <<hostVars, wire>>

\* The end of an attempt whose write is fenced: only the owner's changes the
\* row.  A failure of a job whose cancel was accepted cancels it.
Settled(c, status) ==
  rows' = IF ~Owns(c) THEN rows
          ELSE [rows EXCEPT ![JobOf[c]].status =
                  IF RowOf(c).cancel THEN "cancelled" ELSE status]
Fail(c) == Settled(c, "error") /\ Goto(c, "end")
Finish(c) == Settled(c, "done") /\ Goto(c, "end")

Commit(c) ==
  /\ At(c, "commit")
  /\ Finish(c)
  /\ UNCHANGED <<hostVars, wire>>

CancelJob(j) ==
  /\ rows[j].status \in {"queued", "running"} /\ ~rows[j].cancel
  /\ rows' = [rows EXCEPT ![j].cancel = TRUE,
                          ![j].status = IF @ = "queued" THEN "cancelled" ELSE @]
  /\ UNCHANGED <<hostVars, attempts, wire>>

\* A stale row is cancelled, ends in error when its render is uncertain or no
\* attempt is left, and is queued again otherwise.
Reclaim(j) ==
  LET owner == rows[j].owner
      left == {c \in ClientIds : JobOf[c] = j /\ At(c, "new")}
  IN /\ rows[j].status = "running"
     /\ At(owner, "dead") \/ "lapse" \in NetFaults
     /\ rows' = [rows EXCEPT ![j].owner = None, ![j].status =
                   IF rows[j].cancel THEN "cancelled"
                   ELSE IF rows[j].handle # None \/ left = {} THEN "error"
                   ELSE "queued"]
     /\ UNCHANGED <<hostVars, attempts, wire>>

Crash(c) ==
  /\ "crash" \in NetFaults
  /\ attempts[c].pc \in Waiting \cup {"open", "commit"}
  /\ Goto(c, "dead")
  /\ UNCHANGED <<hostVars, rows, wire>>

-----------------------------------------------------------------------------
(* run_job *)

Open(c) ==
  /\ At(c, "open")
  /\ \/ (RowOf(c).cancel \/ "connection" \in NetFaults)     \* JobCancelled, NOT_CONNECTED
        /\ Fail(c)
     \/ ~RowOf(c).cancel /\ Goto(c, "submit") /\ UNCHANGED rows
  /\ UNCHANGED <<hostVars, wire>>

Send(c) ==
  /\ At(c, "submit") /\ c \notin wire
  /\ wire' = wire \cup {c}
  /\ UNCHANGED <<hostVars, rows, attempts>>

Drop(c) ==
  /\ Lossy /\ c \in wire
  /\ wire' = wire \ {c}
  /\ UNCHANGED <<hostVars, rows, attempts>>

\* The host answers a submit; the reply reaches the attempt, or is lost.
Reply(c, token) ==
  \/ /\ At(c, "submit")
     /\ attempts' = [attempts EXCEPT ![c] = [pc |-> "handle", token |-> token]]
  \/ /\ Lossy \/ ~At(c, "submit")
     /\ UNCHANGED attempts

DeliverAgain(c) ==
  /\ c \in wire
  /\ SubmitAgain(c) /\ Reply(c, clientTokens[c]) /\ wire' = wire \ {c}
  /\ UNCHANGED <<rows>>
DeliverNew(c, t) ==
  /\ c \in wire
  /\ SubmitNew(c, t) /\ Reply(c, t) /\ wire' = wire \ {c}
  /\ UNCHANGED <<rows>>
DeliverFull(c) ==      \* 429 is retried
  /\ c \in wire
  /\ SubmitFull(c) /\ wire' = wire \ {c}
  /\ UNCHANGED <<rows, attempts>>

GiveUpSubmit(c) ==     \* MAX_UNREACHABLE_SEC after the first submit
  /\ At(c, "submit")
  /\ Fail(c)
  /\ UNCHANGED <<hostVars, wire>>

GiveUpPoll(c) ==       \* MAX_UNREACHABLE_SEC without an answer
  /\ Lossy /\ At(c, "poll")
  /\ Fail(c)
  /\ UNCHANGED <<hostVars, wire>>

RecordHandleUnfenced(c) ==                         \* mutant: no attempt token
  /\ At(c, "handle")
  /\ rows' = [rows EXCEPT ![JobOf[c]].handle = attempts[c].token] /\ Goto(c, "poll")
  /\ UNCHANGED <<hostVars, wire>>

RecordHandle(c) ==     \* JobFenced when the row is no longer this attempt's
  /\ At(c, "handle")
  /\ IF Owns(c)
     THEN rows' = [rows EXCEPT ![JobOf[c]].handle = attempts[c].token] /\ Goto(c, "poll")
     ELSE Goto(c, "end") /\ UNCHANGED rows
  /\ UNCHANGED <<hostVars, wire>>

PollUnknownRetried(c) == FALSE                     \* mutant: 404 is an outage

\* A record the host no longer has is a 404.
PollUnknown(c) ==
  /\ At(c, "poll") /\ ~Known(attempts[c].token)
  /\ Fail(c)
  /\ UNCHANGED <<hostVars, wire>>

Poll(c) ==
  /\ At(c, "poll")
  /\ Status(attempts[c].token)
  /\ LET record == records[attempts[c].token]
     IN CASE record.status = "done" /\ record.result -> Goto(c, "audio") /\ UNCHANGED rows
          [] record.status = "error" \/ (record.status = "done" /\ ~record.result) -> Fail(c)
          [] OTHER -> Goto(c, IF RowOf(c).cancel THEN "ask" ELSE "poll") /\ UNCHANGED rows
  /\ UNCHANGED wire

PollLost(c) ==         \* the host answered, and the answer did not arrive
  /\ Lossy /\ At(c, "poll")
  /\ Status(attempts[c].token)
  /\ UNCHANGED <<rows, attempts, wire>>

AskCancel(c) ==
  /\ At(c, "ask")
  /\ Cancel(attempts[c].token) \/ (Lossy /\ UNCHANGED hostVars)
  /\ Goto(c, "poll")
  /\ UNCHANGED <<rows, wire>>

Download(c) ==
  /\ At(c, "audio")
  /\ \/ HasAudio(attempts[c].token) /\ Goto(c, "ack") /\ UNCHANGED rows
     \/ (Lossy \/ ~HasAudio(attempts[c].token)) /\ Fail(c)
  /\ UNCHANGED <<hostVars, wire>>

Acknowledge(c) ==
  /\ At(c, "ack")
  /\ Ack(attempts[c].token) \/ (Lossy /\ UNCHANGED hostVars)
  /\ Goto(c, "commit")
  /\ UNCHANGED <<rows, wire>>

RunJob(c) == Open(c) \/ Send(c) \/ RecordHandle(c) \/ PollUnknown(c) \/ Poll(c) \/ AskCancel(c)
               \/ Download(c) \/ Acknowledge(c) \/ Commit(c)
Deliver(c) == DeliverAgain(c) \/ DeliverFull(c) \/ \E t \in Tokens : DeliverNew(c, t)
ClientStep(c) == RunJob(c) \/ Deliver(c) \/ Claim(c) \/ Drop(c) \/ PollLost(c) \/ Crash(c)
                   \/ GiveUpSubmit(c) \/ GiveUpPoll(c)

-----------------------------------------------------------------------------
HostRestart ==
  /\ "restart" \in NetFaults
  /\ Restart
  /\ UNCHANGED <<rows, attempts, wire>>

HostThread == JobThread /\ UNCHANGED <<rows, attempts, wire>>

\* A submission is given up long before an undelivered result expires:
\* MAX_UNREACHABLE_SEC and one AUDIO_TIMEOUT_SEC (the longest a request is under
\* way) are less than UNDELIVERED_TTL_SEC.
TtlPasses(t) ==
  /\ Age(t)
  /\ ~records[t].delivered => ~At(records[t].client, "submit") /\ records[t].client \notin wire
  /\ UNCHANGED <<rows, attempts, wire>>

Next ==
  \/ \E c \in ClientIds : ClientStep(c)
  \/ \E j \in JobIds : CancelJob(j) \/ Reclaim(j)
  \/ \E t \in Tokens : TtlPasses(t)
  \/ HostThread \/ HostRestart

Spec == Init /\ [][Next]_vars

\* The job thread keeps running and the backend returns; an attempt keeps running
\* until its worker dies, the deadline of its submission passes, and a poll that is
\* repeated is answered some time.
Fairness ==
  /\ WF_vars(HostThread)
  /\ \A c \in ClientIds : WF_vars(RunJob(c)) /\ WF_vars(GiveUpSubmit(c)) /\ SF_vars(Poll(c))
FairSpec == Spec /\ Fairness

-----------------------------------------------------------------------------
(* Properties *)

\* A submission that is repeated because its reply was lost, or that arrives
\* after its attempt died, is rendered once as long as the host knows of it (Host.submit:
\* "Never render twice"); and not at all once the host has accepted a cancel of
\* it before it started (Host.cancel).
RenderedOnce ==
  [][\A c \in ClientIds : renders'[c] > renders[c] =>
       \A t \in Tokens : records[t].client = c /\ Known(t) =>
         t = thread.token /\ ~records[t].cancel]_vars

\* A result is not taken away from an attempt that still polls or downloads it
\* by another submission's pruning, unless its TTL passed; and a host that was
\* not restarted has every record an attempt still waits for.
WantedResultKept ==
  [][~Restart => \A c \in ClientIds :
       LET t == attempts[c].token
       IN attempts[c].pc \in {"handle", "poll", "ask", "audio"} /\ Known(t) /\ ~records[t].old
            => records'[t].status # "gone"]_vars

\* The recorded handle of a row names a submission of the row's own attempts,
\* and a running row is never described by the handle of an attempt that lost it.
\* A job that ends done was rendered for the attempt that owns it, under the
\* handle on the row (SPEC 16.5: the handle is recorded before waiting).
HandleIsOwn ==
  \A j \in JobIds :
    /\ rows[j].handle # None /\ rows[j].status = "running" =>
         attempts[rows[j].owner].token = rows[j].handle
    /\ rows[j].status = "done" =>
         \E c \in ClientIds : /\ rows[j].owner = c /\ renders[c] >= 1
                              /\ rows[j].handle = attempts[c].token

\* Every attempt leaves run_job: it ends, or dies.
AttemptsEnd == \A c \in ClientIds :
  attempts[c].pc \in Waiting ~> attempts[c].pc \in {"end", "dead", "commit"}

\* Every accepted submission is finished or forgotten: nothing stops the one
\* job thread.
QueueDrains == \A t \in Tokens :
  records[t].status \in {"queued", "running"} ~> records[t].status \notin {"queued", "running"}

-----------------------------------------------------------------------------
(* What the documents say, and TLC refutes *)

\* worker/remote_backend.py: "An interrupted remote render is therefore never
\* resubmitted automatically": the attempts of one job render once.
JobRenderedOnce ==
  \A c, d \in ClientIds : c # d /\ JobOf[c] = JobOf[d] => renders[c] + renders[d] <= 1

\* worker/remote_backend.py: "the host frees unacknowledged results on its own TTL".
FreedOnTtl == \A t \in Tokens : (Finished(t) /\ records[t].old) ~> ~Known(t)
=============================================================================
