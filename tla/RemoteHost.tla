----------------------------- MODULE RemoteHost -----------------------------
(***************************************************************************)
(* The Remote GPU host (worker/remote_host/app.py): job records kept in    *)
(* memory, a short queue, one thread that renders, and the handlers of     *)
(* submit, status, audio, ack and cancel.  A handler is one step: submit   *)
(* and ack hold the lock, the others read or write one record.  The job    *)
(* thread takes no lock, so each of its writes is a step.                  *)
(***************************************************************************)
EXTENDS Naturals, Sequences, FiniteSets

CONSTANTS
  ClientIds,    \* the idempotency keys of submissions (take ids)
  Tokens,       \* the pool of job tokens (uuid4: never reused)
  None,         \* no token
  QueueLimit    \* QUEUE_LIMIT

ASSUME HostAssumption == None \notin ClientIds \cup Tokens /\ QueueLimit \in Nat \ {0}

VARIABLES
  records,      \* Host._jobs
  clientTokens, \* Host._client_tokens
  queue,        \* Host._queue
  thread,       \* the job thread
  renders       \* history: how often the backend was started for a client id

hostVars == <<records, clientTokens, queue, thread, renders>>

-----------------------------------------------------------------------------
Outcomes == {"none", "canceled", "failed", "empty"}   \* "empty": str(exc) is ""

\* "absent": the token was never issued; "gone": its record was forgotten.
\* `delivered`: delivered_at is set; `old`: the TTL that applies has passed.
Record == [status: {"absent", "queued", "running", "done", "error", "gone"},
           client: ClientIds \cup {None}, error: Outcomes, result: BOOLEAN,
           cancel: BOOLEAN, delivered: BOOLEAN, old: BOOLEAN]
NoRecord(status) == [status |-> status, client |-> None, error |-> "none", result |-> FALSE,
                     cancel |-> FALSE, delivered |-> FALSE, old |-> FALSE]
NewRecord(c) == [NoRecord("queued") EXCEPT !.client = c]

Thread == [pc: {"startup", "idle", "picked", "render", "finish", "settle"},
           token: Tokens \cup {None}, outcome: Outcomes]
NoToken == [pc |-> "idle", token |-> None, outcome |-> "none"]

HostTypeOK ==
  /\ records \in [Tokens -> Record]
  /\ clientTokens \in [ClientIds -> Tokens \cup {None}]
  /\ queue \in Seq(Tokens) /\ Len(queue) <= QueueLimit
  /\ thread \in Thread
  /\ renders \in [ClientIds -> Nat]

HostInit ==
  /\ records = [t \in Tokens |-> NoRecord("absent")]
  /\ clientTokens = [c \in ClientIds |-> None]
  /\ queue = <<>>
  /\ thread = [NoToken EXCEPT !.pc = "startup"]
  /\ renders = [c \in ClientIds |-> 0]

-----------------------------------------------------------------------------
(* Handlers *)

Known(t) == records[t].status \notin {"absent", "gone"}
Finished(t) == records[t].status \in {"done", "error"}
\* A token is a fresh uuid: which of the unused ones is drawn makes no difference.
Fresh(t) == t = CHOOSE u \in Tokens : records[u].status = "absent"

\* _forget: the record, its files and every client id that names it.
Forget(gone) ==
  /\ records' = [t \in Tokens |-> IF t \in gone THEN NoRecord("gone") ELSE records[t]]
  /\ clientTokens' = [c \in ClientIds |->
       IF clientTokens[c] \in gone THEN None ELSE clientTokens[c]]

\* _prune keeps what is unfinished, whatever its age.
Prunable == {t \in Tokens : Finished(t) /\ records[t].old}

ExistingNever(c) == FALSE                          \* mutant: no client ids
Existing(c) == clientTokens[c] \notin Prunable \cup {None}

SubmitAgain(c) ==      \* a retried submit: the first token is returned
  /\ Existing(c)
  /\ Forget(Prunable)
  /\ UNCHANGED <<queue, thread, renders>>

SubmitFull(c) ==       \* put_nowait raises: the new record is forgotten, 429
  /\ ~Existing(c)
  /\ Len(queue) = QueueLimit
  /\ Forget(Prunable)
  /\ UNCHANGED <<queue, thread, renders>>

SubmitNew(c, t) ==
  /\ ~Existing(c)
  /\ Len(queue) < QueueLimit
  /\ records[t].status = "absent" /\ Fresh(t)
  /\ records' = [u \in Tokens |-> IF u = t THEN NewRecord(c)
                                  ELSE IF u \in Prunable THEN NoRecord("gone") ELSE records[u]]
  /\ clientTokens' = [d \in ClientIds |-> IF d = c THEN t
                                  ELSE IF clientTokens[d] \in Prunable THEN None ELSE clientTokens[d]]
  /\ queue' = Append(queue, t)
  /\ UNCHANGED <<thread, renders>>

StatusDrops(t) ==                                  \* mutant: dropped on read
  /\ Known(t)
  /\ Forget({t} \cap {u \in Tokens : Finished(u)})
  /\ UNCHANGED <<queue, thread, renders>>

\* The first status that says "done" starts the shorter, delivered TTL.
Status(t) ==
  /\ Known(t)
  /\ records' = IF records[t].status = "done" /\ ~records[t].delivered
                THEN [records EXCEPT ![t].delivered = TRUE, ![t].old = FALSE]
                ELSE records
  /\ UNCHANGED <<clientTokens, queue, thread, renders>>

HasAudio(t) == records[t].status = "done" /\ records[t].result

\* An unfinished job is cancelled and made prunable; nothing else forgets it.
Ack(t) ==
  /\ IF Known(t) /\ ~Finished(t)
     THEN /\ records' = [records EXCEPT ![t].cancel = TRUE, ![t].delivered = TRUE, ![t].old = TRUE]
          /\ UNCHANGED clientTokens
     ELSE Forget({t} \cap {u \in Tokens : Known(u)})
  /\ UNCHANGED <<queue, thread, renders>>

Cancel(t) ==
  /\ records' = IF Known(t) THEN [records EXCEPT ![t].cancel = TRUE] ELSE records
  /\ UNCHANGED <<clientTokens, queue, thread, renders>>

-----------------------------------------------------------------------------
(* The job thread: _main, _run and _finish *)

Startup ==           \* the backend is prepared; a failure leaves the loop running
  /\ thread.pc = "startup"
  /\ thread' = NoToken
  /\ UNCHANGED <<records, clientTokens, queue, renders>>

Pick ==
  /\ thread.pc = "idle" /\ queue # <<>>
  /\ thread' = [NoToken EXCEPT !.pc = "picked", !.token = Head(queue)]
  /\ queue' = Tail(queue)
  /\ UNCHANGED <<records, clientTokens, renders>>

SkipCanceled ==
  /\ thread.pc = "picked" /\ records[thread.token].cancel
  /\ thread' = [thread EXCEPT !.pc = "finish", !.outcome = "canceled"]
  /\ UNCHANGED <<records, clientTokens, queue, renders>>

StartRender ==
  /\ thread.pc = "picked" /\ ~records[thread.token].cancel
  /\ records' = [records EXCEPT ![thread.token].status = "running"]
  /\ renders' = [renders EXCEPT ![records[thread.token].client] = @ + 1]
  /\ thread' = [thread EXCEPT !.pc = "render"]
  /\ UNCHANGED <<clientTokens, queue>>

\* The cancel flag is read once more; a cancelled render is discarded.
Rendered ==
  /\ thread.pc = "render"
  /\ IF records[thread.token].cancel
     THEN /\ thread' = [thread EXCEPT !.pc = "finish", !.outcome = "canceled"]
          /\ UNCHANGED records
     ELSE /\ records' = [records EXCEPT ![thread.token].result = TRUE]
          /\ thread' = [thread EXCEPT !.pc = "finish"]
  /\ UNCHANGED <<clientTokens, queue, renders>>

RenderRaisesThrough ==                             \* mutant: ends the thread
  /\ thread.pc = "render"
  /\ thread' = [thread EXCEPT !.pc = "stopped"]
  /\ UNCHANGED <<records, clientTokens, queue, renders>>

RenderRaises ==
  /\ thread.pc = "render"
  /\ \E message \in {"failed", "empty"} :
       thread' = [thread EXCEPT !.pc = "finish", !.outcome = message]
  /\ UNCHANGED <<records, clientTokens, queue, renders>>

\* `"error" if error else "done"`: a failure with an empty message reads as done.
FinishStatus ==
  /\ thread.pc = "finish"
  /\ records' = [records EXCEPT ![thread.token].status =
                   IF thread.outcome \in {"none", "empty"} THEN "done" ELSE "error"]
  /\ thread' = [thread EXCEPT !.pc = "settle"]
  /\ UNCHANGED <<clientTokens, queue, renders>>

\* The record may have been acknowledged since its status was written.
FinishError ==
  /\ thread.pc = "settle"
  /\ records' = IF Known(thread.token)
                THEN [records EXCEPT ![thread.token].error = thread.outcome] ELSE records
  /\ thread' = NoToken
  /\ UNCHANGED <<clientTokens, queue, renders>>

JobThread == Startup \/ Pick \/ SkipCanceled \/ StartRender \/ Rendered \/ RenderRaises
               \/ FinishStatus \/ FinishError

\* Time passes: the TTL of a finished record (finished_at or delivered_at).
Age(t) ==
  /\ Finished(t) /\ ~records[t].old
  /\ records[t].delivered \/ thread.token # t
  /\ records' = [records EXCEPT ![t].old = TRUE]
  /\ UNCHANGED <<clientTokens, queue, thread, renders>>

\* Everything the host knows is in memory.
Restart ==
  /\ records' = [t \in Tokens |-> IF Known(t) THEN NoRecord("gone") ELSE records[t]]
  /\ clientTokens' = [c \in ClientIds |-> None]
  /\ queue' = <<>>
  /\ thread' = [NoToken EXCEPT !.pc = "startup"]
  /\ UNCHANGED renders
=============================================================================
