---------------------------- MODULE JobLifecycle ----------------------------
(***************************************************************************)
(* What the job queue promises of each job, whatever processes run it: a   *)
(* job is started and restarted until it settles, publishes at most one    *)
(* take, is done only with its take, and an accepted cancel is final.      *)
(* Jobs are independent, and one step of the queue may move several.       *)
(***************************************************************************)
CONSTANT Jobs

VARIABLES
  phase,    \* the status a client reads
  asked,    \* whether a cancel was accepted
  takes,    \* the takes the job has published
  deleting  \* jobs whose project is being, or has been, deleted

vars == <<phase, asked, takes, deleting>>

Init ==
  /\ phase \in [Jobs -> {"absent", "queued"}]
  /\ asked = [j \in Jobs |-> FALSE]
  /\ takes = [j \in Jobs |-> {}]
  /\ deleting = {}

Moves(j, from, to) == phase[j] = from /\ phase'[j] = to
KeepsAsked(j) == asked'[j] = asked[j]
KeepsTakes(j) == takes'[j] = takes[j]

Submit(j) == Moves(j, "absent", "queued") /\ ~asked'[j] /\ KeepsTakes(j)
Start(j) == Moves(j, "queued", "running") /\ ~asked[j] /\ KeepsAsked(j) /\ KeepsTakes(j)

\* A lost attempt gives the job back, unless a cancel waits for it.
Requeue(j) == Moves(j, "running", "queued") /\ ~asked[j] /\ KeepsAsked(j) /\ KeepsTakes(j)

AskCancel(j) ==
  /\ Moves(j, "running", "running") \/ Moves(j, "queued", "cancelled")
  /\ asked'[j] /\ KeepsTakes(j)

\* A take appears while the job runs, before the job says that it is done.
Publish(j) ==
  /\ Moves(j, "running", "running") /\ ~asked[j] /\ KeepsAsked(j)
  /\ j \notin deleting /\ takes[j] = {}
  /\ \A t, u \in takes'[j] : t = u

Finish(j) ==
  /\ Moves(j, "running", "done") /\ ~asked[j] /\ KeepsAsked(j) /\ KeepsTakes(j)
  /\ takes[j] # {} \/ j \in deleting

Fail(j) ==
  /\ Moves(j, "running", "error") \/ (Moves(j, "queued", "error") /\ j \in deleting' \ deleting)
  /\ KeepsAsked(j) /\ KeepsTakes(j)

Cancel(j) ==
  /\ Moves(j, "running", "cancelled")
  /\ asked[j] /\ KeepsAsked(j) /\ KeepsTakes(j)

\* An aborted deletion gives back what it swept.
Restore(j) ==
  /\ Moves(j, "error", "queued") /\ j \in deleting \ deleting'
  /\ ~asked[j] /\ KeepsAsked(j) /\ KeepsTakes(j)

\* Takes disappear only with their project.
Erase(j) == phase'[j] = phase[j] /\ KeepsAsked(j) /\ j \in deleting /\ takes'[j] = {}

Stay(j) == phase'[j] = phase[j] /\ KeepsAsked(j) /\ KeepsTakes(j)

Step(j) ==
  \/ Submit(j) \/ Start(j) \/ Requeue(j) \/ AskCancel(j) \/ Publish(j) \/ Finish(j)
  \/ Fail(j) \/ Cancel(j) \/ Restore(j) \/ Erase(j) \/ Stay(j)

Next == \A j \in Jobs : Step(j)

Spec == Init /\ [][Next]_vars
=============================================================================
