----------------------------- MODULE ProjectLock ----------------------------
(***************************************************************************)
(* The lock file of one project (server/storage/locks.py): created         *)
(* exclusively, kept fresh by a thread of its holder, taken for abandoned  *)
(* when it is old, and removed by path, whoever created it.                *)
(***************************************************************************)
EXTENDS Naturals

CONSTANTS
  Threads,      \* threads of the server and of the worker
  MaxDepth,     \* bound on nested entries of one thread
  LockFaults    \* what may go wrong: see LockFaultKinds

\* "crash": a process dies with the lock; "suspend": a live holder does not run
\* for _PROJECT_LOCK_STALE_SEC; "touch": one touch raises OSError, which ends
\* the refresh thread.
LockFaultKinds == {"crash", "suspend", "touch"}

ASSUME LockAssumption == MaxDepth \in Nat \ {0} /\ LockFaults \subseteq LockFaultKinds

VARIABLES
  file,         \* the lock file: none, younger or older than the stale limit
  pc,           \* where each thread is in _project_lock
  held,         \* _PROJECT_LOCK_STATE.held of each thread
  refreshing,   \* its refresh thread runs
  lapsed        \* history: a holder died, slept too long or stopped refreshing

vars == <<file, pc, held, refreshing, lapsed>>

Waiting == {"open", "stat", "unlink"}
Holding == {"in", "release"}

TypeOK ==
  /\ file \in {"none", "fresh", "stale"}
  /\ pc \in [Threads -> {"idle", "dead"} \cup Waiting \cup Holding]
  /\ held \in [Threads -> 0 .. MaxDepth]
  /\ refreshing \in [Threads -> BOOLEAN]
  /\ lapsed \in BOOLEAN
  /\ \A t \in Threads : held[t] > 0 <=> pc[t] = "in"

Init ==
  /\ file = "none"
  /\ pc = [t \in Threads |-> "idle"]
  /\ held = [t \in Threads |-> 0]
  /\ refreshing = [t \in Threads |-> FALSE]
  /\ lapsed = FALSE

Goto(t, where) == pc' = [pc EXCEPT ![t] = where]

-----------------------------------------------------------------------------
Ask(t) ==
  /\ pc[t] = "idle"
  /\ Goto(t, "open")
  /\ UNCHANGED <<file, held, refreshing, lapsed>>

Reenter(t) ==          \* held[project_id] is set: the file is not touched
  /\ pc[t] = "in" /\ held[t] < MaxDepth
  /\ held' = [held EXCEPT ![t] = @ + 1]
  /\ UNCHANGED <<file, pc, refreshing, lapsed>>

\* os.open with O_CREAT | O_EXCL.
CreateShared(t) ==                                 \* mutant: no O_EXCL
  /\ pc[t] = "open"
  /\ file' = "fresh"
  /\ Goto(t, "in")
  /\ held' = [held EXCEPT ![t] = 1]
  /\ refreshing' = [refreshing EXCEPT ![t] = TRUE]
  /\ UNCHANGED lapsed
Create(t) ==
  /\ pc[t] = "open" /\ file = "none"
  /\ file' = "fresh"
  /\ Goto(t, "in")
  /\ held' = [held EXCEPT ![t] = 1]
  /\ refreshing' = [refreshing EXCEPT ![t] = TRUE]
  /\ UNCHANGED lapsed

Exists(t) ==
  /\ pc[t] = "open" /\ file # "none"
  /\ Goto(t, "stat")
  /\ UNCHANGED <<file, held, refreshing, lapsed>>

\* The age is read here and acted on in a later step.
JudgeAlive(t) ==                                   \* mutant: no lock is stale
  /\ pc[t] = "stat"
  /\ Goto(t, "open")
  /\ UNCHANGED <<file, held, refreshing, lapsed>>
Judge(t) ==
  /\ pc[t] = "stat"
  /\ Goto(t, IF file = "stale" THEN "unlink" ELSE "open")
  /\ UNCHANGED <<file, held, refreshing, lapsed>>

Steal(t) ==
  /\ pc[t] = "unlink"
  /\ file' = "none"
  /\ Goto(t, "open")
  /\ UNCHANGED <<held, refreshing, lapsed>>

TimeOut(t) ==          \* _PROJECT_LOCK_TIMEOUT_SEC
  /\ pc[t] = "stat" /\ file = "fresh"
  /\ Goto(t, "idle")
  /\ UNCHANGED <<file, held, refreshing, lapsed>>

\* touch() creates the file when it is not there.
Touch(t) ==
  /\ pc[t] = "in" /\ refreshing[t]
  /\ \/ file' = "fresh" /\ UNCHANGED <<refreshing, lapsed>>
     \/ /\ "touch" \in LockFaults
        /\ refreshing' = [refreshing EXCEPT ![t] = FALSE]
        /\ lapsed' = TRUE
        /\ UNCHANGED file
  /\ UNCHANGED <<pc, held>>

Leave(t) ==
  /\ pc[t] = "in"
  /\ held' = [held EXCEPT ![t] = @ - 1]
  /\ IF held[t] > 1 THEN UNCHANGED <<pc, refreshing>>
     ELSE Goto(t, "release") /\ refreshing' = [refreshing EXCEPT ![t] = FALSE]
  /\ UNCHANGED <<file, lapsed>>

Release(t) ==
  /\ pc[t] = "release"
  /\ file' = "none"
  /\ Goto(t, "idle")
  /\ UNCHANGED <<held, refreshing, lapsed>>

Acquire(t) == Create(t) \/ Exists(t) \/ Judge(t) \/ Steal(t) \/ TimeOut(t)
Step(t) == Ask(t) \/ Reenter(t) \/ Acquire(t) \/ Touch(t) \/ Leave(t) \/ Release(t)

Crash(t) ==
  /\ "crash" \in LockFaults /\ pc[t] # "dead"
  /\ Goto(t, "dead")
  /\ held' = [held EXCEPT ![t] = 0]
  /\ refreshing' = [refreshing EXCEPT ![t] = FALSE]
  /\ lapsed' = (lapsed \/ pc[t] \in Holding)
  /\ UNCHANGED file

\* The file grows old: never while a live holder refreshes it three times as
\* often, or is about to remove it.
KeptFresh == \E t \in Threads : (pc[t] = "in" /\ refreshing[t]) \/ pc[t] = "release"
Expire ==
  /\ file = "fresh"
  /\ KeptFresh => "suspend" \in LockFaults
  /\ file' = "stale"
  /\ lapsed' = (lapsed \/ KeptFresh)
  /\ UNCHANGED <<pc, held, refreshing>>

Next == (\E t \in Threads : Step(t) \/ Crash(t)) \/ Expire

Spec == Init /\ [][Next]_vars

\* Waiters poll, releases complete, time passes.
FairSpec ==
  Spec /\ WF_vars(Expire) /\ \A t \in Threads : WF_vars(Acquire(t)) /\ WF_vars(Release(t))

-----------------------------------------------------------------------------
(* Properties *)

\* One thread at a time changes the metadata of a project, until a holder first
\* dies, sleeps through the stale limit or loses its refresh thread
\* (tests/test_project_lock.py: "Every metadata mutation [...] serializes on a
\* lock file").
OneHolder == \A t, u \in Threads : pc[t] = "in" /\ pc[u] = "in" => t = u
Exclusive == ~lapsed => OneHolder

\* A lock that nobody alive holds is taken again: a process that died with the
\* lock, or whose file was removed and touched again, blocks nobody for ever.
SomeoneWaits == \E t \in Threads : pc[t] \in Waiting
SomeoneHolds == \E t \in Threads : pc[t] = "in"
NeverAbandoned == (SomeoneWaits /\ ~SomeoneHolds) ~> (SomeoneHolds \/ ~SomeoneWaits)

-----------------------------------------------------------------------------
(* What the documents say, and TLC refutes: OneHolder without the exemption.  *)
(* Of two waiters that judged the file of a dead holder stale, the second      *)
(* unlinks the fresh file of the first.                                        *)
=============================================================================
