---------------------------- MODULE WorkerProcess ---------------------------
(***************************************************************************)
(* Worker processes (worker/run_worker.py): the OS lock and the lease that *)
(* let one of them in (server/jobs/worker_registry.py), its loop, the      *)
(* renders and LoRA trainings it runs over ModelLoading.  What it publishes *)
(* in worker_status is left out: nothing modelled here reads it.            *)
(***************************************************************************)
EXTENDS ModelLoading

CONSTANTS
  Jobs,         \* jobs that may be enqueued
  Bodies,       \* what each of them may ask for: see Body
  Trained,      \* packs trained before
  ProcessFaults \* what may go wrong: see ProcessFaultKinds

\* "crash": a process dies; "stall": a live process does not run for longer
\* than every stale limit; "interrupt": Ctrl-C.
ProcessFaultKinds == {"crash", "stall", "interrupt"}

Body == [kind: {"render", "train"}, profile: Profiles, pack: Packs \cup {None}]

ASSUME ProcessAssumption ==
  /\ Bodies \in [Jobs -> SUBSET Body] /\ Trained \subseteq Packs
  /\ ProcessFaults \subseteq ProcessFaultKinds /\ None \notin Workers \cup Jobs

VARIABLES
  osLock,       \* the process whose open file is locked
  lease,        \* worker_lease: its owner, and whether its heartbeat is fresh
  jobs,         \* the job rows, and the take or the pack each has made
  packs,        \* the metadata in each pack's directory
  left          \* history: packs whose process ended between writing their
                \* metadata and settling their job

gate == <<osLock, lease>>
store == <<jobs, packs, left>>
vars == <<memory, task, osLock, lease, jobs, packs, left>>

\* The steps before, around and after the loads.
WaitPcs == {"oslock", "lease"}
BusyPcs == LoadPcs \cup {"loop", "train", "written", "publish"}
EndPcs == {"release", "unlock", "exiting"}
\* `pack` is the pack to attach, or the one a training writes; `expired` says
\* that the watchdog has settled the job and is about to end the process.
Task == [pc: {"off"} \cup WaitPcs \cup BusyPcs \cup EndPcs,
         profile: Profiles \cup {None}, pack: Packs \cup {None}, job: Jobs \cup {None},
         expired: BOOLEAN]
Idle == [pc |-> "off", profile |-> None, pack |-> None, job |-> None, expired |-> FALSE]

\* A take's metadata, with the decoder and the language model that made it.
Take == [profile: Profiles, lora: Packs \cup {None}, decoder: SUBSET Adapters,
         lm: Places, unsure: BOOLEAN]
\* The id of a pack is no take's metadata.
ASSUME ResultAssumption == \A k \in Packs : k \notin Take /\ k # Nothing
Job == [status: {"none", "queued", "running", "done", "error", "cancelled"},
        kind: {"render", "train"}, profile: Profiles, pack: Packs \cup {None},
        by: Workers \cup {None}, cancel: BOOLEAN, result: Take \cup Packs \cup {Nothing}]
NoJob == [status |-> "none", kind |-> "render", profile |-> Default, pack |-> None,
          by |-> None, cancel |-> FALSE, result |-> Nothing]

TypeOK ==
  /\ memory \in [Workers -> Memory] /\ task \in [Workers -> Task]
  /\ osLock \in Workers \cup {None}
  /\ lease \in [owner: Workers \cup {None}, fresh: BOOLEAN]
  /\ jobs \in [Jobs -> Job]
  /\ packs \in [Packs -> {"none", "training", "ok", "error"}] /\ left \subseteq Packs
  /\ \A w \in Workers : Pc(w) = "off" => task[w] = Idle /\ memory[w] = Nothing
  /\ \A w \in Workers : Pc(w) \in {"train", "written"} => packs[task[w].pack] # "none"

Init ==
  /\ memory = [w \in Workers |-> Nothing] /\ task = [w \in Workers |-> Idle]
  /\ osLock = None /\ lease = [owner |-> None, fresh |-> FALSE]
  /\ jobs = [j \in Jobs |-> NoJob]
  /\ packs = [k \in Packs |-> IF k \in Trained THEN "ok" ELSE "none"]
  /\ left = {}

Inside(w) == Pc(w) \in BusyPcs
Of(w) == task[w].job
Pack(w) == task[w].pack
Does(w, kind) == Of(w) # None /\ jobs[Of(w)].kind = kind
Asked(w) == Of(w) # None /\ jobs[Of(w)].cancel
Stalls == "stall" \in ProcessFaults
Usable == {k \in Packs : packs[k] = "ok"}

-----------------------------------------------------------------------------
(* The server: enqueue_job and request_cancel *)

\* _resolve_lora and _resolve_dit_profile: a job with a pack runs on the base the
\* pack was made for. _check_worker_capability excludes nothing here: a report
\* that is stale or absent lets every job in.
Accepted(body) == body.pack # None => body.pack \in Usable /\ body.profile = LoraBase

Enqueue(j, body) ==
  /\ jobs[j].status = "none" /\ Accepted(body)
  /\ jobs' = [jobs EXCEPT ![j] = [NoJob EXCEPT !.status = "queued", !.kind = body.kind,
                                     !.profile = body.profile, !.pack = body.pack]]
  /\ UNCHANGED <<memory, task, gate, packs, left>>

RequestCancel(j) ==
  /\ jobs[j].status = "running" /\ ~jobs[j].cancel
  /\ jobs' = [jobs EXCEPT ![j].cancel = TRUE]
  /\ UNCHANGED <<memory, task, gate, packs, left>>

-----------------------------------------------------------------------------
(* Getting in *)

Boot(w) ==
  /\ Pc(w) = "off"
  /\ Goto(w, "oslock")
  /\ UNCHANGED <<memory, gate, store>>

TakeOsLockShared(w) ==                             \* mutant: LOCK_SH
  /\ Pc(w) = "oslock"
  /\ osLock' = w
  /\ Goto(w, "lease")
  /\ UNCHANGED <<memory, lease, store>>
TakeOsLock(w) ==
  /\ Pc(w) = "oslock" /\ osLock = None
  /\ osLock' = w
  /\ Goto(w, "lease")
  /\ UNCHANGED <<memory, lease, store>>

\* The lease in hand, the default profile is loaded.
TakeFreeLease(w) ==                                \* mutant: never stale
  /\ Pc(w) = "lease" /\ lease.owner \in {None, w}
  /\ lease' = [owner |-> w, fresh |-> TRUE]
  /\ task' = [task EXCEPT ![w].pc = "load", ![w].profile = Default]
  /\ UNCHANGED <<memory, osLock, store>>
TakeLease(w) ==
  /\ Pc(w) = "lease" /\ (lease.owner \in {None, w} \/ ~lease.fresh)
  /\ lease' = [owner |-> w, fresh |-> TRUE]
  /\ task' = [task EXCEPT ![w].pc = "load", ![w].profile = Default]
  /\ UNCHANGED <<memory, osLock, store>>

\* One turn of _lease_heartbeat_loop: a lost lease ends the loop.
Beat(w) ==
  /\ Inside(w)
  /\ lease' = [lease EXCEPT !.fresh = @ \/ lease.owner = w]
  /\ task' = IF lease.owner # w /\ Pc(w) = "loop" THEN [task EXCEPT ![w].pc = "release"] ELSE task
  /\ UNCHANGED <<memory, osLock, store>>

ExpireLease ==
  /\ lease.fresh
  /\ Stalls \/ ~\E w \in Workers : Inside(w) /\ lease.owner = w
  /\ lease' = [lease EXCEPT !.fresh = FALSE]
  /\ UNCHANGED <<memory, task, osLock, store>>

-----------------------------------------------------------------------------
(* The loop *)

\* reclaim_stale_jobs, which takes no notice of who is alive: only a heartbeat
\* that stopped, with its process or because the process stalls, shows.
Reclaim(w, j) ==
  /\ Pc(w) = "loop" /\ jobs[j].status = "running"
  /\ Stalls \/ ~\E u \in Workers : Inside(u) /\ Of(u) = j
  /\ \E outcome \in IF jobs[j].cancel THEN {"cancelled"} ELSE {"queued", "error"} :
       jobs' = [jobs EXCEPT ![j].status = outcome, ![j].by = None]
  /\ UNCHANGED <<memory, task, gate, packs, left>>

ClaimRender(w, j) ==
  /\ Pc(w) = "loop" /\ jobs[j].status = "queued" /\ jobs[j].kind = "render"
  /\ jobs' = [jobs EXCEPT ![j].status = "running", ![j].by = w]
  /\ task' = [task EXCEPT ![w] = [pc |-> "load", profile |-> jobs[j].profile,
                                  pack |-> jobs[j].pack, job |-> j, expired |-> FALSE]]
  /\ UNCHANGED <<memory, gate, packs, left>>

ClaimTrain(w, j) ==
  /\ Pc(w) = "loop" /\ jobs[j].status = "queued" /\ jobs[j].kind = "train"
  /\ \E k \in Packs :
       /\ packs[k] = "none" /\ packs' = [packs EXCEPT ![k] = "training"]
       /\ task' = [task EXCEPT ![w] = [pc |-> "load", profile |-> LoraBase, pack |-> k, job |-> j,
                                       expired |-> FALSE]]
  /\ jobs' = [jobs EXCEPT ![j].status = "running", ![j].by = w]
  /\ UNCHANGED <<memory, gate, left>>

\* After the startup and after every job the loop publishes its readiness and goes
\* on. A watchdog that expires the job is waited for: run_claimed_job joins its
\* thread.
Publish(w) ==
  /\ Pc(w) = "publish" /\ ~task[w].expired
  /\ task' = [task EXCEPT ![w] = [Idle EXCEPT !.pc = "loop"]]
  /\ UNCHANGED <<memory, gate, store>>

-----------------------------------------------------------------------------
(* Jobs *)

\* The row's end: finish_done and mark_cancelled leave alone a row that is not
\* running, and so does _set_status with an attempt token. A failed training has
\* none; the row it could overwrite is an error already.
Settle(j, outcome, result) ==
  jobs' = IF jobs[j].status # "running" THEN jobs
          ELSE [jobs EXCEPT ![j].status = outcome, ![j].result = result]

StartupEnds(w) ==
  /\ Of(w) = None /\ Pc(w) \in {"loaded", "failed"}
  /\ Goto(w, "publish")
  /\ UNCHANGED <<memory, gate, store>>

\* on_dit_loaded publishes the profile before the render.
Announce(w) ==
  /\ Pc(w) = "loaded" /\ Does(w, "render")
  /\ Goto(w, "adapter")
  /\ UNCHANGED <<memory, gate, store>>

Attach(w) ==
  /\ Does(w, "render")
  /\ Unload(w, Pack(w)) \/ (Pack(w) # None /\ Add(w, Pack(w), Pack(w) \in Usable))
  /\ UNCHANGED <<gate, store>>

\* _abort_if_cancelled, and the check before a training.
Abort(w) ==
  /\ Asked(w) /\ Pc(w) \in (IF Does(w, "train") THEN {"load"} ELSE {"load", "adapter", "render"})
  /\ Settle(Of(w), "cancelled", Nothing)
  /\ packs' = IF Does(w, "train") THEN [packs EXCEPT ![Pack(w)] = "none"] ELSE packs
  /\ Goto(w, "publish")
  /\ UNCHANGED <<memory, gate, left>>

Render(w) ==
  /\ Pc(w) = "render" /\ ~Asked(w)
  /\ \/ /\ Settle(Of(w), "done",
             [profile |-> Wanted(w), lora |-> Pack(w), decoder |-> memory[w].decoder,
              lm |-> memory[w].lm, unsure |-> memory[w].unsure])
        /\ Goto(w, "publish")
     \/ Goto(w, "failed") /\ UNCHANGED jobs
  /\ UNCHANGED <<memory, gate, packs, left>>

Fail(w) ==
  /\ Pc(w) = "failed" /\ Of(w) # None
  /\ Settle(Of(w), IF Asked(w) THEN "cancelled" ELSE "error", Nothing)
  /\ packs' = IF Does(w, "train")
              THEN [packs EXCEPT ![Pack(w)] = IF Asked(w) THEN "none" ELSE "error"] ELSE packs
  /\ Goto(w, "publish")
  /\ UNCHANGED <<memory, gate, left>>

\* The trainer wraps the decoder of the loaded handler, whatever it carries.
BeginTraining(w) ==
  /\ Pc(w) = "loaded" /\ Does(w, "train")
  /\ Keep(w, [memory[w] EXCEPT !.decoder = @ \cup {InTraining}])
  /\ Goto(w, "train")
  /\ UNCHANGED <<gate, store>>

\* The handler is dropped however the training ends.
EndTraining(w) ==
  /\ Pc(w) = "train"
  /\ Keep(w, Invalidated(memory[w]))
  /\ \/ Goto(w, "failed") /\ UNCHANGED store
     \/ /\ ~Asked(w)
        /\ packs' = [packs EXCEPT ![Pack(w)] = "ok"]
        /\ Goto(w, "written") /\ UNCHANGED <<jobs, left>>
  /\ UNCHANGED gate

\* finish_done names the job and not the attempt. It refuses a row that is not
\* running and one whose cancel came before; then the pack is taken back.
Finished(w) == jobs[Of(w)].status = "running" /\ ~Asked(w)
KeepPack(w) ==                                     \* mutant: ignores the answer
  /\ Pc(w) = "written"
  /\ (IF Finished(w) THEN Settle(Of(w), "done", Pack(w)) ELSE Settle(Of(w), "cancelled", Nothing))
  /\ Goto(w, "publish")
  /\ UNCHANGED <<memory, gate, packs, left>>
FinishTraining(w) ==
  /\ Pc(w) = "written"
  /\ (IF Finished(w) THEN Settle(Of(w), "done", Pack(w)) ELSE Settle(Of(w), "cancelled", Nothing))
  /\ packs' = IF Finished(w) THEN packs ELSE [packs EXCEPT ![Pack(w)] = "none"]
  /\ Goto(w, "publish")
  /\ UNCHANGED <<memory, gate, left>>

-----------------------------------------------------------------------------
(* Getting out *)

Gone(w) ==
  /\ memory' = [memory EXCEPT ![w] = Nothing]
  /\ task' = [task EXCEPT ![w] = Idle]
  /\ osLock' = IF osLock = w THEN None ELSE osLock
\* A pack whose metadata is written stays, though nobody will settle its job.
Leaves(w) ==
  /\ left' = IF Pc(w) = "written" THEN left \cup {Pack(w)} ELSE left
  /\ UNCHANGED <<jobs, packs>>

\* Ctrl-C: the finally blocks run, and the job is left as it is. Before the OS
\* lock there is nothing to undo.
Interrupt(w) ==
  /\ "interrupt" \in ProcessFaults /\ Pc(w) \in BusyPcs \cup {"lease"}
  /\ Leaves(w)
  /\ task' = [task EXCEPT ![w] = [Idle EXCEPT !.pc = IF Pc(w) = "lease" THEN "unlock" ELSE "release"]]
  /\ UNCHANGED <<memory, gate>>

Release(w) ==
  /\ Pc(w) = "release"
  /\ lease' = IF lease.owner = w THEN [owner |-> None, fresh |-> FALSE] ELSE lease
  /\ Goto(w, "unlock")
  /\ UNCHANGED <<memory, osLock, store>>

\* The models stay on the card until the process is gone; which ones no longer
\* matters.
Unlock(w) ==
  /\ Pc(w) = "unlock"
  /\ osLock' = IF osLock = w THEN None ELSE osLock
  /\ Keep(w, [Nothing EXCEPT !.profile = IF Holds(w) = None THEN None ELSE Default])
  /\ Goto(w, "exiting")
  /\ UNCHANGED <<lease, store>>

Exit(w) ==
  /\ Pc(w) = "exiting" /\ Gone(w)
  /\ UNCHANGED <<lease, store>>

Crash(w) ==
  /\ "crash" \in ProcessFaults /\ Pc(w) # "off"
  /\ Gone(w) /\ Leaves(w) /\ UNCHANGED lease

\* _expire_job settles the row, if it is running: as cancelled when it reads
\* that a cancel is pending, else as an error ...
Deadline(w) ==
  /\ Inside(w) /\ Of(w) # None /\ jobs[Of(w)].status = "running"
  /\ \E outcome \in {"error"} \cup (IF Asked(w) THEN {"cancelled"} ELSE {}) :
       Settle(Of(w), outcome, Nothing)
  /\ task' = [task EXCEPT ![w].expired = TRUE]
  /\ UNCHANGED <<memory, gate, packs, left>>

\* ... and then ends the process, which worked on meanwhile.
ExitProcess(w) ==
  /\ task[w].expired
  /\ Gone(w) /\ Leaves(w) /\ UNCHANGED lease

-----------------------------------------------------------------------------
Enter(w) == Boot(w) \/ TakeOsLock(w) \/ TakeLease(w) \/ Beat(w)
Work(w) == StartupEnds(w) \/ Announce(w) \/ Attach(w) \/ Abort(w) \/ Render(w) \/ Fail(w)
             \/ BeginTraining(w) \/ EndTraining(w) \/ FinishTraining(w) \/ Publish(w)
             \/ (Load(w) /\ UNCHANGED <<gate, store>>)
Leave(w) == Interrupt(w) \/ Release(w) \/ Unlock(w) \/ Exit(w) \/ Crash(w) \/ Deadline(w)
              \/ ExitProcess(w)

Next ==
  \/ \E w \in Workers : Enter(w) \/ Work(w) \/ Leave(w)
  \/ \E w \in Workers, j \in Jobs : Reclaim(w, j) \/ ClaimRender(w, j) \/ ClaimTrain(w, j)
  \/ \E j \in Jobs : RequestCancel(j) \/ \E body \in Bodies[j] : Enqueue(j, body)
  \/ ExpireLease

Spec == Init /\ [][Next]_vars

\* A waiting process polls on, and time passes.
FairSpec == Spec /\ WF_vars(ExpireLease) /\ \A w \in Workers : WF_vars(TakeLease(w))

-----------------------------------------------------------------------------
(* Properties *)

\* One process at a time loads models and runs jobs, even when its heartbeat
\* stalls and its lease looks stale (SPEC.md 4.3: one GPU occupant). The row of
\* the job it works on is its own and running, until its own watchdog has
\* settled it and is about to end the process: what lets a LoRA training settle
\* its job without an attempt token (runner.py, _run_train_lora_job).
Occupies(w) == Inside(w) \/ (memory[w] # Nothing /\ Pc(w) # "exiting")
OneOccupant ==
  /\ \A v, w \in Workers : Occupies(v) /\ Occupies(w) => v = w
  /\ \A w \in Workers : Inside(w) /\ Of(w) # None /\ Pc(w) # "publish" =>
       /\ jobs[Of(w)].by = w
       /\ jobs[Of(w)].status = "running" \/ task[w].expired

\* A take was rendered by the profile and with exactly the pack its metadata
\* names, unless a call about a pack raised in the handler before
\* (_ensure_lora_adapter: no later job inherits an indeterminate adapter); and an
\* offloaded profile beside a language model on the GPU only after the last try
\* to move that away failed (_park_language_model).
AppliedAsRecorded ==
  \A j \in Jobs : jobs[j].result \in Take =>
    LET take == jobs[j].result IN
    /\ take.unsure \/ take.decoder = Carried(take.lora)
    /\ take.profile \in Loadable /\ (take.lora # None => take.profile = LoraBase)
    /\ take.profile \in Offloaded => take.lm \in {"cpu", "stuck"}

\* A pack that a training leaves behind is offered only if its job is done or
\* still to be settled, or if the process ended in between; the pack of a done
\* job stays. So no training that a cancel, a failure or the watchdog reached
\* first, and whose process lived to notice, leaves a pack to choose.
PackHasItsJob ==
  /\ \A k \in Usable \ (Trained \cup left) :
       (\E j \in Jobs : jobs[j].result = k) \/ (\E w \in Workers : Pc(w) = "written" /\ Pack(w) = k)
  /\ \A j \in Jobs : jobs[j].result \in Packs => jobs[j].result \in Usable \ left

\* Whoever has the OS lock gets the lease, however its last owner went.
TakenOver == \A w \in Workers : Pc(w) = "lease" ~> Pc(w) # "lease"

-----------------------------------------------------------------------------
(* What the documents say, and TLC refutes *)

\* loading.py: a later job must not "silently stack a second adapter on top of
\* the first"; a training takes the handler with the pack of the last render.
TrainedOnBase == \A w \in Workers : Pc(w) = "train" => memory[w].decoder = {InTraining}

\* loading.py: after any failed step "no later job inherits an indeterminate
\* adapter state".
AppliedAlways ==
  \A j \in Jobs : jobs[j].result \in Take =>
    jobs[j].result.decoder = Carried(jobs[j].result.lora)

\* run_worker.py: "a rival worker can never proceed past this point while a live
\* process still holds it"; a process that ends unlocks with its models loaded.
OneHolder == \A v, w \in Workers : memory[v] # Nothing /\ memory[w] # Nothing => v = w
=============================================================================
