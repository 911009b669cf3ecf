------------------------- MODULE WorkerProcessProofs -------------------------
(* The safety properties of WorkerProcess, proved for every set of         *)
(* processes, profiles, packs and jobs, and every fault.                   *)
EXTENDS WorkerProcess, TLAPS

-----------------------------------------------------------------------------
(* Types *)

Pcs == {"off"} \cup WaitPcs \cup BusyPcs \cup EndPcs
PackStates == {"none", "training", "ok", "error"}
Typed ==
  /\ memory \in [Workers -> Memory] /\ task \in [Workers -> Task]
  /\ osLock \in Workers \cup {None}
  /\ lease \in [owner: Workers \cup {None}, fresh: BOOLEAN]
  /\ jobs \in [Jobs -> Job]
  /\ packs \in [Packs -> PackStates] /\ left \subseteq Packs

LEMMA TaskFacts ==
  ASSUME Typed, NEW w \in Workers
  PROVE  /\ task[w] \in Task /\ Pc(w) \in Pcs /\ Wanted(w) \in Profiles \cup {None}
         /\ Pack(w) \in Packs \cup {None} /\ Of(w) \in Jobs \cup {None}
         /\ memory[w] \in Memory /\ Holds(w) \in Profiles \cup {None}
         /\ memory[w].lora \in Packs \cup {None} /\ memory[w].lm \in Places
         /\ task[w].expired \in BOOLEAN /\ memory[w].decoder \subseteq Adapters /\ memory[w].unsure \in BOOLEAN
<1>1. task[w] \in Task /\ memory[w] \in Memory
  BY DEF Typed
<1>2. /\ task[w].pc \in Pcs /\ task[w].profile \in Profiles \cup {None}
      /\ task[w].pack \in Packs \cup {None} /\ task[w].job \in Jobs \cup {None}
      /\ task[w].expired \in BOOLEAN
  BY <1>1 DEF Task, Pcs
<1>3. /\ memory[w].profile \in Profiles \cup {None} /\ memory[w].lora \in Packs \cup {None}
      /\ memory[w].lm \in Places /\ memory[w].decoder \subseteq Adapters
      /\ memory[w].unsure \in BOOLEAN
  BY <1>1 DEF Memory
<1> QED
  BY <1>1, <1>2, <1>3 DEF Pc, Wanted, Pack, Of, Holds

LEMMA JobFacts ==
  ASSUME Typed, NEW j \in Jobs
  PROVE  /\ jobs[j] \in Job /\ jobs[j].profile \in Profiles /\ jobs[j].pack \in Packs \cup {None}
         /\ jobs[j].kind \in {"render", "train"} /\ jobs[j].by \in Workers \cup {None}
         /\ jobs[j].status \in {"none", "queued", "running", "done", "error", "cancelled"}
         /\ jobs[j].cancel \in BOOLEAN /\ jobs[j].result \in Take \cup Packs \cup {Nothing}
BY DEF Typed, Job

LEMMA Absent ==
  /\ None \notin Workers /\ None \notin Jobs /\ None \notin Packs /\ None \notin Profiles
  /\ Nothing \notin Take /\ Nothing \notin Packs /\ \A k \in Packs : k \notin Take
<1>1. /\ None \notin Workers /\ None \notin Jobs /\ None \notin Packs /\ None \notin Profiles
  BY ProcessAssumption, LoadAssumption
<1>2. Nothing \notin Take
  BY <1>1 DEF Nothing, Take
<1> QED
  BY <1>1, <1>2, ResultAssumption

LEMMA NothingFacts ==
  /\ Nothing \in Memory /\ Nothing.profile = None /\ Nothing.lora = None
  /\ Nothing.decoder = {} /\ Nothing.lm = "none" /\ ~Nothing.unsure
BY DEF Nothing, Memory, Places

LEMMA IdleFacts ==
  /\ Idle \in Task /\ Idle.pc = "off" /\ Idle.profile = None /\ Idle.pack = None /\ Idle.job = None
  /\ Idle.expired = FALSE
  /\ \A pc \in Pcs : [Idle EXCEPT !.pc = pc] \in Task
  /\ \A pc : LET t == [Idle EXCEPT !.pc = pc] IN
             t.pc = pc /\ t.profile = None /\ t.pack = None /\ t.job = None
BY DEF Idle, Task, Pcs

\* The other processes stay as they are.
OnlyTask(w) == task' \in [Workers -> Task] /\ \A v \in Workers \ {w} : task'[v] = task[v]
OnlyMemory(w) == memory' \in [Workers -> Memory] /\ \A v \in Workers \ {w} : memory'[v] = memory[v]
To(w, pc) == /\ OnlyTask(w) /\ task'[w].pc = pc /\ task'[w].profile = task[w].profile
             /\ task'[w].pack = task[w].pack /\ task'[w].job = task[w].job
             /\ task'[w].expired = task[w].expired

LEMMA TaskMoves ==
  ASSUME Typed, NEW w \in Workers, NEW t \in Task, task' = [task EXCEPT ![w] = t]
  PROVE  OnlyTask(w) /\ task'[w] = t
BY DEF OnlyTask, Typed

LEMMA GotoMoves ==
  ASSUME Typed, NEW w \in Workers, NEW pc \in Pcs, Goto(w, pc)
  PROVE  To(w, pc)
<1> DEFINE t == [task[w] EXCEPT !.pc = pc]
<1>1. /\ t \in Task /\ t.pc = pc /\ t.profile = task[w].profile
      /\ t.pack = task[w].pack /\ t.job = task[w].job /\ t.expired = task[w].expired
  BY TaskFacts DEF Task, Pcs
<1>2. task' = [task EXCEPT ![w] = t]
  BY DEF Goto
<1> HIDE DEF t
<1> QED
  BY <1>1, <1>2, TaskMoves DEF To

LEMMA IdleMoves ==
  ASSUME Typed, NEW w \in Workers, NEW pc \in Pcs, task' = [task EXCEPT ![w] = [Idle EXCEPT !.pc = pc]]
  PROVE  /\ OnlyTask(w) /\ task'[w].pc = pc /\ task'[w].profile = None
         /\ task'[w].pack = None /\ task'[w].job = None
<1>1. PICK t \in Task : t = [Idle EXCEPT !.pc = pc]
  BY IdleFacts
<1>2. t.pc = pc /\ t.profile = None /\ t.pack = None /\ t.job = None
  BY <1>1, IdleFacts
<1> QED
  BY <1>1, <1>2, TaskMoves

LEMMA KeepMoves ==
  ASSUME Typed, NEW w \in Workers, NEW m \in Memory, Keep(w, m)
  PROVE  OnlyMemory(w) /\ memory'[w] = m
BY DEF OnlyMemory, Keep, Typed

LEMMA InvalidatedFacts ==
  ASSUME NEW m \in Memory
  PROVE  /\ Invalidated(m) \in Memory /\ Invalidated(m).profile = None /\ Invalidated(m).lora = None
         /\ Invalidated(m).decoder = {} /\ Invalidated(m).lm = m.lm /\ ~Invalidated(m).unsure
BY DEF Memory, Invalidated

\* A row that runs is settled; any other is left alone.
LEMMA SettleFacts ==
  ASSUME Typed, NEW j \in Jobs, NEW outcome \in {"done", "error", "cancelled"},
         NEW result \in Take \cup Packs \cup {Nothing}, Settle(j, outcome, result)
  PROVE  /\ jobs' \in [Jobs -> Job] /\ \A i \in Jobs \ {j} : jobs'[i] = jobs[i]
         /\ jobs[j].status # "running" => jobs'[j] = jobs[j]
         /\ jobs[j].status = "running" => jobs'[j].status = outcome /\ jobs'[j].result = result
         /\ jobs'[j].kind = jobs[j].kind /\ jobs'[j].pack = jobs[j].pack
         /\ jobs'[j].profile = jobs[j].profile /\ jobs'[j].by = jobs[j].by
<1> DEFINE r == [[jobs[j] EXCEPT !.status = outcome] EXCEPT !.result = result]
<1>1. /\ r \in Job /\ r.status = outcome /\ r.result = result /\ r.kind = jobs[j].kind
      /\ r.pack = jobs[j].pack /\ r.profile = jobs[j].profile /\ r.by = jobs[j].by
  BY JobFacts DEF Job
<1>2. IF jobs[j].status # "running" THEN jobs' = jobs ELSE jobs' = [jobs EXCEPT ![j] = r]
  BY DEF Settle
<1> HIDE DEF r
<1> QED
  BY <1>1, <1>2 DEF Typed

-----------------------------------------------------------------------------
(* The inductive invariant *)

\* Steps at which a process does not have the OS lock.
Outside == {"off", "oslock", "exiting"}
\* Steps of a load that has its model.
Bound == {"lm", "loaded", "adapter", "add", "render"}

\* Whoever is past the gate holds the OS lock.
Locked(w) == Pc(w) \notin Outside => osLock = w
Bare(w) ==
  /\ Pc(w) \in {"off", "oslock", "lease"} =>
       memory[w] = Nothing /\ Pack(w) = None /\ Of(w) = None
  /\ Pc(w) = "off" => task[w] = Idle

\* The job of a process at work is its own, and running until the watchdog of
\* that process has settled it.
Employed(w) ==
  /\ Pc(w) = "loop" => Of(w) = None
  /\ Pc(w) \in {"adapter", "add", "render", "train", "written"} => Of(w) # None
  /\ Pc(w) \in {"train", "written"} => Does(w, "train")
  /\ Of(w) # None /\ Pc(w) # "publish" =>
       jobs[Of(w)].by = w /\ (jobs[Of(w)].status = "running" \/ task[w].expired)

\* The decoder carries what the bookkeeping says, and each step of a load finds
\* what the steps before it have made.
Faithful(w) ==
  /\ Pc(w) # "train" => memory[w].unsure \/ memory[w].decoder = Carried(memory[w].lora)
  /\ Holds(w) \in Loadable \cup {None}
  /\ Pc(w) \in Bound \cup {"load", "construct"} => Wanted(w) \in Profiles
  /\ Pc(w) \in Bound => Holds(w) = Wanted(w)
  /\ Pc(w) \in Bound \ {"lm"} /\ Wanted(w) \in Offloaded => memory[w].lm \in {"cpu", "stuck"}
  /\ Pc(w) = "add" => memory[w].lora = None
  /\ Pc(w) = "render" => memory[w].lora = Pack(w)
  /\ Pack(w) # None => Wanted(w) = LoraBase

\* The pack of a training is nobody's result before the training settles its job.
Trains(w) ==
  Does(w, "train") /\ Pc(w) # "publish" =>
    /\ Pack(w) \in Packs
    /\ \A j \in Jobs : jobs[j].result # Pack(w)
    /\ Pack(w) \notin left
    /\ packs[Pack(w)] = IF Pc(w) = "written" THEN "ok" ELSE "training"

Orderly(w) == Locked(w) /\ Bare(w) /\ (Inside(w) => Employed(w) /\ Faithful(w) /\ Trains(w))

Recorded(take) ==
  /\ take.unsure \/ take.decoder = Carried(take.lora)
  /\ take.profile \in Loadable /\ (take.lora # None => take.profile = LoraBase)
  /\ take.profile \in Offloaded => take.lm \in {"cpu", "stuck"}
Sound(j) ==
  /\ jobs[j].pack # None => jobs[j].profile = LoraBase
  /\ jobs[j].status = "none" => jobs[j].by = None
  /\ jobs[j].result # Nothing => jobs[j].status = "done"
  /\ jobs[j].result \in Take => Recorded(jobs[j].result)
  /\ jobs[j].result \in Packs => packs[jobs[j].result] = "ok" /\ jobs[j].result \notin left
Offered(k) ==
  /\ k \in left => packs[k] = "ok"
  /\ k \notin Trained \cup left /\ packs[k] = "ok" =>
       (\E j \in Jobs : jobs[j].result = k) \/ (\E w \in Workers : Pc(w) = "written" /\ Pack(w) = k)

Safe ==
  /\ Typed
  /\ \A w \in Workers : Orderly(w)
  /\ \A j \in Jobs : Sound(j)
  /\ \A k \in Packs : Offered(k)

-----------------------------------------------------------------------------
(* One process at a time *)

LEMMA Alone ==
  ASSUME Safe, NEW v \in Workers, NEW w \in Workers, v # w, Pc(w) \notin Outside
  PROVE  Pc(v) \in Outside /\ ~Inside(v)
<1>1. osLock = w /\ Locked(v)
  BY DEF Safe, Orderly, Locked
<1>2. Pc(v) \in Outside
  BY <1>1 DEF Locked
<1> QED
  BY <1>2 DEF Outside, Inside, BusyPcs, LoadPcs

\* A step of one process leaves the others in order: they are all outside, or the
\* step touches no more than a lock that none of them has.
LEMMA OthersStay ==
  ASSUME Safe, NEW w \in Workers, OnlyTask(w), OnlyMemory(w),
         Pc(w) \in Outside => UNCHANGED store /\ (osLock' = osLock \/ osLock \in {None, w}),
         NEW v \in Workers, v # w
  PROVE  Orderly(v)'
<1>1. task'[v] = task[v] /\ memory'[v] = memory[v] /\ Orderly(v)
  BY DEF OnlyTask, OnlyMemory, Safe
<1>2. Pc(v)' = Pc(v) /\ Of(v)' = Of(v) /\ Pack(v)' = Pack(v) /\ Wanted(v)' = Wanted(v) /\ Holds(v)' = Holds(v)
  BY <1>1 DEF Pc, Of, Pack, Wanted, Holds
<1>3. Bare(v)'
  BY <1>1, <1>2 DEF Orderly, Bare
<1>4. CASE Pc(v) \in Outside
  <2>1. Locked(v)' /\ ~Inside(v)'
    BY <1>2, <1>4 DEF Locked, Outside, Inside, BusyPcs, LoadPcs
  <2> QED
    BY <2>1, <1>3 DEF Orderly
<1>5. CASE Pc(v) \notin Outside
  <2>1. Pc(w) \in Outside /\ osLock = v
    BY <1>1, <1>5, Alone DEF Orderly, Locked
  <2>2. UNCHANGED store /\ osLock' = osLock
    BY <2>1, Absent
  <2>3. Inside(v)' = Inside(v) /\ Locked(v)'
    BY <1>1, <1>2, <2>2 DEF Inside, Orderly, Locked
  <2>4. Does(v, "train")' = Does(v, "train")
    BY <1>2, <2>2 DEF Does, store
  <2>5. Employed(v) => Employed(v)'
    BY <1>1, <1>2, <2>2, <2>4 DEF Employed, store
  <2>6. Faithful(v) => Faithful(v)'
    BY <1>1, <1>2 DEF Faithful
  <2>7. Trains(v) => Trains(v)'
    BY <1>2, <2>2, <2>4 DEF Trains, store
  <2> QED
    BY <1>1, <1>3, <2>3, <2>5, <2>6, <2>7 DEF Orderly
<1> QED
  BY <1>4, <1>5

\* What a step of one process has to show.
LEMMA OneSteps ==
  ASSUME Safe, NEW w \in Workers, OnlyTask(w), OnlyMemory(w), Typed', Orderly(w)',
         Pc(w) \in Outside => UNCHANGED store /\ (osLock' = osLock \/ osLock \in {None, w}),
         \A j \in Jobs : Sound(j)', \A k \in Packs : Offered(k)'
  PROVE  Safe'
<1>1. ASSUME NEW v \in Workers PROVE Orderly(v)'
  BY OthersStay
<1> QED
  BY <1>1 DEF Safe

\* Rows and packs that stay are as sound as before, and as offered unless a
\* training that has written its pack moves on.
LEMMA StoreStays ==
  ASSUME Safe, NEW w \in Workers, OnlyTask(w), Pc(w) # "written", UNCHANGED store
  PROVE  (\A j \in Jobs : Sound(j)') /\ \A k \in Packs : Offered(k)'
<1>1. ASSUME NEW j \in Jobs PROVE Sound(j)'
  BY DEF Safe, Sound, store
<1>2. ASSUME NEW k \in Packs PROVE Offered(k)'
  <2>1. \A v \in Workers : Pc(v) = "written" => Pc(v)' = "written" /\ Pack(v)' = Pack(v)
    BY DEF OnlyTask, Pc, Pack
  <2>2. Offered(k)
    BY DEF Safe
  <2> QED
    BY <2>1, <2>2 DEF Offered, store
<1> QED
  BY <1>1, <1>2

-----------------------------------------------------------------------------
(* A process at work that leaves the rows and the packs alone *)

LEMMA StillTyped ==
  ASSUME Typed, NEW w \in Workers, OnlyTask(w), OnlyMemory(w), UNCHANGED <<gate, store>>
  PROVE  Typed'
BY DEF Typed, OnlyTask, OnlyMemory, gate, store

LEMMA SameMemory ==
  ASSUME Typed, NEW w \in Workers, UNCHANGED memory
  PROVE  OnlyMemory(w) /\ memory'[w] = memory[w]
BY DEF OnlyMemory, Typed

\* It stays at the same job, with its memory in the order its next step needs.
LEMMA WorksOn ==
  ASSUME Safe, NEW w \in Workers, NEW pc \in BusyPcs \ {"loop", "written"},
         Inside(w), Pc(w) \notin {"loop", "written", "publish"}, To(w, pc), OnlyMemory(w),
         UNCHANGED <<gate, store>>, Faithful(w)',
         pc \in {"adapter", "add", "render"} => Of(w) # None,
         pc = "train" => Does(w, "train")
  PROVE  Safe'
<1>1. /\ OnlyTask(w) /\ Pc(w)' = pc /\ Of(w)' = Of(w) /\ Pack(w)' = Pack(w)
      /\ task'[w].expired = task[w].expired
  BY DEF To, Pc, Of, Pack
<1>2. Typed'
  BY <1>1, StillTyped DEF Safe
<1>3. Locked(w) /\ Employed(w) /\ Trains(w) /\ Pc(w) \notin Outside
  BY DEF Safe, Orderly, Inside, Outside, BusyPcs, LoadPcs
<1>4. Locked(w)' /\ Bare(w)'
  BY <1>1, <1>3 DEF Locked, Bare, gate, BusyPcs, LoadPcs, Outside
<1>5. Does(w, "train")' = Does(w, "train")
  BY <1>1 DEF Does, store
<1>6. Employed(w)'
  <2>1. pc = "train" => Of(w) # None
    BY DEF Does
  <2> QED
    BY <1>1, <1>3, <1>5, <2>1 DEF Employed, store
<1>7. Trains(w)'
  BY <1>1, <1>3, <1>5 DEF Trains, store
<1>8. Orderly(w)'
  BY <1>4, <1>6, <1>7 DEF Orderly
<1> QED
  BY <1>1, <1>2, <1>3, <1>8, StoreStays, OneSteps

\* What the primed predicate on the memory says, field by field.
LEMMA FaithfulNext ==
  ASSUME Safe, NEW w \in Workers, NEW pc, Inside(w), To(w, pc),
         pc # "train" => memory'[w].unsure \/ memory'[w].decoder = Carried(memory'[w].lora),
         memory'[w].profile \in Loadable \cup {None},
         pc \in Bound \cup {"load", "construct"} => Wanted(w) \in Profiles,
         pc \in Bound => memory'[w].profile = Wanted(w),
         pc \in Bound \ {"lm"} /\ Wanted(w) \in Offloaded => memory'[w].lm \in {"cpu", "stuck"},
         pc = "add" => memory'[w].lora = None,
         pc = "render" => memory'[w].lora = Pack(w)
  PROVE  Faithful(w)'
<1>1. Pc(w)' = pc /\ Wanted(w)' = Wanted(w) /\ Pack(w)' = Pack(w) /\ Holds(w)' = memory'[w].profile
  BY DEF To, Pc, Wanted, Pack, Holds
<1>2. Pack(w) # None => Wanted(w) = LoraBase
  BY DEF Safe, Orderly, Faithful
<1>3. /\ Pc(w)' # "train" => memory'[w].unsure \/ memory'[w].decoder = Carried(memory'[w].lora)
      /\ Holds(w)' \in Loadable \cup {None}
      /\ Pack(w)' # None => Wanted(w)' = LoraBase
  BY <1>1, <1>2
<1>4. /\ Pc(w)' \in Bound \cup {"load", "construct"} => Wanted(w)' \in Profiles
      /\ Pc(w)' \in Bound => Holds(w)' = Wanted(w)'
      /\ Pc(w)' \in Bound \ {"lm"} /\ Wanted(w)' \in Offloaded => memory'[w].lm \in {"cpu", "stuck"}
      /\ Pc(w)' = "add" => memory'[w].lora = None
      /\ Pc(w)' = "render" => memory'[w].lora = Pack(w)'
  BY <1>1
<1> QED
  BY <1>3, <1>4 DEF Faithful

LEMMA FaithfulNow ==
  ASSUME Safe, NEW w \in Workers, Inside(w)
  PROVE  Employed(w) /\ Faithful(w) /\ Trains(w)
BY DEF Safe, Orderly

\* An offloaded profile finds the language model away, or stuck on the card.
LEMMA ParkedFacts ==
  ASSUME NEW lm \in Places, NEW profile \in Profiles, NEW l \in Parked(lm, profile)
  PROVE  l \in Places /\ (profile \in Offloaded /\ lm # "none" => l \in {"cpu", "stuck"})
BY DEF Parked, Moves, Places

LEMMA RetireSafe ==
  ASSUME Safe, NEW w \in Workers, Retire(w), UNCHANGED <<gate, store>>
  PROVE  Safe'
<1>1. Inside(w) /\ Pc(w) = "load" /\ Typed
  BY DEF Retire, Inside, BusyPcs, LoadPcs, Safe
<1>2. /\ Wanted(w) \in Profiles /\ Holds(w) \in Loadable \cup {None}
      /\ memory[w].unsure \/ memory[w].decoder = Carried(memory[w].lora)
  BY <1>1, FaithfulNow DEF Faithful
<1>4. CASE Holds(w) = Wanted(w)
  <2>1. To(w, "lm") /\ OnlyMemory(w) /\ memory'[w] = memory[w]
    BY <1>1, <1>4, GotoMoves, SameMemory DEF Retire, Pcs, BusyPcs, LoadPcs
  <2>2. Faithful(w)'
    BY <1>1, <1>2, <1>4, <2>1, FaithfulNext DEF Bound, Holds
  <2> QED
    BY <1>1, <2>1, <2>2, WorksOn DEF BusyPcs, LoadPcs
<1>5. CASE Holds(w) # Wanted(w)
  <2>1. PICK m \in Memory : m = Invalidated(memory[w])
    BY <1>1, TaskFacts, InvalidatedFacts
  <2>2. m.profile = None /\ m.lora = None /\ m.decoder = {} /\ ~m.unsure
    BY <1>1, <2>1, TaskFacts, InvalidatedFacts
  <2>3. m.lm = memory[w].lm /\ memory[w].lm \in Places
    BY <1>1, <2>1, TaskFacts, InvalidatedFacts
  <2>4. PICK l \in IF Wanted(w) \in Offloaded THEN Parked(memory[w].lm, Wanted(w)) ELSE {memory[w].lm} :
          Keep(w, [Invalidated(memory[w]) EXCEPT !.lm = l])
    BY <1>5 DEF Retire
  <2>5. l \in Places
    BY <1>2, <2>3, <2>4, ParkedFacts
  <2> DEFINE n == [m EXCEPT !.lm = l]
  <2>6. /\ n \in Memory /\ n.profile = None /\ n.lora = None /\ n.decoder = {} /\ ~n.unsure
        /\ Keep(w, n) /\ Goto(w, "construct")
    BY <1>5, <2>1, <2>2, <2>4, <2>5 DEF Memory, Retire
  <2> HIDE DEF n
  <2>7. To(w, "construct") /\ OnlyMemory(w) /\ memory'[w] = n
    BY <1>1, <2>6, GotoMoves, KeepMoves DEF Pcs, BusyPcs, LoadPcs
  <2>8. Faithful(w)'
    BY <1>1, <1>2, <2>6, <2>7, FaithfulNext DEF Bound, Carried
  <2> QED
    BY <1>1, <2>7, <2>8, WorksOn DEF BusyPcs, LoadPcs
<1> QED
  BY <1>4, <1>5

LEMMA ConstructSafe ==
  ASSUME Safe, NEW w \in Workers, Construct(w), UNCHANGED <<gate, store>>
  PROVE  Safe'
<1>1. Inside(w) /\ Pc(w) = "construct" /\ Typed
  BY DEF Construct, Inside, BusyPcs, LoadPcs, Safe
<1>2. /\ Wanted(w) \in Profiles /\ Holds(w) \in Loadable \cup {None}
      /\ memory[w].unsure \/ memory[w].decoder = Carried(memory[w].lora)
  BY <1>1, FaithfulNow DEF Faithful
<1>4. CASE Wanted(w) \in Loadable /\ Keep(w, [memory[w] EXCEPT !.profile = Wanted(w)]) /\ Goto(w, "lm")
  <2> DEFINE n == [memory[w] EXCEPT !.profile = Wanted(w)]
  <2>1. /\ n \in Memory /\ n.profile = Wanted(w) /\ n.lora = memory[w].lora
        /\ n.decoder = memory[w].decoder /\ n.unsure = memory[w].unsure
    BY <1>1, <1>2, TaskFacts DEF Memory
  <2>2. Keep(w, n)
    BY <1>4
  <2> HIDE DEF n
  <2>3. To(w, "lm") /\ OnlyMemory(w) /\ memory'[w] = n
    BY <1>1, <1>4, <2>1, <2>2, GotoMoves, KeepMoves DEF Pcs, BusyPcs, LoadPcs
  <2>4. Faithful(w)'
    BY <1>1, <1>2, <1>4, <2>1, <2>3, FaithfulNext DEF Bound
  <2> QED
    BY <1>1, <2>3, <2>4, WorksOn DEF BusyPcs, LoadPcs
<1>5. CASE Goto(w, "failed") /\ UNCHANGED memory
  <2>1. To(w, "failed") /\ OnlyMemory(w) /\ memory'[w] = memory[w]
    BY <1>1, <1>5, GotoMoves, SameMemory DEF Pcs, BusyPcs, LoadPcs
  <2>2. Faithful(w)'
    BY <1>1, <1>2, <2>1, FaithfulNext DEF Bound, Holds
  <2> QED
    BY <1>1, <2>1, <2>2, WorksOn DEF BusyPcs, LoadPcs
<1> QED
  BY <1>4, <1>5 DEF Construct

LEMMA LoadLmSafe ==
  ASSUME Safe, NEW w \in Workers, LoadLm(w), UNCHANGED <<gate, store>>
  PROVE  Safe'
<1>1. Inside(w) /\ Pc(w) = "lm" /\ Typed
  BY DEF LoadLm, Inside, BusyPcs, LoadPcs, Safe
<1>2. /\ Wanted(w) \in Profiles /\ Holds(w) \in Loadable \cup {None} /\ Holds(w) = Wanted(w)
      /\ memory[w].unsure \/ memory[w].decoder = Carried(memory[w].lora)
  BY <1>1, FaithfulNow DEF Faithful, Bound
<1> DEFINE at == IF memory[w].lm = "none" THEN "gpu" ELSE memory[w].lm
<1>4. CASE (\E l \in Parked(at, Wanted(w)) : Keep(w, [memory[w] EXCEPT !.lm = l])) /\ Goto(w, "loaded")
  <2>1. at \in Places /\ at # "none"
    BY <1>1, TaskFacts DEF Places
  <2> HIDE DEF at
  <2>2. PICK l \in Parked(at, Wanted(w)) : Keep(w, [memory[w] EXCEPT !.lm = l])
    BY <1>4
  <2>3. l \in Places /\ (Wanted(w) \in Offloaded => l \in {"cpu", "stuck"})
    BY <1>2, <2>1, ParkedFacts
  <2> DEFINE n == [memory[w] EXCEPT !.lm = l]
  <2>4. /\ n \in Memory /\ n.profile = memory[w].profile /\ n.lora = memory[w].lora /\ n.lm = l
        /\ n.decoder = memory[w].decoder /\ n.unsure = memory[w].unsure /\ Keep(w, n)
    BY <1>1, <2>2, <2>3, TaskFacts DEF Memory
  <2> HIDE DEF n
  <2>5. To(w, "loaded") /\ OnlyMemory(w) /\ memory'[w] = n
    BY <1>1, <1>4, <2>4, GotoMoves, KeepMoves DEF Pcs, BusyPcs, LoadPcs
  <2>6. Faithful(w)'
    BY <1>1, <1>2, <2>3, <2>4, <2>5, FaithfulNext DEF Bound, Holds
  <2> QED
    BY <1>1, <2>5, <2>6, WorksOn DEF BusyPcs, LoadPcs
<1>5. CASE Goto(w, "failed") /\ UNCHANGED memory
  <2>1. To(w, "failed") /\ OnlyMemory(w) /\ memory'[w] = memory[w]
    BY <1>1, <1>5, GotoMoves, SameMemory DEF Pcs, BusyPcs, LoadPcs
  <2>2. Faithful(w)'
    BY <1>1, <1>2, <2>1, FaithfulNext DEF Bound, Holds
  <2> QED
    BY <1>1, <2>1, <2>2, WorksOn DEF BusyPcs, LoadPcs
<1> QED
  BY <1>4, <1>5 DEF LoadLm

LEMMA StartupEndsSafe ==
  ASSUME Safe, NEW w \in Workers, StartupEnds(w)
  PROVE  Safe'
<1>1. Inside(w) /\ Pc(w) \in {"loaded", "failed"} /\ Typed
  BY DEF StartupEnds, Inside, BusyPcs, LoadPcs, Safe
<1>2. /\ Holds(w) \in Loadable \cup {None}
      /\ memory[w].unsure \/ memory[w].decoder = Carried(memory[w].lora)
  BY <1>1, FaithfulNow DEF Faithful
<1>3. To(w, "publish") /\ OnlyMemory(w) /\ memory'[w] = memory[w]
  BY <1>1, GotoMoves, SameMemory DEF StartupEnds, Pcs, BusyPcs
<1>4. Faithful(w)'
  BY <1>1, <1>2, <1>3, FaithfulNext DEF Bound, Holds
<1>5. UNCHANGED <<gate, store>>
  BY <1>1 DEF Typed, StartupEnds
<1> QED
  BY <1>1, <1>3, <1>4, <1>5, WorksOn DEF BusyPcs

LEMMA AnnounceSafe ==
  ASSUME Safe, NEW w \in Workers, Announce(w)
  PROVE  Safe'
<1>1. Inside(w) /\ Pc(w) = "loaded" /\ Typed /\ Of(w) # None
  BY DEF Announce, Inside, BusyPcs, LoadPcs, Safe, Does
<1>2. /\ Holds(w) \in Loadable \cup {None} /\ Wanted(w) \in Profiles /\ Holds(w) = Wanted(w)
      /\ memory[w].unsure \/ memory[w].decoder = Carried(memory[w].lora)
      /\ Wanted(w) \in Offloaded => memory[w].lm \in {"cpu", "stuck"}
  BY <1>1, FaithfulNow DEF Faithful, Bound
<1>3. To(w, "adapter") /\ OnlyMemory(w) /\ memory'[w] = memory[w]
  BY <1>1, GotoMoves, SameMemory DEF Announce, Pcs, BusyPcs, LoadPcs
<1>4. Faithful(w)'
  BY <1>1, <1>2, <1>3, FaithfulNext DEF Bound, Holds
<1>5. UNCHANGED <<gate, store>>
  BY <1>1, TaskFacts DEF Announce
<1> QED
  BY <1>1, <1>3, <1>4, <1>5, WorksOn DEF BusyPcs, LoadPcs

\* What every step about a pack finds.
LEMMA AtThePack ==
  ASSUME Safe, NEW w \in Workers, Does(w, "render"), Pc(w) \in {"adapter", "add"},
         UNCHANGED <<gate, store>>
  PROVE  /\ Inside(w) /\ Typed /\ Of(w) # None
         /\ Holds(w) \in Loadable \cup {None} /\ Wanted(w) \in Profiles /\ Holds(w) = Wanted(w)
         /\ memory[w].unsure \/ memory[w].decoder = Carried(memory[w].lora)
         /\ Wanted(w) \in Offloaded => memory[w].lm \in {"cpu", "stuck"}
         /\ Pc(w) = "add" => memory[w].lora = None
         /\ memory[w] \in Memory /\ Pack(w) \in Packs \cup {None}
<1>1. Inside(w) /\ Typed /\ Of(w) # None
  BY DEF Inside, BusyPcs, LoadPcs, Safe, Does
<1> QED
  BY <1>1, FaithfulNow, TaskFacts DEF Faithful, Bound, Typed

\* The step keeps the model and goes on with a decoder that is what the
\* bookkeeping says, or that nobody is sure of.
LEMMA PackStep ==
  ASSUME Safe, NEW w \in Workers, Does(w, "render"), Pc(w) \in {"adapter", "add"},
         UNCHANGED <<gate, store>>,
         NEW pc \in {"add", "render", "failed"}, To(w, pc), OnlyMemory(w),
         memory'[w].profile = memory[w].profile, memory'[w].lm = memory[w].lm,
         memory'[w].unsure \/ memory'[w].decoder = Carried(memory'[w].lora),
         pc = "add" => memory'[w].lora = None,
         pc = "render" => memory'[w].lora = Pack(w)
  PROVE  Safe'
<1>1. Faithful(w)'
  BY AtThePack, FaithfulNext DEF Bound, Holds
<1> QED
  BY <1>1, AtThePack, WorksOn DEF BusyPcs, LoadPcs, store

LEMMA PackFails ==
  ASSUME Safe, NEW w \in Workers, Does(w, "render"), Pc(w) \in {"adapter", "add"},
         UNCHANGED <<gate, store>>,
         Keep(w, Invalidated(memory[w])), Goto(w, "failed")
  PROVE  Safe'
<1>1. Inside(w) /\ Typed /\ memory[w] \in Memory
  BY AtThePack
<1>2. PICK n \in Memory : n = Invalidated(memory[w])
  BY <1>1, InvalidatedFacts
<1>3. n.profile = None /\ n.lora = None /\ n.decoder = {} /\ ~n.unsure
  BY <1>1, <1>2, InvalidatedFacts
<1>4. To(w, "failed") /\ OnlyMemory(w) /\ memory'[w] = n
  BY <1>1, <1>2, GotoMoves, KeepMoves DEF Pcs, BusyPcs, LoadPcs
<1>5. Faithful(w)'
  BY <1>1, <1>3, <1>4, FaithfulNext DEF Bound, Carried
<1> QED
  BY <1>1, <1>4, <1>5, AtThePack, WorksOn DEF BusyPcs, LoadPcs

LEMMA PackRaises ==
  ASSUME Safe, NEW w \in Workers, Does(w, "render"), Pc(w) \in {"adapter", "add"},
         UNCHANGED <<gate, store>>,
         NEW outcomes \in SUBSET SUBSET Adapters, FailRaised(w, outcomes)
  PROVE  Safe'
<1>1. Inside(w) /\ Typed /\ memory[w] \in Memory
  BY AtThePack
<1>2. PICK d \in outcomes : Keep(w, [memory[w] EXCEPT !.decoder = d, !.unsure = TRUE])
  BY DEF FailRaised
<1> DEFINE n == [[memory[w] EXCEPT !.decoder = d] EXCEPT !.unsure = TRUE]
<1>3. d \subseteq Adapters
  OBVIOUS
<1>4. /\ n \in Memory /\ n.profile = memory[w].profile /\ n.lm = memory[w].lm
      /\ n.lora = memory[w].lora /\ n.unsure
  BY <1>1, <1>3 DEF Memory
<1>5. Keep(w, n) /\ Goto(w, "failed")
  BY <1>2 DEF FailRaised
<1> HIDE DEF n
<1>6. To(w, "failed") /\ OnlyMemory(w) /\ memory'[w] = n
  BY <1>1, <1>4, <1>5, GotoMoves, KeepMoves DEF Pcs, BusyPcs, LoadPcs
<1> QED
  BY <1>4, <1>6, PackStep

LEMMA UnloadSafe ==
  ASSUME Safe, NEW w \in Workers, Does(w, "render"), Unload(w, Pack(w)),
         UNCHANGED <<gate, store>>
  PROVE  Safe'
<1>1. Pc(w) = "adapter"
  BY DEF Unload
<1>2. Inside(w) /\ Typed /\ memory[w] \in Memory /\ Pack(w) \in Packs \cup {None}
  BY <1>1, AtThePack
<1>3. CASE memory[w].lora \in {Pack(w), None}
  <2>1. Goto(w, IF memory[w].lora = Pack(w) THEN "render" ELSE "add") /\ UNCHANGED memory
    BY <1>3 DEF Unload
  <2>2. PICK pc \in {"add", "render"} : pc = IF memory[w].lora = Pack(w) THEN "render" ELSE "add"
    OBVIOUS
  <2>3. To(w, pc) /\ OnlyMemory(w) /\ memory'[w] = memory[w]
    BY <1>2, <2>1, <2>2, GotoMoves, SameMemory DEF Pcs, BusyPcs, LoadPcs
  <2> QED
    BY <1>1, <1>3, <2>2, <2>3, AtThePack, PackStep
<1>4. CASE /\ Keep(w, [memory[w] EXCEPT !.lora = None, !.decoder = {}])
           /\ Goto(w, IF Pack(w) = None THEN "render" ELSE "add")
  <2> DEFINE n == [[memory[w] EXCEPT !.lora = None] EXCEPT !.decoder = {}]
  <2>1. /\ n \in Memory /\ n.profile = memory[w].profile /\ n.lm = memory[w].lm
        /\ n.lora = None /\ n.decoder = {}
    BY <1>2 DEF Memory
  <2>2. Keep(w, n)
    BY <1>4
  <2> HIDE DEF n
  <2>3. PICK pc \in {"add", "render"} : pc = IF Pack(w) = None THEN "render" ELSE "add"
    OBVIOUS
  <2>4. To(w, pc) /\ OnlyMemory(w) /\ memory'[w] = n
    BY <1>2, <1>4, <2>1, <2>2, <2>3, GotoMoves, KeepMoves DEF Pcs, BusyPcs, LoadPcs
  <2> QED
    BY <1>1, <2>1, <2>3, <2>4, PackStep DEF Carried
<1>5. CASE FailReported(w)
  BY <1>1, <1>5, PackFails DEF FailReported
<1>6. CASE FailRaised(w, {{}, memory[w].decoder})
  <2>1. {{}, memory[w].decoder} \in SUBSET SUBSET Adapters
    BY <1>2 DEF Memory
  <2> QED
    BY <1>1, <1>6, <2>1, PackRaises
<1> QED
  BY <1>3, <1>4, <1>5, <1>6 DEF Unload

LEMMA AddSafe ==
  ASSUME Safe, NEW w \in Workers, Does(w, "render"), Pack(w) # None,
         NEW there \in BOOLEAN, Add(w, Pack(w), there), UNCHANGED <<gate, store>>
  PROVE  Safe'
<1>1. Pc(w) = "add"
  BY DEF Add
<1>2. /\ Inside(w) /\ Typed /\ memory[w] \in Memory /\ Pack(w) \in Packs
      /\ memory[w].unsure \/ memory[w].decoder = {}
  BY <1>1, AtThePack DEF Carried
<1>3. PICK added \in SUBSET Adapters : added = memory[w].decoder \cup {Pack(w)}
  BY <1>2 DEF Memory, Adapters
<1>4. CASE Keep(w, [memory[w] EXCEPT !.lora = Pack(w), !.decoder = added]) /\ Goto(w, "render")
  <2> DEFINE n == [[memory[w] EXCEPT !.lora = Pack(w)] EXCEPT !.decoder = added]
  <2>1. /\ n \in Memory /\ n.profile = memory[w].profile /\ n.lm = memory[w].lm
        /\ n.lora = Pack(w) /\ n.decoder = added /\ n.unsure = memory[w].unsure
    BY <1>2 DEF Memory
  <2>2. Keep(w, n)
    BY <1>4
  <2> HIDE DEF n
  <2>3. To(w, "render") /\ OnlyMemory(w) /\ memory'[w] = n
    BY <1>2, <1>4, <2>1, <2>2, GotoMoves, KeepMoves DEF Pcs, BusyPcs, LoadPcs
  <2>4. n.unsure \/ n.decoder = Carried(n.lora)
    BY <1>2, <1>3, <2>1, Absent DEF Carried
  <2> QED
    BY <1>1, <2>1, <2>3, <2>4, PackStep
<1>5. CASE Keep(w, Invalidated(memory[w])) /\ Goto(w, "failed")
  BY <1>1, <1>5, PackFails
<1>6. CASE FailRaised(w, {memory[w].decoder, added})
  <2>1. {memory[w].decoder, added} \in SUBSET SUBSET Adapters
    BY <1>2 DEF Memory
  <2> QED
    BY <1>1, <1>6, <2>1, PackRaises
<1> QED
  BY <1>3, <1>4, <1>5, <1>6 DEF Add, FailReported

LEMMA AttachSafe ==
  ASSUME Safe, NEW w \in Workers, Attach(w)
  PROVE  Safe'
<1>1. Does(w, "render") /\ UNCHANGED <<gate, store>>
  BY DEF Attach
<1>2. CASE Unload(w, Pack(w))
  BY <1>1, <1>2, UnloadSafe
<1>3. CASE Pack(w) # None /\ Add(w, Pack(w), Pack(w) \in Usable)
  <2>1. (Pack(w) \in Usable) \in BOOLEAN
    OBVIOUS
  <2> QED
    BY <1>1, <1>3, <2>1, AddSafe
<1> QED
  BY <1>2, <1>3 DEF Attach

LEMMA BeginTrainingSafe ==
  ASSUME Safe, NEW w \in Workers, BeginTraining(w)
  PROVE  Safe'
<1>1. Inside(w) /\ Pc(w) = "loaded" /\ Typed /\ Does(w, "train") /\ UNCHANGED <<gate, store>>
  BY DEF BeginTraining, Inside, BusyPcs, LoadPcs, Safe
<1>2. Holds(w) \in Loadable \cup {None} /\ memory[w] \in Memory
  BY <1>1, FaithfulNow, TaskFacts DEF Faithful
<1> DEFINE n == [memory[w] EXCEPT !.decoder = memory[w].decoder \cup {InTraining}]
<1>3. n \in Memory /\ n.profile = memory[w].profile
  BY <1>2 DEF Memory, Adapters
<1>4. Keep(w, n) /\ Goto(w, "train")
  BY DEF BeginTraining
<1> HIDE DEF n
<1>5. To(w, "train") /\ OnlyMemory(w) /\ memory'[w] = n
  BY <1>1, <1>3, <1>4, GotoMoves, KeepMoves DEF Pcs, BusyPcs
<1>6. Faithful(w)'
  BY <1>1, <1>2, <1>3, <1>5, FaithfulNext DEF Bound, Holds
<1> QED
  BY <1>1, <1>5, <1>6, WorksOn DEF BusyPcs

-----------------------------------------------------------------------------
(* A job comes to its end *)

LEMMA ToPublish ==
  ASSUME Safe, NEW w \in Workers, Inside(w), Pc(w) # "train", To(w, "publish"),
         memory'[w] = memory[w], UNCHANGED osLock
  PROVE  Orderly(w)' /\ Pc(w) \notin Outside
<1>1. /\ Holds(w) \in Loadable \cup {None} /\ Locked(w) /\ Pc(w) \notin Outside
      /\ memory[w].unsure \/ memory[w].decoder = Carried(memory[w].lora)
  BY FaithfulNow DEF Faithful, Safe, Orderly, Inside, Outside, BusyPcs, LoadPcs
<1>2. Faithful(w)'
  BY <1>1, FaithfulNext DEF Bound, Holds
<1>3. Pc(w)' = "publish"
  BY DEF To, Pc
<1>4. Employed(w)' /\ Trains(w)'
  BY <1>3 DEF Employed, Trains
<1>5. Locked(w)' /\ Bare(w)'
  BY <1>1, <1>3 DEF Locked, Bare
<1> QED
  BY <1>1, <1>2, <1>4, <1>5 DEF Orderly

\* At most the pack that w trains changes, and not to one that is offered.
PackGivenUp(w) ==
  \A k \in Packs : packs'[k] # packs[k] =>
    /\ Does(w, "train") /\ k = Pack(w) /\ packs'[k] # "ok"
    /\ Inside(w) /\ Pc(w) # "publish"

\* The result of a job that runs is new; no other row has the pack of a training.
LEMMA SettledStore ==
  ASSUME Safe, NEW w \in Workers, OnlyTask(w), NEW j \in Jobs,
         NEW outcome \in {"done", "error", "cancelled"},
         NEW result \in Take \cup Packs \cup {Nothing}, Settle(j, outcome, result),
         result # Nothing => outcome = "done", result \in Take => Recorded(result),
         result \in Packs => result = Pack(w) /\ packs'[result] = "ok" /\ result \notin left,
         PackGivenUp(w), left' = left,
         Pc(w) = "written" => \/ result = Pack(w) /\ Pack(w) \in Packs /\ jobs[j].status = "running"
                              \/ packs'[Pack(w)] # "ok"
                              \/ Pc(w)' = "written" /\ Pack(w)' = Pack(w)
  PROVE  (\A i \in Jobs : Sound(i)') /\ \A k \in Packs : Offered(k)'
<1>1. /\ \A i \in Jobs \ {j} : jobs'[i] = jobs[i]
      /\ jobs[j].status # "running" => jobs'[j] = jobs[j]
      /\ jobs[j].status = "running" => jobs'[j].status = outcome /\ jobs'[j].result = result
      /\ jobs'[j].pack = jobs[j].pack /\ jobs'[j].profile = jobs[j].profile
  BY SettleFacts DEF Safe
<1>2. \A k \in Packs : packs'[k] # packs[k] => k \notin left /\ \A i \in Jobs : jobs[i].result # k
  BY FaithfulNow DEF Trains, PackGivenUp
<1>3. ASSUME NEW i \in Jobs PROVE Sound(i)'
  <2>1. Sound(i)
    BY DEF Safe
  <2>2. CASE jobs'[i] = jobs[i]
    BY <1>2, <2>1, <2>2 DEF Sound
  <2>3. CASE jobs'[i] # jobs[i]
    <3>1. i = j /\ jobs'[i].status = outcome /\ jobs'[i].result = result
      BY <1>1, <2>3
    <3> QED
      BY <1>1, <2>1, <3>1 DEF Sound
  <2> QED
    BY <2>2, <2>3
<1>4. ASSUME NEW k \in Packs PROVE Offered(k)'
  <2>0. k \in left' => packs'[k] = "ok"
    BY <1>2 DEF Safe, Offered
  <2> SUFFICES ASSUME k \notin Trained \cup left, packs'[k] = "ok"
               PROVE  (\E i \in Jobs : jobs'[i].result = k) \/ (\E v \in Workers : Pc(v)' = "written" /\ Pack(v)' = k)
    BY <2>0 DEF Offered
  <2>1. packs[k] = "ok"
    BY DEF PackGivenUp
  <2>2. CASE \E i \in Jobs : jobs[i].result = k
    <3>1. PICK i \in Jobs : jobs[i].result = k
      BY <2>2
    <3>2. jobs[i].status = "done"
      BY <3>1, Absent DEF Safe, Sound
    <3> QED
      BY <1>1, <3>1, <3>2
  <2>3. CASE \E v \in Workers : Pc(v) = "written" /\ Pack(v) = k
    <3>1. PICK v \in Workers : Pc(v) = "written" /\ Pack(v) = k
      BY <2>3
    <3>2. CASE v = w
      BY <1>1, <3>1, <3>2
    <3>3. CASE v # w
      BY <3>1, <3>3 DEF OnlyTask, Pc, Pack
    <3> QED
      BY <3>2, <3>3
  <2> QED
    BY <2>1, <2>2, <2>3 DEF Safe, Offered
<1> QED
  BY <1>3, <1>4

LEMMA SettledTyped ==
  ASSUME Typed, NEW w \in Workers, OnlyTask(w), OnlyMemory(w), NEW j \in Jobs,
         NEW outcome \in {"done", "error", "cancelled"},
         NEW result \in Take \cup Packs \cup {Nothing}, Settle(j, outcome, result),
         osLock' \in Workers \cup {None}, UNCHANGED <<lease, left>>,
         packs' \in [Packs -> PackStates]
  PROVE  Typed'
<1>1. jobs' \in [Jobs -> Job]
  BY SettleFacts
<1> QED
  BY <1>1 DEF Typed, OnlyTask, OnlyMemory

LEMMA PackMoves ==
  ASSUME Typed, NEW k \in Packs, NEW x \in PackStates,
         packs' = [packs EXCEPT ![k] = x]
  PROVE  /\ packs' \in [Packs -> PackStates]
         /\ packs'[k] = x /\ \A i \in Packs \ {k} : packs'[i] = packs[i]
BY DEF Typed

\* The pack of a training is given up together with it.
LEMMA GivenUp ==
  ASSUME Safe, NEW w \in Workers, Inside(w), Pc(w) # "publish",
         NEW x \in {"none", "error"},
         packs' = IF Does(w, "train") THEN [packs EXCEPT ![Pack(w)] = x] ELSE packs
  PROVE  /\ packs' \in [Packs -> PackStates]
         /\ PackGivenUp(w)
         /\ Does(w, "train") => packs'[Pack(w)] = x
<1>1. CASE Does(w, "train")
  <2>1. Pack(w) \in Packs /\ packs' = [packs EXCEPT ![Pack(w)] = x]
    BY <1>1, FaithfulNow DEF Trains
  <2> QED
    BY <1>1, <2>1, PackMoves DEF PackGivenUp, Safe, PackStates
<1>2. CASE ~Does(w, "train")
  BY <1>2 DEF PackGivenUp, Safe, Typed
<1> QED
  BY <1>1, <1>2

LEMMA AbortSafe ==
  ASSUME Safe, NEW w \in Workers, Abort(w)
  PROVE  Safe'
<1>1. /\ Inside(w) /\ Pc(w) \in {"load", "adapter", "render"} /\ Typed
      /\ Of(w) \in Jobs
  BY TaskFacts DEF Abort, Inside, BusyPcs, LoadPcs, Safe, Asked
<1>2. To(w, "publish") /\ OnlyTask(w) /\ OnlyMemory(w) /\ memory'[w] = memory[w]
  BY <1>1, GotoMoves, SameMemory DEF Abort, Pcs, BusyPcs, To
<1>3. /\ packs' \in [Packs -> PackStates] /\ PackGivenUp(w)
  BY <1>1, GivenUp DEF Abort
<1>4. /\ Settle(Of(w), "cancelled", Nothing) /\ osLock' = osLock
      /\ UNCHANGED <<lease, left>> /\ osLock' \in Workers \cup {None}
  BY <1>1 DEF Abort, gate, Typed
<1>5. Orderly(w)' /\ Pc(w) \notin Outside
  BY <1>1, <1>2, <1>4, ToPublish
<1>6. (\A i \in Jobs : Sound(i)') /\ \A k \in Packs : Offered(k)'
  BY <1>1, <1>2, <1>3, <1>4, SettledStore, Absent
<1>7. Typed'
  BY <1>1, <1>2, <1>3, <1>4, SettledTyped
<1> QED
  BY <1>2, <1>5, <1>6, <1>7, OneSteps

LEMMA FailSafe ==
  ASSUME Safe, NEW w \in Workers, Fail(w)
  PROVE  Safe'
<1>1. /\ Inside(w) /\ Pc(w) = "failed" /\ Typed
      /\ Of(w) \in Jobs
  BY TaskFacts DEF Fail, Inside, BusyPcs, LoadPcs, Safe
<1>2. To(w, "publish") /\ OnlyTask(w) /\ OnlyMemory(w) /\ memory'[w] = memory[w]
  BY <1>1, GotoMoves, SameMemory DEF Fail, Pcs, BusyPcs, To
<1>3. PICK x \in {"none", "error"} : x = IF Asked(w) THEN "none" ELSE "error"
  OBVIOUS
<1>4. /\ packs' \in [Packs -> PackStates] /\ PackGivenUp(w)
  BY <1>1, <1>3, GivenUp DEF Fail
<1>5. PICK outcome \in {"error", "cancelled"} : outcome = IF Asked(w) THEN "cancelled" ELSE "error"
  OBVIOUS
<1>6. /\ Settle(Of(w), outcome, Nothing) /\ osLock' = osLock
      /\ UNCHANGED <<lease, left>> /\ osLock' \in Workers \cup {None}
  BY <1>1, <1>5 DEF Fail, gate, Typed
<1>7. Orderly(w)' /\ Pc(w) \notin Outside
  BY <1>1, <1>2, <1>6, ToPublish
<1>8. (\A i \in Jobs : Sound(i)') /\ \A k \in Packs : Offered(k)'
  BY <1>1, <1>2, <1>4, <1>6, SettledStore, Absent
<1>9. Typed'
  BY <1>1, <1>2, <1>4, <1>6, SettledTyped
<1> QED
  BY <1>2, <1>7, <1>8, <1>9, OneSteps

LEMMA RenderSafe ==
  ASSUME Safe, NEW w \in Workers, Render(w)
  PROVE  Safe'
<1>1. /\ Inside(w) /\ Pc(w) = "render" /\ Typed
      /\ UNCHANGED <<memory, gate, packs, left>>
  BY DEF Render, Inside, BusyPcs, LoadPcs, Safe
<1>2. /\ Holds(w) \in Loadable \cup {None} /\ Wanted(w) \in Profiles /\ Holds(w) = Wanted(w)
      /\ memory[w].unsure \/ memory[w].decoder = Carried(memory[w].lora)
      /\ Wanted(w) \in Offloaded => memory[w].lm \in {"cpu", "stuck"}
      /\ memory[w].lora = Pack(w)
      /\ Pack(w) # None => Wanted(w) = LoraBase
  BY <1>1, FaithfulNow DEF Faithful, Bound
<1>3. Of(w) \in Jobs /\ OnlyMemory(w) /\ memory'[w] = memory[w]
  BY <1>1, FaithfulNow, TaskFacts, SameMemory DEF Employed
<1> DEFINE r == [profile |-> Wanted(w), lora |-> Pack(w), decoder |-> memory[w].decoder,
                 lm |-> memory[w].lm, unsure |-> memory[w].unsure]
<1>4. CASE Settle(Of(w), "done", r) /\ Goto(w, "publish")
  <2>1. To(w, "publish") /\ OnlyTask(w)
    BY <1>1, <1>4, GotoMoves DEF Pcs, BusyPcs, To
  <2>2. r \in Take
    BY <1>1, <1>2, TaskFacts DEF Take
  <2>3. Recorded(r)
    BY <1>2, Absent DEF Recorded
  <2>4. Settle(Of(w), "done", r)
    BY <1>4
  <2> HIDE DEF r
  <2>5. PackGivenUp(w) /\ packs' \in [Packs -> PackStates]
    BY <1>1 DEF PackGivenUp, Typed
  <2>6. UNCHANGED <<lease, left>> /\ osLock' = osLock /\ osLock' \in Workers \cup {None}
    BY <1>1 DEF gate, Typed
  <2>7. Orderly(w)' /\ Pc(w) \notin Outside
    BY <1>1, <1>3, <2>1, <2>6, ToPublish
  <2>8. (\A i \in Jobs : Sound(i)') /\ \A k \in Packs : Offered(k)'
    BY <1>1, <1>3, <2>1, <2>2, <2>3, <2>4, <2>5, <2>6, SettledStore, Absent
  <2>9. Typed'
    BY <1>1, <1>3, <2>1, <2>2, <2>4, <2>5, <2>6, SettledTyped
  <2> QED
    BY <1>3, <2>1, <2>7, <2>8, <2>9, OneSteps
<1>5. CASE Goto(w, "failed") /\ UNCHANGED jobs
  <2>1. To(w, "failed")
    BY <1>1, <1>5, GotoMoves DEF Pcs, BusyPcs, LoadPcs
  <2>2. Faithful(w)'
    BY <1>1, <1>2, <1>3, <2>1, FaithfulNext DEF Bound, Holds
  <2>3. UNCHANGED <<gate, store>>
    BY <1>1, <1>5 DEF Typed, store
  <2> QED
    BY <1>1, <1>3, <2>1, <2>2, <2>3, WorksOn DEF BusyPcs, LoadPcs
<1> QED
  BY <1>4, <1>5 DEF Render

LEMMA EndTrainingSafe ==
  ASSUME Safe, NEW w \in Workers, EndTraining(w)
  PROVE  Safe'
<1>1. Inside(w) /\ Pc(w) = "train" /\ Typed /\ UNCHANGED gate /\ Pc(w) \notin Outside
  BY DEF EndTraining, Inside, BusyPcs, Safe, Outside
<1>2. Employed(w) /\ Trains(w) /\ Of(w) \in Jobs /\ Does(w, "train")
  BY <1>1, FaithfulNow, TaskFacts DEF Employed
<1>3. PICK m \in Memory : m = Invalidated(memory[w])
  BY <1>1, TaskFacts, InvalidatedFacts
<1>4. m.profile = None /\ m.lora = None /\ m.decoder = {} /\ ~m.unsure
  BY <1>1, <1>3, TaskFacts, InvalidatedFacts
<1>5. OnlyMemory(w) /\ memory'[w] = m
  BY <1>1, <1>3, KeepMoves DEF EndTraining
<1>7. CASE Goto(w, "failed") /\ UNCHANGED store
  <2>1. To(w, "failed")
    BY <1>1, <1>7, GotoMoves DEF Pcs, BusyPcs, LoadPcs
  <2>2. Faithful(w)'
    BY <1>1, <1>4, <1>5, <2>1, FaithfulNext DEF Bound, Carried
  <2> QED
    BY <1>1, <1>5, <1>7, <2>1, <2>2, WorksOn DEF BusyPcs, LoadPcs
<1>8. CASE packs' = [packs EXCEPT ![Pack(w)] = "ok"] /\ Goto(w, "written") /\ UNCHANGED <<jobs, left>>
  <2>1. /\ To(w, "written") /\ OnlyTask(w) /\ Pc(w)' = "written"
        /\ Of(w)' = Of(w) /\ Pack(w)' = Pack(w) /\ task'[w].expired = task[w].expired
    BY <1>1, <1>8, GotoMoves DEF Pcs, BusyPcs, To, Pc, Of, Pack
  <2>2. Pack(w) \in Packs /\ Pack(w) \notin left /\ \A j \in Jobs : jobs[j].result # Pack(w)
    BY <1>1, <1>2 DEF Trains
  <2>3. /\ packs' \in [Packs -> PackStates]
        /\ packs'[Pack(w)] = "ok" /\ \A i \in Packs \ {Pack(w)} : packs'[i] = packs[i]
    BY <1>1, <1>8, <2>2, PackMoves DEF PackStates
  <2>4. Faithful(w)'
    BY <1>1, <1>4, <1>5, <2>1, FaithfulNext DEF Bound, Carried
  <2>5. Does(w, "train")'
    BY <1>2, <1>8, <2>1 DEF Does
  <2>6. Trains(w)'
    BY <1>8, <2>1, <2>2, <2>3 DEF Trains
  <2>7. Employed(w)'
    BY <1>1, <1>2, <1>8, <2>1, <2>5, Absent DEF Employed
  <2>8. Locked(w)' /\ Bare(w)'
    BY <1>1, <2>1 DEF Safe, Orderly, Locked, Bare, gate
  <2>9. Typed'
    BY <1>1, <1>5, <1>8, <2>1, <2>3 DEF Typed, gate, OnlyTask, OnlyMemory
  <2>10. ASSUME NEW j \in Jobs PROVE Sound(j)'
    BY <1>8, <2>2, <2>3 DEF Safe, Sound
  <2>11. ASSUME NEW k \in Packs PROVE Offered(k)'
    <3>1. \A v \in Workers : Pc(v) = "written" => Pc(v)' = "written" /\ Pack(v)' = Pack(v)
      BY <1>1, <2>1 DEF OnlyTask, Pc, Pack
    <3>2. Offered(k)
      BY DEF Safe
    <3>3. CASE k = Pack(w)
      BY <1>8, <2>1, <2>2, <2>3, <3>3 DEF Offered
    <3>4. CASE k # Pack(w)
      BY <1>8, <2>3, <3>1, <3>2, <3>4 DEF Offered
    <3> QED
      BY <3>3, <3>4
  <2> QED
    BY <1>1, <1>5, <2>1, <2>4, <2>6, <2>7, <2>8, <2>9, <2>10, <2>11, OneSteps DEF Orderly
<1> QED
  BY <1>1, <1>7, <1>8 DEF EndTraining

LEMMA FinishTrainingSafe ==
  ASSUME Safe, NEW w \in Workers, FinishTraining(w)
  PROVE  Safe'
<1>1. Inside(w) /\ Pc(w) = "written" /\ Typed /\ UNCHANGED <<memory, gate, left>>
  BY DEF FinishTraining, Inside, BusyPcs, Safe
<1>2. /\ Of(w) \in Jobs /\ Does(w, "train")
      /\ Pack(w) \in Packs /\ Pack(w) \notin left /\ packs[Pack(w)] = "ok"
  BY <1>1, FaithfulNow, TaskFacts DEF Employed, Trains
<1>3. To(w, "publish") /\ OnlyTask(w) /\ OnlyMemory(w) /\ memory'[w] = memory[w]
  BY <1>1, GotoMoves, SameMemory DEF FinishTraining, Pcs, BusyPcs, To
<1>4. UNCHANGED <<lease, left>> /\ osLock' = osLock /\ osLock' \in Workers \cup {None}
  BY <1>1 DEF gate, Typed
<1>5. Orderly(w)' /\ Pc(w) \notin Outside
  BY <1>1, <1>3, <1>4, ToPublish
<1>6. CASE ~Finished(w)
  <2>1. Settle(Of(w), "cancelled", Nothing)
    BY <1>6 DEF FinishTraining
  <2>2. packs' = IF Does(w, "train") THEN [packs EXCEPT ![Pack(w)] = "none"] ELSE packs
    BY <1>2, <1>6 DEF FinishTraining
  <2>3. /\ packs' \in [Packs -> PackStates] /\ PackGivenUp(w)
        /\ packs'[Pack(w)] # "ok"
    BY <1>1, <1>2, <2>2, GivenUp
  <2>4. (\A i \in Jobs : Sound(i)') /\ \A k \in Packs : Offered(k)'
    BY <1>1, <1>2, <1>3, <1>4, <2>1, <2>3, SettledStore, Absent
  <2>5. Typed'
    BY <1>1, <1>2, <1>3, <1>4, <2>1, <2>3, SettledTyped
  <2> QED
    BY <1>3, <1>5, <2>4, <2>5, OneSteps
<1>7. CASE Finished(w)
  <2>1. Settle(Of(w), "done", Pack(w)) /\ UNCHANGED packs
    BY <1>7 DEF FinishTraining
  <2>2. PackGivenUp(w) /\ packs' \in [Packs -> PackStates]
    BY <1>1, <2>1 DEF PackGivenUp, Typed
  <2>3. Pack(w) \notin Take /\ packs'[Pack(w)] = "ok" /\ jobs[Of(w)].status = "running"
    BY <1>2, <1>7, <2>1, Absent DEF Finished
  <2>4. (\A i \in Jobs : Sound(i)') /\ \A k \in Packs : Offered(k)'
    BY <1>1, <1>2, <1>3, <1>4, <2>1, <2>2, <2>3, SettledStore
  <2>5. Typed'
    BY <1>1, <1>2, <1>3, <1>4, <2>1, <2>2, SettledTyped
  <2> QED
    BY <1>3, <1>5, <2>4, <2>5, OneSteps
<1> QED
  BY <1>6, <1>7

LEMMA PublishSafe ==
  ASSUME Safe, NEW w \in Workers, Publish(w)
  PROVE  Safe'
<1>1. /\ Inside(w) /\ Pc(w) = "publish" /\ Typed /\ UNCHANGED <<memory, gate, store>>
      /\ Pc(w) \notin Outside
  BY DEF Publish, Inside, BusyPcs, Safe, Outside
<1>2. /\ Holds(w) \in Loadable \cup {None}
      /\ memory[w].unsure \/ memory[w].decoder = Carried(memory[w].lora)
  BY <1>1, FaithfulNow DEF Faithful
<1>3. OnlyMemory(w) /\ memory'[w] = memory[w]
  BY <1>1, SameMemory
<1>4. /\ OnlyTask(w) /\ task'[w].pc = "loop" /\ task'[w].profile = None
      /\ task'[w].pack = None /\ task'[w].job = None
  BY <1>1, IdleMoves DEF Publish, Pcs, BusyPcs
<1>5. Pc(w)' = "loop" /\ Pack(w)' = None /\ Of(w)' = None /\ Holds(w)' = Holds(w)
  BY <1>3, <1>4 DEF Pc, Pack, Of, Holds
<1>6. Faithful(w)'
  BY <1>2, <1>3, <1>5 DEF Faithful, Bound
<1>7. Employed(w)' /\ Trains(w)'
  BY <1>5 DEF Employed, Trains, Does
<1>8. Locked(w)' /\ Bare(w)'
  BY <1>1, <1>5 DEF Safe, Orderly, Locked, Bare, gate
<1>9. Typed'
  BY <1>1, <1>3, <1>4, StillTyped, TaskFacts DEF Publish
<1>10. (\A i \in Jobs : Sound(i)') /\ \A k \in Packs : Offered(k)'
  BY <1>1, <1>4, StoreStays
<1> QED
  BY <1>1, <1>3, <1>4, <1>6, <1>7, <1>8, <1>9, <1>10, OneSteps DEF Orderly

-----------------------------------------------------------------------------
(* Getting in and out *)

\* A process that ends changes no row, and at most the history of the packs.
LEMMA LeavesStore ==
  ASSUME Safe, NEW w \in Workers, OnlyTask(w), Leaves(w)
  PROVE  /\ left' \subseteq Packs /\ UNCHANGED <<jobs, packs>>
         /\ Pc(w) \in Outside => UNCHANGED store
         /\ \A j \in Jobs : Sound(j)'
         /\ \A k \in Packs : Offered(k)'
<1>1. CASE Pc(w) # "written"
  <2>1. UNCHANGED store
    BY <1>1 DEF Leaves, store
  <2> QED
    BY <1>1, <2>1, StoreStays DEF Safe, Typed, store
<1>2. CASE Pc(w) = "written"
  <2>1. Inside(w) /\ Typed /\ Pc(w) \notin Outside
    BY <1>2 DEF Inside, BusyPcs, Safe, Outside
  <2>2. Pack(w) \in Packs /\ packs[Pack(w)] = "ok" /\ \A j \in Jobs : jobs[j].result # Pack(w)
    BY <1>2, <2>1, FaithfulNow DEF Employed, Trains
  <2>3. left' = left \cup {Pack(w)} /\ UNCHANGED <<jobs, packs>>
    BY <1>2 DEF Leaves
  <2>4. ASSUME NEW j \in Jobs PROVE Sound(j)'
    BY <2>2, <2>3 DEF Safe, Sound
  <2>5. ASSUME NEW k \in Packs PROVE Offered(k)'
    <3>1. \A v \in Workers \ {w} : Pc(v)' = Pc(v) /\ Pack(v)' = Pack(v)
      BY DEF OnlyTask, Pc, Pack
    <3>2. Offered(k)
      BY DEF Safe
    <3> QED
      BY <2>2, <2>3, <3>1, <3>2 DEF Offered
  <2> QED
    BY <2>1, <2>2, <2>3, <2>4, <2>5 DEF Typed
<1> QED
  BY <1>1, <1>2

LEMMA InterruptSafe ==
  ASSUME Safe, NEW w \in Workers, Interrupt(w)
  PROVE  Safe'
<1>1. Typed /\ UNCHANGED <<memory, gate>> /\ Leaves(w) /\ Pc(w) \notin Outside
  BY DEF Interrupt, Safe, BusyPcs, LoadPcs, Outside
<1>2. PICK pc \in {"unlock", "release"} : pc = IF Pc(w) = "lease" THEN "unlock" ELSE "release"
  OBVIOUS
<1>3. OnlyTask(w) /\ task'[w].pc = pc
  BY <1>1, <1>2, IdleMoves DEF Interrupt, Pcs, EndPcs
<1>4. OnlyMemory(w) /\ Pc(w)' = pc
  BY <1>1, <1>3, SameMemory DEF Pc
<1>5. Orderly(w)'
  BY <1>1, <1>4 DEF Safe, Orderly, Locked, Bare, Inside, BusyPcs, LoadPcs, gate
<1>6. /\ left' \subseteq Packs /\ UNCHANGED <<jobs, packs>>
      /\ (\A j \in Jobs : Sound(j)') /\ \A k \in Packs : Offered(k)'
  BY <1>1, <1>3, LeavesStore
<1>7. Typed'
  BY <1>1, <1>3, <1>4, <1>6 DEF Typed, OnlyTask, OnlyMemory, gate
<1> QED
  BY <1>1, <1>3, <1>4, <1>5, <1>6, <1>7, OneSteps

LEMMA ReleaseSafe ==
  ASSUME Safe, NEW w \in Workers, Release(w)
  PROVE  Safe'
<1>1. /\ Typed /\ Pc(w) = "release" /\ UNCHANGED <<memory, osLock, store>>
      /\ Pc(w) \notin Outside
  BY DEF Release, Safe, Outside
<1>2. To(w, "unlock") /\ OnlyTask(w) /\ OnlyMemory(w) /\ Pc(w)' = "unlock"
  BY <1>1, GotoMoves, SameMemory DEF Release, Pcs, EndPcs, To, Pc
<1>3. Orderly(w)'
  BY <1>1, <1>2 DEF Safe, Orderly, Locked, Bare, Inside, BusyPcs, LoadPcs
<1>4. lease' \in [owner: Workers \cup {None}, fresh: BOOLEAN]
  BY <1>1 DEF Release, Typed
<1>5. Typed'
  BY <1>1, <1>2, <1>4 DEF Typed, OnlyTask, OnlyMemory, store
<1> QED
  BY <1>1, <1>2, <1>3, <1>5, StoreStays, OneSteps

LEMMA UnlockSafe ==
  ASSUME Safe, NEW w \in Workers, Unlock(w)
  PROVE  Safe'
<1>1. /\ Typed /\ Pc(w) = "unlock" /\ UNCHANGED <<lease, store>>
      /\ Pc(w) \notin Outside
  BY DEF Unlock, Safe, Outside
<1> DEFINE n == [Nothing EXCEPT !.profile = IF Holds(w) = None THEN None ELSE Default]
<1>2. n \in Memory
  BY LoadAssumption DEF Nothing, Memory, Places
<1>3. Keep(w, n) /\ Goto(w, "exiting")
  BY DEF Unlock
<1> HIDE DEF n
<1>4. To(w, "exiting") /\ OnlyTask(w) /\ OnlyMemory(w) /\ Pc(w)' = "exiting"
  BY <1>1, <1>2, <1>3, GotoMoves, KeepMoves DEF Pcs, EndPcs, To, Pc
<1>5. Orderly(w)'
  BY <1>4 DEF Orderly, Locked, Outside, Bare, Inside, BusyPcs, LoadPcs
<1>6. osLock' \in Workers \cup {None}
  BY <1>1 DEF Unlock, Typed
<1>7. Typed'
  BY <1>1, <1>4, <1>6 DEF Typed, OnlyTask, OnlyMemory, store
<1> QED
  BY <1>1, <1>4, <1>5, <1>7, StoreStays, OneSteps

LEMMA GoneMoves ==
  ASSUME Safe, NEW w \in Workers, Gone(w)
  PROVE  /\ OnlyTask(w) /\ OnlyMemory(w) /\ Orderly(w)'
         /\ osLock' \in Workers \cup {None} /\ (osLock' = osLock \/ osLock = w)
<1>1. OnlyTask(w) /\ task'[w] = Idle
  BY TaskMoves, IdleFacts DEF Gone, Safe
<1>2. OnlyMemory(w) /\ memory'[w] = Nothing
  BY KeepMoves, NothingFacts DEF Gone, Safe, Keep
<1>3. Pc(w)' = "off" /\ Pack(w)' = None /\ Of(w)' = None
  BY <1>1, IdleFacts DEF Pc, Pack, Of
<1>4. Orderly(w)'
  BY <1>1, <1>2, <1>3 DEF Orderly, Locked, Outside, Bare, Inside, BusyPcs, LoadPcs
<1> QED
  BY <1>1, <1>2, <1>4 DEF Gone, Safe, Typed

LEMMA ExitSafe ==
  ASSUME Safe, NEW w \in Workers, Exit(w)
  PROVE  Safe'
<1>1. Typed /\ Gone(w) /\ Pc(w) = "exiting" /\ UNCHANGED <<lease, store>>
  BY DEF Exit, Safe
<1>2. Typed'
  BY <1>1, GoneMoves DEF Typed, OnlyTask, OnlyMemory, store
<1> QED
  BY <1>1, <1>2, GoneMoves, StoreStays, OneSteps

\* What every sudden end comes to.
LEMMA EndsSafe ==
  ASSUME Safe, NEW w \in Workers, Gone(w), Leaves(w), UNCHANGED lease
  PROVE  Safe'
<1>1. /\ OnlyTask(w) /\ OnlyMemory(w) /\ Orderly(w)'
      /\ osLock' \in Workers \cup {None} /\ (osLock' = osLock \/ osLock = w)
  BY GoneMoves
<1>2. /\ left' \subseteq Packs /\ UNCHANGED <<jobs, packs>>
      /\ Pc(w) \in Outside => UNCHANGED store
      /\ (\A j \in Jobs : Sound(j)') /\ \A k \in Packs : Offered(k)'
  BY <1>1, LeavesStore
<1>3. Typed'
  BY <1>1, <1>2 DEF Safe, Typed, OnlyTask, OnlyMemory
<1> QED
  BY <1>1, <1>2, <1>3, OneSteps

LEMMA CrashSafe ==
  ASSUME Safe, NEW w \in Workers, Crash(w)
  PROVE  Safe'
BY EndsSafe DEF Crash

LEMMA ExitProcessSafe ==
  ASSUME Safe, NEW w \in Workers, ExitProcess(w)
  PROVE  Safe'
BY EndsSafe DEF ExitProcess

\* The watchdog settles the row under the process, which goes on with a job that
\* is its own and no longer running, and with a pack that is still nobody's.
LEMMA DeadlineSafe ==
  ASSUME Safe, NEW w \in Workers, Deadline(w)
  PROVE  Safe'
<1>1. /\ Typed /\ UNCHANGED <<memory, gate, packs, left>>
      /\ Inside(w) /\ Pc(w) \notin Outside /\ Of(w) \in Jobs
  BY TaskFacts DEF Deadline, Safe, Inside, BusyPcs, LoadPcs, Outside
<1>2. PICK outcome \in {"error", "cancelled"} : Settle(Of(w), outcome, Nothing)
  BY DEF Deadline
<1> DEFINE t == [task[w] EXCEPT !.expired = TRUE]
<1>3. /\ t \in Task /\ t.pc = task[w].pc /\ t.profile = task[w].profile
      /\ t.pack = task[w].pack /\ t.job = task[w].job /\ t.expired
  BY <1>1, TaskFacts DEF Task
<1>4. task' = [task EXCEPT ![w] = t]
  BY DEF Deadline
<1> HIDE DEF t
<1>5. OnlyTask(w) /\ task'[w] = t /\ OnlyMemory(w) /\ memory'[w] = memory[w]
  BY <1>1, <1>3, <1>4, TaskMoves, SameMemory
<1>6. /\ Pc(w)' = Pc(w) /\ Of(w)' = Of(w) /\ Pack(w)' = Pack(w) /\ Wanted(w)' = Wanted(w)
      /\ Holds(w)' = Holds(w) /\ task'[w].expired
  BY <1>3, <1>5 DEF Pc, Of, Pack, Wanted, Holds
<1>7. /\ jobs' \in [Jobs -> Job] /\ \A i \in Jobs \ {Of(w)} : jobs'[i] = jobs[i]
      /\ jobs'[Of(w)].kind = jobs[Of(w)].kind /\ jobs'[Of(w)].by = jobs[Of(w)].by
      /\ jobs'[Of(w)].result \in {jobs[Of(w)].result, Nothing}
  BY <1>1, <1>2, SettleFacts
<1>8. Employed(w) /\ Faithful(w) /\ Trains(w) /\ (Does(w, "train")' <=> Does(w, "train"))
  BY <1>1, <1>6, <1>7, FaithfulNow DEF Does
<1>9. Employed(w)'
  BY <1>1, <1>6, <1>7, <1>8 DEF Employed
<1>10. Faithful(w)'
  BY <1>5, <1>6, <1>8 DEF Faithful
<1>11. Trains(w)'
  <2>1. ASSUME Pack(w) \in Packs, \A j \in Jobs : jobs[j].result # Pack(w)
        PROVE  \A j \in Jobs : jobs'[j].result # Pack(w)
    BY <1>7, <2>1, Absent
  <2> QED
    BY <1>1, <1>6, <1>8, <2>1 DEF Trains
<1>12. Locked(w)' /\ Bare(w)'
  BY <1>1, <1>6 DEF Safe, Orderly, Locked, Bare, gate, Inside, BusyPcs, LoadPcs
<1>13. PackGivenUp(w)
  BY <1>1 DEF PackGivenUp
<1>14. (\A i \in Jobs : Sound(i)') /\ \A k \in Packs : Offered(k)'
  BY <1>1, <1>2, <1>5, <1>6, <1>13, SettledStore, Absent
<1>15. Typed'
  BY <1>1, <1>5, <1>7 DEF Typed, OnlyTask, OnlyMemory, gate
<1> QED
  BY <1>1, <1>5, <1>9, <1>10, <1>11, <1>12, <1>14, <1>15, OneSteps DEF Orderly

LEMMA BootSafe ==
  ASSUME Safe, NEW w \in Workers, Boot(w)
  PROVE  Safe'
<1>1. /\ Typed /\ Pc(w) = "off" /\ UNCHANGED <<memory, gate, store>>
      /\ memory[w] = Nothing /\ Pack(w) = None /\ Of(w) = None
  BY DEF Boot, Safe, Orderly, Bare
<1>2. To(w, "oslock") /\ OnlyTask(w) /\ OnlyMemory(w) /\ memory'[w] = memory[w]
  BY <1>1, GotoMoves, SameMemory DEF Boot, Pcs, WaitPcs, To
<1>3. Pc(w)' = "oslock" /\ Pack(w)' = None /\ Of(w)' = None
  BY <1>1, <1>2 DEF To, Pc, Pack, Of
<1>4. Orderly(w)'
  BY <1>1, <1>2, <1>3 DEF Orderly, Locked, Outside, Bare, Inside, BusyPcs, LoadPcs
<1>5. UNCHANGED <<gate, store>>
  BY <1>1 DEF Typed
<1>6. Typed'
  BY <1>1, <1>2, <1>5, StillTyped
<1> QED
  BY <1>1, <1>2, <1>4, <1>5, <1>6, StoreStays, OneSteps DEF gate

LEMMA TakeOsLockSafe ==
  ASSUME Safe, NEW w \in Workers, TakeOsLock(w)
  PROVE  Safe'
<1>1. /\ Typed /\ Pc(w) = "oslock" /\ UNCHANGED <<memory, lease, store>>
      /\ memory[w] = Nothing /\ Pack(w) = None /\ Of(w) = None /\ osLock = None /\ osLock' = w
  BY DEF TakeOsLock, Safe, Orderly, Bare
<1>2. To(w, "lease") /\ OnlyTask(w) /\ OnlyMemory(w) /\ memory'[w] = memory[w]
  BY <1>1, GotoMoves, SameMemory DEF TakeOsLock, Pcs, WaitPcs, To
<1>3. Pc(w)' = "lease" /\ Pack(w)' = None /\ Of(w)' = None
  BY <1>1, <1>2 DEF To, Pc, Pack, Of
<1>4. Orderly(w)'
  BY <1>1, <1>2, <1>3 DEF Orderly, Locked, Bare, Inside, BusyPcs, LoadPcs
<1>5. Typed'
  BY <1>1, <1>2 DEF Typed, OnlyTask, OnlyMemory, store
<1> QED
  BY <1>1, <1>2, <1>4, <1>5, StoreStays, OneSteps

LEMMA TakeLeaseSafe ==
  ASSUME Safe, NEW w \in Workers, TakeLease(w)
  PROVE  Safe'
<1>1. /\ Typed /\ Pc(w) = "lease" /\ UNCHANGED <<memory, osLock, store>>
      /\ memory[w] = Nothing /\ Pack(w) = None /\ Of(w) = None /\ Pc(w) \notin Outside
      /\ lease' = [owner |-> w, fresh |-> TRUE]
  BY DEF TakeLease, Safe, Orderly, Bare, Outside
<1> DEFINE t == [[task[w] EXCEPT !.pc = "load"] EXCEPT !.profile = Default]
<1>2. /\ t \in Task /\ t.pc = "load" /\ t.profile = Default /\ t.pack = None /\ t.job = None
  BY <1>1, TaskFacts, LoadAssumption DEF Task, BusyPcs, LoadPcs, Pack, Of
<1>3. task' = [task EXCEPT ![w] = t]
  BY DEF TakeLease
<1> HIDE DEF t
<1>4. OnlyTask(w) /\ task'[w] = t /\ OnlyMemory(w) /\ memory'[w] = Nothing
  BY <1>1, <1>2, <1>3, TaskMoves, SameMemory
<1>5. /\ Pc(w)' = "load" /\ Pack(w)' = None /\ Of(w)' = None /\ Wanted(w)' = Default
      /\ Holds(w)' = None
  BY <1>2, <1>4, NothingFacts DEF Pc, Pack, Of, Wanted, Holds
<1>6. Faithful(w)'
  BY <1>4, <1>5, NothingFacts, LoadAssumption DEF Faithful, Bound, Carried
<1>7. Employed(w)' /\ Trains(w)'
  BY <1>5 DEF Employed, Trains, Does
<1>8. Locked(w)' /\ Bare(w)'
  BY <1>1, <1>5 DEF Safe, Orderly, Locked, Bare
<1>9. Typed'
  BY <1>1, <1>4 DEF Typed, OnlyTask, OnlyMemory, store
<1> QED
  BY <1>1, <1>4, <1>6, <1>7, <1>8, <1>9, StoreStays, OneSteps DEF Orderly

LEMMA BeatSafe ==
  ASSUME Safe, NEW w \in Workers, Beat(w)
  PROVE  Safe'
<1>1. /\ Typed /\ Inside(w) /\ UNCHANGED <<memory, osLock, store>> /\ Pc(w) \notin Outside
  BY DEF Beat, Safe, Inside, BusyPcs, LoadPcs, Outside
<1>2. lease' \in [owner: Workers \cup {None}, fresh: BOOLEAN]
  BY <1>1 DEF Beat, Typed
<1>3. OnlyMemory(w) /\ memory'[w] = memory[w]
  BY <1>1, SameMemory
<1>4. CASE Pc(w) = "loop" /\ Goto(w, "release")
  <2>1. To(w, "release") /\ OnlyTask(w) /\ Pc(w)' = "release"
    BY <1>1, <1>4, GotoMoves DEF Pcs, EndPcs, To, Pc
  <2>2. Orderly(w)'
    BY <1>1, <2>1 DEF Safe, Orderly, Locked, Bare, Inside, BusyPcs, LoadPcs
  <2>3. Typed'
    BY <1>1, <1>2, <1>3, <2>1 DEF Typed, OnlyTask, OnlyMemory, store
  <2> QED
    BY <1>1, <1>3, <1>4, <2>1, <2>2, <2>3, StoreStays, OneSteps
<1>5. CASE UNCHANGED task
  <2>1. Typed'
    BY <1>1, <1>2, <1>5 DEF Typed, store
  <2>2. ASSUME NEW v \in Workers PROVE Orderly(v)'
    BY <1>1, <1>5 DEF Safe, Orderly, Locked, Bare, Inside, Employed, Faithful, Trains, Does, Pc, Of,
       Pack, Wanted, Holds, store
  <2>3. \A j \in Jobs : Sound(j)'
    BY <1>1 DEF Safe, Sound, store
  <2>4. \A k \in Packs : Offered(k)'
    BY <1>1, <1>5 DEF Safe, Offered, Pc, Pack, store
  <2> QED
    BY <2>1, <2>2, <2>3, <2>4 DEF Safe
<1> QED
  BY <1>4, <1>5 DEF Beat, Goto

LEMMA ExpireLeaseSafe ==
  ASSUME Safe, ExpireLease
  PROVE  Safe'
<1>1. Typed /\ UNCHANGED <<memory, task, osLock, store>>
  BY DEF ExpireLease, Safe
<1>2. lease' \in [owner: Workers \cup {None}, fresh: BOOLEAN]
  BY <1>1 DEF ExpireLease, Typed
<1>3. Typed'
  BY <1>1, <1>2 DEF Typed, store
<1>4. ASSUME NEW v \in Workers PROVE Orderly(v)'
  BY <1>1 DEF Safe, Orderly, Locked, Bare, Inside, Employed, Faithful, Trains, Does, Pc, Of,
     Pack, Wanted, Holds, store
<1>5. \A j \in Jobs : Sound(j)'
  BY <1>1 DEF Safe, Sound, store
<1>6. \A k \in Packs : Offered(k)'
  BY <1>1 DEF Safe, Offered, Pc, Pack, store
<1> QED
  BY <1>3, <1>4, <1>5, <1>6 DEF Safe

-----------------------------------------------------------------------------
(* The server, and the loop *)

\* A row that was claimed goes on as it was, as far as its process is concerned.
LEMMA RowsMove ==
  ASSUME Safe, UNCHANGED <<memory, task, gate, packs, left>>, jobs' \in [Jobs -> Job],
         \A i \in Jobs : /\ jobs'[i].result = jobs[i].result
                         /\ jobs[i].by # None =>
                              jobs'[i].by = jobs[i].by /\ jobs'[i].kind = jobs[i].kind
                              /\ (jobs[i].status = "running" => jobs'[i].status = "running"),
         \A i \in Jobs : Sound(i)'
  PROVE  Safe'
<1>1. Typed'
  BY DEF Safe, Typed, gate
<1>2. ASSUME NEW w \in Workers PROVE Orderly(w)'
  <2>1. /\ Pc(w)' = Pc(w) /\ Of(w)' = Of(w) /\ Pack(w)' = Pack(w) /\ Wanted(w)' = Wanted(w)
        /\ Holds(w)' = Holds(w) /\ memory'[w] = memory[w] /\ osLock' = osLock
        /\ task'[w] = task[w] /\ packs' = packs /\ left' = left
    BY DEF Pc, Of, Pack, Wanted, Holds, gate
  <2>2. Locked(w)' /\ Bare(w)' /\ Inside(w)' = Inside(w)
    BY <2>1 DEF Safe, Orderly, Locked, Bare, Inside
  <2>3. CASE Inside(w)
    <3>1. Employed(w) /\ Faithful(w) /\ Trains(w) /\ Of(w) \in Jobs \cup {None}
      BY <2>3, FaithfulNow, TaskFacts DEF Safe
    <3>2. Of(w) # None /\ Pc(w) # "publish" =>
            /\ jobs[Of(w)].by = w /\ jobs'[Of(w)].by = w /\ jobs'[Of(w)].kind = jobs[Of(w)].kind
            /\ jobs[Of(w)].status = "running" => jobs'[Of(w)].status = "running"
      BY <3>1, Absent DEF Employed
    <3>3. Of(w) # None /\ Pc(w) # "publish" => Does(w, "train")' = Does(w, "train")
      BY <2>1, <3>2 DEF Does
    <3>4. ~(Of(w) # None) => ~Does(w, "train")' /\ ~Does(w, "train")
      BY <2>1 DEF Does
    <3>5. Employed(w)'
      BY <2>1, <3>2, <3>1, <3>3, <3>4 DEF Employed
    <3>6. Faithful(w)'
      BY <2>1, <3>1 DEF Faithful
    <3>7. Trains(w)'
      BY <2>1, <3>1, <3>3, <3>4 DEF Trains
    <3> QED
      BY <2>2, <3>5, <3>6, <3>7 DEF Orderly
  <2> QED
    BY <2>2, <2>3 DEF Orderly
<1>3. ASSUME NEW k \in Packs PROVE Offered(k)'
  BY DEF Safe, Offered, Pc, Pack
<1> QED
  BY <1>1, <1>2, <1>3 DEF Safe

LEMMA RowMoves ==
  ASSUME Typed, NEW j \in Jobs, NEW r \in Job, jobs' = [jobs EXCEPT ![j] = r]
  PROVE  jobs' \in [Jobs -> Job] /\ jobs'[j] = r /\ \A i \in Jobs \ {j} : jobs'[i] = jobs[i]
BY DEF Typed

LEMMA RequestCancelSafe ==
  ASSUME Safe, NEW j \in Jobs, RequestCancel(j)
  PROVE  Safe'
<1> DEFINE r == [jobs[j] EXCEPT !.cancel = TRUE]
<1>1. Typed /\ UNCHANGED <<memory, task, gate, packs, left>> /\ jobs' = [jobs EXCEPT ![j] = r]
  BY DEF RequestCancel, Safe
<1>2. /\ r \in Job /\ r.status = jobs[j].status /\ r.by = jobs[j].by /\ r.kind = jobs[j].kind
      /\ r.result = jobs[j].result /\ r.pack = jobs[j].pack /\ r.profile = jobs[j].profile
  BY <1>1, JobFacts DEF Job
<1> HIDE DEF r
<1>3. jobs' \in [Jobs -> Job] /\ jobs'[j] = r /\ \A i \in Jobs \ {j} : jobs'[i] = jobs[i]
  BY <1>1, <1>2, RowMoves
<1>4. ASSUME NEW i \in Jobs PROVE Sound(i)'
  BY <1>1, <1>2, <1>3 DEF Safe, Sound
<1> QED
  BY <1>1, <1>2, <1>3, <1>4, RowsMove

LEMMA EnqueueSafe ==
  ASSUME Safe, NEW j \in Jobs, NEW body \in Bodies[j], Enqueue(j, body)
  PROVE  Safe'
<1> DEFINE r == [NoJob EXCEPT !.status = "queued", !.kind = body.kind,
                              !.profile = body.profile, !.pack = body.pack]
<1>1. Typed /\ UNCHANGED <<memory, task, gate, packs, left>> /\ jobs' = [jobs EXCEPT ![j] = r]
  BY DEF Enqueue, Safe
<1>2. body \in Body
  BY ProcessAssumption
<1>3. /\ r \in Job /\ r.status = "queued" /\ r.result = Nothing
      /\ r.pack = body.pack /\ r.profile = body.profile
  BY <1>2, LoadAssumption DEF NoJob, Job, Body
<1> HIDE DEF r
<1>4. jobs' \in [Jobs -> Job] /\ jobs'[j] = r /\ \A i \in Jobs \ {j} : jobs'[i] = jobs[i]
  BY <1>1, <1>3, RowMoves
<1>5. jobs[j].status = "none" /\ (body.pack # None => body.profile = LoraBase)
  BY DEF Enqueue, Accepted
<1>6. jobs[j].result = Nothing /\ jobs[j].by = None
  BY <1>5 DEF Safe, Sound
<1>7. ASSUME NEW i \in Jobs PROVE Sound(i)'
  <2>1. CASE i = j
    BY <1>3, <1>4, <1>5, <2>1, Absent DEF Sound
  <2>2. CASE i # j
    BY <1>1, <1>4, <2>2 DEF Safe, Sound
  <2> QED
    BY <2>1, <2>2
<1>8. \A i \in Jobs : /\ jobs'[i].result = jobs[i].result
                      /\ jobs[i].by # None =>
                           jobs'[i].by = jobs[i].by /\ jobs'[i].kind = jobs[i].kind
                           /\ (jobs[i].status = "running" => jobs'[i].status = "running")
  BY <1>3, <1>4, <1>5, <1>6
<1> QED
  BY <1>1, <1>4, <1>7, <1>8, RowsMove

\* No job but the reclaimer's own could be another process's, and it has none.
LEMMA ReclaimSafe ==
  ASSUME Safe, NEW w \in Workers, NEW j \in Jobs, Reclaim(w, j)
  PROVE  Safe'
<1>1. PICK outcome \in {"cancelled", "queued", "error"} :
        jobs' = [jobs EXCEPT ![j].status = outcome, ![j].by = None]
  BY DEF Reclaim
<1> DEFINE r == [[jobs[j] EXCEPT !.status = outcome] EXCEPT !.by = None]
<1>2. /\ Typed /\ UNCHANGED <<memory, task, gate, packs, left>>
      /\ Pc(w) = "loop" /\ Inside(w) /\ Pc(w) \notin Outside /\ jobs[j].status = "running"
  BY DEF Reclaim, Safe, Inside, BusyPcs, Outside
<1>3. /\ r \in Job /\ r.result = jobs[j].result /\ r.pack = jobs[j].pack /\ r.profile = jobs[j].profile
      /\ r.status # "none"
  BY <1>2, JobFacts DEF Job
<1>4. jobs' = [jobs EXCEPT ![j] = r]
  BY <1>1
<1> HIDE DEF r
<1>5. jobs' \in [Jobs -> Job] /\ jobs'[j] = r /\ \A i \in Jobs \ {j} : jobs'[i] = jobs[i]
  BY <1>2, <1>3, <1>4, RowMoves
<1>6. jobs[j].result = Nothing
  BY <1>2 DEF Safe, Sound
<1>7. ASSUME NEW i \in Jobs PROVE Sound(i)'
  <2>1. CASE i = j
    BY <1>3, <1>5, <1>6, <2>1, Absent DEF Safe, Sound
  <2>2. CASE i # j
    BY <1>2, <1>5, <2>2 DEF Safe, Sound
  <2> QED
    BY <2>1, <2>2
<1>8. /\ Pc(w)' = Pc(w) /\ Of(w)' = Of(w) /\ Pack(w)' = Pack(w) /\ Wanted(w)' = Wanted(w)
      /\ Holds(w)' = Holds(w) /\ memory'[w] = memory[w] /\ osLock' = osLock /\ task'[w] = task[w]
  BY <1>2 DEF Pc, Of, Pack, Wanted, Holds, gate
<1>9. Orderly(w)'
  <2>1. Employed(w) /\ Faithful(w) /\ Of(w) = None
    BY <1>2, FaithfulNow DEF Employed
  <2>2. Employed(w)' /\ Trains(w)'
    BY <1>2, <1>8, <2>1 DEF Employed, Trains, Does
  <2>3. Faithful(w)'
    BY <1>8, <2>1 DEF Faithful
  <2>4. Locked(w)' /\ Bare(w)'
    BY <1>8 DEF Safe, Orderly, Locked, Bare
  <2> QED
    BY <2>2, <2>3, <2>4 DEF Orderly
<1>10. \A k \in Packs : Offered(k)'
  BY <1>2, <1>3, <1>5 DEF Safe, Offered, Pc, Pack
<1>11. Typed' /\ OnlyTask(w) /\ OnlyMemory(w)
  BY <1>2, <1>5 DEF Typed, OnlyTask, OnlyMemory, gate
<1> QED
  BY <1>2, <1>7, <1>9, <1>10, <1>11, OneSteps

\* The row and the task of a job that is claimed.
Claims(w, j, profile, pack) ==
  /\ Pc(w) = "loop" /\ jobs[j].status = "queued"
  /\ jobs' = [jobs EXCEPT ![j].status = "running", ![j].by = w]
  /\ task' = [task EXCEPT ![w] = [pc |-> "load", profile |-> profile, pack |-> pack, job |-> j,
                                  expired |-> FALSE]]
  /\ UNCHANGED <<memory, gate>>

LEMMA ClaimMoves ==
  ASSUME Safe, NEW w \in Workers, NEW j \in Jobs, NEW profile \in Profiles,
         NEW pack \in Packs \cup {None}, Claims(w, j, profile, pack)
  PROVE  /\ Typed /\ Inside(w) /\ Pc(w) \notin Outside
         /\ jobs' \in [Jobs -> Job] /\ \A i \in Jobs \ {j} : jobs'[i] = jobs[i]
         /\ jobs'[j].status = "running" /\ jobs'[j].by = w /\ jobs'[j].kind = jobs[j].kind
         /\ jobs[j].result = Nothing /\ jobs'[j].result = Nothing
         /\ jobs'[j].pack = jobs[j].pack /\ jobs'[j].profile = jobs[j].profile
         /\ OnlyTask(w) /\ OnlyMemory(w)
         /\ Pc(w)' = "load" /\ Of(w)' = j /\ Pack(w)' = pack /\ Wanted(w)' = profile
         /\ Locked(w)' /\ Bare(w)' /\ Employed(w)'
         /\ (pack # None => profile = LoraBase) => Faithful(w)'
<1>1. Typed /\ Inside(w) /\ Pc(w) \notin Outside
  BY DEF Claims, Safe, Inside, BusyPcs, Outside
<1> DEFINE r == [[jobs[j] EXCEPT !.status = "running"] EXCEPT !.by = w]
           t == [pc |-> "load", profile |-> profile, pack |-> pack, job |-> j, expired |-> FALSE]
<1>2. /\ r \in Job /\ r.status = "running" /\ r.by = w /\ r.kind = jobs[j].kind
      /\ r.result = jobs[j].result /\ r.pack = jobs[j].pack /\ r.profile = jobs[j].profile
  BY <1>1, JobFacts DEF Job
<1>3. t \in Task /\ t.pc = "load" /\ t.profile = profile /\ t.pack = pack /\ t.job = j
  BY DEF Task, BusyPcs, LoadPcs
<1>4. /\ jobs' = [jobs EXCEPT ![j] = r] /\ task' = [task EXCEPT ![w] = t]
      /\ UNCHANGED <<memory, gate>> /\ jobs[j].status = "queued" /\ Pc(w) = "loop"
  BY DEF Claims
<1> HIDE DEF r, t
<1>5. jobs' \in [Jobs -> Job] /\ jobs'[j] = r /\ \A i \in Jobs \ {j} : jobs'[i] = jobs[i]
  BY <1>1, <1>2, <1>4, RowMoves
<1>6. OnlyTask(w) /\ task'[w] = t /\ OnlyMemory(w) /\ memory'[w] = memory[w]
  BY <1>1, <1>3, <1>4, TaskMoves, SameMemory
<1>7. /\ Pc(w)' = "load" /\ Of(w)' = j /\ Pack(w)' = pack /\ Wanted(w)' = profile
      /\ Holds(w)' = Holds(w)
  BY <1>3, <1>6 DEF Pc, Of, Pack, Wanted, Holds
<1>8. jobs[j].result = Nothing
  BY <1>4 DEF Safe, Sound
<1>9. Locked(w)' /\ Bare(w)'
  BY <1>1, <1>4, <1>7 DEF Safe, Orderly, Locked, Bare, gate
<1>10. Employed(w)'
  BY <1>2, <1>5, <1>7 DEF Employed
<1>11. ASSUME pack # None => profile = LoraBase PROVE Faithful(w)'
  <2>1. Faithful(w)
    BY <1>1, FaithfulNow
  <2>2. /\ Holds(w) \in Loadable \cup {None}
        /\ memory[w].unsure \/ memory[w].decoder = Carried(memory[w].lora)
    BY <1>4, <2>1 DEF Faithful
  <2> QED
    BY <1>6, <1>7, <1>11, <2>2 DEF Faithful, Bound
<1>12. jobs'[j].status = "running" /\ jobs'[j].by = w /\ jobs'[j].kind = jobs[j].kind
       /\ jobs'[j].result = Nothing
       /\ jobs'[j].pack = jobs[j].pack /\ jobs'[j].profile = jobs[j].profile
  BY <1>2, <1>5, <1>8
<1> QED
  BY <1>1, <1>5, <1>6, <1>7, <1>8, <1>9, <1>10, <1>11, <1>12

LEMMA ClaimRenderSafe ==
  ASSUME Safe, NEW w \in Workers, NEW j \in Jobs, ClaimRender(w, j)
  PROVE  Safe'
<1>1. PICK profile \in Profiles, pack \in Packs \cup {None} :
        profile = jobs[j].profile /\ pack = jobs[j].pack
  BY JobFacts DEF Safe
<1>2. /\ Pc(w) = "loop" /\ jobs[j].kind = "render" /\ Claims(w, j, profile, pack)
      /\ UNCHANGED <<memory, gate, packs, left>>
  BY <1>1 DEF ClaimRender, Claims
<1>3. pack # None => profile = LoraBase
  BY <1>1 DEF Safe, Sound
<1>4. /\ Typed /\ Pc(w) \notin Outside
      /\ jobs' \in [Jobs -> Job] /\ \A i \in Jobs \ {j} : jobs'[i] = jobs[i]
      /\ jobs'[j].status = "running"
      /\ jobs'[j].kind = jobs[j].kind /\ jobs[j].result = Nothing /\ jobs'[j].result = Nothing
      /\ jobs'[j].pack = jobs[j].pack /\ jobs'[j].profile = jobs[j].profile
      /\ OnlyTask(w) /\ OnlyMemory(w) /\ Pc(w)' = "load" /\ Of(w)' = j
      /\ Locked(w)' /\ Bare(w)' /\ Employed(w)' /\ Faithful(w)'
  BY <1>2, <1>3, ClaimMoves
<1>5. Trains(w)'
  BY <1>2, <1>4 DEF Trains, Does
<1>6. ASSUME NEW i \in Jobs PROVE Sound(i)'
  <2>1. CASE i = j
    BY <1>4, <2>1, Absent DEF Safe, Sound
  <2>2. CASE i # j
    BY <1>2, <1>4, <2>2 DEF Safe, Sound
  <2> QED
    BY <2>1, <2>2
<1>7. ASSUME NEW k \in Packs PROVE Offered(k)'
  <2>1. \A v \in Workers : Pc(v) = "written" => Pc(v)' = "written" /\ Pack(v)' = Pack(v)
    BY <1>2, <1>4 DEF OnlyTask, Pc, Pack
  <2> QED
    BY <1>2, <1>4, <2>1 DEF Safe, Offered
<1>8. Typed'
  BY <1>2, <1>4 DEF Typed, OnlyTask, OnlyMemory, gate
<1> QED
  BY <1>4, <1>5, <1>6, <1>7, <1>8, OneSteps DEF Orderly

LEMMA ClaimTrainSafe ==
  ASSUME Safe, NEW w \in Workers, NEW j \in Jobs, ClaimTrain(w, j)
  PROVE  Safe'
<1>1. PICK k \in Packs :
        /\ packs[k] = "none" /\ packs' = [packs EXCEPT ![k] = "training"]
        /\ task' = [task EXCEPT ![w] = [pc |-> "load", profile |-> LoraBase, pack |-> k, job |-> j,
                                        expired |-> FALSE]]
  BY DEF ClaimTrain
<1>2. Pc(w) = "loop" /\ Claims(w, j, LoraBase, k) /\ UNCHANGED <<memory, gate, left>>
  BY <1>1 DEF ClaimTrain, Claims
<1>3. /\ Typed /\ Pc(w) \notin Outside
      /\ jobs' \in [Jobs -> Job] /\ \A i \in Jobs \ {j} : jobs'[i] = jobs[i]
      /\ jobs[j].result = Nothing /\ jobs'[j].result = Nothing /\ jobs'[j].status = "running"
      /\ jobs'[j].pack = jobs[j].pack /\ jobs'[j].profile = jobs[j].profile
      /\ OnlyTask(w) /\ OnlyMemory(w) /\ Pc(w)' = "load" /\ Of(w)' = j /\ Pack(w)' = k
      /\ Locked(w)' /\ Bare(w)' /\ Employed(w)' /\ Faithful(w)'
  BY <1>1, <1>2, ClaimMoves, LoadAssumption
<1>4. /\ packs' \in [Packs -> PackStates]
      /\ packs'[k] = "training" /\ \A i \in Packs \ {k} : packs'[i] = packs[i]
  BY <1>1, <1>3, PackMoves DEF PackStates
<1>5. k \notin left /\ \A i \in Jobs : jobs[i].result # k
  BY <1>1 DEF Safe, Sound, Offered
<1>6. Trains(w)'
  <2>1. \A i \in Jobs : jobs'[i].result # k
    BY <1>3, <1>5, Absent
  <2> QED
    BY <1>2, <1>3, <1>4, <1>5, <2>1 DEF Trains
<1>7. ASSUME NEW i \in Jobs PROVE Sound(i)'
  <2>1. CASE i = j
    BY <1>3, <2>1, Absent DEF Safe, Sound
  <2>2. CASE i # j
    BY <1>2, <1>3, <1>4, <1>5, <2>2 DEF Safe, Sound
  <2> QED
    BY <2>1, <2>2
<1>8. ASSUME NEW i \in Packs PROVE Offered(i)'
  <2>1. \A v \in Workers : Pc(v) = "written" => Pc(v)' = "written" /\ Pack(v)' = Pack(v)
    BY <1>2, <1>3 DEF OnlyTask, Pc, Pack
  <2> QED
    BY <1>2, <1>3, <1>4, <1>5, <2>1 DEF Safe, Offered
<1>9. Typed'
  BY <1>2, <1>3, <1>4 DEF Typed, OnlyTask, OnlyMemory, gate
<1> QED
  BY <1>3, <1>6, <1>7, <1>8, <1>9, OneSteps DEF Orderly

-----------------------------------------------------------------------------
(* The theorems *)

LEMMA InitSafe == Init => Safe
<1> SUFFICES ASSUME Init PROVE Safe
  OBVIOUS
<1>1. NoJob \in Job /\ NoJob.pack = None /\ NoJob.result = Nothing /\ NoJob.by = None
  BY LoadAssumption DEF NoJob, Job
<1>2. Typed
  BY <1>1, NothingFacts, IdleFacts DEF Init, Typed, PackStates
<1>3. ASSUME NEW w \in Workers PROVE Orderly(w)
  <2>1. /\ task[w] = Idle /\ memory[w] = Nothing /\ Pc(w) = "off" /\ Pack(w) = None /\ Of(w) = None
    BY IdleFacts DEF Init, Pc, Pack, Of
  <2> QED
    BY <2>1 DEF Orderly, Locked, Outside, Bare, Inside, BusyPcs, LoadPcs
<1>4. ASSUME NEW j \in Jobs PROVE Sound(j)
  BY <1>1, Absent DEF Init, Sound
<1>5. ASSUME NEW k \in Packs PROVE Offered(k)
  BY DEF Init, Offered
<1> QED
  BY <1>2, <1>3, <1>4, <1>5 DEF Safe

LEMMA NextSafe == Safe /\ [Next]_vars => Safe'
<1> SUFFICES ASSUME Safe, [Next]_vars PROVE Safe'
  OBVIOUS
<1>1. ASSUME NEW w \in Workers, Enter(w) PROVE Safe'
  BY <1>1, BootSafe, TakeOsLockSafe, TakeLeaseSafe, BeatSafe DEF Enter
<1>2. ASSUME NEW w \in Workers, Work(w) PROVE Safe'
  <2>1. CASE Load(w) /\ UNCHANGED <<gate, store>>
    BY <2>1, RetireSafe, ConstructSafe, LoadLmSafe DEF Load
  <2> QED
    BY <1>2, <2>1, StartupEndsSafe, AnnounceSafe, AttachSafe, AbortSafe, RenderSafe, FailSafe,
       BeginTrainingSafe, EndTrainingSafe, FinishTrainingSafe, PublishSafe DEF Work
<1>3. ASSUME NEW w \in Workers, Leave(w) PROVE Safe'
  BY <1>3, InterruptSafe, ReleaseSafe, UnlockSafe, ExitSafe, CrashSafe, DeadlineSafe,
     ExitProcessSafe DEF Leave
<1>4. ASSUME NEW w \in Workers, NEW j \in Jobs, Reclaim(w, j) \/ ClaimRender(w, j) \/ ClaimTrain(w, j)
      PROVE  Safe'
  BY <1>4, ReclaimSafe, ClaimRenderSafe, ClaimTrainSafe
<1>5. ASSUME NEW j \in Jobs, RequestCancel(j) \/ \E body \in Bodies[j] : Enqueue(j, body)
      PROVE  Safe'
  BY <1>5, RequestCancelSafe, EnqueueSafe
<1>6. CASE ExpireLease
  BY <1>6, ExpireLeaseSafe
<1>7. CASE UNCHANGED vars
  <2>1. UNCHANGED <<memory, task, gate, packs, left>> /\ UNCHANGED jobs
    BY <1>7 DEF vars, gate
  <2>2. \A j \in Jobs : Sound(j)'
    BY <2>1 DEF Safe, Sound
  <2>3. jobs' \in [Jobs -> Job]
    BY <2>1 DEF Safe, Typed
  <2> QED
    BY <2>1, <2>2, <2>3, RowsMove
<1> QED
  BY <1>1, <1>2, <1>3, <1>4, <1>5, <1>6, <1>7 DEF Next

LEMMA AlwaysSafe == Spec => []Safe
BY InitSafe, NextSafe, PTL DEF Spec

LEMMA SafeOccupant == Safe => OneOccupant
<1> SUFFICES ASSUME Safe PROVE OneOccupant
  OBVIOUS
<1>1. ASSUME NEW v \in Workers, Occupies(v) PROVE Pc(v) \notin Outside
  BY <1>1 DEF Occupies, Inside, BusyPcs, LoadPcs, Outside, Safe, Orderly, Bare
<1>2. ASSUME NEW v \in Workers, NEW w \in Workers, Occupies(v), Occupies(w) PROVE v = w
  BY <1>1, <1>2, Alone
<1>3. ASSUME NEW w \in Workers, Inside(w), Of(w) # None, Pc(w) # "publish"
      PROVE  jobs[Of(w)].by = w /\ (jobs[Of(w)].status = "running" \/ task[w].expired)
  BY <1>3, FaithfulNow DEF Employed
<1> QED
  BY <1>2, <1>3 DEF OneOccupant

\* One process at a time holds models and works, whatever stalls, dies or is
\* interrupted: the OS lock alone keeps the others out. The job it works on is its
\* own and running, since whoever could reclaim it is outside too, until its own
\* watchdog has settled it and is about to end the process.
THEOREM OneProcessOnTheGpu == Spec => []OneOccupant
BY AlwaysSafe, SafeOccupant, PTL

\* Every take names the profile and the pack it was rendered with, across every
\* swap of profiles and packs and every failed load, unless a call about a pack
\* raised before; and a profile that needs the card for itself never rendered
\* beside a language model there, unless the move away was tried and failed.
THEOREM TakesAsRecorded == Spec => []AppliedAsRecorded
<1>1. Safe => AppliedAsRecorded
  BY DEF Safe, Sound, Recorded, AppliedAsRecorded
<1> QED
  BY <1>1, AlwaysSafe, PTL

\* The pack of a done training is offered. A pack that a training left is offered
\* only if its job is done or about to be settled, in spite of cancels, failures
\* and watchdogs at every step; or if its process ended after it wrote the pack
\* and before it settled the job, the window nothing closes.
THEOREM PacksHaveTheirJob == Spec => []PackHasItsJob
<1>1. Safe => PackHasItsJob
  BY DEF Safe, Sound, Offered, PackHasItsJob, Usable
<1> QED
  BY <1>1, AlwaysSafe, PTL

\* A process that is off has nothing, and a pack in training has its directory.
THEOREM ProcessesTyped == Spec => []TypeOK
<1>1. Safe => TypeOK
  <2> SUFFICES ASSUME Safe PROVE TypeOK
    OBVIOUS
  <2>1. Typed
    BY DEF Safe
  <2>2. \A w \in Workers : Pc(w) = "off" => task[w] = Idle /\ memory[w] = Nothing
    BY DEF Safe, Orderly, Bare
  <2>3. ASSUME NEW w \in Workers, Pc(w) \in {"train", "written"} PROVE packs[task[w].pack] # "none"
    <3>1. Inside(w)
      BY <2>3 DEF Inside, BusyPcs
    <3>2. packs[Pack(w)] \in {"ok", "training"}
      BY <2>3, <3>1, FaithfulNow DEF Employed, Trains
    <3> QED
      BY <3>2 DEF Pack
  <2> QED
    BY <2>1, <2>2, <2>3 DEF Typed, TypeOK, PackStates
<1> QED
  BY <1>1, AlwaysSafe, PTL
=============================================================================
