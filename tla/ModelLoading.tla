---------------------------- MODULE ModelLoading ----------------------------
(***************************************************************************)
(* What one worker process holds on the GPU                                *)
(* (worker/acestep_worker/loading.py): the DiT of one profile, the language *)
(* model beside it, and the style pack attached to the DiT's decoder.  The *)
(* bookkeeping (_STATE) and the decoder are kept apart: ACE-Step's calls   *)
(* fail in ways the bookkeeping does not see.  Every step runs under _LOCK *)
(* of its process.                                                         *)
(***************************************************************************)
EXTENDS Naturals, FiniteSets

CONSTANTS
  Workers,      \* worker processes
  Profiles,     \* VALID_DIT_PROFILES
  Default,      \* the profile loaded at startup
  LoraBase,     \* LORA_BASE_DIT_PROFILE
  Offloaded,    \* CPU_OFFLOAD_PROFILES
  Loadable,     \* profiles the installed ACE-Step can load: see supports_dit_profile
  Packs,        \* style packs
  InTraining,   \* the adapter of a training run
  None,         \* no profile, no pack, no job, no process
  LoadFaults    \* what may go wrong: see LoadFaultKinds

\* "load": constructing or initializing a model fails; "park": the language
\* model cannot be moved; "status": a call about a pack answers with a failure;
\* "raise": it raises something else than an API mismatch, say out of memory.
LoadFaultKinds == {"load", "park", "status", "raise"}

ASSUME LoadAssumption ==
  /\ Default \in Profiles /\ LoraBase \in Profiles
  /\ Offloaded \subseteq Profiles /\ Loadable \subseteq Profiles
  /\ LoraBase \notin Offloaded /\ None \notin Profiles \cup Packs
  /\ InTraining \notin Packs \cup {None}
  /\ LoadFaults \subseteq LoadFaultKinds

VARIABLES
  memory,       \* _STATE of each process, and what its decoder really carries
  task          \* what each process does: its step, and what the step is for

Adapters == Packs \cup {InTraining}

\* Where the language model is; "stuck": on the GPU after a failed move away.
Places == {"none", "gpu", "cpu", "stuck"}
Memory == [profile: Profiles \cup {None}, lora: Packs \cup {None},
           lm: Places, decoder: SUBSET Adapters,
           unsure: BOOLEAN]       \* history: a call about a pack raised
Nothing == [profile |-> None, lora |-> None, lm |-> "none", decoder |-> {}, unsure |-> FALSE]

\* The steps of a load; the process module adds its own.
LoadPcs == {"load", "construct", "lm", "loaded", "adapter", "add", "render", "failed"}

Pc(w) == task[w].pc
Wanted(w) == task[w].profile
Holds(w) == memory[w].profile
Goto(w, pc) == task' = [task EXCEPT ![w].pc = pc]
Keep(w, m) == memory' = [memory EXCEPT ![w] = m]
Carried(pack) == IF pack = None THEN {} ELSE {pack}

\* The handler is dropped: the next load constructs another.
Invalidated(m) == [m EXCEPT !.profile = None, !.lora = None, !.decoder = {}, !.unsure = FALSE]

-----------------------------------------------------------------------------
(* _ensure_loaded *)

\* _park_language_model: a move that fails is reported and nothing else, so the
\* language model stays where it was and the load goes on.
Moves(to, from) == {to} \cup (IF "park" \in LoadFaults THEN {from} ELSE {})
Unmoved(lm, profile) == {lm}                       \* mutant: never parks
Parked(lm, profile) ==
  IF lm = "none" THEN {"none"}
  ELSE IF profile \in Offloaded
    THEN IF lm = "cpu" THEN {"cpu"} ELSE Moves("cpu", "stuck")
    ELSE IF lm = "cpu" THEN Moves("gpu", "cpu") ELSE {"gpu"}

\* The retired DiT leaves the card before the next one is constructed, and the
\* language model makes room for a profile that is offloaded.
Retire(w) ==
  /\ Pc(w) = "load"
  /\ IF Holds(w) = Wanted(w)
     THEN Goto(w, "lm") /\ UNCHANGED memory
     ELSE /\ Goto(w, "construct")
          /\ \E l \in IF Wanted(w) \in Offloaded THEN Parked(memory[w].lm, Wanted(w))
                                                 ELSE {memory[w].lm} :
               Keep(w, [Invalidated(memory[w]) EXCEPT !.lm = l])

Construct(w) ==
  /\ Pc(w) = "construct"
  /\ \/ /\ Wanted(w) \in Loadable
        /\ Keep(w, [memory[w] EXCEPT !.profile = Wanted(w)])
        /\ Goto(w, "lm")
     \/ /\ "load" \in LoadFaults \/ Wanted(w) \notin Loadable
        /\ Goto(w, "failed") /\ UNCHANGED memory

\* The language model is initialized once, on the GPU, and parked by profile.
LoadLm(w) ==
  /\ Pc(w) = "lm"
  /\ \/ /\ \E l \in Parked(IF memory[w].lm = "none" THEN "gpu" ELSE memory[w].lm, Wanted(w)) :
             Keep(w, [memory[w] EXCEPT !.lm = l])
        /\ Goto(w, "loaded")
     \/ /\ "load" \in LoadFaults /\ memory[w].lm = "none"
        /\ Goto(w, "failed") /\ UNCHANGED memory

-----------------------------------------------------------------------------
(* _ensure_lora_adapter: unload what is attached, then add what is wanted.    *)
(* A failure that ACE-Step reports drops the handler; one that it raises      *)
(* leaves both the handler and the bookkeeping as they are, and the decoder   *)
(* with or without the adapter.                                               *)

FailReportedKept(w) ==                             \* mutant: keeps the handler
  /\ "status" \in LoadFaults
  /\ \E d \in SUBSET (memory[w].decoder \cup Carried(task[w].pack)) :
       Keep(w, [memory[w] EXCEPT !.decoder = d, !.lora = None])
  /\ Goto(w, "failed")
FailReported(w) ==
  /\ "status" \in LoadFaults
  /\ Keep(w, Invalidated(memory[w]))
  /\ Goto(w, "failed")

FailRaised(w, outcomes) ==
  /\ "raise" \in LoadFaults
  /\ \E d \in outcomes : Keep(w, [memory[w] EXCEPT !.decoder = d, !.unsure = TRUE])
  /\ Goto(w, "failed")

Unload(w, pack) ==
  /\ Pc(w) = "adapter"
  /\ IF memory[w].lora \in {pack, None}
     THEN Goto(w, IF memory[w].lora = pack THEN "render" ELSE "add") /\ UNCHANGED memory
     ELSE \/ /\ Keep(w, [memory[w] EXCEPT !.lora = None, !.decoder = {}])
             /\ Goto(w, IF pack = None THEN "render" ELSE "add")
          \/ FailReported(w)
          \/ FailRaised(w, {{}, memory[w].decoder})

\* add_lora, set_active_lora_adapter and set_use_lora; `there` says whether the
\* pack's files are.
Add(w, pack, there) ==
  /\ Pc(w) = "add"
  /\ LET added == memory[w].decoder \cup {pack} IN
     \/ /\ there
        /\ Keep(w, [memory[w] EXCEPT !.lora = pack, !.decoder = added])
        /\ Goto(w, "render")
     \/ ~there /\ Keep(w, Invalidated(memory[w])) /\ Goto(w, "failed")
     \/ FailReported(w)
     \/ FailRaised(w, {memory[w].decoder, added})

Load(w) == Retire(w) \/ Construct(w) \/ LoadLm(w)

=============================================================================
