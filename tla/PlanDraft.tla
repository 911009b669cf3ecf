------------------------------ MODULE PlanDraft ------------------------------
(***************************************************************************)
(* The draft of a project (plan.json: server/storage/projects.py,          *)
(* server/creation.py, and _merge_planned_brief of server/jobs/runner.py)  *)
(* under its writers: a studio that names the revision it read, callers of *)
(* the API that name none or send half a plan, presets, and the planned    *)
(* briefs of jobs that were submitted from older revisions. Each write is  *)
(* one critical section of the project lock; what it is computed from was  *)
(* read before.                                                            *)
(***************************************************************************)
EXTENDS CreationBrief, FiniteSets

CONSTANTS
  Jobs, Actions,
  Ways,       \* how clients write: see WayKinds
  MaxWrites   \* how often the draft is written

\* "guarded": the whole plan with expected_revision; "blind": the whole plan;
\* "partial": the fields that changed, alone.
WayKinds == {"guarded", "blind", "partial"}
ASSUME DraftAssumption ==
  /\ Ways \subseteq WayKinds /\ MaxWrites \in Nat /\ Jobs \subseteq Nat \ {0}
  /\ "generate" \in Actions /\ Actions \subseteq {"generate", "cover"}

VARIABLES
  drafts,     \* plan.json at every revision so far; the last is on disk
  job,        \* generate-shaped jobs
  last        \* history: the last write; was it computed from an older revision?

vars == <<drafts, job, last>>

Draft == drafts[Len(drafts)]
Revision == Len(drafts)
Past == DOMAIN drafts

JobRow == [pc: {"none", "queued", "rendered", "done"}, base: Nat, action: Actions, mode: Modes,
           brief: Brief, actual: [value: [Fields -> Values], model: SUBSET Fields], merged: Nat]
Unasked == [value |-> DefaultValue, model |-> {}]
Write == [kind: {"none", "save", "preset", "merge"}, guarded: BOOLEAN, stale: BOOLEAN]

TypeOK ==
  /\ drafts \in Seq(Plan) /\ Len(drafts) \in 1 .. MaxWrites + 1
  /\ job \in [Jobs -> JobRow] /\ last \in Write
  /\ \A j \in Jobs : job[j].base \in 0 .. Revision /\ job[j].merged \in 0 .. Revision
  /\ \A r \in Past : drafts[r].brief \in Jobs \cup {0}

\* create_project with an idea, or a project from before the contract.
Init ==
  /\ \E idea \in Ideas, words \in {Blank, "mine"} :
       drafts \in {<<default_plan(idea)>>, <<default_plan(Blank)>>,
                   <<NormalizedPlan(idea, [DefaultValue EXCEPT !["caption"] = words])>>}
  /\ job = [j \in Jobs |-> [pc |-> "none", base |-> 0, action |-> "generate", mode |-> "from_idea",
                            brief |-> NoBrief, actual |-> Unasked, merged |-> 0]]
  /\ last = [kind |-> "none", guarded |-> TRUE, stale |-> FALSE]

-----------------------------------------------------------------------------
(* Writers *)

\* _update_plan
Written(plan, kind, base, way) ==
  /\ Revision <= MaxWrites
  /\ drafts' = Append(drafts, plan)
  /\ last' = [kind |-> kind, guarded |-> way = "guarded", stale |-> base # Revision]

\* One thing a client does to the plan it has read: type or clear a field, write
\* another idea, or choose the mode, the rewriting or Song and Instrumental.
Edits(plan) ==
  ({[plan EXCEPT !.value[f] = v] : f \in Fields, v \in {Blank, "mine"}}
    \cup {[plan EXCEPT !.query = idea] : idea \in Ideas}
    \cup {[plan EXCEPT !.mode = "from_idea"], [plan EXCEPT !.rewrite = ~@], [plan EXCEPT !.instrumental = ~@]}) \ {plan}

\* What is sent of an edited plan: all of it, or the tracked fields that differ.
Part(read, plan) ==
  [query |-> plan.query, value |-> [f \in {g \in Fields : plan.value[g] # read.value[g]} |-> plan.value[f]],
   instrumental |-> plan.instrumental, rewrite |-> plan.rewrite, preset |-> plan.preset]

\* save_plan: 409 and nothing written when the plan moved on.
Current(base, way) == way = "guarded" => base = Revision
Save(base, way) ==
  /\ Current(base, way)
  /\ \E plan \in Edits(drafts[base]) :
       Written(apply_write_semantics(Draft, IF way = "partial" THEN Part(drafts[base], plan) ELSE plan),
               "save", base, way)
  /\ UNCHANGED job

\* preset_on_project: the proposal is made of a plan read outside the lock.
ApplyPreset(base, way) ==
  /\ way # "partial" /\ Current(base, way)
  /\ \E instrumental \in BOOLEAN :
       Written(apply_write_semantics(Draft, apply_preset(drafts[base], instrumental)), "preset", base, way)
  /\ UNCHANGED job

\* enqueue_job: _resolve_creation of the plan it reads, or a 400.
Submit(j, action, mode) ==
  /\ job[j].pc = "none" /\ (\A i \in Jobs : i < j => job[i].pc # "none")
  /\ action = "cover" => mode = Draft.mode       \* creation_mode is for generate alone
  /\ Renderable(Intent(Draft, action, mode))
  /\ job' = [job EXCEPT ![j].pc = "queued", ![j].base = Revision, ![j].action = action, ![j].mode = mode]
  /\ UNCHANGED <<drafts, last>>

\* The worker: it plans and renders from the frozen input, whatever the draft says
\* by now. (A crash and a resolved brief that is used again are JobQueue's.)
Frozen(j) == Intent(drafts[job[j].base], job[j].action, job[j].mode)
Run(j) ==
  /\ job[j].pc = "queued"
  /\ \E brief \in Resolutions(Frozen(j)), cot \in {Blank, "chosen"} :
       job' = [job EXCEPT ![j].pc = "rendered", ![j].brief = brief,
                          ![j].actual = Actual(brief, job[j].action, cot)]
  /\ UNCHANGED <<drafts, last>>

\* _commit_take: a planned brief goes into the draft the job was submitted from,
\* and into no other. A merge that fails leaves the take.
MergeAnyway(j) ==                                  \* mutant: merges into any draft
  /\ job[j].pc = "rendered"
  /\ \/ /\ job[j].brief.planned
        /\ Written(Patched(Draft, job[j].brief, j), "merge", job[j].base, "guarded")
        /\ job' = [job EXCEPT ![j].pc = "done", ![j].merged = Revision + 1]
     \/ job' = [job EXCEPT ![j].pc = "done"] /\ UNCHANGED <<drafts, last>>
Commit(j) ==
  /\ job[j].pc = "rendered"
  /\ \/ /\ job[j].brief.planned /\ job[j].base = Revision
        /\ Written(Patched(Draft, job[j].brief, j), "merge", job[j].base, "guarded")
        /\ job' = [job EXCEPT ![j].pc = "done", ![j].merged = Revision + 1]
     \/ job' = [job EXCEPT ![j].pc = "done"] /\ UNCHANGED <<drafts, last>>

Next ==
  \/ \E base \in Past, way \in Ways : Save(base, way) \/ ApplyPreset(base, way)
  \/ \E j \in Jobs, action \in Actions, mode \in Modes : Submit(j, action, mode)
  \/ \E j \in Jobs : Run(j) \/ Commit(j)

Spec == Init /\ [][Next]_vars

-----------------------------------------------------------------------------
(* Properties *)

\* A preset changes no lyrics and nothing the user wrote.
PresetKeeps(plan, new) ==
  \A f \in Fields : f = "lyrics" \/ (plan.origin[f] = "user" /\ ~is_unset(plan.value[f])) =>
    new.value[f] = plan.value[f]

\* Newer text wins: a write that names a revision, and the merge of a planned
\* brief, were computed from the very draft they replace; and a preset that does
\* keeps what the user wrote.
NewerTextWins ==
  [][drafts' # drafts /\ last'.guarded =>
       ~last'.stale /\ (last'.kind = "preset" => PresetKeeps(Draft, Draft'))]_vars

\* What the user or a preset wrote is what a brief says, whatever the planner
\* answered (SPEC.md 16.3, precedence rule 1), and user lyrics are verbatim; and
\* the take is rendered from it: the model replaces nothing that was set, save a
\* caption whose rewriting was asked for.
ExplicitSurvives ==
  \A j \in Jobs : job[j].pc \notin {"none", "queued"} =>
    LET asked == drafts[job[j].base]  brief == job[j].brief IN
    \A f \in Fields :
      /\ asked.origin[f] \in {"user", "preset"} /\ asked.value[f] \notin {Blank, Placeholder} =>
           brief.value[f] = asked.value[f] /\ brief.origin[f] = asked.origin[f]
      /\ f \in job[j].actual.model =>
           is_unset(brief.value[f]) \/ (f = "caption" /\ asked.rewrite)

\* Another take: generating from the draft a planned render left, with nothing
\* edited, renders the same words and does not plan again, unless the planner
\* gave no words at all.
AnotherTake ==
  \A j \in Jobs : job[j].merged = Revision /\ HasWords(Draft.value) =>
    LET again == Intent(Draft, "generate", Draft.mode) IN
    ~Planned(again) /\ brief_without_planning(again).value = job[j].brief.value

\* An origin tells who wrote the value.
Honest(plan) ==
  \A f \in Fields :
    /\ plan.origin[f] = "user" => plan.value[f] = "mine"
    /\ plan.origin[f] = "planner" => plan.value[f] = "drafted"
    /\ plan.origin[f] = "preset" => plan.value[f] = "curated"
\* Writes that name their revision keep the origins true, through any sequence of
\* edits, presets and merges.
OriginsStayTrue == [][Honest(Draft) /\ last'.guarded => Honest(Draft)']_vars

-----------------------------------------------------------------------------
(* What the documents say, and TLC refutes *)

\* presets.py: applying one "only touches fields the user has not set themselves;
\* it never changes lyrics"; without expected_revision the plan may change between
\* the read of preset_on_project and its write.
PresetKeepsUser == [][drafts' # drafts /\ last'.kind = "preset" => PresetKeeps(Draft, Draft')]_vars

\* SPEC.md 16.3: application defaults are "never an explicit lock"; a field left
\* out of a write comes back as a default that counts as the user's.
DefaultsNeverLock == Draft.origin["duration_sec"] = "user" => Draft.value["duration_sec"] # "120"

\* SPEC.md 16.3: "with user lyrics or a user caption it calls format_sample".
CaptionIsPlannedAround ==
  \A j \in Jobs : job[j].pc # "none" /\ Planned(Frozen(j)) /\ Frozen(j).origin["caption"] = "user"
                    /\ Frozen(j).value["caption"] # Blank => format_sample(Frozen(j))
=============================================================================
