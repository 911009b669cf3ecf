--------------------------- MODULE PlanDraftProofs ---------------------------
(***************************************************************************)
(* What PlanDraft promises, for any ideas, planner answers, jobs, ways of  *)
(* writing and number of writes.                                           *)
(***************************************************************************)
EXTENDS PlanDraft, TLAPS

\* What a job froze is a plan with the request's action and mode.
Intents == [action: Actions, query: Ideas \cup {Blank}, value: [Fields -> Values],
            origin: [Fields -> Origins], instrumental: BOOLEAN, rewrite: BOOLEAN, mode: Modes]

-----------------------------------------------------------------------------
(* Types of the operators *)

\* A default plan, and one from before the contract, are plans.
LEMMA DefaultTyped ==
  ASSUME NEW idea \in Ideas \cup {Blank}, NEW words \in {Blank, "mine"}
  PROVE  /\ default_plan(idea) \in Plan /\ default_plan(idea).brief = 0
         /\ NormalizedPlan(idea, [DefaultValue EXCEPT !["caption"] = words]) \in Plan
         /\ NormalizedPlan(idea, [DefaultValue EXCEPT !["caption"] = words]).brief = 0
<1> DEFINE value == [DefaultValue EXCEPT !["caption"] = words]
<1>1. DefaultValue \in [Fields -> Values] /\ value \in [Fields -> Values]
  BY DEF DefaultValue, Fields, Texts, Values, Blank
<1>2. AllOf("default") \in [Fields -> Origins] /\ AllOf("unknown") \in [Fields -> Origins]
  BY DEF AllOf, Origins
<1>3. legacy_mode(idea, value) \in Modes
  BY DEF legacy_mode, Modes
<1>4. default_plan(idea) \in Plan /\ default_plan(idea).brief = 0
  BY <1>1, <1>2 DEF default_plan, Plan, Modes
<1> HIDE DEF value
<1>5. NormalizedPlan(idea, value) \in Plan /\ NormalizedPlan(idea, value).brief = 0
  BY <1>1, <1>2, <1>3, <1>4 DEF NormalizedPlan, default_plan, Plan
<1> QED BY <1>4, <1>5 DEF value

\* An edited plan is a plan; its origins and its brief are those that were read.
LEMMA EditTyped ==
  ASSUME NEW plan \in Plan, NEW edit \in Edits(plan)
  PROVE  edit \in Plan /\ edit.origin = plan.origin /\ edit.brief = plan.brief
<1>1. Blank \in Values /\ "mine" \in Values /\ "from_idea" \in Modes
  BY DEF Values, Blank, Modes
<1>2. CASE \E f \in Fields, v \in {Blank, "mine"} : edit = [plan EXCEPT !.value[f] = v]
  BY <1>1, <1>2 DEF Plan
<1>3. CASE \E idea \in Ideas : edit = [plan EXCEPT !.query = idea]
  BY <1>3 DEF Plan
<1>4. CASE edit = [plan EXCEPT !.mode = "from_idea"]
  BY <1>1, <1>4 DEF Plan
<1>5. CASE edit = [plan EXCEPT !.rewrite = ~@]
  BY <1>5 DEF Plan
<1>6. CASE edit = [plan EXCEPT !.instrumental = ~@]
  BY <1>6 DEF Plan
<1> QED BY <1>2, <1>3, <1>4, <1>5, <1>6 DEF Edits

\* The mode of a written plan is a mode.
LEMMA ModeTyped ==
  ASSUME NEW current \in Plan, NEW sent, "mode" \in DOMAIN sent => sent.mode \in Modes
  PROVE  ModeOnWrite(current, sent) \in Modes
<1> DEFINE claim == IF "mode" \in DOMAIN sent THEN sent.mode ELSE current.mode
<1>1. claim \in Modes /\ current.mode \in Modes
  BY DEF Plan
<1> QED BY <1>1 DEF ModeOnWrite, Modes

\* A whole plan that is written is a plan, and keeps the brief of the draft.
LEMMA WholeTyped ==
  ASSUME NEW current \in Plan, NEW sent \in Plan
  PROVE  /\ apply_write_semantics(current, sent) \in Plan
         /\ apply_write_semantics(current, sent).brief = current.brief
<1>1. \A f \in Fields : Sent(sent, f) = sent.value[f] /\ Sent(sent, f) \in Values
  BY DEF Sent, Plan
<1>2. \A f \in Fields : OriginOnWrite(current, sent, f) \in Origins
  <2> SUFFICES ASSUME NEW f \in Fields PROVE OriginOnWrite(current, sent, f) \in Origins
    OBVIOUS
  <2> DEFINE claim == IF "origin" \in DOMAIN sent THEN sent.origin[f] ELSE current.origin[f]
  <2>1. claim \in Origins /\ current.origin[f] \in Origins
    BY DEF Plan
  <2>2. "default" \in Origins /\ "user" \in Origins
    BY DEF Origins
  <2> QED BY <2>1, <2>2 DEF OriginOnWrite
<1>3. ModeOnWrite(current, sent) \in Modes
  BY ModeTyped DEF Plan
<1> QED BY <1>1, <1>2, <1>3 DEF apply_write_semantics, Plan

\* So is a plan of which some fields were sent.
LEMMA PartTyped ==
  ASSUME NEW current \in Plan, NEW read \in Plan, NEW plan \in Plan
  PROVE  /\ apply_write_semantics(current, Part(read, plan)) \in Plan
         /\ apply_write_semantics(current, Part(read, plan)).brief = current.brief
<1> DEFINE sent == Part(read, plan)
<1>0. /\ "origin" \notin DOMAIN sent /\ "mode" \notin DOMAIN sent
      /\ sent.query = plan.query /\ sent.instrumental = plan.instrumental
      /\ sent.rewrite = plan.rewrite /\ sent.preset = plan.preset
      /\ sent.value = [f \in {g \in Fields : plan.value[g] # read.value[g]} |-> plan.value[f]]
  BY DEF Part
<1>1. \A f \in Fields : Sent(sent, f) \in Values
  <2>1. \A f \in Fields : DefaultValue[f] \in Values /\ plan.value[f] \in Values
    BY DEF DefaultValue, Values, Blank, Plan
  <2> HIDE DEF sent
  <2> QED BY <1>0, <2>1 DEF Sent
<1> HIDE DEF sent
<1>2. \A f \in Fields : OriginOnWrite(current, sent, f) \in Origins
  <2>1. \A f \in Fields : current.origin[f] \in Origins
    BY DEF Plan
  <2> QED BY <1>0, <2>1 DEF OriginOnWrite, Origins
<1>3. ModeOnWrite(current, sent) \in Modes
  BY <1>0, ModeTyped
<1>4. apply_write_semantics(current, sent) \in Plan /\ apply_write_semantics(current, sent).brief = current.brief
  BY <1>0, <1>1, <1>2, <1>3 DEF apply_write_semantics, Plan
<1> QED BY <1>4 DEF sent

\* A plan a preset was applied to is a plan.
LEMMA PresetTyped ==
  ASSUME NEW plan \in Plan, NEW instrumental \in BOOLEAN
  PROVE  apply_preset(plan, instrumental) \in Plan
<1> DEFINE value == [f \in Fields |-> IF Proposed(plan, f) THEN "curated" ELSE plan.value[f]]
           origin == [f \in Fields |-> IF Proposed(plan, f) THEN "preset" ELSE plan.origin[f]]
<1>1. value \in [Fields -> Values] /\ origin \in [Fields -> Origins]
  BY DEF Plan, Values, Origins
<1>2. apply_preset(plan, instrumental) =
        [plan EXCEPT !.value = value, !.origin = origin,
                     !.instrumental = IF instrumental /\ Singable(plan) THEN @ ELSE instrumental,
                     !.preset = TRUE]
  BY DEF apply_preset
<1> HIDE DEF value, origin
<1>3. (IF instrumental /\ Singable(plan) THEN plan.instrumental ELSE instrumental) \in BOOLEAN
  BY DEF Plan
<1> QED BY <1>1, <1>2, <1>3 DEF Plan

\* A draft a planned brief was merged into is a plan that names the job.
LEMMA PatchTyped ==
  ASSUME NEW plan \in Plan, NEW brief \in Brief, NEW j \in Nat
  PROVE  Patched(plan, brief, j) \in Plan /\ Patched(plan, brief, j).brief = j
<1> DEFINE value == [f \in Fields |-> IF f \in Filled(brief) THEN brief.value[f] ELSE plan.value[f]]
           origin == [f \in Fields |-> IF f \in Filled(brief) THEN brief.origin[f] ELSE plan.origin[f]]
<1>1. value \in [Fields -> Values] /\ origin \in [Fields -> Origins]
  BY DEF Plan, Brief
<1>2. Patched(plan, brief, j) =
        [plan EXCEPT !.value = value, !.origin = origin, !.mode = "from_brief", !.brief = j]
  BY DEF Patched
<1> HIDE DEF value, origin
<1> QED BY <1>1, <1>2 DEF Plan, Modes

\* What a job freezes of a plan.
LEMMA IntentTyped ==
  ASSUME NEW plan \in Plan, NEW action \in Actions, NEW mode \in Modes
  PROVE  /\ Intent(plan, action, mode) \in Intents
         /\ Intent(plan, action, mode).value = plan.value
         /\ Intent(plan, action, mode).origin = plan.origin
         /\ Intent(plan, action, mode).rewrite = plan.rewrite
         /\ Intent(plan, action, mode).instrumental = plan.instrumental
<1>1. EffectiveMode(plan, mode) \in Modes
  BY DEF EffectiveMode, Modes
<1>2. "from_brief" \in Modes
  BY DEF Modes
<1> QED BY <1>1, <1>2 DEF Intent, Intents, Plan

\* An instrumental without words says so; no other value changes.
LEMMA SungTyped ==
  ASSUME NEW value \in [Fields -> Values], NEW instrumental
  PROVE  /\ Sung(value, instrumental) \in [Fields -> Values]
         /\ \A f \in Fields : Sung(value, instrumental)[f] =
              IF f = "lyrics" /\ instrumental /\ value[f] = Blank THEN Placeholder ELSE value[f]
<1>1. Placeholder \in Values /\ "lyrics" \in Fields
  BY DEF Values, Fields, Texts
<1> QED BY <1>1 DEF Sung, is_unset

\* A resolution is a brief; it keeps what the user or a preset set, takes from the
\* planner only "drafted" values, and says so.
LEMMA ResolutionFacts ==
  ASSUME NEW intent \in Intents, NEW brief \in Resolutions(intent)
  PROVE  /\ brief \in Brief /\ brief.rewrite = intent.rewrite /\ brief.instrumental = intent.instrumental
         /\ brief.planned = Planned(intent)
         /\ \A f \in Fields :
              /\ intent.origin[f] \in {"user", "preset"} /\ intent.value[f] \notin {Blank, Placeholder}
                   => brief.value[f] = intent.value[f] /\ brief.origin[f] = intent.origin[f]
              /\ brief.origin[f] = "planner" =>
                   brief.value[f] = "drafted" \/ (intent.origin[f] = "planner" /\ intent.value[f] # "drafted")
<1>0. Planned(intent) \in BOOLEAN /\ intent.value \in [Fields -> Values] /\ intent.origin \in [Fields -> Origins]
  BY DEF Planned, Intents
<1>1. CASE ~Planned(intent)
  <2>1. brief = Record(intent, intent.value, intent.origin, FALSE)
    BY <1>1 DEF Resolutions, brief_without_planning
  <2>2. /\ brief \in Brief /\ brief.origin = intent.origin /\ brief.planned = FALSE
        /\ brief.rewrite = intent.rewrite /\ brief.instrumental = intent.instrumental
        /\ brief.value = Sung(intent.value, intent.instrumental)
    BY <1>0, <2>1, SungTyped DEF Record, Brief, Intents
  <2>3. brief.planned = Planned(intent)
    BY <1>0, <1>1, <2>2
  <2>4. \A f \in Fields : \/ brief.value[f] = intent.value[f]
                          \/ intent.value[f] = Blank /\ brief.value[f] = Placeholder
    BY <1>0, <2>2, SungTyped
  <2> QED BY <2>2, <2>3, <2>4 DEF Blank
<1>2. CASE Planned(intent)
  <2>1. PICK sample \in Samples : brief = apply_planner(intent, sample)
    BY <1>2 DEF Resolutions
  <2> DEFINE voiceless(f) == f = "lyrics" /\ intent.instrumental
             fills(f) == ~Kept(intent, f) /\ ~voiceless(f) /\ ~is_unset(sample[f])
             value == [f \in Fields |-> CASE Kept(intent, f) -> intent.value[f]
                                          [] ~Kept(intent, f) /\ voiceless(f) -> Placeholder
                                          [] fills(f) -> sample[f]
                                          [] OTHER -> intent.value[f]]
             origin == [f \in Fields |-> CASE ~Kept(intent, f) /\ voiceless(f) -> "default"
                                           [] fills(f) -> "planner"
                                           [] OTHER -> intent.origin[f]]
  <2>2. brief = Record(intent, value, origin, TRUE)
    BY <2>1 DEF apply_planner
  <2>3. sample \in [Fields -> {Blank, "drafted"}]
    BY SampleAssumption
  <2>4. \A f \in Fields : /\ value[f] \in Values /\ origin[f] \in Origins
                          /\ origin[f] = "planner" => value[f] = "drafted"
                                \/ (intent.origin[f] = "planner" /\ intent.value[f] # "drafted")
    <3> SUFFICES ASSUME NEW f \in Fields
                 PROVE  /\ value[f] \in Values /\ origin[f] \in Origins
                        /\ origin[f] = "planner" => value[f] = "drafted"
                              \/ (intent.origin[f] = "planner" /\ intent.value[f] # "drafted")
      OBVIOUS
    <3>1. \/ value[f] = intent.value[f] /\ origin[f] = intent.origin[f]
          \/ value[f] = Placeholder /\ origin[f] = "default"
          \/ value[f] = sample[f] /\ origin[f] = "planner" /\ ~is_unset(sample[f])
      OBVIOUS
    <3>2. /\ intent.value[f] \in Values /\ intent.origin[f] \in Origins /\ Placeholder \in Values
          /\ "drafted" \in Values /\ "default" \in Origins /\ "planner" \in Origins
      BY <1>0 DEF Values, Origins
    <3>3. ~is_unset(sample[f]) => sample[f] = "drafted"
      BY <2>3 DEF is_unset
    <3> QED BY <3>1, <3>2, <3>3
  <2>5. value \in [Fields -> Values] /\ origin \in [Fields -> Origins]
    BY <2>4
  <2>6. ASSUME NEW f \in Fields, intent.origin[f] \in {"user", "preset"},
               intent.value[f] \notin {Blank, Placeholder}
        PROVE  value[f] = intent.value[f] /\ origin[f] = intent.origin[f]
    <3>1. Kept(intent, f)
      BY <2>6 DEF Kept, UserText, is_unset
    <3> QED BY <3>1
  <2> HIDE DEF value, origin
  <2>7. /\ brief \in Brief /\ brief.origin = origin /\ brief.planned = TRUE
        /\ brief.rewrite = intent.rewrite /\ brief.instrumental = intent.instrumental
        /\ brief.value = Sung(value, intent.instrumental)
    BY <2>2, <2>5, SungTyped DEF Record, Brief, Intents
  <2>8. brief.planned = Planned(intent)
    BY <1>0, <1>2, <2>7
  <2>9. \A f \in Fields : brief.value[f] = value[f] \/ (value[f] = Blank /\ brief.value[f] = Placeholder)
    BY <2>5, <2>7, SungTyped
  <2> QED BY <2>4, <2>6, <2>7, <2>8, <2>9 DEF Blank, Placeholder
<1> QED BY <1>1, <1>2

-----------------------------------------------------------------------------
(* The invariant *)

\* What is known of a job: the draft it was submitted from, that its brief is a
\* resolution of what it froze, and what its merge wrote.
RenderedFrom(j) ==
  /\ job[j].brief \in Resolutions(Frozen(j))
  /\ \E cot \in {Blank, "chosen"} : job[j].actual = Actual(job[j].brief, job[j].action, cot)
MergedInto(j) ==
  /\ job[j].merged \in Past /\ job[j].brief.planned
  /\ drafts[job[j].merged] = Patched(drafts[job[j].base], job[j].brief, j)
JobInv(j) ==
  /\ job[j].pc # "none" => job[j].base \in Past
  /\ job[j].pc \in {"rendered", "done"} => RenderedFrom(j)
  /\ job[j].merged > 0 => job[j].pc = "done" /\ MergedInto(j)
DraftInv == TypeOK /\ \A j \in Jobs : JobInv(j)

\* A write adds a draft and changes none.
LEMMA Appended ==
  ASSUME TypeOK, NEW plan \in Plan, plan.brief \in Jobs \cup {0},
         Revision <= MaxWrites, drafts' = Append(drafts, plan)
  PROVE  /\ drafts' \in Seq(Plan) /\ Len(drafts') = Revision + 1 /\ Len(drafts') \in 1 .. MaxWrites + 1
         /\ Draft' = plan /\ Past' = Past \cup {Revision + 1} /\ Revision + 1 \notin Past
         /\ \A r \in Past : drafts'[r] = drafts[r]
         /\ \A r \in Past' : drafts'[r].brief \in Jobs \cup {0}
<1>1. drafts \in Seq(Plan) /\ Len(drafts) \in Nat /\ Past = 1 .. Len(drafts) /\ MaxWrites \in Nat
  BY DraftAssumption DEF TypeOK, Past
<1>2. /\ drafts' \in Seq(Plan) /\ Len(drafts') = Len(drafts) + 1
      /\ \A r \in 1 .. Len(drafts) : drafts'[r] = drafts[r]
      /\ drafts'[Len(drafts) + 1] = plan /\ DOMAIN drafts' = 1 .. Len(drafts) + 1
  BY <1>1
<1> QED BY <1>1, <1>2 DEF TypeOK, Draft, Past, Revision

\* Drafts are plans.
LEMMA DraftTyped ==
  ASSUME TypeOK
  PROVE  /\ Draft \in Plan /\ Revision \in Past /\ Revision \in Nat /\ Past = 1 .. Revision
         /\ \A r \in Past : drafts[r] \in Plan
         /\ Draft.brief \in Jobs \cup {0}
<1>1. drafts \in Seq(Plan) /\ Len(drafts) \in Nat /\ Len(drafts) >= 1
  BY DraftAssumption DEF TypeOK
<1>2. /\ Past = 1 .. Revision /\ Revision \in Past /\ Revision \in Nat
      /\ \A r \in Past : drafts[r] \in Plan
  BY <1>1 DEF Past, Revision
<1> QED BY <1>2 DEF TypeOK, Draft, Revision

\* What is known of a job stays known while it stays where it is.
LEMMA JobKept ==
  ASSUME NEW j \in Jobs, JobInv(j), job'[j] = job[j], job[j].merged > 0 => job[j].pc = "done",
         \A r \in Past : r \in Past' /\ drafts'[r] = drafts[r]
  PROVE  JobInv(j)'
<1>1. job[j].pc # "none" => job[j].base \in Past /\ drafts'[job[j].base] = drafts[job[j].base]
  BY DEF JobInv
<1>2. ASSUME job[j].pc \in {"rendered", "done"} PROVE RenderedFrom(j)'
  <2>1. Frozen(j)' = Frozen(j)
    BY <1>1, <1>2 DEF Frozen
  <2> QED BY <1>2, <2>1 DEF JobInv, RenderedFrom
<1>3. ASSUME job[j].merged > 0 PROVE MergedInto(j)'
  BY <1>1, <1>3 DEF JobInv, MergedInto
<1> QED BY <1>1, <1>2, <1>3 DEF JobInv

-----------------------------------------------------------------------------
(* Initial states, and one lemma per action *)

LEMMA InitDraft == Init => DraftInv
<1> SUFFICES ASSUME Init PROVE DraftInv
  OBVIOUS
<1>1. PICK idea \in Ideas, words \in {Blank, "mine"} :
        drafts \in {<<default_plan(idea)>>, <<default_plan(Blank)>>,
                   <<NormalizedPlan(idea, [DefaultValue EXCEPT !["caption"] = words])>>}
  BY DEF Init
<1>2. PICK plan \in Plan : drafts = <<plan>> /\ plan.brief = 0
  BY <1>1, DefaultTyped
<1>3. drafts \in Seq(Plan) /\ Len(drafts) = 1 /\ DOMAIN drafts = {1} /\ drafts[1] = plan
  BY <1>2
<1>4. Unasked \in [value: [Fields -> Values], model: SUBSET Fields] /\ NoBrief \in Brief
  BY DEF Unasked, DefaultValue, NoBrief, Brief, AllOf, Modes, Values, Blank, Origins, Fields, Texts
<1>5. job \in [Jobs -> JobRow]
  BY <1>4, DraftAssumption DEF Init, JobRow, Modes
<1>6. last \in Write
  BY DEF Init, Write
<1>7. \A j \in Jobs : job[j].base = 0 /\ job[j].merged = 0 /\ job[j].pc = "none"
  BY DEF Init
<1>8. TypeOK
  BY <1>2, <1>3, <1>5, <1>6, <1>7, DraftAssumption DEF TypeOK, Revision, Past
<1> QED BY <1>7, <1>8 DEF DraftInv, JobInv

\* A client's write: a plan that keeps the brief of the draft.
LEMMA WriteKeeps ==
  ASSUME DraftInv, NEW plan \in Plan, plan.brief = Draft.brief,
         NEW kind \in {"save", "preset"}, NEW base \in Past, NEW way \in Ways,
         Written(plan, kind, base, way), UNCHANGED job
  PROVE  DraftInv'
<1>0. TypeOK
  BY DEF DraftInv
<1>1. plan.brief \in Jobs \cup {0} /\ Revision <= MaxWrites /\ drafts' = Append(drafts, plan)
  BY <1>0, DraftTyped DEF Written
<1>2. /\ drafts' \in Seq(Plan) /\ Len(drafts') = Revision + 1 /\ Len(drafts') \in 1 .. MaxWrites + 1
      /\ Past' = Past \cup {Revision + 1}
      /\ \A r \in Past : drafts'[r] = drafts[r]
      /\ \A r \in Past' : drafts'[r].brief \in Jobs \cup {0}
  BY <1>0, <1>1, Appended
<1>3. last' \in Write
  BY DEF Written, Write
<1>4. \A j \in Jobs : job[j].base \in 0 .. Revision + 1 /\ job[j].merged \in 0 .. Revision + 1
  BY <1>0, DraftTyped DEF TypeOK
<1>5. TypeOK'
  BY <1>0, <1>2, <1>3, <1>4 DEF TypeOK, Revision
<1>6. \A j \in Jobs : JobInv(j)'
  BY <1>2, JobKept DEF DraftInv, JobInv
<1> QED BY <1>5, <1>6 DEF DraftInv

LEMMA SaveKeeps ==
  ASSUME DraftInv, NEW base \in Past, NEW way \in Ways, Save(base, way)
  PROVE  DraftInv'
<1>1. PICK edit \in Edits(drafts[base]) :
        Written(apply_write_semantics(Draft, IF way = "partial" THEN Part(drafts[base], edit) ELSE edit),
                "save", base, way)
  BY DEF Save
<1>2. TypeOK /\ Draft \in Plan /\ drafts[base] \in Plan
  BY DraftTyped DEF DraftInv
<1>3. edit \in Plan
  BY <1>1, <1>2, EditTyped
<1> DEFINE plan == apply_write_semantics(Draft, IF way = "partial" THEN Part(drafts[base], edit) ELSE edit)
<1>4. plan \in Plan /\ plan.brief = Draft.brief
  BY <1>2, <1>3, WholeTyped, PartTyped
<1>5. UNCHANGED job /\ Written(plan, "save", base, way)
  BY <1>1 DEF Save
<1> HIDE DEF plan
<1> QED BY <1>4, <1>5, WriteKeeps

LEMMA PresetKeepsInv ==
  ASSUME DraftInv, NEW base \in Past, NEW way \in Ways, ApplyPreset(base, way)
  PROVE  DraftInv'
<1>1. PICK instrumental \in BOOLEAN :
        Written(apply_write_semantics(Draft, apply_preset(drafts[base], instrumental)), "preset", base, way)
  BY DEF ApplyPreset
<1>2. TypeOK /\ Draft \in Plan /\ drafts[base] \in Plan
  BY DraftTyped DEF DraftInv
<1>3. apply_preset(drafts[base], instrumental) \in Plan
  BY <1>2, PresetTyped
<1> DEFINE plan == apply_write_semantics(Draft, apply_preset(drafts[base], instrumental))
<1>4. plan \in Plan /\ plan.brief = Draft.brief
  BY <1>2, <1>3, WholeTyped
<1>5. UNCHANGED job /\ Written(plan, "preset", base, way)
  BY <1>1 DEF ApplyPreset
<1> HIDE DEF plan
<1> QED BY <1>4, <1>5, WriteKeeps

LEMMA SubmitKeeps ==
  ASSUME DraftInv, NEW j \in Jobs, NEW action \in Actions, NEW mode \in Modes, Submit(j, action, mode)
  PROVE  DraftInv'
<1>1. TypeOK /\ Revision \in Past /\ Revision \in Nat /\ job[j].pc = "none" /\ drafts' = drafts /\ last' = last
  BY DraftTyped DEF DraftInv, Submit
<1>2. job' = [job EXCEPT ![j].pc = "queued", ![j].base = Revision, ![j].action = action, ![j].mode = mode]
  BY DEF Submit
<1>3. job' \in [Jobs -> JobRow]
  <2>1. job \in [Jobs -> JobRow] /\ job[j] \in JobRow
    BY <1>1 DEF TypeOK
  <2>2. [job[j] EXCEPT !.pc = "queued", !.base = Revision, !.action = action, !.mode = mode] \in JobRow
    BY <1>1, <2>1 DEF JobRow
  <2> QED BY <1>2, <2>1, <2>2
<1>4. job[j].merged = 0
  BY <1>1 DEF DraftInv, JobInv, TypeOK, JobRow
<1>5. \A i \in Jobs : job'[i].base \in 0 .. Revision /\ job'[i].merged \in 0 .. Revision
  BY <1>1, <1>2 DEF TypeOK, JobRow
<1>6. TypeOK'
  BY <1>1, <1>3, <1>5 DEF TypeOK, Revision, Past
<1>7. ASSUME NEW i \in Jobs PROVE JobInv(i)'
  <2>1. CASE i = j
    BY <1>1, <1>2, <1>4, <2>1 DEF JobInv, TypeOK, JobRow, Past
  <2>2. CASE i # j
    <3>1. job'[i] = job[i] /\ JobInv(i)
      BY <1>1, <1>2, <2>2 DEF TypeOK, DraftInv
    <3> QED BY <1>1, <3>1, JobKept DEF JobInv, Past
  <2> QED BY <2>1, <2>2
<1> QED BY <1>6, <1>7 DEF DraftInv

\* A resolution and what is rendered of it have the types of a job.
LEMMA ActualTyped ==
  ASSUME NEW brief \in Brief, NEW action, NEW cot \in {Blank, "chosen"}
  PROVE  Actual(brief, action, cot) \in [value: [Fields -> Values], model: SUBSET Fields]
<1>1. Blank \in Values /\ "chosen" \in Values
  BY DEF Values, Blank
<1> QED BY <1>1 DEF Actual, Brief

LEMMA RunKeeps ==
  ASSUME DraftInv, NEW j \in Jobs, Run(j)
  PROVE  DraftInv'
<1>1. /\ TypeOK /\ job[j].pc = "queued" /\ drafts' = drafts /\ last' = last
      /\ job \in [Jobs -> JobRow] /\ job[j] \in JobRow /\ JobInv(j)
  BY DEF DraftInv, Run, TypeOK
<1>2. PICK brief \in Resolutions(Frozen(j)), cot \in {Blank, "chosen"} :
        job' = [job EXCEPT ![j].pc = "rendered", ![j].brief = brief,
                           ![j].actual = Actual(brief, job[j].action, cot)]
  BY DEF Run
<1>3. job[j].base \in Past /\ job[j].merged = 0
  BY <1>1 DEF JobInv, JobRow
<1>4. Frozen(j) \in Intents
  BY <1>1, <1>3, DraftTyped, IntentTyped DEF Frozen, JobRow
<1>5. brief \in Brief /\ Actual(brief, job[j].action, cot) \in [value: [Fields -> Values], model: SUBSET Fields]
  BY <1>4, ResolutionFacts, ActualTyped
<1> DEFINE row == [job[j] EXCEPT !.pc = "rendered", !.brief = brief, !.actual = Actual(brief, job[j].action, cot)]
<1>6. row \in JobRow /\ job' = [job EXCEPT ![j] = row]
  BY <1>1, <1>2, <1>5 DEF JobRow
<1>7. /\ row.pc = "rendered" /\ row.base = job[j].base /\ row.merged = 0 /\ row.brief = brief
      /\ row.actual = Actual(brief, row.action, cot) /\ row.action = job[j].action /\ row.mode = job[j].mode
  BY <1>1, <1>3 DEF JobRow
<1> HIDE DEF row
<1>8. job' \in [Jobs -> JobRow] /\ job'[j] = row /\ \A i \in Jobs \ {j} : job'[i] = job[i]
  BY <1>1, <1>6
<1>9. TypeOK'
  BY <1>1, <1>7, <1>8, DraftTyped DEF TypeOK, Revision, Past
<1>10. ASSUME NEW i \in Jobs PROVE JobInv(i)'
  <2>1. CASE i = j
    <3>1. Frozen(j)' = Frozen(j)
      BY <1>1, <1>7, <1>8 DEF Frozen
    <3>2. RenderedFrom(j)'
      BY <1>7, <1>8, <3>1 DEF RenderedFrom
    <3> QED BY <1>1, <1>3, <1>7, <1>8, <2>1, <3>2 DEF JobInv, Past
  <2>2. CASE i # j
    <3>1. job'[i] = job[i] /\ JobInv(i)
      BY <1>8, <2>2 DEF DraftInv
    <3> QED BY <1>1, <3>1, JobKept DEF JobInv, Past
  <2> QED BY <2>1, <2>2
<1> QED BY <1>9, <1>10 DEF DraftInv

\* A merge writes what MergedInto says, from the very draft the job was submitted from.
LEMMA CommitKeeps ==
  ASSUME DraftInv, NEW j \in Jobs, Commit(j)
  PROVE  DraftInv'
<1>1. /\ TypeOK /\ job[j].pc = "rendered" /\ job \in [Jobs -> JobRow] /\ job[j] \in JobRow /\ JobInv(j)
      /\ j \in Nat /\ j \in Jobs \cup {0}
  BY DraftAssumption DEF DraftInv, Commit, TypeOK
<1>2. /\ job[j].base \in Past /\ job[j].merged = 0 /\ RenderedFrom(j) /\ job[j].brief \in Brief
      /\ Draft \in Plan /\ Revision \in Nat /\ Revision \in Past
  BY <1>1, DraftTyped DEF JobInv, JobRow
<1>3. CASE job' = [job EXCEPT ![j].pc = "done"] /\ UNCHANGED <<drafts, last>>
  <2> DEFINE row == [job[j] EXCEPT !.pc = "done"]
  <2>1. /\ row \in JobRow /\ job' = [job EXCEPT ![j] = row] /\ row.pc = "done" /\ row.base = job[j].base
        /\ row.merged = 0 /\ row.brief = job[j].brief /\ row.actual = job[j].actual
        /\ row.action = job[j].action /\ row.mode = job[j].mode
    BY <1>1, <1>2, <1>3 DEF JobRow
  <2> HIDE DEF row
  <2>2. job' \in [Jobs -> JobRow] /\ job'[j] = row /\ \A i \in Jobs \ {j} : job'[i] = job[i]
    BY <1>1, <2>1
  <2>3. TypeOK'
    BY <1>1, <1>2, <1>3, <2>1, <2>2 DEF TypeOK, Revision, Past
  <2>4. RenderedFrom(j)'
    <3>1. Frozen(j)' = Frozen(j)
      BY <1>3, <2>1, <2>2 DEF Frozen
    <3> QED BY <1>2, <2>1, <2>2, <3>1 DEF RenderedFrom
  <2>5. ASSUME NEW i \in Jobs PROVE JobInv(i)'
    <3>1. CASE i = j
      BY <1>2, <1>3, <2>1, <2>2, <2>4, <3>1 DEF JobInv, Past
    <3>2. CASE i # j
      <4>1. job'[i] = job[i] /\ JobInv(i)
        BY <2>2, <3>2 DEF DraftInv
      <4> QED BY <1>3, <4>1, JobKept DEF JobInv, Past
    <3> QED BY <3>1, <3>2
  <2> QED BY <2>3, <2>5 DEF DraftInv
<1>4. CASE /\ job[j].brief.planned /\ job[j].base = Revision
           /\ Written(Patched(Draft, job[j].brief, j), "merge", job[j].base, "guarded")
           /\ job' = [job EXCEPT ![j].pc = "done", ![j].merged = Revision + 1]
  <2> DEFINE row == [job[j] EXCEPT !.pc = "done", !.merged = Revision + 1]
             plan == Patched(Draft, job[j].brief, j)
  <2>1. /\ row \in JobRow /\ job' = [job EXCEPT ![j] = row] /\ row.pc = "done" /\ row.base = job[j].base
        /\ row.merged = Revision + 1 /\ row.brief = job[j].brief /\ row.actual = job[j].actual
        /\ row.action = job[j].action /\ row.mode = job[j].mode
    BY <1>1, <1>2, <1>4 DEF JobRow
  <2>2. plan \in Plan /\ plan.brief = j /\ drafts' = Append(drafts, plan) /\ Revision <= MaxWrites /\ last' \in Write
    BY <1>1, <1>2, <1>4, PatchTyped DEF Written, Write
  <2> HIDE DEF row, plan
  <2>3. /\ drafts' \in Seq(Plan) /\ Len(drafts') = Revision + 1 /\ Len(drafts') \in 1 .. MaxWrites + 1
        /\ Past' = Past \cup {Revision + 1} /\ Draft' = plan
        /\ \A r \in Past : drafts'[r] = drafts[r]
        /\ \A r \in Past' : drafts'[r].brief \in Jobs \cup {0}
    BY <1>1, <2>2, Appended
  <2>4. job' \in [Jobs -> JobRow] /\ job'[j] = row /\ \A i \in Jobs \ {j} : job'[i] = job[i]
    BY <1>1, <2>1
  <2>5. \A i \in Jobs : job'[i].base \in 0 .. Revision + 1 /\ job'[i].merged \in 0 .. Revision + 1
    <3>1. \A i \in Jobs : job[i].base \in 0 .. Revision /\ job[i].merged \in 0 .. Revision
      BY <1>1 DEF TypeOK
    <3> QED BY <1>2, <2>1, <2>4, <3>1
  <2>6. TypeOK'
    BY <2>2, <2>3, <2>4, <2>5 DEF TypeOK, Revision
  <2>7. Frozen(j)' = Frozen(j) /\ drafts'[job[j].base] = drafts[job[j].base]
    BY <1>2, <2>1, <2>3, <2>4 DEF Frozen
  <2>8. RenderedFrom(j)'
    BY <1>2, <2>1, <2>4, <2>7 DEF RenderedFrom
  <2>9. MergedInto(j)'
    <3>1. drafts'[Revision + 1] = plan /\ drafts[job[j].base] = Draft
      BY <1>4, <2>3 DEF Draft, Revision
    <3> QED BY <1>4, <2>1, <2>3, <2>4, <2>7, <3>1 DEF MergedInto, plan
  <2>10. ASSUME NEW i \in Jobs PROVE JobInv(i)'
    <3>1. CASE i = j
      BY <1>2, <2>1, <2>3, <2>4, <2>8, <2>9, <3>1 DEF JobInv
    <3>2. CASE i # j
      <4>1. job'[i] = job[i] /\ JobInv(i)
        BY <2>4, <3>2 DEF DraftInv
      <4> QED BY <2>3, <4>1, JobKept DEF JobInv
    <3> QED BY <3>1, <3>2
  <2> QED BY <2>6, <2>10 DEF DraftInv
<1> QED BY <1>3, <1>4 DEF Commit

\* The invariant holds in every reachable state.
LEMMA DraftInvariant == Spec => []DraftInv
<1>1. Init => DraftInv
  BY InitDraft
<1>2. DraftInv /\ [Next]_vars => DraftInv'
  <2> SUFFICES ASSUME DraftInv, [Next]_vars PROVE DraftInv'
    OBVIOUS
  <2>1. CASE \E base \in Past, way \in Ways : Save(base, way) \/ ApplyPreset(base, way)
    BY <2>1, SaveKeeps, PresetKeepsInv
  <2>2. CASE \E j \in Jobs, action \in Actions, mode \in Modes : Submit(j, action, mode)
    BY <2>2, SubmitKeeps
  <2>3. CASE \E j \in Jobs : Run(j) \/ Commit(j)
    BY <2>3, RunKeeps, CommitKeeps
  <2>4. CASE UNCHANGED vars
    <3>1. TypeOK'
      BY <2>4 DEF DraftInv, TypeOK, vars, Revision, Past
    <3>2. ASSUME NEW j \in Jobs PROVE JobInv(j)'
      BY <2>4, JobKept DEF DraftInv, JobInv, vars, Past
    <3> QED BY <3>1, <3>2 DEF DraftInv
  <2> QED BY <2>1, <2>2, <2>3, <2>4 DEF Next
<1> QED BY <1>1, <1>2, PTL DEF Spec
-----------------------------------------------------------------------------
(* The theorems *)

\* The model is credited with a value that was unset, or a caption it was to rewrite.
LEMMA ModelFacts ==
  ASSUME NEW brief, NEW action, NEW cot, NEW f \in Actual(brief, action, cot).model
  PROVE  is_unset(brief.value[f]) \/ (f = "caption" /\ brief.rewrite)
<1> DEFINE flags == Flags(brief, action)
<1>1. flags.caption => is_unset(brief.value["caption"]) \/ brief.rewrite
  BY Zenon DEF Flags
<1>2. flags.metas => is_unset(brief.value["duration_sec"])
  BY Zenon DEF Flags
<1> HIDE DEF flags
<1>3. (f = "caption" /\ flags.caption) \/ (f = "duration_sec" /\ flags.metas)
  BY DEF Actual, flags
<1> QED BY <1>1, <1>2, <1>3

\* What a user or a preset wrote, when a job was submitted, is what its brief says,
\* and the model replaces nothing that was set, save a caption whose rewriting was
\* asked for: brief.py and the flags of acestep_backend.py, for every planner.
THEOREM ExplicitWordsSurvive == Spec => []ExplicitSurvives
<1>1. DraftInv => ExplicitSurvives
  <2> SUFFICES ASSUME DraftInv, NEW j \in Jobs, job[j].pc \notin {"none", "queued"}, NEW f \in Fields
               PROVE  LET asked == drafts[job[j].base]  brief == job[j].brief IN
                      /\ asked.origin[f] \in {"user", "preset"} /\ asked.value[f] \notin {Blank, Placeholder} =>
                           brief.value[f] = asked.value[f] /\ brief.origin[f] = asked.origin[f]
                      /\ f \in job[j].actual.model =>
                           is_unset(brief.value[f]) \/ (f = "caption" /\ asked.rewrite)
    BY DEF ExplicitSurvives
  <2> DEFINE asked == drafts[job[j].base]  brief == job[j].brief
  <2>1. TypeOK /\ JobInv(j) /\ job[j] \in JobRow
    BY DEF DraftInv, TypeOK
  <2>2. RenderedFrom(j) /\ asked \in Plan /\ job[j].action \in Actions /\ job[j].mode \in Modes
    BY <2>1, DraftTyped DEF JobInv, JobRow
  <2>3. /\ Frozen(j) \in Intents /\ Frozen(j).value = asked.value /\ Frozen(j).origin = asked.origin
        /\ Frozen(j).rewrite = asked.rewrite
    BY <2>2, IntentTyped DEF Frozen
  <2>4. brief \in Resolutions(Frozen(j))
    BY <2>2 DEF RenderedFrom
  <2>5. /\ brief.rewrite = asked.rewrite
        /\ asked.origin[f] \in {"user", "preset"} /\ asked.value[f] \notin {Blank, Placeholder} =>
             brief.value[f] = asked.value[f] /\ brief.origin[f] = asked.origin[f]
    BY <2>3, <2>4, ResolutionFacts
  <2>6. ASSUME f \in job[j].actual.model
        PROVE  is_unset(brief.value[f]) \/ (f = "caption" /\ brief.rewrite)
    <3>1. PICK cot \in {Blank, "chosen"} : job[j].actual = Actual(brief, job[j].action, cot)
      BY <2>2 DEF RenderedFrom
    <3>2. f \in Actual(brief, job[j].action, cot).model
      BY <2>6, <3>1
    <3> QED BY <3>2, ModelFacts
  <2> QED BY <2>5, <2>6
<1> QED BY <1>1, DraftInvariant, PTL

\* What a guarded write wrote it made of the draft it replaced.
LEMMA GuardedWrites ==
  ASSUME DraftInv, Next, drafts' # drafts, last'.guarded
  PROVE  /\ ~last'.stale
         /\ \/ last'.kind = "save" /\ \E plan \in Edits(Draft) : Draft' = apply_write_semantics(Draft, plan)
            \/ /\ last'.kind = "preset"
               /\ \E instrumental \in BOOLEAN :
                    Draft' = apply_write_semantics(Draft, apply_preset(Draft, instrumental))
            \/ /\ last'.kind = "merge"
               /\ \E j \in Jobs : /\ job[j].base = Revision /\ job[j].pc = "rendered"
                                  /\ Draft' = Patched(Draft, job[j].brief, j)
<1>0. TypeOK /\ Draft \in Plan /\ drafts \in Seq(Plan)
  BY DraftTyped DEF DraftInv, TypeOK
<1>1. ASSUME NEW plan, NEW kind, NEW base, NEW way, Written(plan, kind, base, way)
      PROVE  /\ last'.kind = kind /\ way = "guarded" /\ last'.stale = (base # Revision) /\ Draft' = plan
    <2>1. drafts' = Append(drafts, plan)
      BY <1>1 DEF Written
    <2>2. drafts'[Len(drafts')] = plan
      BY <1>0, <2>1
    <2> QED BY <1>1, <2>2 DEF Written, Draft
<1>2. ASSUME NEW base \in Past, NEW way \in Ways, Save(base, way)
      PROVE  /\ ~last'.stale /\ last'.kind = "save"
             /\ \E plan \in Edits(Draft) : Draft' = apply_write_semantics(Draft, plan)
  <2>1. PICK plan \in Edits(drafts[base]) :
          Written(apply_write_semantics(Draft, IF way = "partial" THEN Part(drafts[base], plan) ELSE plan),
                  "save", base, way)
    BY <1>2 DEF Save
  <2>2. /\ way = "guarded" /\ last'.kind = "save" /\ last'.stale = (base # Revision)
        /\ Draft' = apply_write_semantics(Draft, IF way = "partial" THEN Part(drafts[base], plan) ELSE plan)
    BY <1>1, <2>1
  <2>3. base = Revision /\ drafts[base] = Draft
    BY <1>2, <2>2 DEF Save, Current, Draft, Revision
  <2> QED BY <2>1, <2>2, <2>3
<1>3. ASSUME NEW base \in Past, NEW way \in Ways, ApplyPreset(base, way)
      PROVE  /\ ~last'.stale /\ last'.kind = "preset"
             /\ \E instrumental \in BOOLEAN :
                  Draft' = apply_write_semantics(Draft, apply_preset(Draft, instrumental))
  <2>1. PICK instrumental \in BOOLEAN :
          Written(apply_write_semantics(Draft, apply_preset(drafts[base], instrumental)), "preset", base, way)
    BY <1>3 DEF ApplyPreset
  <2>2. /\ way = "guarded" /\ last'.kind = "preset" /\ last'.stale = (base # Revision)
        /\ Draft' = apply_write_semantics(Draft, apply_preset(drafts[base], instrumental))
    BY <1>1, <2>1
  <2>3. base = Revision /\ drafts[base] = Draft
    BY <1>3, <2>2 DEF ApplyPreset, Current, Draft, Revision
  <2> QED BY <2>2, <2>3
<1>4. ASSUME NEW j \in Jobs, Commit(j)
      PROVE  /\ ~last'.stale /\ last'.kind = "merge" /\ job[j].base = Revision /\ job[j].pc = "rendered"
             /\ Draft' = Patched(Draft, job[j].brief, j)
  <2>1. /\ job[j].pc = "rendered" /\ job[j].base = Revision
        /\ Written(Patched(Draft, job[j].brief, j), "merge", job[j].base, "guarded")
    BY <1>4 DEF Commit
  <2> QED BY <1>1, <2>1
<1>5. (\E j \in Jobs, action \in Actions, mode \in Modes : Submit(j, action, mode)) => FALSE
  BY DEF Submit
<1>6. (\E j \in Jobs : Run(j)) => FALSE
  BY DEF Run
<1> QED BY <1>2, <1>3, <1>4, <1>5, <1>6 DEF Next

\* A preset that is applied to the draft it replaces keeps what the user wrote.
LEMMA PresetFacts ==
  ASSUME NEW plan \in Plan, NEW instrumental \in BOOLEAN, NEW f \in Fields
  PROVE  LET new == apply_write_semantics(plan, apply_preset(plan, instrumental)) IN
         IF Proposed(plan, f)
         THEN new.value[f] = "curated" /\ (new.origin[f] = "preset" \/ plan.origin[f] = "preset")
         ELSE new.value[f] = plan.value[f] /\ new.origin[f] = plan.origin[f]
<1> DEFINE sent == apply_preset(plan, instrumental)
<1>1. /\ sent \in Plan
      /\ sent.value[f] = (IF Proposed(plan, f) THEN "curated" ELSE plan.value[f])
      /\ sent.origin[f] = (IF Proposed(plan, f) THEN "preset" ELSE plan.origin[f])
  <2>1. sent \in Plan
    BY PresetTyped
  <2>2. /\ sent.value = [g \in Fields |-> IF Proposed(plan, g) THEN "curated" ELSE plan.value[g]]
        /\ sent.origin = [g \in Fields |-> IF Proposed(plan, g) THEN "preset" ELSE plan.origin[g]]
    BY DEF apply_preset, Plan
  <2> HIDE DEF sent
  <2> QED BY <2>1, <2>2
<1> HIDE DEF sent
<1>2. /\ Sent(sent, f) = sent.value[f] /\ "origin" \in DOMAIN sent
      /\ OriginOnWrite(plan, sent, f) =
           IF sent.origin[f] # plan.origin[f] THEN sent.origin[f]
           ELSE IF sent.value[f] # plan.value[f]
                THEN IF is_unset(sent.value[f]) THEN "default" ELSE "user" ELSE plan.origin[f]
  BY <1>1 DEF Sent, Plan, OriginOnWrite
<1>3. /\ apply_write_semantics(plan, sent).value[f] = sent.value[f]
      /\ apply_write_semantics(plan, sent).origin[f] = OriginOnWrite(plan, sent, f)
  BY <1>2 DEF apply_write_semantics
<1> QED BY <1>1, <1>2, <1>3 DEF sent

\* A write that names its revision, and the merge of a planned brief, never undo a
\* newer text, however clients, presets and jobs interleave; nor does a preset then
\* touch what the user wrote (_update_plan, _commit_take).
THEOREM NewerWins == Spec => NewerTextWins
<1>1. ASSUME DraftInv, Next, drafts' # drafts, last'.guarded
      PROVE  ~last'.stale /\ (last'.kind = "preset" => PresetKeeps(Draft, Draft'))
  <2>1. ~last'.stale
    BY <1>1, GuardedWrites
  <2>2. ASSUME last'.kind = "preset" PROVE PresetKeeps(Draft, Draft')
    <3>1. PICK instrumental \in BOOLEAN :
            Draft' = apply_write_semantics(Draft, apply_preset(Draft, instrumental))
      BY <1>1, <2>2, GuardedWrites
    <3>2. Draft \in Plan
      BY <1>1, DraftTyped DEF DraftInv
    <3>3. \A f \in Fields : ~Proposed(Draft, f) => Draft'.value[f] = Draft.value[f]
      BY <3>1, <3>2, PresetFacts
    <3> QED BY <3>3 DEF PresetKeeps, Proposed
  <2> QED BY <2>1, <2>2
<1>2. UNCHANGED vars => drafts' = drafts
  BY DEF vars
<1>3. DraftInv /\ [Next]_vars =>
        (drafts' # drafts /\ last'.guarded => ~last'.stale /\ (last'.kind = "preset" => PresetKeeps(Draft, Draft')))
  BY <1>1, <1>2
<1> QED BY <1>3, DraftInvariant, PTL DEF Spec, NewerTextWins
\* The origins of a merge: a planned value was filled in by the planner.
LEMMA MergeHonest ==
  ASSUME NEW plan \in Plan, Honest(plan), NEW intent \in Intents, NEW brief \in Resolutions(intent),
         intent.value = plan.value, intent.origin = plan.origin, NEW j \in Nat
  PROVE  Honest(Patched(plan, brief, j))
<1> DEFINE new == Patched(plan, brief, j)
<1>1. brief \in Brief /\ "planner" \notin {"user", "preset", "default"}
  BY ResolutionFacts
<1>2. \A f \in Fields :
        IF f \in Filled(brief) THEN new.value[f] = brief.value[f] /\ new.origin[f] = brief.origin[f]
        ELSE new.value[f] = plan.value[f] /\ new.origin[f] = plan.origin[f]
  BY DEF Patched, Plan
<1>3. \A f \in Filled(brief) :
        brief.origin[f] = "default" \/ (brief.origin[f] = "planner" /\ brief.value[f] = "drafted")
  <2> SUFFICES ASSUME NEW f \in Filled(brief), brief.origin[f] # "default"
               PROVE  brief.origin[f] = "planner" /\ brief.value[f] = "drafted"
    OBVIOUS
  <2>1. f \in Fields /\ brief.origin[f] = "planner"
    BY DEF Filled
  <2>2. brief.value[f] = "drafted" \/ (plan.origin[f] = "planner" /\ plan.value[f] # "drafted")
    BY <2>1, ResolutionFacts
  <2> QED BY <2>1, <2>2 DEF Honest
<1> HIDE DEF new
<1>4. Honest(new)
  BY <1>2, <1>3 DEF Honest
<1> QED BY <1>4 DEF new

\* The origins of a save: what changed is the user's, or a default.
LEMMA SaveHonest ==
  ASSUME NEW plan \in Plan, Honest(plan), NEW edit \in Edits(plan)
  PROVE  Honest(apply_write_semantics(plan, edit))
<1>1. edit \in Plan /\ edit.origin = plan.origin
  BY EditTyped
<1>2. \A f \in Fields : edit.value[f] = plan.value[f] \/ edit.value[f] \in {Blank, "mine"}
  BY DEF Edits, Plan
<1>3. \A f \in Fields :
        /\ Sent(edit, f) = edit.value[f]
        /\ OriginOnWrite(plan, edit, f) =
             IF edit.value[f] # plan.value[f]
             THEN IF is_unset(edit.value[f]) THEN "default" ELSE "user" ELSE plan.origin[f]
  BY <1>1 DEF Sent, Plan, OriginOnWrite
<1>4. \A f \in Fields :
        /\ apply_write_semantics(plan, edit).value[f] = edit.value[f]
        /\ apply_write_semantics(plan, edit).origin[f] = OriginOnWrite(plan, edit, f)
  BY <1>3 DEF apply_write_semantics
<1> QED BY <1>2, <1>3, <1>4 DEF Honest, is_unset

\* Through any sequence of guarded edits, presets and merges an origin tells who
\* wrote the value (apply_write_semantics, plan_patch_from_brief): no client claims
\* what a planner drafted, and no planner what a client typed.
THEOREM OriginsTrue == Spec => OriginsStayTrue
<1>1. ASSUME DraftInv, Next, drafts' # drafts, Honest(Draft), last'.guarded
      PROVE  Honest(Draft')
  <2>0. Draft \in Plan /\ TypeOK
    BY <1>1, DraftTyped DEF DraftInv
  <2>1. CASE \E plan \in Edits(Draft) : Draft' = apply_write_semantics(Draft, plan)
    BY <1>1, <2>0, <2>1, SaveHonest
  <2>2. CASE \E instrumental \in BOOLEAN :
               Draft' = apply_write_semantics(Draft, apply_preset(Draft, instrumental))
    <3>1. \A f \in Fields :
            IF Proposed(Draft, f)
            THEN Draft'.value[f] = "curated" /\ (Draft'.origin[f] = "preset" \/ Draft.origin[f] = "preset")
            ELSE Draft'.value[f] = Draft.value[f] /\ Draft'.origin[f] = Draft.origin[f]
      BY <2>0, <2>2, PresetFacts
    <3>2. \A f \in Fields : Proposed(Draft, f) => Draft.origin[f] # "preset"
      BY <1>1 DEF Honest, Proposed
    <3> QED BY <1>1, <3>1, <3>2 DEF Honest
  <2>3. CASE \E j \in Jobs : /\ job[j].base = Revision /\ job[j].pc = "rendered"
                             /\ Draft' = Patched(Draft, job[j].brief, j)
    <3>1. PICK j \in Jobs : /\ job[j].base = Revision /\ job[j].pc = "rendered"
                            /\ Draft' = Patched(Draft, job[j].brief, j)
      BY <2>3
    <3>2. /\ job[j].brief \in Resolutions(Frozen(j)) /\ job[j] \in JobRow /\ j \in Nat
          /\ drafts[job[j].base] = Draft
      BY <1>1, <2>0, <3>1, DraftAssumption DEF DraftInv, JobInv, RenderedFrom, TypeOK, Draft, Revision
    <3>3. Frozen(j) \in Intents /\ Frozen(j).value = Draft.value /\ Frozen(j).origin = Draft.origin
      BY <2>0, <3>2, IntentTyped DEF Frozen, JobRow
    <3> QED BY <1>1, <2>0, <3>1, <3>2, <3>3, MergeHonest
  <2> QED BY <1>1, <2>1, <2>2, <2>3, GuardedWrites
<1>2. UNCHANGED vars \/ drafts' = drafts => (Honest(Draft) => Honest(Draft'))
  BY DEF vars, Draft
<1>3. DraftInv /\ [Next]_vars => (Honest(Draft) /\ last'.guarded => Honest(Draft)')
  BY <1>1, <1>2
<1> QED BY <1>3, DraftInvariant, PTL DEF Spec, OriginsStayTrue
\* What a planned brief says and the draft did not is what its merge fills in.
LEMMA PlannerFills ==
  ASSUME NEW intent \in Intents, NEW sample \in Samples, NEW brief, brief = apply_planner(intent, sample)
  PROVE  /\ \A f \in Fields : f \notin Filled(brief) => brief.value[f] = intent.value[f]
         /\ intent.instrumental => brief.value["lyrics"] # Blank
<1> DEFINE voiceless(f) == f = "lyrics" /\ intent.instrumental
           fills(f) == ~Kept(intent, f) /\ ~voiceless(f) /\ ~is_unset(sample[f])
           value == [f \in Fields |-> CASE Kept(intent, f) -> intent.value[f]
                                        [] ~Kept(intent, f) /\ voiceless(f) -> Placeholder
                                        [] fills(f) -> sample[f]
                                        [] OTHER -> intent.value[f]]
           origin == [f \in Fields |-> CASE ~Kept(intent, f) /\ voiceless(f) -> "default"
                                         [] fills(f) -> "planner"
                                         [] OTHER -> intent.origin[f]]
<1>1. brief = Record(intent, value, origin, TRUE)
  BY DEF apply_planner
<1>2. sample \in [Fields -> {Blank, "drafted"}] /\ "lyrics" \in Fields
  BY SampleAssumption DEF Fields, Texts
<1>3. \A f \in Fields : /\ value[f] = intent.value[f] \/ origin[f] = "planner"
                                \/ (f = "lyrics" /\ intent.instrumental /\ value[f] = Placeholder
                                      /\ origin[f] = "default")
                        /\ value[f] \in Values
  BY <1>2 DEF Values, Intents
<1>4. intent.instrumental => value["lyrics"] # Blank
  <2>1. Kept(intent, "lyrics") => intent.value["lyrics"] # Blank
    BY DEF Kept, UserText, Texts
  <2> QED BY <1>2, <2>1 DEF Placeholder, Blank
<1>5. value \in [Fields -> Values]
  BY <1>3
<1> HIDE DEF value, origin
<1>6. /\ brief.value = value /\ brief.origin = origin /\ brief.instrumental = intent.instrumental
  <2>1. Sung(value, intent.instrumental) = value
    BY <1>4 DEF Sung, is_unset
  <2> QED BY <1>1, <2>1 DEF Record
<1>7. \A f \in Fields : f \notin Filled(brief) => brief.value[f] = intent.value[f]
  BY <1>2, <1>3, <1>6 DEF Filled
<1> QED BY <1>4, <1>6, <1>7

\* Another take (SPEC.md 16.3): the draft a planned render left says what was
\* rendered, and with its words in it a second generate does not plan again.
THEOREM AnotherTakeKept == Spec => []AnotherTake
<1>1. DraftInv => AnotherTake
  <2> SUFFICES ASSUME DraftInv, NEW j \in Jobs, job[j].merged = Revision, HasWords(Draft.value)
               PROVE  LET again == Intent(Draft, "generate", Draft.mode) IN
                      ~Planned(again) /\ brief_without_planning(again).value = job[j].brief.value
    BY DEF AnotherTake
  <2> DEFINE brief == job[j].brief
             plan == drafts[job[j].base]
             again == Intent(Draft, "generate", Draft.mode)
  <2>1. /\ TypeOK /\ JobInv(j) /\ job[j] \in JobRow /\ Revision \in Nat /\ Revision > 0 /\ Draft \in Plan
        /\ "generate" \in Actions
    BY DraftTyped, DraftAssumption DEF DraftInv, TypeOK, Revision
  <2>2. /\ MergedInto(j) /\ RenderedFrom(j) /\ plan \in Plan /\ brief \in Brief
        /\ job[j].action \in Actions /\ job[j].mode \in Modes
    BY <2>1, DraftTyped DEF JobInv, JobRow
  <2>3. Draft = Patched(plan, brief, j) /\ brief.planned
    BY <2>2 DEF MergedInto, Draft, Revision
  <2>4. Frozen(j) \in Intents /\ Frozen(j).value = plan.value /\ Frozen(j).instrumental = plan.instrumental
    BY <2>2, IntentTyped DEF Frozen
  <2>5. PICK sample \in Samples : brief = apply_planner(Frozen(j), sample)
    <3>1. brief \in Resolutions(Frozen(j)) /\ Planned(Frozen(j))
      BY <2>2, <2>3, <2>4, ResolutionFacts DEF RenderedFrom
    <3> QED BY <3>1 DEF Resolutions
  <2>6. /\ \A f \in Fields : f \notin Filled(brief) => brief.value[f] = plan.value[f]
        /\ plan.instrumental => brief.value["lyrics"] # Blank
    BY <2>4, <2>5, PlannerFills
  <2>7. Draft.value = brief.value /\ Draft.mode = "from_brief" /\ Draft.instrumental = plan.instrumental
    <3>1. /\ Draft.value = [f \in Fields |-> IF f \in Filled(brief) THEN brief.value[f] ELSE plan.value[f]]
          /\ Draft.mode = "from_brief" /\ Draft.instrumental = plan.instrumental
      BY <2>2, <2>3 DEF Patched, Plan
    <3>2. \A f \in Fields : Draft.value[f] = brief.value[f]
      BY <2>6, <3>1
    <3>3. Draft.value \in [Fields -> Values] /\ brief.value \in [Fields -> Values]
      BY <2>1, <2>2 DEF Plan, Brief
    <3>4. Draft.value = brief.value
      <4> DEFINE one == Draft.value  other == brief.value
      <4>1. one \in [Fields -> Values] /\ other \in [Fields -> Values] /\ \A f \in Fields : one[f] = other[f]
        BY <3>2, <3>3
      <4> HIDE DEF one, other
      <4>2. one = other
        BY <4>1
      <4> QED BY <4>2 DEF one, other
    <3> QED BY <3>1, <3>4, Zenon
  <2>8. again.value = Draft.value /\ again.instrumental = Draft.instrumental
    BY <2>1, <2>7, IntentTyped DEF Modes
  <2>9. ~Planned(again)
    BY <2>7 DEF Planned, Intent, EffectiveMode
  <2>10. brief_without_planning(again).value = brief.value
    <3>1. Sung(Draft.value, Draft.instrumental) = Draft.value
      BY <2>6, <2>7 DEF Sung, is_unset
    <3> QED BY <2>7, <2>8, <3>1 DEF brief_without_planning, Record
  <2> QED BY <2>9, <2>10
<1> QED BY <1>1, DraftInvariant, PTL
=============================================================================
