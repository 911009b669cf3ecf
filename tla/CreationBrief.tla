---------------------------- MODULE CreationBrief ----------------------------
(***************************************************************************)
(* The creation contract (server/generation/brief.py, presets.py, and the  *)
(* validation of storage/plan.py): what a write makes of a plan, what a    *)
(* job freezes of it, what a planner may fill in, what is rendered and     *)
(* what goes back into the draft. Pure operators. Of the tracked fields    *)
(* there are the two texts and one meta, duration_sec, which like          *)
(* timesignature and vocal_language has a default that is not blank.       *)
(***************************************************************************)
EXTENDS Naturals, Sequences

CONSTANTS
  Ideas,     \* what a query may say, besides nothing
  Samples    \* what a planner may answer, and a CoT: [Fields -> Values]

Texts == {"caption", "lyrics"}
Fields == Texts \cup {"duration_sec"}
Origins == {"user", "planner", "preset", "default", "unknown"}
Modes == {"from_idea", "from_brief"}
Blank == ""
Placeholder == "[Instrumental]"
\* A value tells who made it up: "mine" is typed, "120" is the default.
Values == {Blank, Placeholder, "mine", "drafted", "curated", "chosen", "120"}

ASSUME SampleAssumption == Samples \subseteq [Fields -> {Blank, "drafted"}] /\ Blank \notin Ideas

Plan == [query: Ideas \cup {Blank}, value: [Fields -> Values], origin: [Fields -> Origins],
         instrumental: BOOLEAN, rewrite: BOOLEAN, mode: Modes, brief: Nat, preset: BOOLEAN]
Brief == [mode: Modes, value: [Fields -> Values], origin: [Fields -> Origins],
          instrumental: BOOLEAN, rewrite: BOOLEAN, planned: BOOLEAN]

AllOf(origin) == [f \in Fields |-> origin]
DefaultValue == [f \in Fields |-> IF f = "duration_sec" THEN "120" ELSE Blank]
default_plan(idea) ==
  [query |-> idea, value |-> DefaultValue, origin |-> AllOf("default"), instrumental |-> FALSE,
   rewrite |-> FALSE, mode |-> "from_idea", brief |-> 0, preset |-> FALSE]
NoBrief ==
  [mode |-> "from_idea", value |-> DefaultValue, origin |-> AllOf("default"), instrumental |-> FALSE,
   rewrite |-> FALSE, planned |-> FALSE]

is_unset(v) == v = Blank
HasWords(value) == \E f \in Texts : ~is_unset(value[f])

\* A plan.json from before the contract, as reads complete it.
legacy_mode(idea, value) == IF idea # Blank /\ ~HasWords(value) THEN "from_idea" ELSE "from_brief"
NormalizedPlan(idea, value) ==
  [default_plan(idea) EXCEPT !.value = value, !.origin = AllOf("unknown"), !.mode = legacy_mode(idea, value)]

-----------------------------------------------------------------------------
(* Writes *)

\* A client sends a plan, or one without some of the tracked fields, the origins
\* and the mode. validate_plan fills in the fields from the defaults.
Sent(sent, f) == IF f \in DOMAIN sent.value THEN sent.value[f] ELSE DefaultValue[f]

\* The origin of a written field: a claim that differs from the plan on disk,
\* then what its change says, then what it was.
OriginKept(current, sent, f) ==                    \* mutant: a change keeps its origin
  LET claim == IF "origin" \in DOMAIN sent THEN sent.origin[f] ELSE current.origin[f] IN
  IF claim # current.origin[f] THEN claim ELSE current.origin[f]
OriginOnWrite(current, sent, f) ==
  LET claim == IF "origin" \in DOMAIN sent THEN sent.origin[f] ELSE current.origin[f]
      new == Sent(sent, f) IN
  CASE claim # current.origin[f] -> claim
    [] claim = current.origin[f] /\ new # current.value[f] -> IF is_unset(new) THEN "default" ELSE "user"
    [] OTHER -> current.origin[f]

ModeOnWrite(current, sent) ==
  LET claim == IF "mode" \in DOMAIN sent THEN sent.mode ELSE current.mode IN
  CASE claim # current.mode -> claim
    [] claim = current.mode /\ sent.query # current.query -> "from_idea"
    [] OTHER -> current.mode

apply_write_semantics(current, sent) ==
  [query |-> sent.query, value |-> [f \in Fields |-> Sent(sent, f)],
   origin |-> [f \in Fields |-> OriginOnWrite(current, sent, f)], instrumental |-> sent.instrumental,
   rewrite |-> sent.rewrite, preset |-> sent.preset, mode |-> ModeOnWrite(current, sent), brief |-> current.brief]

Proposed(plan, f) ==
  f # "lyrics" /\ ~(plan.origin[f] = "user" /\ ~is_unset(plan.value[f])) /\ plan.value[f] # "curated"
Singable(plan) == plan.value["lyrics"] \notin {Blank, Placeholder}
apply_preset(plan, instrumental) ==
  [plan EXCEPT !.value = [f \in Fields |-> IF Proposed(plan, f) THEN "curated" ELSE @[f]],
               !.origin = [f \in Fields |-> IF Proposed(plan, f) THEN "preset" ELSE @[f]],
               !.instrumental = IF instrumental /\ Singable(plan) THEN @ ELSE instrumental,
               !.preset = TRUE]

-----------------------------------------------------------------------------
(* What a job freezes *)

EffectiveMode(plan, mode) ==
  CASE mode = "from_idea" /\ plan.query = Blank /\ HasWords(plan.value) -> "from_brief"
    [] mode = "from_brief" /\ plan.query # Blank /\ ~HasWords(plan.value) -> "from_idea"
    [] OTHER -> mode

\* creation_input and then validate_creation: an idea that says nothing is no idea.
Intent(plan, action, mode) ==
  [action |-> action, query |-> plan.query, value |-> plan.value, origin |-> plan.origin,
   instrumental |-> plan.instrumental, rewrite |-> plan.rewrite,
   mode |-> IF action # "generate" \/ plan.query = Blank THEN "from_brief" ELSE EffectiveMode(plan, mode)]
\* instrumental_lyrics_conflict; the other refusals are of values that are none here.
Renderable(intent) == intent.action = "generate" => ~(intent.instrumental /\ Singable(intent))

-----------------------------------------------------------------------------
(* What a planner may fill in *)

Planned(intent) == intent.action = "generate" /\ intent.mode = "from_idea"

UserText(intent, f) ==
  IF intent.origin[f] \in {"planner", "default"} \/ (f = "lyrics" /\ intent.value[f] = Placeholder)
  THEN Blank ELSE intent.value[f]
format_sample(intent) == Planned(intent) /\ UserText(intent, "lyrics") # Blank

KeptLax(intent, f) == f \in Texts /\ UserText(intent, f) # Blank   \* mutant: any meta is the planner's
Kept(intent, f) ==
  \/ f \in Texts /\ UserText(intent, f) # Blank
  \/ f \notin Texts /\ intent.origin[f] \in {"user", "preset"} /\ ~is_unset(intent.value[f])

\* _brief_record: an instrumental without lyrics says so.
Sung(value, instrumental) ==
  IF instrumental /\ is_unset(value["lyrics"]) THEN [value EXCEPT !["lyrics"] = Placeholder] ELSE value
Record(intent, value, origin, planned) ==
  [mode |-> intent.mode, value |-> Sung(value, intent.instrumental), origin |-> origin,
   instrumental |-> intent.instrumental, rewrite |-> intent.rewrite, planned |-> planned]

brief_without_planning(intent) == Record(intent, intent.value, intent.origin, FALSE)

apply_planner(intent, sample) ==
  LET voiceless(f) == f = "lyrics" /\ intent.instrumental
      fills(f) == ~Kept(intent, f) /\ ~voiceless(f) /\ ~is_unset(sample[f])
  IN Record(intent,
            [f \in Fields |-> CASE Kept(intent, f) -> intent.value[f]
                                [] ~Kept(intent, f) /\ voiceless(f) -> Placeholder
                                [] fills(f) -> sample[f]
                                [] OTHER -> intent.value[f]],
            [f \in Fields |-> CASE ~Kept(intent, f) /\ voiceless(f) -> "default"
                                [] fills(f) -> "planner"
                                [] OTHER -> intent.origin[f]],
            TRUE)

\* What may be made of an intent: any answer of the planner, or none asked for.
Resolutions(intent) ==
  IF Planned(intent) THEN {apply_planner(intent, s) : s \in Samples} ELSE {brief_without_planning(intent)}

-----------------------------------------------------------------------------
(* What is rendered, and what goes back *)

Flags(brief, action) ==
  [caption |-> action = "generate" /\ \/ is_unset(brief.value["caption"])
                                      \/ brief.rewrite /\ brief.origin["caption"] # "planner",
   metas |-> action = "generate" /\ is_unset(brief.value["duration_sec"])]

\* actual_values. The CoT fills a meta that is unset, and rewrites a caption.
Actual(brief, action, cot) ==
  LET flags == Flags(brief, action)
      by(f) == IF f = "caption" THEN flags.caption /\ cot # Blank
               ELSE f = "duration_sec" /\ flags.metas /\ cot # Blank
  IN [value |-> [f \in Fields |-> IF by(f) THEN cot ELSE brief.value[f]],
      model |-> {f \in Fields : by(f)}]

\* plan_patch_from_brief
Filled(brief) ==
  {f \in Fields : brief.origin[f] = "planner"}
    \cup IF brief.instrumental /\ brief.origin["lyrics"] = "default" /\ brief.value["lyrics"] = Placeholder
         THEN {"lyrics"} ELSE {}
PatchedStillIdea(plan, brief, job) ==              \* mutant: leaves the mode
  [plan EXCEPT !.value = [f \in Fields |-> IF f \in Filled(brief) THEN brief.value[f] ELSE @[f]],
               !.origin = [f \in Fields |-> IF f \in Filled(brief) THEN brief.origin[f] ELSE @[f]],
               !.brief = job]
Patched(plan, brief, job) ==
  [plan EXCEPT !.value = [f \in Fields |-> IF f \in Filled(brief) THEN brief.value[f] ELSE @[f]],
               !.origin = [f \in Fields |-> IF f \in Filled(brief) THEN brief.origin[f] ELSE @[f]],
               !.mode = "from_brief", !.brief = job]
=============================================================================
