----------------------------- MODULE MCPlanDraft -----------------------------
(* Instances of PlanDraft for TLC. *)
EXTENDS PlanDraft, TLC

\* A planner that fills everything, only the words, or only a meta.
ThreeSamples == {[f \in Fields |-> IF f \in filled THEN "drafted" ELSE Blank] :
                   filled \in {Fields, Texts, {"duration_sec"}}}
=============================================================================
