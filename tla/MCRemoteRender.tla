--------------------------- MODULE MCRemoteRender ---------------------------
(* Instances of RemoteRender for TLC. *)
EXTENDS RemoteRender, TLC

CONSTANTS c1, c2, c3, j1, j2

OneJob == [c \in ClientIds |-> j1]                        \* two attempts at one row
TwoJobs == [c \in ClientIds |-> IF c = c3 THEN j2 ELSE j1]
EachItsJob == [c \in ClientIds |-> IF c = c1 THEN j1 ELSE j2]

TokenSymmetry == Permutations(Tokens)
=============================================================================
