--------------------------- MODULE MCRemoteSession --------------------------
(* Instances of RemoteSession for TLC. *)
EXTENDS RemoteSession, TLC

CONSTANTS r1, r2

Interchangeable == Permutations(Pods)

AnyRequest == [r \in Requests |-> Kinds]
OnlyStarts == [r \in Requests |-> {"start"}]                \* a click is repeated
\* One user's requests, and the panel that polls the status meanwhile.
UserAndPanel == [r \in Requests |-> IF r = r1 THEN {"start", "stop"} ELSE {"status"}]
=============================================================================
