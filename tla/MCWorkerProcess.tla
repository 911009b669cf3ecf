--------------------------- MODULE MCWorkerProcess --------------------------
(* Instances of WorkerProcess for TLC. *)
EXTENDS WorkerProcess, TLC

CONSTANTS j1, j2, k1, k2, iterate, quality, studio

Plain(profile) == [kind |-> "render", profile |-> profile, pack |-> None]
WithPack(pack) == [kind |-> "render", profile |-> studio, pack |-> pack]
Training == [kind |-> "train", profile |-> studio, pack |-> None]

\* One job with a pack; the other swaps the pack, the profile, or trains.
TwoJobs == [j \in Jobs |-> IF j = j1 THEN {WithPack(k1)} ELSE {Training, Plain(studio), Plain(quality)}]
=============================================================================
