----------------------------- MODULE MCJobQueue -----------------------------
(* Instances of JobQueue, with its properties, for TLC. *)
EXTENDS JobQueueProperties, TLC

\* Every request is for the one project.
OneProject == [j \in Jobs |-> CHOOSE p \in Projects : TRUE]

\* Workers and seeds are interchangeable; the properties name none of them.
Interchangeable == Permutations(Workers) \cup Permutations(Seeds)
=============================================================================
