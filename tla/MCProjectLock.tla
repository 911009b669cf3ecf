---------------------------- MODULE MCProjectLock ---------------------------
(* Instances of ProjectLock for TLC. *)
EXTENDS ProjectLock, TLC
=============================================================================
