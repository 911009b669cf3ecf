--------------------------- MODULE MCSongRequests ---------------------------
(* Instances of SongRequests for TLC. *)
EXTENDS SongRequests, TLC

CONSTANTS c1, c2, c3, k1, s1, blue, red

Song == [kind |-> "song", words |-> blue, submission |-> None]
Named == [kind |-> "job", words |-> red, submission |-> s1]

\* A song sent twice, and a job sent under the same key.
OneKey == [c \in Calls |-> k1]
Bodies == [c \in Calls |-> IF c = c3 THEN Named ELSE Song]
=============================================================================
