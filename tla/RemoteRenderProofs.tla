-------------------------- MODULE RemoteRenderProofs -------------------------
(* The safety properties of RemoteRender, proved for every set of attempts, *)
(* jobs and tokens, every length of the host's queue and every fault.       *)
EXTENDS RemoteRender, TLAPS

-----------------------------------------------------------------------------
(* Types *)

ThreadPcs == {"startup", "idle", "picked", "render", "finish", "settle"}
AttemptPcs == {"new", "open", "commit", "end", "dead"} \cup Waiting

LEMMA Absent == None \notin ClientIds /\ None \notin Tokens
BY HostAssumption

LEMMA RecordFacts ==
  ASSUME HostTypeOK, NEW t \in Tokens
  PROVE  /\ records[t] \in Record
         /\ records[t].status \in {"absent", "queued", "running", "done", "error", "gone"}
         /\ records[t].client \in ClientIds \cup {None}
         /\ records[t].result \in BOOLEAN /\ records[t].cancel \in BOOLEAN
         /\ records[t].delivered \in BOOLEAN /\ records[t].old \in BOOLEAN
BY DEF HostTypeOK, Record

LEMMA ThreadFacts ==
  ASSUME HostTypeOK
  PROVE  thread.pc \in ThreadPcs /\ thread.token \in Tokens \cup {None} /\ thread.outcome \in Outcomes
BY DEF HostTypeOK, Thread, ThreadPcs

LEMMA AttemptFacts ==
  ASSUME TypeOK, NEW c \in ClientIds
  PROVE  attempts[c] \in Attempt /\ attempts[c].pc \in AttemptPcs /\ attempts[c].token \in Tokens \cup {None}
BY DEF TypeOK, Attempt, AttemptPcs

LEMMA RowFacts ==
  ASSUME TypeOK, NEW j \in JobIds
  PROVE  /\ rows[j] \in Row /\ rows[j].status \in {"queued", "running", "done", "error", "cancelled"}
         /\ rows[j].owner \in ClientIds \cup {None} /\ rows[j].cancel \in BOOLEAN
         /\ rows[j].handle \in Tokens \cup {None}
BY DEF TypeOK, Row

LEMMA JobOfFacts == \A c \in ClientIds : JobOf[c] \in JobIds
BY RemoteAssumption

LEMMA NoRecordFacts ==
  ASSUME NEW s \in {"absent", "queued", "gone"}
  PROVE  /\ NoRecord(s) \in Record /\ NoRecord(s).status = s /\ NoRecord(s).client = None
         /\ ~NoRecord(s).result /\ ~NoRecord(s).cancel /\ ~NoRecord(s).delivered /\ ~NoRecord(s).old
BY DEF NoRecord, Record, Outcomes

LEMMA NewRecordFacts ==
  ASSUME NEW c \in ClientIds
  PROVE  /\ NewRecord(c) \in Record /\ NewRecord(c).status = "queued" /\ NewRecord(c).client = c
         /\ ~NewRecord(c).result /\ ~NewRecord(c).cancel /\ ~NewRecord(c).delivered /\ ~NewRecord(c).old
<1>1. PICK r \in Record : r = NoRecord("queued")
  BY NoRecordFacts
<1>2. r.status = "queued" /\ ~r.result /\ ~r.cancel /\ ~r.delivered /\ ~r.old
  BY <1>1, NoRecordFacts
<1>3. NewRecord(c) = [r EXCEPT !.client = c]
  BY <1>1 DEF NewRecord
<1> QED
  BY <1>2, <1>3 DEF Record

-----------------------------------------------------------------------------
(* The inductive invariant *)

\* The index of client ids and the records name each other: so at most one
\* record at a time has a given client id.
IndexOK ==
  /\ \A c \in ClientIds : clientTokens[c] # None =>
       Known(clientTokens[c]) /\ records[clientTokens[c]].client = c
  /\ \A t \in Tokens : Known(t) =>
       records[t].client \in ClientIds /\ clientTokens[records[t].client] = t

\* What the host has in hand is unfinished, once, and not in two places.
Working == thread.pc \in {"picked", "render", "finish"}
InHand(t) == \E i \in 1 .. Len(queue) : queue[i] = t
QueueOK ==
  /\ \A i \in 1 .. Len(queue) : records[queue[i]].status = "queued"
  /\ \A i, k \in 1 .. Len(queue) : queue[i] = queue[k] => i = k
  /\ Working => \A i \in 1 .. Len(queue) : queue[i] # thread.token
ThreadOK ==
  /\ thread.pc \in {"startup", "idle"} => thread.token = None
  /\ thread.pc \notin {"startup", "idle"} => thread.token \in Tokens
  /\ thread.pc = "picked" => records[thread.token].status = "queued"
  /\ thread.pc = "render" => records[thread.token].status = "running"
  /\ thread.pc = "finish" => records[thread.token].status \in {"queued", "running"}

\* What has a result was rendered.
ResultsOK ==
  /\ \A t \in Tokens : Known(t) /\ records[t].result => renders[records[t].client] >= 1
  /\ thread.pc = "render" => renders[records[thread.token].client] >= 1

\* The token an attempt waits for was issued to it, and to no other attempt.
Submitted == {"handle", "poll", "ask", "audio", "ack", "commit"}
Recorded == {"poll", "ask", "audio", "ack", "commit"}
AttemptOK(c) ==
  /\ attempts[c].pc \in Submitted => attempts[c].token # None
  /\ attempts[c].token # None =>
       /\ records[attempts[c].token].status # "absent"
       /\ Known(attempts[c].token) => records[attempts[c].token].client = c
  /\ attempts[c].pc \in {"new", "open", "submit"} => attempts[c].token = None
  /\ attempts[c].pc \in {"audio", "ack", "commit"} => renders[c] >= 1
  /\ attempts[c].pc \in Recorded /\ Owns(c) => RowOf(c).handle = attempts[c].token

RowOK(j) ==
  LET r == rows[j] IN
  /\ r.status = "queued" => r.handle = None
  /\ r.status = "running" =>
       /\ r.owner \in ClientIds /\ JobOf[r.owner] = j
       /\ attempts[r.owner].pc # "new"
  /\ r.status = "running" /\ r.handle # None =>
       /\ attempts[r.owner].token = r.handle
       /\ attempts[r.owner].pc \notin {"open", "submit", "handle"}
  /\ r.status = "done" =>
       /\ r.owner \in ClientIds /\ renders[r.owner] >= 1
       /\ r.handle # None /\ r.handle = attempts[r.owner].token

HostSafe == HostTypeOK /\ IndexOK /\ QueueOK /\ ThreadOK /\ ResultsOK
Safe ==
  /\ TypeOK /\ HostSafe
  /\ \A c \in ClientIds : AttemptOK(c)
  /\ \A j \in JobIds : RowOK(j)

-----------------------------------------------------------------------------
(* Steps of the host: a token that was issued stays issued, what is forgotten *)
(* stays so, and no record changes hands.                                      *)

Onward ==
  /\ \A t \in Tokens : records[t].status # "absent" =>
       /\ records'[t].status # "absent"
       /\ Known(t)' => Known(t) /\ records'[t].client = records[t].client
  /\ \A c \in ClientIds : renders'[c] >= renders[c]

LEMMA HostStays ==
  ASSUME HostSafe, UNCHANGED hostVars
  PROVE  HostSafe' /\ Onward
<1>1. UNCHANGED <<records, clientTokens, queue, thread, renders>>
  BY DEF hostVars
<1>2. HostTypeOK'
  BY <1>1 DEF HostSafe, HostTypeOK
<1>3. IndexOK' /\ QueueOK' /\ ThreadOK' /\ ResultsOK'
  BY <1>1 DEF HostSafe, IndexOK, QueueOK, ThreadOK, ResultsOK, Known, Working
<1>4. \A c \in ClientIds : renders[c] \in Nat
  BY DEF HostSafe, HostTypeOK
<1>5. Onward
  BY <1>1, <1>4 DEF Onward, Known
<1> QED
  BY <1>2, <1>3, <1>5 DEF HostSafe

\* What is forgotten is finished, so that neither the queue nor the thread has it.
LEMMA ForgetSafe ==
  ASSUME HostSafe, NEW gone \in SUBSET Tokens, \A t \in gone : Finished(t), Forget(gone),
         UNCHANGED <<queue, thread, renders>>
  PROVE  HostSafe' /\ Onward
<1>1. /\ \A t \in Tokens \ gone : records'[t] = records[t]
      /\ \A t \in gone : records'[t].status = "gone" /\ ~Known(t)'
  BY NoRecordFacts DEF Forget, Known
<1>2. records' \in [Tokens -> Record]
  BY NoRecordFacts DEF Forget, HostSafe, HostTypeOK
<1>3. \A c \in ClientIds : clientTokens'[c] = IF clientTokens[c] \in gone THEN None ELSE clientTokens[c]
  BY DEF Forget
<1>4. clientTokens' \in [ClientIds -> Tokens \cup {None}]
  BY DEF Forget, HostSafe, HostTypeOK
<1>5. HostTypeOK'
  BY <1>2, <1>4 DEF HostSafe, HostTypeOK
<1>6. IndexOK'
  <2>1. ASSUME NEW c \in ClientIds, clientTokens'[c] # None
        PROVE  Known(clientTokens[c])' /\ records'[clientTokens[c]].client = c /\ clientTokens'[c] = clientTokens[c]
    <3>1. clientTokens'[c] = clientTokens[c] /\ clientTokens[c] \notin gone
      BY <1>3, <2>1
    <3>2. clientTokens[c] \in Tokens
      BY <2>1, <3>1 DEF HostSafe, HostTypeOK
    <3>3. Known(clientTokens[c]) /\ records[clientTokens[c]].client = c
      BY <2>1, <3>1 DEF HostSafe, IndexOK
    <3> QED
      BY <1>1, <3>1, <3>2, <3>3 DEF Known
  <2>2. ASSUME NEW t \in Tokens, Known(t)'
        PROVE  records'[t].client \in ClientIds /\ clientTokens'[records'[t].client] = t
    <3>1. t \notin gone /\ records'[t] = records[t] /\ Known(t)
      BY <1>1, <2>2 DEF Known
    <3> QED
      BY <1>3, <3>1 DEF HostSafe, IndexOK
  <2> QED
    BY <2>1, <2>2 DEF IndexOK, Known
<1>7. QueueOK'
  <2>1. \A i \in 1 .. Len(queue) : queue[i] \in Tokens
    BY DEF HostSafe, HostTypeOK
  <2> QED
    BY <1>1, <2>1 DEF HostSafe, QueueOK, Working, Finished
<1>8. ThreadOK'
  <2>1. thread.pc \in {"picked", "render", "finish"} => thread.token \in Tokens \ gone
    BY DEF HostSafe, ThreadOK, Finished
  <2> QED
    BY <1>1, <2>1 DEF HostSafe, ThreadOK
<1>9. ResultsOK'
  <2>1. thread.pc = "render" => thread.token \in Tokens \ gone
    BY DEF HostSafe, ThreadOK, Finished
  <2>2. \A t \in Tokens : Known(t)' => t \notin gone
    BY <1>1
  <2> QED
    BY <1>1, <2>1, <2>2 DEF HostSafe, ResultsOK, Known
<1>10. \A c \in ClientIds : renders[c] \in Nat
  BY DEF HostSafe, HostTypeOK
<1>11. Onward
  BY <1>1, <1>10 DEF Onward, Known
<1> QED
  BY <1>5, <1>6, <1>7, <1>8, <1>9, <1>11 DEF HostSafe

\* A record is touched where nothing of this depends on it.
LEMMA TouchSafe ==
  ASSUME HostSafe, records' \in [Tokens -> Record],
         \A t \in Tokens : /\ records'[t].status = records[t].status
                           /\ records'[t].client = records[t].client
                           /\ records'[t].result = records[t].result,
         UNCHANGED <<clientTokens, queue, thread, renders>>
  PROVE  HostSafe' /\ Onward
<1>1. HostTypeOK'
  BY DEF HostSafe, HostTypeOK
<1>2. \A t \in Tokens : Known(t)' = Known(t)
  BY DEF Known
<1>3. \A c \in ClientIds : clientTokens[c] \in Tokens \cup {None}
  BY DEF HostSafe, HostTypeOK
<1>4. IndexOK'
  BY <1>2, <1>3 DEF HostSafe, IndexOK
<1>5. \A i \in 1 .. Len(queue) : queue[i] \in Tokens
  BY DEF HostSafe, HostTypeOK
<1>6. QueueOK' /\ ThreadOK'
  BY <1>5 DEF HostSafe, QueueOK, ThreadOK, Working
<1>7. ResultsOK'
  BY <1>2 DEF HostSafe, ResultsOK, ThreadOK
<1>8. \A c \in ClientIds : renders[c] \in Nat
  BY DEF HostSafe, HostTypeOK
<1>9. Onward
  BY <1>2, <1>8 DEF Onward
<1> QED
  BY <1>1, <1>4, <1>6, <1>7, <1>9 DEF HostSafe

LEMMA RecordMoves ==
  ASSUME HostTypeOK, NEW t \in Tokens, NEW r \in Record, records' = [records EXCEPT ![t] = r]
  PROVE  records' \in [Tokens -> Record] /\ records'[t] = r /\ \A u \in Tokens \ {t} : records'[u] = records[u]
BY DEF HostTypeOK

LEMMA PrunableFacts == Prunable \in SUBSET Tokens /\ \A t \in Prunable : Finished(t)
BY DEF Prunable

LEMMA SubmitOldSafe ==
  ASSUME HostSafe, NEW c \in ClientIds, SubmitAgain(c) \/ SubmitFull(c)
  PROVE  HostSafe' /\ Onward
BY PrunableFacts, ForgetSafe DEF SubmitAgain, SubmitFull

LEMMA StatusSafe ==
  ASSUME HostSafe, NEW t \in Tokens, Status(t)
  PROVE  HostSafe' /\ Onward
<1> DEFINE r == [[records[t] EXCEPT !.delivered = TRUE] EXCEPT !.old = FALSE]
<1>1. /\ r \in Record /\ r.status = records[t].status
      /\ r.client = records[t].client /\ r.result = records[t].result
  BY RecordFacts DEF Record, HostSafe
<1>2. records' = records \/ records' = [records EXCEPT ![t] = r]
  BY DEF Status
<1> HIDE DEF r
<1>3. UNCHANGED <<clientTokens, queue, thread, renders>>
  BY DEF Status
<1>4. CASE records' = records
  <2>1. UNCHANGED hostVars
    BY <1>3, <1>4 DEF hostVars
  <2> QED
    BY <2>1, HostStays
<1>5. CASE records' = [records EXCEPT ![t] = r]
  <2>1. records' \in [Tokens -> Record] /\ records'[t] = r /\ \A u \in Tokens \ {t} : records'[u] = records[u]
    BY <1>1, <1>5, RecordMoves DEF HostSafe
  <2> QED
    BY <1>1, <1>3, <2>1, TouchSafe
<1> QED
  BY <1>2, <1>4, <1>5

LEMMA CancelSafe ==
  ASSUME HostSafe, NEW t \in Tokens, Cancel(t)
  PROVE  HostSafe' /\ Onward
<1> DEFINE r == [records[t] EXCEPT !.cancel = TRUE]
<1>1. /\ r \in Record /\ r.status = records[t].status
      /\ r.client = records[t].client /\ r.result = records[t].result
  BY RecordFacts DEF Record, HostSafe
<1>2. records' = records \/ records' = [records EXCEPT ![t] = r]
  BY DEF Cancel
<1> HIDE DEF r
<1>3. UNCHANGED <<clientTokens, queue, thread, renders>>
  BY DEF Cancel
<1>4. CASE records' = records
  <2>1. UNCHANGED hostVars
    BY <1>3, <1>4 DEF hostVars
  <2> QED
    BY <2>1, HostStays
<1>5. CASE records' = [records EXCEPT ![t] = r]
  <2>1. records' \in [Tokens -> Record] /\ records'[t] = r /\ \A u \in Tokens \ {t} : records'[u] = records[u]
    BY <1>1, <1>5, RecordMoves DEF HostSafe
  <2> QED
    BY <1>1, <1>3, <2>1, TouchSafe
<1> QED
  BY <1>2, <1>4, <1>5

LEMMA AckSafe ==
  ASSUME HostSafe, NEW t \in Tokens, Ack(t)
  PROVE  HostSafe' /\ Onward
<1>1. UNCHANGED <<queue, thread, renders>>
  BY DEF Ack
<1>2. CASE Known(t) /\ ~Finished(t)
  <2> DEFINE r == [[[records[t] EXCEPT !.cancel = TRUE] EXCEPT !.delivered = TRUE] EXCEPT !.old = TRUE]
  <2>1. /\ r \in Record /\ r.status = records[t].status
        /\ r.client = records[t].client /\ r.result = records[t].result
    BY RecordFacts DEF Record, HostSafe
  <2>2. records' = [records EXCEPT ![t] = r] /\ UNCHANGED clientTokens
    BY <1>2 DEF Ack
  <2> HIDE DEF r
  <2>3. records' \in [Tokens -> Record] /\ records'[t] = r /\ \A u \in Tokens \ {t} : records'[u] = records[u]
    BY <2>1, <2>2, RecordMoves DEF HostSafe
  <2> QED
    BY <1>1, <2>1, <2>2, <2>3, TouchSafe
<1>3. CASE ~(Known(t) /\ ~Finished(t))
  <2>1. PICK gone \in SUBSET Tokens : gone = {t} \cap {u \in Tokens : Known(u)}
    OBVIOUS
  <2>2. Forget(gone) /\ \A u \in gone : Finished(u)
    BY <1>3, <2>1 DEF Ack
  <2> QED
    BY <1>1, <2>2, ForgetSafe
<1> QED
  BY <1>2, <1>3

LEMMA AgeSafe ==
  ASSUME HostSafe, NEW t \in Tokens, Age(t)
  PROVE  HostSafe' /\ Onward
<1> DEFINE r == [records[t] EXCEPT !.old = TRUE]
<1>1. /\ r \in Record /\ r.status = records[t].status
      /\ r.client = records[t].client /\ r.result = records[t].result
  BY RecordFacts DEF Record, HostSafe
<1>2. records' = [records EXCEPT ![t] = r] /\ UNCHANGED <<clientTokens, queue, thread, renders>>
  BY DEF Age
<1> HIDE DEF r
<1>3. records' \in [Tokens -> Record] /\ records'[t] = r /\ \A u \in Tokens \ {t} : records'[u] = records[u]
  BY <1>1, <1>2, RecordMoves DEF HostSafe
<1> QED
  BY <1>1, <1>2, <1>3, TouchSafe

\* A new submission comes behind what waits, under a token of its own.
LEMMA SubmitNewSafe ==
  ASSUME HostSafe, NEW c \in ClientIds, NEW t \in Tokens, SubmitNew(c, t)
  PROVE  HostSafe' /\ Onward /\ records'[t].status = "queued" /\ records'[t].client = c
<1>1. /\ clientTokens[c] \in Prunable \cup {None} /\ Len(queue) < QueueLimit
      /\ records[t].status = "absent" /\ UNCHANGED <<thread, renders>>
  BY DEF SubmitNew, Existing
<1>2. t \notin Prunable /\ ~Known(t)
  BY <1>1 DEF Prunable, Finished, Known
<1>3. /\ records'[t] = NewRecord(c)
      /\ \A u \in Tokens \ {t} : u \notin Prunable => records'[u] = records[u]
      /\ \A u \in Prunable : records'[u] = NoRecord("gone")
  BY <1>2, PrunableFacts DEF SubmitNew
<1>4. records' \in [Tokens -> Record]
  BY NewRecordFacts, NoRecordFacts DEF SubmitNew, HostSafe, HostTypeOK
<1>5. records'[t].status = "queued" /\ records'[t].client = c /\ ~records'[t].result
  BY <1>3, NewRecordFacts
<1>6. \A u \in Prunable : records'[u].status = "gone"
  BY <1>3, NoRecordFacts
<1>7. /\ clientTokens'[c] = t
      /\ \A d \in ClientIds \ {c} :
           clientTokens'[d] = IF clientTokens[d] \in Prunable THEN None ELSE clientTokens[d]
      /\ clientTokens' \in [ClientIds -> Tokens \cup {None}]
  BY DEF SubmitNew, HostSafe, HostTypeOK
<1>8. /\ queue' \in Seq(Tokens) /\ Len(queue') = Len(queue) + 1 /\ Len(queue') <= QueueLimit
      /\ \A i \in 1 .. Len(queue) : queue'[i] = queue[i] /\ queue[i] \in Tokens
      /\ queue'[Len(queue) + 1] = t /\ Len(queue) \in Nat
  BY <1>1, HostAssumption DEF SubmitNew, HostSafe, HostTypeOK
<1>9. HostTypeOK'
  BY <1>1, <1>4, <1>7, <1>8 DEF HostSafe, HostTypeOK
<1>10. IndexOK'
  <2>1. ASSUME NEW d \in ClientIds, clientTokens'[d] # None
        PROVE  Known(clientTokens[d])' /\ records'[clientTokens'[d]].client = d
    <3>1. CASE d = c
      BY <1>5, <1>7, <3>1 DEF Known
    <3>2. CASE d # c
      <4>1. clientTokens'[d] = clientTokens[d] /\ clientTokens[d] \notin Prunable /\ clientTokens[d] # None
        BY <1>7, <2>1, <3>2
      <4>2. clientTokens[d] \in Tokens /\ Known(clientTokens[d]) /\ records[clientTokens[d]].client = d
        BY <4>1 DEF HostSafe, HostTypeOK, IndexOK
      <4> QED
        BY <1>2, <1>3, <4>1, <4>2 DEF Known
    <3> QED
      BY <3>1, <3>2
  <2>2. ASSUME NEW u \in Tokens, Known(u)'
        PROVE  records'[u].client \in ClientIds /\ clientTokens'[records'[u].client] = u
    <3>1. CASE u = t
      BY <1>5, <1>7, <3>1
    <3>2. CASE u # t
      <4>1. u \notin Prunable
        BY <1>6, <2>2 DEF Known
      <4>2. records'[u] = records[u] /\ Known(u)
        BY <1>3, <2>2, <3>2, <4>1 DEF Known
      <4>3. records[u].client \in ClientIds /\ clientTokens[records[u].client] = u
        BY <4>2 DEF HostSafe, IndexOK
      <4>4. records[u].client # c
        BY <1>1, <4>1, <4>3, Absent
      <4> QED
        BY <1>7, <4>1, <4>2, <4>3, <4>4
    <3> QED
      BY <3>1, <3>2
  <2> QED
    BY <2>1, <2>2 DEF IndexOK, Known
<1>11. \A i \in 1 .. Len(queue) : queue[i] # t /\ queue[i] \notin Prunable /\ records'[queue[i]] = records[queue[i]]
  BY <1>1, <1>3, <1>8 DEF HostSafe, QueueOK, Prunable, Finished
<1>12. thread.pc \in {"picked", "render", "finish"} =>
         /\ thread.token \in Tokens \ {t} /\ thread.token \notin Prunable
         /\ records'[thread.token] = records[thread.token]
  <2>1. thread.pc \in {"picked", "render", "finish"} =>
          /\ thread.token \in Tokens \ {t} /\ thread.token \notin Prunable
    BY <1>1 DEF HostSafe, ThreadOK, Prunable, Finished
  <2> QED
    BY <1>3, <2>1
<1>13. QueueOK'
  <2>1. \A i \in 1 .. Len(queue') : i \in 1 .. Len(queue) \/ i = Len(queue) + 1
    BY <1>8
  <2>2. \A i \in 1 .. Len(queue') : records'[queue'[i]].status = "queued"
    BY <1>5, <1>8, <1>11, <2>1 DEF HostSafe, QueueOK
  <2>3. \A i, k \in 1 .. Len(queue') : queue'[i] = queue'[k] => i = k
    BY <1>8, <1>11, <2>1 DEF HostSafe, QueueOK
  <2>4. Working' => \A i \in 1 .. Len(queue') : queue'[i] # thread'.token
    BY <1>1, <1>8, <1>12, <2>1 DEF HostSafe, QueueOK, Working
  <2> QED
    BY <2>2, <2>3, <2>4 DEF QueueOK
<1>14. ThreadOK'
  BY <1>1, <1>12 DEF HostSafe, ThreadOK
<1>15. ResultsOK'
  <2>1. ASSUME NEW u \in Tokens, Known(u)', records'[u].result PROVE renders'[records'[u].client] >= 1
    <3>1. u # t /\ u \notin Prunable
      BY <1>5, <1>6, <2>1 DEF Known
    <3>2. records'[u] = records[u] /\ Known(u)
      BY <1>3, <2>1, <3>1 DEF Known
    <3> QED
      BY <1>1, <2>1, <3>2 DEF HostSafe, ResultsOK
  <2>2. thread'.pc = "render" => renders'[records'[thread'.token].client] >= 1
    BY <1>1, <1>12 DEF HostSafe, ResultsOK
  <2> QED
    BY <2>1, <2>2 DEF ResultsOK
<1>16. Onward
  <2>1. \A d \in ClientIds : renders[d] \in Nat
    BY DEF HostSafe, HostTypeOK
  <2>2. ASSUME NEW u \in Tokens, records[u].status # "absent"
        PROVE  /\ records'[u].status # "absent"
               /\ Known(u)' => Known(u) /\ records'[u].client = records[u].client
    <3>1. CASE u \in Prunable
      BY <1>6, <3>1 DEF Known
    <3>2. CASE u \notin Prunable
      BY <1>1, <1>3, <2>2, <3>2 DEF Known
    <3> QED
      BY <3>1, <3>2
  <2> QED
    BY <1>1, <2>1, <2>2 DEF Onward
<1> QED
  BY <1>5, <1>9, <1>10, <1>13, <1>14, <1>15, <1>16 DEF HostSafe

-----------------------------------------------------------------------------
(* The job thread, and the end of the host's process *)

LEMMA NoTokenFacts ==
  /\ NoToken \in Thread /\ NoToken.pc = "idle" /\ NoToken.token = None
  /\ [NoToken EXCEPT !.pc = "startup"] \in Thread
  /\ [NoToken EXCEPT !.pc = "startup"].pc = "startup" /\ [NoToken EXCEPT !.pc = "startup"].token = None
BY DEF NoToken, Thread, Outcomes

LEMMA ThreadMoves ==
  ASSUME HostTypeOK, NEW pc \in ThreadPcs, NEW outcome \in Outcomes,
         thread' = [[thread EXCEPT !.pc = pc] EXCEPT !.outcome = outcome]
  PROVE  /\ thread' \in Thread /\ thread'.pc = pc /\ thread'.outcome = outcome
         /\ thread'.token = thread.token
BY DEF HostTypeOK, Thread, ThreadPcs

\* The thread alone moves on; what it takes in hand it has from before.
LEMMA ThreadSteps ==
  ASSUME HostSafe, UNCHANGED <<records, clientTokens, queue, renders>>, thread' \in Thread,
         thread'.pc \in {"startup", "idle"} => thread'.token = None,
         thread'.pc \notin {"startup", "idle"} => thread'.token = thread.token /\ thread.token \in Tokens,
         thread'.pc = "picked" => thread.pc = "picked",
         thread'.pc = "render" => thread.pc = "render",
         thread'.pc = "finish" => Working
  PROVE  HostSafe' /\ Onward
<1>1. HostTypeOK' /\ IndexOK'
  BY DEF HostSafe, HostTypeOK, IndexOK, Known
<1>2. thread'.pc \in {"picked", "render", "finish"} => Working /\ thread'.token = thread.token
  BY DEF Working
<1>3. QueueOK'
  BY <1>2 DEF HostSafe, QueueOK, Working
<1>4. ThreadOK'
  BY <1>2 DEF HostSafe, ThreadOK, Working
<1>5. ResultsOK'
  BY <1>2 DEF HostSafe, ResultsOK, Known
<1>6. \A c \in ClientIds : renders[c] \in Nat
  BY DEF HostSafe, HostTypeOK
<1>7. Onward
  BY <1>6 DEF Onward, Known
<1> QED
  BY <1>1, <1>3, <1>4, <1>5, <1>7 DEF HostSafe

LEMMA StartupSafe ==
  ASSUME HostSafe, Startup
  PROVE  HostSafe' /\ Onward
BY NoTokenFacts, ThreadSteps DEF Startup

LEMMA SkipCanceledSafe ==
  ASSUME HostSafe, SkipCanceled
  PROVE  HostSafe' /\ Onward
<1>1. thread' = [[thread EXCEPT !.pc = "finish"] EXCEPT !.outcome = "canceled"]
  BY DEF SkipCanceled
<1>2. thread' \in Thread /\ thread'.pc = "finish" /\ thread'.token = thread.token
  BY <1>1, ThreadMoves DEF HostSafe, ThreadPcs, Outcomes
<1>3. thread.token \in Tokens /\ Working
  BY DEF SkipCanceled, HostSafe, ThreadOK, Working
<1> QED
  BY <1>2, <1>3, ThreadSteps DEF SkipCanceled

LEMMA RenderRaisesSafe ==
  ASSUME HostSafe, RenderRaises
  PROVE  HostSafe' /\ Onward
<1>1. PICK message \in {"failed", "empty"} :
        thread' = [[thread EXCEPT !.pc = "finish"] EXCEPT !.outcome = message]
  BY DEF RenderRaises
<1>2. thread' \in Thread /\ thread'.pc = "finish" /\ thread'.token = thread.token
  BY <1>1, ThreadMoves DEF HostSafe, ThreadPcs, Outcomes
<1>3. thread.token \in Tokens /\ Working
  BY DEF RenderRaises, HostSafe, ThreadOK, Working
<1> QED
  BY <1>2, <1>3, ThreadSteps DEF RenderRaises

\* What the thread takes from the queue is in it no more.
LEMMA PickSafe ==
  ASSUME HostSafe, Pick
  PROVE  HostSafe' /\ Onward
<1>1. /\ thread.pc = "idle" /\ queue # <<>> /\ queue' = Tail(queue)
      /\ UNCHANGED <<records, clientTokens, renders>>
  BY DEF Pick
<1>2. /\ queue \in Seq(Tokens) /\ Len(queue) \in Nat \ {0} /\ Head(queue) = queue[1] /\ queue[1] \in Tokens
      /\ queue' \in Seq(Tokens) /\ Len(queue') = Len(queue) - 1
      /\ \A i \in 1 .. Len(queue') : queue'[i] = queue[i + 1] /\ i + 1 \in 1 .. Len(queue)
      /\ Len(queue) <= QueueLimit
  BY <1>1 DEF HostSafe, HostTypeOK
<1>3. thread' \in Thread /\ thread'.pc = "picked" /\ thread'.token = queue[1]
  BY <1>2 DEF Pick, NoToken, Thread, Outcomes
<1>4. HostTypeOK' /\ IndexOK'
  BY <1>1, <1>2, <1>3, HostAssumption DEF HostSafe, HostTypeOK, IndexOK, Known
<1>5. 1 \in 1 .. Len(queue) /\ records[queue[1]].status = "queued"
  BY <1>2 DEF HostSafe, QueueOK
<1>6. QueueOK'
  <2>1. \A i \in 1 .. Len(queue') : records'[queue'[i]].status = "queued"
    BY <1>1, <1>2 DEF HostSafe, QueueOK
  <2>2. \A i, k \in 1 .. Len(queue') : queue'[i] = queue'[k] => i = k
    BY <1>1, <1>2 DEF HostSafe, QueueOK
  <2>3. \A i \in 1 .. Len(queue') : queue'[i] # thread'.token
    BY <1>2, <1>3, <1>5 DEF HostSafe, QueueOK
  <2> QED
    BY <2>1, <2>2, <2>3 DEF QueueOK
<1>7. ThreadOK'
  BY <1>1, <1>2, <1>3, <1>5 DEF ThreadOK
<1>8. ResultsOK'
  BY <1>1, <1>3 DEF HostSafe, ResultsOK, Known
<1>9. \A c \in ClientIds : renders[c] \in Nat
  BY DEF HostSafe, HostTypeOK
<1>10. Onward
  BY <1>1, <1>9 DEF Onward, Known
<1> QED
  BY <1>4, <1>6, <1>7, <1>8, <1>10 DEF HostSafe

\* A record that is known and that the queue does not have goes on, still known.
LEMMA RecordSteps ==
  ASSUME HostSafe, NEW t \in Tokens, NEW r \in Record, records' = [records EXCEPT ![t] = r],
         Known(t), r.status \in {"queued", "running", "done", "error"}, r.client = records[t].client,
         r.result => records[t].result \/ renders'[r.client] >= 1,
         \A i \in 1 .. Len(queue) : queue[i] # t,
         UNCHANGED <<clientTokens, queue>>, renders' \in [ClientIds -> Nat],
         \A c \in ClientIds : renders'[c] >= renders[c],
         thread' \in Thread, thread'.token = t,
         thread'.pc \in {"render", "finish", "settle"},
         thread'.pc = "render" => r.status = "running" /\ renders'[r.client] >= 1,
         thread'.pc = "finish" => r.status \in {"queued", "running"}
  PROVE  HostSafe' /\ Onward
<1>1. records' \in [Tokens -> Record] /\ records'[t] = r /\ \A u \in Tokens \ {t} : records'[u] = records[u]
  BY RecordMoves DEF HostSafe
<1>2. HostTypeOK'
  BY <1>1 DEF HostSafe, HostTypeOK
<1>3. \A u \in Tokens : Known(u)' = Known(u) /\ records'[u].client = records[u].client
  BY <1>1 DEF Known
<1>4. \A c \in ClientIds : clientTokens[c] \in Tokens \cup {None}
  BY DEF HostSafe, HostTypeOK
<1>5. IndexOK'
  BY <1>3, <1>4 DEF HostSafe, IndexOK
<1>6. \A i \in 1 .. Len(queue) : queue[i] \in Tokens
  BY DEF HostSafe, HostTypeOK
<1>7. QueueOK'
  BY <1>1, <1>6 DEF HostSafe, QueueOK
<1>8. ThreadOK'
  BY <1>1 DEF ThreadOK
<1>9. ResultsOK'
  <2>1. \A u \in Tokens : Known(u) => records[u].client \in ClientIds
    BY DEF HostSafe, IndexOK
  <2>2. \A c \in ClientIds : renders[c] \in Nat /\ renders'[c] \in Nat /\ (renders[c] >= 1 => renders'[c] >= 1)
    BY DEF HostSafe, HostTypeOK
  <2>3. ASSUME NEW u \in Tokens, Known(u)', records'[u].result PROVE renders'[records'[u].client] >= 1
    BY <1>1, <1>3, <2>1, <2>2, <2>3 DEF HostSafe, ResultsOK
  <2> QED
    BY <1>1, <2>3 DEF ResultsOK
<1>10. Onward
  BY <1>1, <1>3 DEF Onward, Known
<1> QED
  BY <1>2, <1>5, <1>7, <1>8, <1>9, <1>10 DEF HostSafe

\* What the thread has in hand.
LEMMA HandFacts ==
  ASSUME HostSafe, Working
  PROVE  /\ thread.token \in Tokens /\ Known(thread.token)
         /\ records[thread.token].status \in {"queued", "running"}
         /\ records[thread.token] \in Record /\ records[thread.token].client \in ClientIds
         /\ clientTokens[records[thread.token].client] = thread.token
         /\ \A i \in 1 .. Len(queue) : queue[i] # thread.token
         /\ thread.pc = "render" => renders[records[thread.token].client] >= 1
<1>1. thread.token \in Tokens /\ records[thread.token].status \in {"queued", "running"}
  BY DEF HostSafe, ThreadOK, Working
<1>2. Known(thread.token) /\ records[thread.token] \in Record
  BY <1>1 DEF Known, HostSafe, HostTypeOK
<1> QED
  BY <1>1, <1>2 DEF HostSafe, IndexOK, QueueOK, ResultsOK

LEMMA StartRenderSafe ==
  ASSUME HostSafe, StartRender
  PROVE  HostSafe' /\ Onward
<1>1. Working /\ thread.pc = "picked"
  BY DEF StartRender, Working
<1> DEFINE t == thread.token
           r == [records[t] EXCEPT !.status = "running"]
<1>2. PICK c \in ClientIds : c = records[t].client
  BY <1>1, HandFacts
<1>3. /\ r \in Record /\ r.status = "running" /\ r.client = c /\ r.result = records[t].result
  BY <1>1, <1>2, HandFacts DEF Record
<1>4. /\ records' = [records EXCEPT ![t] = r] /\ renders' = [renders EXCEPT ![c] = renders[c] + 1]
      /\ UNCHANGED <<clientTokens, queue>>
  BY <1>2 DEF StartRender
<1>5. thread' \in Thread /\ thread'.pc = "render" /\ thread'.token = t
  BY DEF StartRender, HostSafe, HostTypeOK, Thread
<1>6. /\ renders' \in [ClientIds -> Nat] /\ renders'[c] >= 1
      /\ \A d \in ClientIds : renders'[d] >= renders[d]
  BY <1>4 DEF HostSafe, HostTypeOK
<1>7. t \in Tokens /\ Known(t) /\ records[t].client = c /\ \A i \in 1 .. Len(queue) : queue[i] # t
  BY <1>1, <1>2, HandFacts
<1> HIDE DEF r, t
<1> QED
  BY <1>3, <1>4, <1>5, <1>6, <1>7, RecordSteps

LEMMA RenderedSafe ==
  ASSUME HostSafe, Rendered
  PROVE  HostSafe' /\ Onward
<1>1. Working /\ thread.pc = "render"
  BY DEF Rendered, Working
<1> DEFINE t == thread.token
           r == [records[t] EXCEPT !.result = TRUE]
<1>2. /\ t \in Tokens /\ Known(t) /\ (\A i \in 1 .. Len(queue) : queue[i] # t)
      /\ renders[records[t].client] >= 1
  BY <1>1, HandFacts
<1>3. CASE records[t].cancel
  <2>1. thread' = [[thread EXCEPT !.pc = "finish"] EXCEPT !.outcome = "canceled"]
    BY <1>3 DEF Rendered
  <2>2. thread' \in Thread /\ thread'.pc = "finish" /\ thread'.token = thread.token
    BY <2>1, ThreadMoves DEF HostSafe, ThreadPcs, Outcomes
  <2>3. UNCHANGED <<records, clientTokens, queue, renders>>
    BY <1>3 DEF Rendered
  <2> QED
    BY <1>1, <1>2, <2>2, <2>3, ThreadSteps
<1>4. CASE ~records[t].cancel
  <2>1. r \in Record /\ r.status = records[t].status /\ r.client = records[t].client
    BY <1>1, HandFacts DEF Record
  <2>2. r.status \in {"queued", "running"}
    BY <1>1, <2>1, HandFacts
  <2>3. records' = [records EXCEPT ![t] = r] /\ UNCHANGED <<clientTokens, queue, renders>>
    BY <1>4 DEF Rendered
  <2>4. thread' \in Thread /\ thread'.pc = "finish" /\ thread'.token = t
    BY <1>4 DEF Rendered, HostSafe, HostTypeOK, Thread
  <2>5. renders' \in [ClientIds -> Nat] /\ \A d \in ClientIds : renders'[d] >= renders[d]
    BY <2>3 DEF HostSafe, HostTypeOK
  <2> HIDE DEF r, t
  <2> QED
    BY <1>2, <2>1, <2>2, <2>3, <2>4, <2>5, RecordSteps
<1> QED
  BY <1>3, <1>4

LEMMA FinishStatusSafe ==
  ASSUME HostSafe, FinishStatus
  PROVE  HostSafe' /\ Onward
<1>1. Working /\ thread.pc = "finish"
  BY DEF FinishStatus, Working
<1>2. PICK s \in {"done", "error"} : s = IF thread.outcome \in {"none", "empty"} THEN "done" ELSE "error"
  OBVIOUS
<1> DEFINE t == thread.token
           r == [records[t] EXCEPT !.status = s]
<1>3. t \in Tokens /\ Known(t) /\ (\A i \in 1 .. Len(queue) : queue[i] # t)
  BY <1>1, HandFacts
<1>4. /\ r \in Record /\ r.status = s /\ r.client = records[t].client /\ r.result = records[t].result
  BY <1>1, <1>2, HandFacts DEF Record
<1>5. records' = [records EXCEPT ![t] = r] /\ UNCHANGED <<clientTokens, queue, renders>>
  BY <1>2 DEF FinishStatus
<1>6. thread' \in Thread /\ thread'.pc = "settle" /\ thread'.token = t
  BY DEF FinishStatus, HostSafe, HostTypeOK, Thread
<1>7. renders' \in [ClientIds -> Nat] /\ \A d \in ClientIds : renders'[d] >= renders[d]
  BY <1>5 DEF HostSafe, HostTypeOK
<1> HIDE DEF r, t
<1> QED
  BY <1>3, <1>4, <1>5, <1>6, <1>7, RecordSteps

LEMMA FinishErrorSafe ==
  ASSUME HostSafe, FinishError
  PROVE  HostSafe' /\ Onward
<1>1. /\ thread.token \in Tokens /\ thread' = NoToken /\ thread.outcome \in Outcomes
      /\ UNCHANGED <<clientTokens, queue, renders>>
  BY ThreadFacts DEF FinishError, HostSafe, ThreadOK
<1> DEFINE r == [records[thread.token] EXCEPT !.error = thread.outcome]
<1>2. /\ r \in Record /\ r.status = records[thread.token].status
      /\ r.client = records[thread.token].client /\ r.result = records[thread.token].result
  BY <1>1, RecordFacts DEF Record, HostSafe
<1>3. records' = records \/ records' = [records EXCEPT ![thread.token] = r]
  BY DEF FinishError
<1> HIDE DEF r
<1>4. /\ records' \in [Tokens -> Record]
      /\ \A t \in Tokens : /\ records'[t].status = records[t].status
                           /\ records'[t].client = records[t].client
                           /\ records'[t].result = records[t].result
  BY <1>1, <1>2, <1>3 DEF HostSafe, HostTypeOK
<1>5. HostTypeOK'
  BY <1>1, <1>4, NoTokenFacts DEF HostSafe, HostTypeOK
<1>6. \A t \in Tokens : Known(t)' = Known(t)
  BY <1>4 DEF Known
<1>7. \A c \in ClientIds : clientTokens[c] \in Tokens \cup {None}
  BY DEF HostSafe, HostTypeOK
<1>8. IndexOK'
  BY <1>1, <1>4, <1>6, <1>7 DEF HostSafe, IndexOK
<1>9. \A i \in 1 .. Len(queue) : queue[i] \in Tokens
  BY DEF HostSafe, HostTypeOK
<1>10. QueueOK' /\ ThreadOK'
  BY <1>1, <1>4, <1>9, NoTokenFacts DEF HostSafe, QueueOK, ThreadOK, Working
<1>11. ResultsOK'
  BY <1>1, <1>4, <1>6, NoTokenFacts DEF HostSafe, ResultsOK
<1>12. \A c \in ClientIds : renders[c] \in Nat
  BY DEF HostSafe, HostTypeOK
<1>13. Onward
  BY <1>1, <1>4, <1>6, <1>12 DEF Onward
<1> QED
  BY <1>5, <1>8, <1>10, <1>11, <1>13 DEF HostSafe

LEMMA RestartSafe ==
  ASSUME HostSafe, Restart
  PROVE  HostSafe' /\ Onward
<1>1. /\ \A t \in Tokens : records'[t] = IF Known(t) THEN NoRecord("gone") ELSE records[t]
      /\ \A c \in ClientIds : clientTokens'[c] = None
      /\ queue' = <<>> /\ UNCHANGED renders
      /\ thread' \in Thread /\ thread'.pc = "startup" /\ thread'.token = None
  BY NoTokenFacts DEF Restart
<1>2. \A t \in Tokens : ~Known(t)' /\ (records[t].status # "absent" => records'[t].status # "absent")
  BY <1>1, NoRecordFacts DEF Known
<1>3. records' \in [Tokens -> Record] /\ clientTokens' \in [ClientIds -> Tokens \cup {None}]
  BY NoRecordFacts DEF Restart, HostSafe, HostTypeOK
<1>4. queue' \in Seq(Tokens) /\ Len(queue') = 0
  BY <1>1
<1>5. HostTypeOK'
  BY <1>1, <1>3, <1>4, HostAssumption DEF HostSafe, HostTypeOK
<1>6. IndexOK' /\ QueueOK' /\ ThreadOK' /\ ResultsOK'
  BY <1>1, <1>2, <1>4 DEF IndexOK, QueueOK, ThreadOK, ResultsOK, Working
<1>7. \A c \in ClientIds : renders[c] \in Nat
  BY DEF HostSafe, HostTypeOK
<1>8. Onward
  BY <1>1, <1>2, <1>7 DEF Onward
<1> QED
  BY <1>5, <1>6, <1>8 DEF HostSafe

LEMMA JobThreadSafe ==
  ASSUME HostSafe, JobThread
  PROVE  HostSafe' /\ Onward
BY StartupSafe, PickSafe, SkipCanceledSafe, StartRenderSafe, RenderedSafe, RenderRaisesSafe,
   FinishStatusSafe, FinishErrorSafe DEF JobThread

-----------------------------------------------------------------------------
(* Steps of one attempt *)

OnlyAttempt(c) ==
  attempts' \in [ClientIds -> Attempt] /\ \A d \in ClientIds \ {c} : attempts'[d] = attempts[d]
OnlyRow(j) == rows' \in [JobIds -> Row] /\ \A i \in JobIds \ {j} : rows'[i] = rows[i]

LEMMA GotoMoves ==
  ASSUME TypeOK, NEW c \in ClientIds, NEW pc \in AttemptPcs, Goto(c, pc)
  PROVE  OnlyAttempt(c) /\ attempts'[c].pc = pc /\ attempts'[c].token = attempts[c].token
<1> DEFINE a == [attempts[c] EXCEPT !.pc = pc]
<1>1. a \in Attempt /\ a.pc = pc /\ a.token = attempts[c].token
  BY AttemptFacts DEF Attempt, AttemptPcs
<1>2. attempts' = [attempts EXCEPT ![c] = a]
  BY DEF Goto
<1> HIDE DEF a
<1> QED
  BY <1>1, <1>2 DEF OnlyAttempt, TypeOK

LEMMA RowMoves ==
  ASSUME TypeOK, NEW j \in JobIds, NEW r \in Row, rows' = [rows EXCEPT ![j] = r]
  PROVE  OnlyRow(j) /\ rows'[j] = r
BY DEF TypeOK, OnlyRow

LEMMA RendersGrow ==
  ASSUME Safe, HostSafe', Onward
  PROVE  \A c \in ClientIds : renders[c] >= 1 => renders'[c] >= 1
<1>1. \A c \in ClientIds : renders[c] \in Nat /\ renders'[c] \in Nat
  BY DEF HostSafe, HostTypeOK, Safe, TypeOK
<1> QED
  BY <1>1 DEF Onward

LEMMA TokenStays ==
  ASSUME Safe, Onward, NEW c \in ClientIds
  PROVE  \E t \in Tokens \cup {None} :
           /\ t = attempts[c].token
           /\ t # None => /\ records'[t].status # "absent"
                          /\ Known(t)' => records'[t].client = c
<1>1. PICK t \in Tokens \cup {None} : t = attempts[c].token
  BY AttemptFacts DEF Safe
<1>2. t # None => records[t].status # "absent" /\ (Known(t) => records[t].client = c)
  BY <1>1 DEF Safe, AttemptOK
<1>3. t # None => /\ records'[t].status # "absent"
                  /\ Known(t)' => records'[t].client = c
  BY <1>2 DEF Onward
<1> QED
  BY <1>1, <1>3

\* An attempt that the host's step says nothing of.
LEMMA AttemptStays ==
  ASSUME Safe, HostSafe', Onward, NEW c \in ClientIds, attempts'[c] = attempts[c],
         Owns(c)' => Owns(c) /\ RowOf(c).handle = RowOf(c)'.handle
  PROVE  AttemptOK(c)'
<1>1. AttemptOK(c) /\ attempts[c].token \in Tokens \cup {None}
  BY AttemptFacts DEF Safe
<1>2. renders[c] >= 1 => renders'[c] >= 1
  BY RendersGrow
<1>3. attempts[c].token # None =>
        /\ records'[attempts[c].token].status # "absent"
        /\ Known(attempts[c].token)' => records'[attempts[c].token].client = c
  BY <1>1 DEF AttemptOK, Onward
<1> QED
  BY <1>1, <1>2, <1>3 DEF AttemptOK, Known

\* What a step of one attempt, and of the host under it, has to show.
LEMMA OneAttempt ==
  ASSUME Safe, HostSafe', Onward, NEW c \in ClientIds, OnlyAttempt(c), OnlyRow(JobOf[c]),
         attempts'[c].token = attempts[c].token \/ attempts[c].token = None,
         \/ rows'[JobOf[c]] = rows[JobOf[c]]
         \/ rows'[JobOf[c]].owner = c /\ (Owns(c) \/ rows[JobOf[c]].status = "queued"),
         wire' \subseteq ClientIds, AttemptOK(c)', RowOK(JobOf[c])'
  PROVE  Safe'
<1>1. TypeOK'
  BY DEF HostSafe, TypeOK, OnlyAttempt, OnlyRow
<1>2. ASSUME NEW d \in ClientIds PROVE AttemptOK(d)'
  <2>1. CASE d # c
    <3>1. attempts'[d] = attempts[d] /\ JobOf[d] \in JobIds
      BY <2>1, JobOfFacts DEF OnlyAttempt
    <3>2. rows'[JobOf[d]] = rows[JobOf[d]] \/ rows'[JobOf[d]].owner = c
      BY <3>1 DEF OnlyRow
    <3>3. Owns(d)' => Owns(d) /\ RowOf(d).handle = RowOf(d)'.handle
      BY <2>1, <3>2 DEF Owns, RowOf
    <3> QED
      BY <3>1, <3>3, AttemptStays
  <2> QED
    BY <2>1
<1>3. ASSUME NEW j \in JobIds PROVE RowOK(j)'
  <2>1. CASE j # JobOf[c]
    <3>1. rows'[j] = rows[j] /\ RowOK(j)
      BY <2>1 DEF OnlyRow, Safe
    <3>2. rows[j].status = "running" => rows[j].owner # c
      BY <2>1, <3>1 DEF RowOK
    <3>3. rows[j].status = "done" => attempts'[rows[j].owner].token = attempts[rows[j].owner].token
      BY <3>1 DEF RowOK, OnlyAttempt
    <3>4. rows[j].status = "done" => renders'[rows[j].owner] >= 1
      BY <3>1, RendersGrow DEF RowOK
    <3>5. rows[j].status = "running" => attempts'[rows[j].owner] = attempts[rows[j].owner]
      BY <3>1, <3>2 DEF RowOK, OnlyAttempt
    <3> QED
      BY <3>1, <3>3, <3>4, <3>5 DEF RowOK
  <2> QED
    BY <2>1
<1> QED
  BY <1>1, <1>2, <1>3 DEF Safe

\* A row that its attempts leave alone.
LEMMA SameRow ==
  ASSUME Safe, HostSafe', Onward, NEW c \in ClientIds, OnlyAttempt(c), rows'[JobOf[c]] = rows[JobOf[c]],
         attempts'[c].token = attempts[c].token \/ attempts[c].token = None,
         attempts'[c].pc # "new",
         attempts'[c].pc \in {"open", "submit", "handle"} => attempts[c].pc \in {"new", "open", "submit", "handle"}
  PROVE  RowOK(JobOf[c])'
<1> DEFINE r == rows[JobOf[c]]
<1>1. RowOK(JobOf[c]) /\ JobOf[c] \in JobIds
  BY JobOfFacts DEF Safe
<1>2. \A d \in ClientIds : renders[d] >= 1 => renders'[d] >= 1
  BY RendersGrow
<1>3. r.status = "running" => r.owner \in ClientIds /\ attempts'[r.owner].pc # "new"
  BY <1>1 DEF RowOK, OnlyAttempt
<1>4. r.status = "running" /\ r.handle # None =>
        attempts'[r.owner].token = r.handle /\ attempts'[r.owner].pc \notin {"open", "submit", "handle"}
  BY <1>1 DEF RowOK, OnlyAttempt
<1>5. r.status = "done" => renders'[r.owner] >= 1 /\ r.handle = attempts'[r.owner].token
  BY <1>1, <1>2 DEF RowOK, OnlyAttempt
<1> QED
  BY <1>1, <1>3, <1>4, <1>5 DEF RowOK

\* The attempt goes on, and its row and its token are as they were.
LEMMA AttemptGoesOn ==
  ASSUME Safe, HostSafe', Onward, NEW c \in ClientIds, NEW pc \in AttemptPcs \ {"new"}, Goto(c, pc),
         UNCHANGED rows, wire' \subseteq ClientIds,
         pc \in {"open", "submit"} => attempts[c].pc \in {"new", "open", "submit"},
         pc \in Submitted => attempts[c].pc \in Submitted,
         pc = "handle" => attempts[c].pc = "handle",
         pc \in Recorded => attempts[c].pc \in Recorded,
         pc \in {"audio", "ack", "commit"} => renders'[c] >= 1
  PROVE  Safe'
<1>1. OnlyAttempt(c) /\ attempts'[c].pc = pc /\ attempts'[c].token = attempts[c].token
  BY GotoMoves DEF Safe
<1>2. OnlyRow(JobOf[c]) /\ rows'[JobOf[c]] = rows[JobOf[c]]
  BY DEF OnlyRow, Safe, TypeOK
<1>3. RowOK(JobOf[c])'
  BY <1>1, <1>2, SameRow
<1>4. AttemptOK(c) /\ attempts[c].token \in Tokens \cup {None}
  BY AttemptFacts DEF Safe
<1>5. PICK t \in Tokens \cup {None} :
        /\ t = attempts[c].token
        /\ t # None => /\ records'[t].status # "absent"
                       /\ Known(t)' => records'[t].client = c
  BY TokenStays
<1>6. Owns(c)' = Owns(c) /\ RowOf(c)' = RowOf(c)
  BY DEF Owns, RowOf
<1>7. AttemptOK(c)'
  BY <1>1, <1>4, <1>5, <1>6 DEF AttemptOK, Known
<1> QED
  BY <1>1, <1>2, <1>3, <1>7, OneAttempt

\* The attempt ends, and its row with it when it is still its own.
LEMMA SettledSafe ==
  ASSUME Safe, HostSafe', Onward, NEW c \in ClientIds, NEW status \in {"error", "done"},
         Settled(c, status), Goto(c, "end"), wire' \subseteq ClientIds,
         status = "done" => attempts[c].pc = "commit"
  PROVE  Safe'
<1>1. CASE ~Owns(c)
  <2>1. UNCHANGED rows
    BY <1>1 DEF Settled
  <2> QED
    BY <2>1, AttemptGoesOn DEF AttemptPcs, Submitted, Recorded
<1>2. CASE Owns(c)
  <2>1. PICK s \in {"cancelled", "error", "done"} : s = IF RowOf(c).cancel THEN "cancelled" ELSE status
    OBVIOUS
  <2> DEFINE r == [rows[JobOf[c]] EXCEPT !.status = s]
  <2>2. /\ r \in Row /\ r.status = s /\ r.owner = rows[JobOf[c]].owner
        /\ r.handle = rows[JobOf[c]].handle /\ JobOf[c] \in JobIds
    BY RowFacts, JobOfFacts DEF Row, Safe
  <2>3. rows' = [rows EXCEPT ![JobOf[c]] = r]
    BY <1>2, <2>1 DEF Settled
  <2> HIDE DEF r
  <2>4. OnlyRow(JobOf[c]) /\ rows'[JobOf[c]] = r
    BY <2>2, <2>3, RowMoves DEF Safe
  <2>5. OnlyAttempt(c) /\ attempts'[c].pc = "end" /\ attempts'[c].token = attempts[c].token
    BY GotoMoves DEF Safe, AttemptPcs
  <2>6. r.owner = c
    BY <1>2, <2>2 DEF Owns, RowOf
  <2>7. AttemptOK(c) /\ attempts[c].token \in Tokens \cup {None}
    BY AttemptFacts DEF Safe
  <2>8. PICK t \in Tokens \cup {None} :
          /\ t = attempts[c].token
          /\ t # None => /\ records'[t].status # "absent"
                         /\ Known(t)' => records'[t].client = c
    BY TokenStays
  <2>9. AttemptOK(c)'
    BY <2>5, <2>7, <2>8 DEF AttemptOK, Known, Submitted, Recorded
  <2>10. s = "done" => renders'[c] >= 1 /\ r.handle # None /\ r.handle = attempts[c].token
    <3>1. s = "done" => attempts[c].pc = "commit"
      BY <2>1
    <3>2. s = "done" => renders[c] >= 1 /\ r.handle # None /\ r.handle = attempts[c].token
      BY <1>2, <2>2, <2>7, <3>1 DEF AttemptOK, Submitted, Recorded, RowOf
    <3> QED
      BY <3>2, RendersGrow
  <2>11. RowOK(JobOf[c])'
    BY <2>2, <2>4, <2>5, <2>6, <2>10 DEF RowOK
  <2> QED
    BY <1>2, <2>4, <2>5, <2>6, <2>9, <2>11, OneAttempt
<1> QED
  BY <1>1, <1>2

\* The host moves alone.
LEMMA HostMoves ==
  ASSUME Safe, HostSafe', Onward, UNCHANGED <<rows, attempts>>, wire' \subseteq ClientIds
  PROVE  Safe'
<1>1. TypeOK'
  BY DEF HostSafe, Safe, TypeOK
<1>2. ASSUME NEW c \in ClientIds PROVE AttemptOK(c)'
  <2>1. Owns(c)' => Owns(c) /\ RowOf(c).handle = RowOf(c)'.handle
    BY DEF Owns, RowOf
  <2> QED
    BY <2>1, AttemptStays
<1>3. \A d \in ClientIds : renders[d] >= 1 => renders'[d] >= 1
  BY RendersGrow
<1>4. ASSUME NEW j \in JobIds PROVE RowOK(j)'
  BY <1>3 DEF Safe, RowOK
<1> QED
  BY <1>1, <1>2, <1>4 DEF Safe

LEMMA Wires ==
  ASSUME Safe
  PROVE  wire \subseteq ClientIds /\ (UNCHANGED wire => wire' \subseteq ClientIds) /\ HostSafe
BY DEF Safe, TypeOK

-----------------------------------------------------------------------------
(* The actions of the client, and of the queue around it *)

LEMMA ClaimSafe ==
  ASSUME Safe, NEW c \in ClientIds, Claim(c)
  PROVE  Safe'
<1>1. HostSafe' /\ Onward /\ wire' \subseteq ClientIds
  BY HostStays, Wires DEF Claim
<1> DEFINE r == [[rows[JobOf[c]] EXCEPT !.status = "running"] EXCEPT !.owner = c]
<1>2. /\ JobOf[c] \in JobIds /\ At(c, "new") /\ rows[JobOf[c]].status = "queued"
      /\ rows[JobOf[c]].handle = None
  <2>1. JobOf[c] \in JobIds
    BY JobOfFacts
  <2>2. At(c, "new") /\ rows[JobOf[c]].status = "queued"
    BY DEF Claim, RowOf
  <2>3. RowOK(JobOf[c])
    BY <2>1 DEF Safe
  <2> QED
    BY <2>1, <2>2, <2>3 DEF RowOK
<1>3. r \in Row /\ r.status = "running" /\ r.owner = c /\ r.handle = None
  <2>1. rows[JobOf[c]] \in Row
    BY <1>2 DEF Safe, TypeOK
  <2> QED
    BY <1>2, <2>1 DEF Row
<1>4. rows' = [rows EXCEPT ![JobOf[c]] = r]
  BY DEF Claim
<1> HIDE DEF r
<1>5. OnlyRow(JobOf[c]) /\ rows'[JobOf[c]] = r
  BY <1>2, <1>3, <1>4, RowMoves DEF Safe
<1>6. OnlyAttempt(c) /\ attempts'[c].pc = "open" /\ attempts'[c].token = attempts[c].token
  BY GotoMoves DEF Claim, Safe, AttemptPcs
<1>7. attempts[c].token = None
  BY <1>2 DEF Safe, AttemptOK, At
<1>8. AttemptOK(c)'
  BY <1>6, <1>7 DEF AttemptOK, Submitted, Recorded
<1>9. RowOK(JobOf[c])'
  BY <1>3, <1>5, <1>6 DEF RowOK
<1> QED
  BY <1>1, <1>2, <1>3, <1>5, <1>6, <1>8, <1>9, OneAttempt

\* A row moves without its attempts.
LEMMA OneRow ==
  ASSUME Safe, NEW j \in JobIds, NEW r \in Row, rows' = [rows EXCEPT ![j] = r],
         UNCHANGED <<hostVars, attempts, wire>>,
         r.handle = rows[j].handle,
         r.status = "running" => rows[j].status = "running" /\ r.owner = rows[j].owner,
         r.status = "queued" => r.handle = None, r.status # "done"
  PROVE  Safe'
<1>1. HostSafe' /\ Onward /\ wire' \subseteq ClientIds
  BY HostStays, Wires
<1>2. OnlyRow(j) /\ rows'[j] = r
  BY RowMoves DEF Safe
<1>3. TypeOK'
  BY <1>1, <1>2 DEF HostSafe, Safe, TypeOK, OnlyRow
<1>4. ASSUME NEW c \in ClientIds PROVE AttemptOK(c)'
  <2>1. JobOf[c] \in JobIds
    BY JobOfFacts
  <2>2. Owns(c)' => Owns(c) /\ RowOf(c).handle = RowOf(c)'.handle
    BY <1>2, <2>1 DEF Owns, RowOf, OnlyRow
  <2> QED
    BY <1>1, <2>2, AttemptStays
<1>5. ASSUME NEW i \in JobIds PROVE RowOK(i)'
  <2>1. RowOK(i) /\ \A d \in ClientIds : renders[d] >= 1 => renders'[d] >= 1
    BY <1>1, RendersGrow DEF Safe
  <2>2. CASE i = j
    BY <1>2, <2>1, <2>2 DEF RowOK
  <2>3. CASE i # j
    BY <1>2, <2>1, <2>3 DEF RowOK, OnlyRow
  <2> QED
    BY <2>2, <2>3
<1> QED
  BY <1>1, <1>3, <1>4, <1>5 DEF Safe

LEMMA CancelJobSafe ==
  ASSUME Safe, NEW j \in JobIds, CancelJob(j)
  PROVE  Safe'
<1>1. PICK s \in {"running", "cancelled"} :
        s = IF rows[j].status = "queued" THEN "cancelled" ELSE rows[j].status
  BY DEF CancelJob
<1> DEFINE r == [[rows[j] EXCEPT !.cancel = TRUE] EXCEPT !.status = s]
<1>2. /\ r \in Row /\ r.status = s /\ r.owner = rows[j].owner /\ r.handle = rows[j].handle
  BY <1>1, RowFacts DEF Safe, Row
<1>3. rows' = [rows EXCEPT ![j] = r] /\ UNCHANGED <<hostVars, attempts, wire>>
  BY <1>1 DEF CancelJob
<1> HIDE DEF r
<1> QED
  BY <1>1, <1>2, <1>3, OneRow

LEMMA ReclaimSafe ==
  ASSUME Safe, NEW j \in JobIds, Reclaim(j)
  PROVE  Safe'
<1>1. PICK s \in {"cancelled", "error", "queued"} :
        /\ rows' = [rows EXCEPT ![j].owner = None, ![j].status = s]
        /\ s = "queued" => rows[j].handle = None
  <2> DEFINE s == IF rows[j].cancel THEN "cancelled"
                  ELSE IF rows[j].handle # None \/ {c \in ClientIds : JobOf[c] = j /\ At(c, "new")} = {}
                  THEN "error" ELSE "queued"
  <2>1. rows' = [rows EXCEPT ![j].owner = None, ![j].status = s]
    BY DEF Reclaim
  <2>2. s \in {"cancelled", "error", "queued"} /\ (s = "queued" => rows[j].handle = None)
    OBVIOUS
  <2> QED
    BY <2>1, <2>2
<1> DEFINE r == [[rows[j] EXCEPT !.owner = None] EXCEPT !.status = s]
<1>2. /\ r \in Row /\ r.status = s /\ r.handle = rows[j].handle
  BY RowFacts DEF Safe, Row
<1>3. rows' = [rows EXCEPT ![j] = r] /\ UNCHANGED <<hostVars, attempts, wire>>
  BY <1>1 DEF Reclaim
<1> HIDE DEF r
<1> QED
  BY <1>1, <1>2, <1>3, OneRow

LEMMA CrashSafe ==
  ASSUME Safe, NEW c \in ClientIds, Crash(c)
  PROVE  Safe'
<1>1. HostSafe' /\ Onward /\ wire' \subseteq ClientIds
  BY HostStays, Wires DEF Crash
<1> QED
  BY <1>1, AttemptGoesOn DEF Crash, AttemptPcs, Submitted, Recorded

LEMMA FailSafe ==
  ASSUME Safe, NEW c \in ClientIds, Fail(c), UNCHANGED <<hostVars, wire>>
  PROVE  Safe'
<1>1. HostSafe' /\ Onward /\ wire' \subseteq ClientIds
  BY HostStays, Wires
<1> QED
  BY <1>1, SettledSafe DEF Fail

LEMMA OpenSafe ==
  ASSUME Safe, NEW c \in ClientIds, Open(c)
  PROVE  Safe'
<1>1. HostSafe' /\ Onward /\ wire' \subseteq ClientIds /\ At(c, "open")
  BY HostStays, Wires DEF Open
<1>2. CASE Fail(c)
  BY <1>2, FailSafe DEF Open
<1>3. CASE Goto(c, "submit") /\ UNCHANGED rows
  BY <1>1, <1>3, AttemptGoesOn DEF At, AttemptPcs, Waiting, Submitted, Recorded
<1> QED
  BY <1>2, <1>3 DEF Open

LEMMA WireSafe ==
  ASSUME Safe, NEW c \in ClientIds, Send(c) \/ Drop(c)
  PROVE  Safe'
<1>1. HostSafe' /\ Onward
  BY HostStays, Wires DEF Send, Drop
<1>2. wire' \subseteq ClientIds /\ UNCHANGED <<rows, attempts>>
  BY Wires DEF Send, Drop
<1> QED
  BY <1>1, <1>2, HostMoves

\* The token of a reply is the attempt's own.
LEMMA ReplySafe ==
  ASSUME Safe, HostSafe', Onward, NEW c \in ClientIds, NEW t \in Tokens, Reply(c, t),
         records'[t].status # "absent", records'[t].client = c,
         UNCHANGED rows, wire' \subseteq ClientIds
  PROVE  Safe'
<1>1. CASE UNCHANGED attempts
  BY <1>1, HostMoves
<1>2. CASE At(c, "submit") /\ attempts' = [attempts EXCEPT ![c] = [pc |-> "handle", token |-> t]]
  <2> DEFINE a == [pc |-> "handle", token |-> t]
  <2>1. a \in Attempt /\ a.pc = "handle" /\ a.token = t
    BY DEF Attempt, Waiting
  <2>2. attempts' = [attempts EXCEPT ![c] = a]
    BY <1>2
  <2> HIDE DEF a
  <2>3. OnlyAttempt(c) /\ attempts'[c].pc = "handle" /\ attempts'[c].token = t
    BY <2>1, <2>2 DEF OnlyAttempt, Safe, TypeOK
  <2>4. attempts[c].token = None /\ attempts[c].pc = "submit"
    BY <1>2 DEF Safe, AttemptOK, At
  <2>5. OnlyRow(JobOf[c]) /\ rows'[JobOf[c]] = rows[JobOf[c]]
    BY DEF OnlyRow, Safe, TypeOK
  <2>6. RowOK(JobOf[c])'
    BY <2>3, <2>4, <2>5, SameRow
  <2>7. t # None
    BY Absent
  <2>8. AttemptOK(c)'
    BY <2>3, <2>7 DEF AttemptOK, Submitted, Recorded
  <2> QED
    BY <2>3, <2>4, <2>5, <2>6, <2>8, OneAttempt
<1> QED
  BY <1>1, <1>2 DEF Reply

LEMMA DeliverSafe ==
  ASSUME Safe, NEW c \in ClientIds, Deliver(c)
  PROVE  Safe'
<1>1. CASE DeliverAgain(c)
  <2>1. SubmitAgain(c) /\ UNCHANGED rows /\ wire' \subseteq ClientIds
    BY <1>1, Wires DEF DeliverAgain
  <2>2. HostSafe' /\ Onward
    BY <2>1, SubmitOldSafe, Wires
  <2>3. PICK t \in Tokens : t = clientTokens[c] /\ t \notin Prunable
    BY <2>1 DEF SubmitAgain, Existing, Safe, TypeOK, HostTypeOK
  <2>4. Known(t) /\ records[t].client = c
    BY <2>3, Absent DEF Safe, HostSafe, IndexOK
  <2>5. records'[t] = records[t]
    BY <2>1, <2>3 DEF SubmitAgain, Forget
  <2>6. Reply(c, t)
    BY <1>1, <2>3 DEF DeliverAgain
  <2> QED
    BY <2>1, <2>2, <2>4, <2>5, <2>6, ReplySafe DEF Known
<1>2. CASE DeliverFull(c)
  <2>1. SubmitFull(c) /\ UNCHANGED <<rows, attempts>> /\ wire' \subseteq ClientIds
    BY <1>2, Wires DEF DeliverFull
  <2> QED
    BY <2>1, SubmitOldSafe, Wires, HostMoves
<1>3. ASSUME NEW t \in Tokens, DeliverNew(c, t) PROVE Safe'
  <2>1. SubmitNew(c, t) /\ Reply(c, t) /\ UNCHANGED rows /\ wire' \subseteq ClientIds
    BY <1>3, Wires DEF DeliverNew
  <2>2. HostSafe' /\ Onward /\ records'[t].status = "queued" /\ records'[t].client = c
    BY <2>1, SubmitNewSafe, Wires
  <2> QED
    BY <2>1, <2>2, ReplySafe
<1> QED
  BY <1>1, <1>2, <1>3 DEF Deliver

LEMMA RecordHandleSafe ==
  ASSUME Safe, NEW c \in ClientIds, RecordHandle(c)
  PROVE  Safe'
<1>1. HostSafe' /\ Onward /\ wire' \subseteq ClientIds /\ UNCHANGED hostVars
  BY HostStays, Wires DEF RecordHandle
<1>2. attempts[c].pc = "handle" /\ attempts[c].token \in Tokens
  BY AttemptFacts DEF RecordHandle, At, Safe, AttemptOK, Submitted
<1>3. CASE ~Owns(c)
  BY <1>1, <1>2, <1>3, AttemptGoesOn DEF RecordHandle, AttemptPcs, Submitted, Recorded
<1>4. CASE Owns(c)
  <2> DEFINE r == [rows[JobOf[c]] EXCEPT !.handle = attempts[c].token]
  <2>1. /\ JobOf[c] \in JobIds /\ r \in Row /\ r.status = "running" /\ r.owner = c
        /\ r.handle = attempts[c].token
    BY <1>2, <1>4, JobOfFacts, RowFacts DEF Safe, Row, Owns, RowOf
  <2>2. rows' = [rows EXCEPT ![JobOf[c]] = r] /\ Goto(c, "poll")
    BY <1>4 DEF RecordHandle
  <2> HIDE DEF r
  <2>3. OnlyRow(JobOf[c]) /\ rows'[JobOf[c]] = r
    BY <2>1, <2>2, RowMoves DEF Safe
  <2>4. OnlyAttempt(c) /\ attempts'[c].pc = "poll" /\ attempts'[c].token = attempts[c].token
    BY <2>2, GotoMoves DEF Safe, AttemptPcs, Waiting
  <2>5. PICK t \in Tokens \cup {None} :
          /\ t = attempts[c].token
          /\ t # None => /\ records'[t].status # "absent"
                         /\ Known(t)' => records'[t].client = c
    BY <1>1, TokenStays
  <2>6. AttemptOK(c)'
    <3>1. RowOf(c)'.handle = attempts[c].token
      BY <2>1, <2>3 DEF RowOf
    <3> QED
      BY <1>2, <2>4, <2>5, <3>1, Absent DEF AttemptOK, Known
  <2>7. RowOK(JobOf[c])'
    BY <2>1, <2>3, <2>4 DEF RowOK
  <2> QED
    BY <1>1, <1>4, <2>1, <2>3, <2>4, <2>6, <2>7, OneAttempt
<1> QED
  BY <1>3, <1>4

\* An attempt at the host's records asks for its own.
LEMMA WaitFacts ==
  ASSUME Safe, NEW c \in ClientIds, attempts[c].pc \in Submitted
  PROVE  /\ attempts[c].token \in Tokens /\ HostSafe
         /\ Known(attempts[c].token) => records[attempts[c].token].client = c
BY AttemptFacts DEF Safe, AttemptOK

LEMMA PollSafe ==
  ASSUME Safe, NEW c \in ClientIds, Poll(c)
  PROVE  Safe'
<1>1. attempts[c].pc = "poll" /\ UNCHANGED wire /\ Status(attempts[c].token)
  BY DEF Poll, At
<1>2. PICK t \in Tokens : t = attempts[c].token /\ (Known(t) => records[t].client = c)
  BY <1>1, WaitFacts DEF Submitted
<1>3. HostSafe' /\ Onward /\ wire' \subseteq ClientIds
  BY <1>1, <1>2, StatusSafe, Wires
<1>4. CASE records[t].status = "done" /\ records[t].result
  <2>1. Goto(c, "audio") /\ UNCHANGED rows
    BY <1>2, <1>4 DEF Poll
  <2>2. renders'[c] >= 1
    <3>1. Known(t)
      BY <1>4 DEF Known
    <3>2. renders[c] >= 1
      BY <1>2, <1>4, <3>1 DEF Safe, HostSafe, ResultsOK
    <3> QED
      BY <1>3, <3>2, RendersGrow
  <2> QED
    BY <1>1, <1>3, <2>1, <2>2, AttemptGoesOn DEF AttemptPcs, Waiting, Submitted, Recorded
<1>5. CASE ~(records[t].status = "done" /\ records[t].result)
  <2>1. Fail(c) \/ ((Goto(c, "ask") \/ Goto(c, "poll")) /\ UNCHANGED rows)
    BY <1>2, <1>5 DEF Poll
  <2>2. CASE Fail(c)
    BY <1>3, <2>2, SettledSafe DEF Fail
  <2>3. CASE (Goto(c, "ask") \/ Goto(c, "poll")) /\ UNCHANGED rows
    BY <1>1, <1>3, <2>3, AttemptGoesOn DEF AttemptPcs, Waiting, Submitted, Recorded
  <2> QED
    BY <2>1, <2>2, <2>3
<1> QED
  BY <1>4, <1>5

LEMMA PollLostSafe ==
  ASSUME Safe, NEW c \in ClientIds, PollLost(c)
  PROVE  Safe'
<1>1. attempts[c].token \in Tokens
  BY WaitFacts DEF PollLost, At, Submitted
<1> QED
  BY <1>1, StatusSafe, Wires, HostMoves DEF PollLost

LEMMA AskCancelSafe ==
  ASSUME Safe, NEW c \in ClientIds, AskCancel(c)
  PROVE  Safe'
<1>1. attempts[c].pc = "ask" /\ attempts[c].token \in Tokens
  BY WaitFacts DEF AskCancel, At, Submitted
<1>2. HostSafe' /\ Onward /\ wire' \subseteq ClientIds
  BY <1>1, CancelSafe, HostStays, Wires DEF AskCancel
<1> QED
  BY <1>1, <1>2, AttemptGoesOn DEF AskCancel, AttemptPcs, Waiting, Submitted, Recorded

LEMMA DownloadSafe ==
  ASSUME Safe, NEW c \in ClientIds, Download(c)
  PROVE  Safe'
<1>1. HostSafe' /\ Onward /\ wire' \subseteq ClientIds /\ attempts[c].pc = "audio"
  BY HostStays, Wires DEF Download, At
<1>2. renders'[c] >= 1
  BY <1>1, RendersGrow DEF Safe, AttemptOK
<1>3. CASE Goto(c, "ack") /\ UNCHANGED rows
  BY <1>1, <1>2, <1>3, AttemptGoesOn DEF AttemptPcs, Waiting, Submitted, Recorded
<1>4. CASE Fail(c)
  BY <1>4, FailSafe DEF Download
<1> QED
  BY <1>3, <1>4 DEF Download

LEMMA AcknowledgeSafe ==
  ASSUME Safe, NEW c \in ClientIds, Acknowledge(c)
  PROVE  Safe'
<1>1. attempts[c].pc = "ack" /\ attempts[c].token \in Tokens
  BY WaitFacts DEF Acknowledge, At, Submitted
<1>2. HostSafe' /\ Onward /\ wire' \subseteq ClientIds
  BY <1>1, AckSafe, HostStays, Wires DEF Acknowledge
<1>3. renders'[c] >= 1
  BY <1>1, <1>2, RendersGrow DEF Safe, AttemptOK
<1> QED
  BY <1>1, <1>2, <1>3, AttemptGoesOn DEF Acknowledge, AttemptPcs, Submitted, Recorded

LEMMA CommitSafe ==
  ASSUME Safe, NEW c \in ClientIds, Commit(c)
  PROVE  Safe'
<1>1. HostSafe' /\ Onward /\ wire' \subseteq ClientIds /\ attempts[c].pc = "commit"
  BY HostStays, Wires DEF Commit, At
<1> QED
  BY <1>1, SettledSafe DEF Commit, Finish

-----------------------------------------------------------------------------
(* The theorems *)

LEMMA InitSafe == Init => Safe
<1> SUFFICES ASSUME Init PROVE Safe
  OBVIOUS
<1>1. \A t \in Tokens : records[t].status = "absent"
  BY NoRecordFacts DEF Init, HostInit
<1>2. thread \in Thread /\ thread.pc = "startup" /\ thread.token = None
  BY NoTokenFacts DEF Init, HostInit
<1>3. queue = <<>> /\ queue \in Seq(Tokens) /\ Len(queue) = 0
  BY DEF Init, HostInit
<1>4. HostTypeOK
  BY <1>2, <1>3, NoRecordFacts, HostAssumption DEF Init, HostInit, HostTypeOK
<1>5. IndexOK /\ QueueOK /\ ThreadOK /\ ResultsOK
  BY <1>1, <1>2, <1>3 DEF Init, HostInit, IndexOK, QueueOK, ThreadOK, ResultsOK, Known, Working
<1>6. TypeOK
  BY <1>4 DEF Init, TypeOK, Row, Attempt
<1>7. ASSUME NEW c \in ClientIds PROVE AttemptOK(c)
  BY DEF Init, AttemptOK, Submitted, Recorded
<1>8. ASSUME NEW j \in JobIds PROVE RowOK(j)
  BY DEF Init, RowOK
<1> QED
  BY <1>4, <1>5, <1>6, <1>7, <1>8 DEF Safe, HostSafe

LEMMA NextSafe == Safe /\ [Next]_vars => Safe'
<1> SUFFICES ASSUME Safe, [Next]_vars PROVE Safe'
  OBVIOUS
<1>1. ASSUME NEW c \in ClientIds, RunJob(c) PROVE Safe'
  <2>1. CASE PollUnknown(c)
    BY <2>1, FailSafe DEF PollUnknown
  <2> QED
    BY <1>1, <2>1, OpenSafe, WireSafe, RecordHandleSafe, PollSafe, AskCancelSafe, DownloadSafe,
       AcknowledgeSafe, CommitSafe DEF RunJob
<1>2. ASSUME NEW c \in ClientIds, ClientStep(c) PROVE Safe'
  <2>1. CASE GiveUpSubmit(c) \/ GiveUpPoll(c)
    BY <2>1, FailSafe DEF GiveUpSubmit, GiveUpPoll
  <2> QED
    BY <1>1, <1>2, <2>1, DeliverSafe, ClaimSafe, WireSafe, PollLostSafe, CrashSafe DEF ClientStep
<1>3. ASSUME NEW j \in JobIds, CancelJob(j) \/ Reclaim(j) PROVE Safe'
  BY <1>3, CancelJobSafe, ReclaimSafe
<1>4. ASSUME NEW t \in Tokens, TtlPasses(t) PROVE Safe'
  BY <1>4, AgeSafe, Wires, HostMoves DEF TtlPasses
<1>5. CASE HostThread
  BY <1>5, JobThreadSafe, Wires, HostMoves DEF HostThread
<1>6. CASE HostRestart
  BY <1>6, RestartSafe, Wires, HostMoves DEF HostRestart
<1>7. CASE UNCHANGED vars
  <2>1. UNCHANGED hostVars /\ UNCHANGED <<rows, attempts, wire>>
    BY <1>7 DEF vars, hostVars
  <2> QED
    BY <2>1, HostStays, Wires, HostMoves
<1> QED
  BY <1>2, <1>3, <1>4, <1>5, <1>6, <1>7 DEF Next

LEMMA AlwaysSafe == Spec => []Safe
BY InitSafe, NextSafe, PTL DEF Spec

\* Types, of every submission, record, attempt and row.
THEOREM RenderTyped == Spec => []TypeOK
<1>1. Safe => TypeOK
  BY DEF Safe
<1> QED
  BY <1>1, AlwaysSafe, PTL

\* The handle on a running row is its owner's, and a job that ends done was
\* rendered for its owner under the handle on the row, through lost and repeated
\* submissions, restarts of the host and reclaims.
THEOREM HandleNamesItsAttempt == Spec => []HandleIsOwn
<1>1. ASSUME Safe PROVE HandleIsOwn
  <2> SUFFICES ASSUME NEW j \in JobIds
               PROVE  /\ rows[j].handle # None /\ rows[j].status = "running" =>
                           attempts[rows[j].owner].token = rows[j].handle
                      /\ rows[j].status = "done" =>
                           \E c \in ClientIds : /\ rows[j].owner = c /\ renders[c] >= 1
                                                /\ rows[j].handle = attempts[c].token
    BY DEF HandleIsOwn
  <2>1. RowOK(j)
    BY <1>1 DEF Safe
  <2> QED
    BY <2>1 DEF RowOK
<1> QED
  BY <1>1, AlwaysSafe, PTL

\* Only the job thread starts a render.
LEMMA WhoRenders ==
  ASSUME Next
  PROVE  UNCHANGED renders \/ StartRender
<1>1. ASSUME NEW c \in ClientIds, ClientStep(c) PROVE UNCHANGED renders
  BY <1>1 DEF ClientStep, RunJob, Deliver, DeliverAgain, DeliverFull, DeliverNew, Claim, Drop, PollLost,
     Crash, GiveUpSubmit, GiveUpPoll, Open, Send, RecordHandle, PollUnknown, Poll, AskCancel, Download,
     Acknowledge, Commit, SubmitAgain, SubmitFull, SubmitNew, Status, Cancel, Ack, hostVars
<1>2. ASSUME NEW j \in JobIds, CancelJob(j) \/ Reclaim(j) PROVE UNCHANGED renders
  BY <1>2 DEF CancelJob, Reclaim, hostVars
<1>3. ASSUME NEW t \in Tokens, TtlPasses(t) PROVE UNCHANGED renders
  BY <1>3 DEF TtlPasses, Age
<1>4. HostThread => UNCHANGED renders \/ StartRender
  BY DEF HostThread, JobThread, Startup, Pick, SkipCanceled, Rendered, RenderRaises, FinishStatus,
     FinishError
<1>5. HostRestart => UNCHANGED renders
  BY DEF HostRestart, Restart
<1> QED
  BY <1>1, <1>2, <1>3, <1>4, <1>5 DEF Next

\* What is rendered is the one record the index has for the client id, and it
\* is not cancelled.
LEMMA StartOnce ==
  ASSUME Safe, StartRender, NEW c \in ClientIds, renders'[c] > renders[c],
         NEW t \in Tokens, records[t].client = c, Known(t)
  PROVE  t = thread.token /\ ~records[t].cancel
<1>1. PICK u \in Tokens : u = thread.token /\ records[u].status = "queued" /\ ~records[u].cancel
  BY DEF StartRender, Safe, HostSafe, ThreadOK
<1>2. records[u].client = c
  <2>1. renders \in [ClientIds -> Nat]
    BY DEF Safe, TypeOK, HostTypeOK
  <2>2. renders' = [renders EXCEPT ![records[u].client] = @ + 1]
    BY <1>1 DEF StartRender
  <2> QED
    BY <2>1, <2>2
<1>3. Known(u)
  BY <1>1 DEF Known
<1>4. clientTokens[c] = t /\ clientTokens[c] = u
  BY <1>2, <1>3 DEF Safe, HostSafe, IndexOK
<1> QED
  BY <1>1, <1>4

\* A submission is rendered once while the host knows of it, and never once a
\* cancel of it was accepted before it started.
THEOREM SubmissionsRenderOnce == Spec => RenderedOnce
<1> DEFINE Once == \A c \in ClientIds : renders'[c] > renders[c] =>
                     \A t \in Tokens : records[t].client = c /\ Known(t) =>
                       t = thread.token /\ ~records[t].cancel
<1>1. ASSUME Safe, Next PROVE Once
  <2>1. \A c \in ClientIds : renders[c] \in Nat
    BY <1>1 DEF Safe, TypeOK, HostTypeOK
  <2>2. CASE UNCHANGED renders
    BY <2>1, <2>2
  <2>3. CASE StartRender
    BY <1>1, <2>3, StartOnce
  <2> QED
    BY <1>1, <2>2, <2>3, WhoRenders
<1>2. Safe /\ [Next]_vars => [Once]_vars
  BY <1>1
<1> QED
  BY <1>2, AlwaysSafe, PTL DEF Spec, RenderedOnce

-----------------------------------------------------------------------------
(* What a step of the host may forget *)

Kept(t) == records[t].status # "gone" => records'[t].status # "gone"

LEMMA SubmitKeeps ==
  ASSUME HostTypeOK, NEW t \in Tokens, t \notin Prunable, NEW c \in ClientIds,
         NEW u \in Tokens, SubmitAgain(c) \/ SubmitFull(c) \/ SubmitNew(c, u)
  PROVE  Kept(t)
<1>1. CASE SubmitAgain(c) \/ SubmitFull(c)
  <2>1. records'[t] = records[t]
    BY <1>1 DEF SubmitAgain, SubmitFull, Forget
  <2> QED
    BY <2>1 DEF Kept
<1>2. CASE SubmitNew(c, u)
  <2>1. records'[t] = records[t] \/ records'[t] = NewRecord(c)
    BY <1>2 DEF SubmitNew
  <2> QED
    BY <2>1, NewRecordFacts DEF Kept
<1> QED
  BY <1>1, <1>2

LEMMA HandlersKeep ==
  ASSUME HostTypeOK, NEW t \in Tokens, NEW u \in Tokens,
         \/ Status(u)
         \/ Cancel(u)
         \/ Age(u)
         \/ Ack(u) /\ u # t
         \/ UNCHANGED hostVars
  PROVE  Kept(t)
<1>1. records \in [Tokens -> Record]
  BY DEF HostTypeOK
<1>2. CASE Status(u)
  BY <1>1, <1>2 DEF Status, Kept
<1>3. CASE Cancel(u)
  BY <1>1, <1>3 DEF Cancel, Kept
<1>4. CASE Age(u)
  BY <1>1, <1>4 DEF Age, Kept
<1>5. CASE Ack(u) /\ u # t
  BY <1>1, <1>5 DEF Ack, Forget, Kept
<1>6. CASE UNCHANGED hostVars
  BY <1>6 DEF hostVars, Kept
<1> QED
  BY <1>2, <1>3, <1>4, <1>5, <1>6

LEMMA ThreadKeeps ==
  ASSUME HostTypeOK, NEW t \in Tokens, JobThread
  PROVE  Kept(t)
<1>1. records \in [Tokens -> Record]
  BY DEF HostTypeOK
<1>2. CASE Startup \/ Pick \/ SkipCanceled \/ RenderRaises
  BY <1>2 DEF Startup, Pick, SkipCanceled, RenderRaises, Kept
<1>3. CASE StartRender
  BY <1>1, <1>3 DEF StartRender, Kept
<1>4. CASE Rendered
  <2>1. UNCHANGED records \/ records' = [records EXCEPT ![thread.token].result = TRUE]
    BY <1>4 DEF Rendered
  <2>2. records[t] \in Record
    BY RecordFacts
  <2>3. CASE records' = [records EXCEPT ![thread.token].result = TRUE]
    <3>1. records'[t] = IF t = thread.token THEN [records[t] EXCEPT !.result = TRUE] ELSE records[t]
      BY <1>1, <2>3
    <3>2. [records[t] EXCEPT !.result = TRUE].status = records[t].status
      BY <2>2 DEF Record
    <3> QED
      BY <3>1, <3>2 DEF Kept
  <2> QED
    BY <2>1, <2>3 DEF Kept
<1>5. CASE FinishStatus
  BY <1>1, <1>5 DEF FinishStatus, Kept
<1>6. CASE FinishError
  BY <1>1, <1>6 DEF FinishError, Kept
<1> QED
  BY <1>2, <1>3, <1>4, <1>5, <1>6 DEF JobThread

\* No step but a restart forgets an unexpired record its attempt still waits for:
\* another attempt acknowledges another record.
LEMMA WantedKept ==
  ASSUME Safe, Next, ~Restart, NEW c \in ClientIds, NEW t \in Tokens, t = attempts[c].token,
         attempts[c].pc \in {"handle", "poll", "ask", "audio"}, Known(t), ~records[t].old
  PROVE  Kept(t)
<1>1. HostTypeOK /\ t \notin Prunable /\ records[t].client = c
  BY WaitFacts DEF HostSafe, Prunable, Submitted
<1>2. ASSUME NEW d \in ClientIds, ClientStep(d) PROVE Kept(t)
  <2>1. CASE Acknowledge(d)
    <3>1. attempts[d].pc = "ack" /\ attempts[d].token \in Tokens
      BY <2>1, WaitFacts DEF Acknowledge, At, Submitted
    <3>2. attempts[d].token # t
      <4>1. d # c
        BY <3>1
      <4>2. attempts[d].token = t => records[t].client = d
        BY <3>1, WaitFacts DEF Submitted
      <4> QED
        BY <1>1, <4>1, <4>2
    <3> QED
      BY <1>1, <2>1, <3>1, <3>2, HandlersKeep DEF Acknowledge
  <2>2. CASE Poll(d) \/ PollLost(d) \/ AskCancel(d)
    <3>1. attempts[d].token \in Tokens
      BY <2>2, WaitFacts DEF Poll, PollLost, AskCancel, At, Submitted
    <3> QED
      BY <1>1, <2>2, <3>1, HandlersKeep DEF Poll, PollLost, AskCancel
  <2>3. CASE Deliver(d)
    BY <1>1, <2>3, SubmitKeeps DEF Deliver, DeliverAgain, DeliverFull, DeliverNew
  <2>4. CASE UNCHANGED hostVars
    BY <1>1, <2>4, HandlersKeep
  <2> QED
    BY <1>2, <2>1, <2>2, <2>3, <2>4 DEF ClientStep, RunJob, Claim, Drop, Crash, GiveUpSubmit, GiveUpPoll,
       Open, Send, RecordHandle, PollUnknown, Download, Commit
<1>3. ASSUME NEW j \in JobIds, CancelJob(j) \/ Reclaim(j) PROVE Kept(t)
  BY <1>1, <1>3, HandlersKeep DEF CancelJob, Reclaim
<1>4. ASSUME NEW u \in Tokens, TtlPasses(u) PROVE Kept(t)
  BY <1>1, <1>4, HandlersKeep DEF TtlPasses
<1>5. HostThread => Kept(t)
  BY <1>1, ThreadKeeps DEF HostThread
<1>6. ~HostRestart
  BY DEF HostRestart
<1> QED
  BY <1>2, <1>3, <1>4, <1>5, <1>6 DEF Next

\* A result is not taken from an attempt that still waits for it by another
\* submission's pruning or another attempt's acknowledgement.
THEOREM ResultsWaitForTheirAttempt == Spec => WantedResultKept
<1> DEFINE Wanted == ~Restart => \A c \in ClientIds :
             LET t == attempts[c].token
             IN attempts[c].pc \in {"handle", "poll", "ask", "audio"} /\ Known(t) /\ ~records[t].old
                  => records'[t].status # "gone"
<1>1. ASSUME Safe, Next PROVE Wanted
  <2> SUFFICES ASSUME ~Restart, NEW c \in ClientIds, NEW t, t = attempts[c].token,
                      attempts[c].pc \in {"handle", "poll", "ask", "audio"}, Known(t), ~records[t].old
               PROVE  records'[t].status # "gone"
    OBVIOUS
  <2>1. t \in Tokens
    BY <1>1, WaitFacts DEF Submitted
  <2>2. Kept(t)
    BY <1>1, <2>1, WantedKept
  <2> QED
    BY <2>2 DEF Kept, Known
<1>2. Safe /\ [Next]_vars => [Wanted]_vars
  BY <1>1
<1> QED
  BY <1>2, AlwaysSafe, PTL DEF Spec, WantedResultKept
=============================================================================
