-------------------------- MODULE SongRequestsProofs --------------------------
(* The safety properties of SongRequests, proved for every set of calls,    *)
(* keys and bodies, any number of faults and any number of repeats.         *)
EXTENDS SongRequests, TLAPS

-----------------------------------------------------------------------------
(* Sequences: rows and projects are only ever added, or changed in place *)

LEMMA AppendFacts ==
  ASSUME NEW S, NEW s \in Seq(S), NEW e \in S
  PROVE  LET t == Append(s, e) IN
         /\ t \in Seq(S) /\ Len(t) = Len(s) + 1 /\ Len(s) + 1 \notin DOMAIN s
         /\ DOMAIN t = DOMAIN s \cup {Len(s) + 1}
         /\ t[Len(s) + 1] = e /\ \A i \in DOMAIN s : t[i] = s[i]
OBVIOUS

LEMMA SequenceFacts ==
  ASSUME NEW S, NEW s \in Seq(S)
  PROVE  /\ Len(s) \in Nat /\ DOMAIN s = 1 .. Len(s) /\ \A i \in DOMAIN s : s[i] \in S
         /\ \A t : t \in [DOMAIN s -> S] => t \in Seq(S) /\ Len(t) = Len(s) /\ DOMAIN t = DOMAIN s
OBVIOUS

LEMMA ConcatFacts ==
  ASSUME NEW S, NEW s \in Seq(S), NEW e \in S
  PROVE  s \o <<>> = s /\ s \o <<e>> = Append(s, e)
OBVIOUS

-----------------------------------------------------------------------------
(* Types *)

LEMMA CallFacts ==
  ASSUME TypeOK, NEW c \in Calls
  PROVE  /\ call[c] \in Call /\ call[c].outcome \in Answer /\ call[c].heard \in Answer
         /\ call[c].project \in 0 .. Len(projects) /\ call[c].project \in Nat
         /\ call[c].outcome.job \in 0 .. Len(jobs) /\ call[c].heard.job \in 0 .. Len(jobs)
         /\ Key(c) \in Keys /\ BodyOf[c] \in Body /\ keys[Key(c)] \in KeyRow
         /\ BodyOf[c].kind \in {"song", "job"}
BY PostAssumption DEF TypeOK, Call, Key, Body

LEMMA KeyFacts ==
  ASSUME TypeOK, NEW k \in Keys
  PROVE  /\ keys[k] \in KeyRow /\ keys[k].epoch \in Nat /\ keys[k].old \in BOOLEAN
         /\ keys[k].answer \in Answer /\ Unused(keys[k].epoch + 1) \in KeyRow
         /\ keys[k].state = "none" => keys[k] = Unused(keys[k].epoch)
BY DEF TypeOK, KeyRow, Unused, Answer, NoAnswer

LEMMA LogFacts ==
  ASSUME TypeOK
  PROVE  /\ Len(jobs) \in Nat /\ DOMAIN jobs = 1 .. Len(jobs)
         /\ \A j \in DOMAIN jobs : jobs[j] \in JobRow /\ jobs[j].by \in Calls
                                   /\ jobs[j].project \in Nat \ {0} /\ jobs[j].epoch \in Nat
         /\ Len(projects) \in Nat /\ DOMAIN projects = 1 .. Len(projects)
         /\ \A p \in DOMAIN projects : projects[p] \in Project
<1>1. jobs \in Seq(JobRow) /\ projects \in Seq(Project)
  BY DEF TypeOK
<1>2. \A r \in JobRow : r.by \in Calls /\ r.project \in Nat \ {0} /\ r.epoch \in Nat
  BY DEF JobRow
<1> QED
  BY <1>1, <1>2, SequenceFacts

LEMMA ConstantTypes ==
  /\ NoAnswer \in Answer /\ Rejected \in Answer /\ Broken \in Answer
  /\ \A j \in Nat : Accepted(j) \in Answer
  /\ Resting \in Call
BY DEF NoAnswer, Rejected, Broken, Accepted, Resting, Answer, Call, Pcs

\* One call moves and the others stay.
OnlyCall(c) == call' \in [Calls -> Call] /\ \A d \in Calls \ {c} : call'[d] = call[d]

LEMMA CallMoves ==
  ASSUME TypeOK, NEW c \in Calls, NEW q \in Call, call' = [call EXCEPT ![c] = q]
  PROVE  OnlyCall(c) /\ call'[c] = q
BY DEF OnlyCall, TypeOK

LEMMA GotoMoves ==
  ASSUME TypeOK, NEW c \in Calls, NEW pc \in Pcs, Goto(c, pc)
  PROVE  /\ OnlyCall(c) /\ call'[c].pc = pc /\ call'[c].project = call[c].project
         /\ call'[c].outcome = call[c].outcome /\ call'[c].heard = call[c].heard
<1> DEFINE q == [call[c] EXCEPT !.pc = pc]
<1>1. /\ q \in Call /\ q.pc = pc /\ q.project = call[c].project
      /\ q.outcome = call[c].outcome /\ q.heard = call[c].heard
  BY CallFacts DEF Call
<1>2. call' = [call EXCEPT ![c] = q]
  BY DEF Goto
<1> HIDE DEF q
<1> QED
  BY <1>1, <1>2, CallMoves

LEMMA OutcomeMoves ==
  ASSUME TypeOK, NEW c \in Calls, NEW pc \in Pcs, NEW a \in Answer, Outcome(c, pc, a)
  PROVE  /\ OnlyCall(c) /\ call'[c].pc = pc /\ call'[c].project = call[c].project
         /\ call'[c].outcome = a /\ call'[c].heard = call[c].heard
<1> DEFINE q == [[call[c] EXCEPT !.pc = pc] EXCEPT !.outcome = a]
<1>1. /\ q \in Call /\ q.pc = pc /\ q.project = call[c].project
      /\ q.outcome = a /\ q.heard = call[c].heard
  BY CallFacts DEF Call
<1>2. call' = [call EXCEPT ![c] = q]
  BY DEF Outcome
<1> HIDE DEF q
<1> QED
  BY <1>1, <1>2, CallMoves

LEMMA RestMoves ==
  ASSUME TypeOK, NEW c \in Calls, NEW a \in Answer,
         call' = [call EXCEPT ![c] = [Resting EXCEPT !.heard = a]]
  PROVE  /\ OnlyCall(c) /\ call'[c].pc = "rest" /\ call'[c].project = 0
         /\ call'[c].outcome = NoAnswer /\ call'[c].heard = a
<1> DEFINE q == [Resting EXCEPT !.heard = a]
<1>1. q \in Call /\ q.pc = "rest" /\ q.project = 0 /\ q.outcome = NoAnswer /\ q.heard = a
  BY ConstantTypes DEF Call, Resting
<1> HIDE DEF q
<1> QED
  BY <1>1, CallMoves DEF q

LEMMA ProjectMoves ==
  ASSUME TypeOK, NEW c \in Calls, NEW pc \in Pcs, NEW p \in Nat,
         call' = [call EXCEPT ![c].pc = pc, ![c].project = p]
  PROVE  /\ OnlyCall(c) /\ call'[c].pc = pc /\ call'[c].project = p
         /\ call'[c].outcome = call[c].outcome /\ call'[c].heard = call[c].heard
<1> DEFINE q == [[call[c] EXCEPT !.pc = pc] EXCEPT !.project = p]
<1>1. /\ q \in Call /\ q.pc = pc /\ q.project = p
      /\ q.outcome = call[c].outcome /\ q.heard = call[c].heard
  BY CallFacts DEF Call
<1>2. call' = [call EXCEPT ![c] = q]
  OBVIOUS
<1> HIDE DEF q
<1> QED
  BY <1>1, <1>2, CallMoves

LEMMA FailedMoves ==
  ASSUME TypeOK, NEW c \in Calls, NEW a \in {Rejected, Broken}, Failed(c, a)
  PROVE  /\ OnlyCall(c) /\ call'[c].project = call[c].project
         /\ call'[c].outcome = a /\ call'[c].heard = call[c].heard
         /\ Is(c, "song") => call'[c].pc = "undo"
         /\ ~Is(c, "song") => call'[c].pc \in {"raise", "reply"}
         /\ ~Is(c, "song") /\ a = Broken => call'[c].pc = "raise"
<1> DEFINE pc == IF Is(c, "song") THEN "undo" ELSE IF a = Broken THEN "raise" ELSE "reply"
<1>1. pc \in Pcs /\ a \in Answer /\ Outcome(c, pc, a)
  BY ConstantTypes DEF Failed, Pcs
<1>2. /\ Is(c, "song") => pc = "undo"
      /\ ~Is(c, "song") => pc \in {"raise", "reply"}
      /\ ~Is(c, "song") /\ a = Broken => pc = "raise"
  OBVIOUS
<1> HIDE DEF pc
<1> QED
  BY <1>1, <1>2, OutcomeMoves

\* The rows of the keys name jobs that exist, as the calls do.
KeysTyped ==
  /\ keys \in [Keys -> KeyRow]
  /\ \A k \in Keys : /\ keys[k].state = "none" => keys[k] = Unused(keys[k].epoch)
                     /\ keys[k].answer.job \in 0 .. Len(jobs)
Typed == TypeOK /\ KeysTyped

\* A step of one call, which lets the logs only grow.
LEMMA CallTyped ==
  ASSUME Typed, NEW c \in Calls, OnlyCall(c), KeysTyped',
         projects' \in Seq(Project), jobs' \in Seq(JobRow), faults' \in 0 .. MaxFaults,
         Len(projects) <= Len(projects'), Len(jobs) <= Len(jobs'),
         call'[c].project \in 0 .. Len(projects'),
         call'[c].outcome.job \in 0 .. Len(jobs'), call'[c].heard.job \in 0 .. Len(jobs')
  PROVE  Typed'
<1>0. /\ \A p \in 0 .. Len(projects) : p \in 0 .. Len(projects')
      /\ \A j \in 0 .. Len(jobs) : j \in 0 .. Len(jobs')
  <2>1. Len(jobs) \in Nat /\ Len(projects) \in Nat /\ Len(jobs') \in Nat /\ Len(projects') \in Nat
    BY SequenceFacts DEF Typed, TypeOK
  <2> QED
    BY <2>1
<1>1. \A d \in Calls \ {c} : /\ call'[d].project \in 0 .. Len(projects')
                             /\ call'[d].outcome.job \in 0 .. Len(jobs')
                             /\ call'[d].heard.job \in 0 .. Len(jobs')
  BY <1>0 DEF Typed, TypeOK, OnlyCall
<1>2. call' \in [Calls -> Call]
  BY DEF OnlyCall
<1>3. keys' \in [Keys -> KeyRow] /\ \A k \in Keys : keys'[k].state = "none" => keys'[k] = Unused(keys'[k].epoch)
  BY DEF KeysTyped
<1>4. TypeOK'
  BY <1>1, <1>2, <1>3 DEF TypeOK
<1> QED
  BY <1>4 DEF Typed

LEMMA QuietTyped ==
  ASSUME Typed, NEW c \in Calls, OnlyCall(c), UNCHANGED <<keys, projects, jobs>>,
         faults' \in 0 .. MaxFaults, call'[c].project \in 0 .. Len(projects),
         call'[c].outcome.job \in 0 .. Len(jobs), call'[c].heard.job \in 0 .. Len(jobs)
  PROVE  Typed'
BY CallTyped, LogFacts DEF Typed, TypeOK, KeysTyped

LEMMA FaultTyped ==
  ASSUME Typed, NEW kind, Fault(kind) \/ UNCHANGED faults
  PROVE  faults' \in 0 .. MaxFaults
BY PostAssumption DEF Typed, TypeOK, Fault

LEMMA FinishMoves ==
  ASSUME Typed, NEW c \in Calls, Finish(c)
  PROVE  /\ OnlyCall(c) /\ call'[c].pc = "rest" /\ call'[c].project = 0
         /\ call'[c].outcome = NoAnswer /\ call'[c].heard = call[c].heard
BY CallFacts, RestMoves DEF Finish, Typed

LEMMA NoJob == NoAnswer.job = 0 /\ Rejected.job = 0 /\ Broken.job = 0
BY DEF NoAnswer, Rejected, Broken

\* A key whose row is purged is free, for longer than any job under it.
LEMMA PurgedFacts ==
  ASSUME Typed, NEW k \in Keys
  PROVE  /\ Purged[k] \in KeyRow /\ (Purged[k].state = "none" => Purged[k] = Unused(Purged[k].epoch))
         /\ keys[k].old => Purged[k] = Unused(keys[k].epoch + 1)
         /\ ~keys[k].old => Purged[k] = keys[k]
         /\ Purged[k].answer.job \in 0 .. Len(jobs)
         /\ Unused(keys[k].epoch + 1).state = "none" /\ Unused(keys[k].epoch + 1).answer = NoAnswer
         /\ Unused(keys[k].epoch + 1).epoch = keys[k].epoch + 1
         /\ ~Unused(keys[k].epoch + 1).old
<1>1. /\ Unused(keys[k].epoch + 1).state = "none" /\ Unused(keys[k].epoch + 1).answer = NoAnswer
      /\ Unused(keys[k].epoch + 1).epoch = keys[k].epoch + 1
      /\ ~Unused(keys[k].epoch + 1).old
  BY DEF Unused
<1>2. 0 \in 0 .. Len(jobs)
  BY LogFacts DEF Typed
<1>3. CASE keys[k].old
  BY <1>1, <1>2, <1>3, KeyFacts, NoJob DEF Purged, Typed
<1>4. CASE ~keys[k].old
  BY <1>1, <1>4, KeyFacts DEF Purged, Typed, KeysTyped
<1> QED
  BY <1>1, <1>3, <1>4

\* The row a request reserves.
LEMMA ReservedFacts ==
  ASSUME Typed, NEW c \in Calls, Purged[Key(c)].state = "none", keys' = Reserved(c)
  PROVE  LET row == keys'[Key(c)] IN
         /\ row \in KeyRow /\ row.state = "pending" /\ row.body = BodyOf[c] /\ row.by = c
         /\ row.answer = NoAnswer /\ ~row.old /\ row.epoch = Purged[Key(c)].epoch
         /\ \A k \in Keys \ {Key(c)} : keys'[k] = Purged[k]
         /\ keys' \in [Keys -> KeyRow]
<1> DEFINE old == Purged[Key(c)]
           row == [old EXCEPT !.state = "pending", !.body = BodyOf[c], !.by = c]
<1>1. old \in KeyRow /\ old.answer = NoAnswer /\ ~old.old
  <2>1. \A n : Unused(n).answer = NoAnswer /\ ~Unused(n).old
    BY DEF Unused
  <2>2. Key(c) \in Keys
    BY CallFacts DEF Typed
  <2> QED
    BY <2>1, <2>2, PurgedFacts
<1>2. /\ row \in KeyRow /\ row.state = "pending" /\ row.body = BodyOf[c] /\ row.by = c
      /\ row.answer = NoAnswer /\ ~row.old /\ row.epoch = old.epoch
  BY <1>1, CallFacts DEF KeyRow, Typed
<1>3. keys' = [Purged EXCEPT ![Key(c)] = row] /\ Key(c) \in Keys
  BY CallFacts DEF Reserved, Typed
<1>4. Purged \in [Keys -> KeyRow]
  BY PurgedFacts DEF Purged
<1> HIDE DEF row, old
<1> QED
  BY <1>2, <1>3, <1>4 DEF old

\* The row a request inserts, the last of the log.
LEMMA InsertFacts ==
  ASSUME Typed, NEW c \in Calls, call[c].project \in DOMAIN projects, Insert(c)
  PROVE  LET n == Len(jobs) + 1 IN
         /\ OnlyCall(c) /\ call'[c].pc = "inserted" /\ call'[c].project = call[c].project
         /\ call'[c].outcome = Accepted(n) /\ call'[c].heard = call[c].heard
         /\ jobs' \in Seq(JobRow) /\ Len(jobs') = n /\ DOMAIN jobs' = DOMAIN jobs \cup {n}
         /\ n \notin DOMAIN jobs /\ \A i \in DOMAIN jobs : jobs'[i] = jobs[i]
         /\ jobs'[n].project = call[c].project /\ jobs'[n].by = c
         /\ jobs'[n].epoch = keys[Key(c)].epoch /\ jobs'[n].status = "queued"
<1> DEFINE n == Len(jobs) + 1
           row == [project |-> call[c].project, status |-> "queued", by |-> c,
                   epoch |-> keys[Key(c)].epoch]
<1>1. /\ row \in JobRow /\ row.project = call[c].project /\ row.by = c
      /\ row.epoch = keys[Key(c)].epoch /\ row.status = "queued"
  BY CallFacts, KeyFacts, LogFacts DEF Typed, JobRow
<1>2. n \in Nat /\ Accepted(n) \in Answer /\ "inserted" \in Pcs /\ jobs \in Seq(JobRow)
  BY LogFacts, ConstantTypes DEF Typed, Pcs, TypeOK
<1>3. jobs' = Append(jobs, row) /\ Outcome(c, "inserted", Accepted(n))
  BY DEF Insert
<1> HIDE DEF row
<1>4. /\ jobs' \in Seq(JobRow) /\ Len(jobs') = n /\ DOMAIN jobs' = DOMAIN jobs \cup {n}
      /\ n \notin DOMAIN jobs /\ (\A i \in DOMAIN jobs : jobs'[i] = jobs[i]) /\ jobs'[n] = row
  BY <1>1, <1>2, <1>3, AppendFacts
<1>5. /\ OnlyCall(c) /\ call'[c].pc = "inserted" /\ call'[c].project = call[c].project
      /\ call'[c].outcome = Accepted(n) /\ call'[c].heard = call[c].heard
  BY <1>2, <1>3, OutcomeMoves DEF Typed
<1> QED
  BY <1>1, <1>4, <1>5


-----------------------------------------------------------------------------
(* What each step of a request does to its call, field by field *)

Moves(c, pc, p, a, h) ==
  /\ OnlyCall(c) /\ call'[c].pc = pc /\ call'[c].project = p
  /\ call'[c].outcome = a /\ call'[c].heard = h
FailsWith(c, a) ==
  \E pc \in {"undo", "raise", "reply"} :
    /\ Moves(c, pc, call[c].project, a, call[c].heard)
    /\ Is(c, "song") <=> pc = "undo"
    /\ a = Broken => pc # "reply"
Fails(c) == \E a \in {Rejected, Broken} : FailsWith(c, a)

LEMMA ReserveSteps ==
  ASSUME Typed, NEW c \in Calls, Reserve(c)
  PROVE  /\ call[c].pc = "rest" /\ call[c].heard = NoAnswer /\ UNCHANGED <<projects, jobs, faults>>
         /\ \/ /\ Purged[Key(c)].state = "none" /\ keys' = Reserved(c)
               /\ \/ Is(c, "song") /\ Moves(c, "create", 0, call[c].outcome, call[c].heard)
                  \/ ~Is(c, "song") /\ \E p \in DOMAIN projects :
                       Moves(c, "enqueue", p, call[c].outcome, call[c].heard)
            \/ \E a \in Answer :
                 /\ Moves(c, "answer", call[c].project, a, call[c].heard) /\ UNCHANGED keys
                 /\ \/ a = Rejected
                    \/ /\ keys[Key(c)].state = "done" /\ keys[Key(c)].body = BodyOf[c]
                       /\ a = keys[Key(c)].answer
            \/ UNCHANGED <<keys, call>>
<1> DEFINE row == Purged[Key(c)]
<1>1. call[c].pc = "rest" /\ call[c].heard = NoAnswer /\ UNCHANGED <<projects, jobs, faults>>
  BY DEF Reserve, Waits, At
<1>2. CASE keys' = Reserved(c) /\ row.state = "none" /\ Begin(c)
  <2>1. PICK p \in IF Is(c, "song") THEN {0} ELSE DOMAIN projects :
          call' = [call EXCEPT ![c].pc = IF Is(c, "song") THEN "create" ELSE "enqueue",
                               ![c].project = p]
    BY <1>2 DEF Begin
  <2>2. p \in Nat
    BY LogFacts DEF Typed
  <2> DEFINE pc == IF Is(c, "song") THEN "create" ELSE "enqueue"
  <2>3. pc \in Pcs /\ call' = [call EXCEPT ![c].pc = pc, ![c].project = p]
    BY <2>1 DEF Pcs
  <2>4. Is(c, "song") => pc = "create" /\ p = 0
    OBVIOUS
  <2>5. ~Is(c, "song") => pc = "enqueue" /\ p \in DOMAIN projects
    OBVIOUS
  <2> HIDE DEF pc
  <2>6. Moves(c, pc, p, call[c].outcome, call[c].heard)
    BY <2>2, <2>3, ProjectMoves DEF Typed, Moves
  <2> QED
    BY <1>1, <1>2, <2>4, <2>5, <2>6
<1>3. ASSUME row.state # "none", NEW a \in {row.answer, Rejected}, Outcome(c, "answer", a), UNCHANGED keys,
             a # Rejected => row.state = "done" /\ row.body = BodyOf[c]
      PROVE  \E b \in Answer :
               /\ Moves(c, "answer", call[c].project, b, call[c].heard) /\ UNCHANGED keys
               /\ \/ b = Rejected
                  \/ /\ keys[Key(c)].state = "done" /\ keys[Key(c)].body = BodyOf[c]
                     /\ b = keys[Key(c)].answer
  <2>1. row = keys[Key(c)] /\ row.answer \in Answer /\ "answer" \in Pcs /\ a \in Answer
    BY <1>3, CallFacts, KeyFacts, PurgedFacts, ConstantTypes DEF Typed, Pcs
  <2>2. Moves(c, "answer", call[c].project, a, call[c].heard)
    BY <1>3, <2>1, OutcomeMoves DEF Typed, Moves
  <2> QED
    BY <1>3, <2>1, <2>2
<1>4. CASE row.state # "none" /\ row.body # BodyOf[c] /\ Outcome(c, "answer", Rejected) /\ UNCHANGED keys
  BY <1>1, <1>3, <1>4
<1>5. CASE row.state = "done" /\ row.body = BodyOf[c] /\ Outcome(c, "answer", row.answer) /\ UNCHANGED keys
  BY <1>1, <1>3, <1>5
<1> QED
  BY <1>1, <1>2, <1>4, <1>5 DEF Reserve

LEMMA ReplySteps ==
  ASSUME Typed, NEW c \in Calls, Reply(c)
  PROVE  /\ UNCHANGED <<keys, projects, jobs>>
         /\ \E h \in {call[c].outcome, NoAnswer} :
              \/ call[c].pc = "reply" /\ Moves(c, "store", call[c].project, call[c].outcome, h)
              \/ call[c].pc = "answer" /\ Moves(c, "rest", 0, NoAnswer, h)
<1>1. PICK h \in {call[c].outcome, NoAnswer} :
        call' = [call EXCEPT ![c] = IF At(c, "reply")
                      THEN [@ EXCEPT !.pc = "store", !.heard = h]
                      ELSE [Resting EXCEPT !.heard = h]]
  BY DEF Reply
<1>2. h \in Answer /\ call[c] \in Call /\ TypeOK
  BY CallFacts, ConstantTypes DEF Typed
<1>3. UNCHANGED <<keys, projects, jobs>> /\ (call[c].pc = "reply" \/ call[c].pc = "answer")
  BY DEF Reply, At
<1>4. CASE call[c].pc = "reply"
  <2> DEFINE q == [call[c] EXCEPT !.pc = "store", !.heard = h]
  <2>1. /\ q \in Call /\ q.project = call[c].project /\ q.outcome = call[c].outcome
        /\ q.heard = h /\ q.pc = "store"
    BY <1>2 DEF Call, Pcs
  <2>2. call' = [call EXCEPT ![c] = q]
    BY <1>1, <1>4 DEF At
  <2> HIDE DEF q
  <2> QED
    BY <1>2, <1>3, <1>4, <2>1, <2>2, CallMoves DEF Moves
<1>5. CASE call[c].pc = "answer"
  <2>1. call' = [call EXCEPT ![c] = [Resting EXCEPT !.heard = h]]
    BY <1>1, <1>5 DEF At
  <2>2. Moves(c, "rest", 0, NoAnswer, h)
    BY <1>2, <2>1, RestMoves DEF Moves
  <2> QED
    BY <1>3, <1>5, <2>2
<1> QED
  BY <1>3, <1>4, <1>5

LEMMA StoreSteps ==
  ASSUME Typed, NEW c \in Calls, Store(c)
  PROVE  /\ call[c].pc = "store" /\ UNCHANGED <<projects, jobs>>
         /\ \/ /\ Moves(c, "rest", 0, NoAnswer, call[c].heard)
               /\ keys' \in [Keys -> KeyRow]
               /\ \A k \in Keys \ {Key(c)} : keys'[k] = keys[k]
               /\ keys[Key(c)].state # "pending" => keys'[Key(c)] = keys[Key(c)]
               /\ keys[Key(c)].state = "pending" =>
                    LET row == keys[Key(c)] new == keys'[Key(c)] IN
                    /\ new.state = "done" /\ new.answer = call[c].outcome /\ new.body = row.body
                    /\ new.by = row.by /\ new.epoch = row.epoch /\ (new.old <=> row.old)
            \/ Moves(c, "raise", call[c].project, call[c].outcome, call[c].heard) /\ UNCHANGED keys
<1>0. Key(c) \in Keys /\ keys \in [Keys -> KeyRow] /\ call[c].outcome \in Answer
  BY CallFacts DEF Typed, KeysTyped
<1>1. call[c].pc = "store" /\ UNCHANGED <<projects, jobs>>
  BY DEF Store, At
<1>2. CASE Fault("db") /\ Goto(c, "raise") /\ UNCHANGED keys
  <2>1. "raise" \in Pcs
    BY DEF Pcs
  <2> QED
    BY <1>1, <1>2, <2>1, GotoMoves DEF Typed, Moves
<1>3. CASE Finish(c) /\ keys' = [keys EXCEPT ![Key(c)] = IF @.state # "pending" THEN @
                                   ELSE [@ EXCEPT !.state = "done", !.answer = call[c].outcome]]
  <2> DEFINE row == keys[Key(c)]
             new == [row EXCEPT !.state = "done", !.answer = call[c].outcome]
             put == IF row.state # "pending" THEN row ELSE new
  <2>1. /\ new.state = "done" /\ new.answer = call[c].outcome /\ new.body = row.body
        /\ new.by = row.by /\ new.epoch = row.epoch /\ (new.old <=> row.old)
        /\ new \in KeyRow /\ put \in KeyRow
    BY <1>0 DEF KeyRow
  <2>2. keys' = [keys EXCEPT ![Key(c)] = put]
    BY <1>3
  <2> HIDE DEF put
  <2>3. /\ keys' \in [Keys -> KeyRow] /\ keys'[Key(c)] = put
        /\ \A k \in Keys \ {Key(c)} : keys'[k] = keys[k]
    BY <1>0, <2>1, <2>2
  <2>4. Moves(c, "rest", 0, NoAnswer, call[c].heard)
    BY <1>3, FinishMoves DEF Moves
  <2>5. (row.state # "pending" => put = row) /\ (row.state = "pending" => put = new)
    BY DEF put
  <2> HIDE DEF new
  <2> QED
    BY <1>1, <2>1, <2>3, <2>4, <2>5
<1> QED
  BY <1>2, <1>3 DEF Store

LEMMA RaiseSteps ==
  ASSUME Typed, NEW c \in Calls, Raise(c)
  PROVE  /\ call[c].pc = "raise" /\ UNCHANGED <<projects, jobs>>
         /\ Moves(c, "rest", 0, NoAnswer, call[c].heard) /\ keys' \in [Keys -> KeyRow]
         /\ \A k \in Keys \ {Key(c)} : keys'[k] = keys[k]
         /\ keys[Key(c)].state # "pending" => keys'[Key(c)] = keys[Key(c)]
         /\ keys[Key(c)].state = "pending" => keys'[Key(c)] = Unused(keys[Key(c)].epoch + 1)
<1>0. Key(c) \in Keys /\ keys \in [Keys -> KeyRow]
  BY CallFacts DEF Typed, KeysTyped
<1>1. call[c].pc = "raise" /\ UNCHANGED <<projects, jobs>> /\ Finish(c)
  BY DEF Raise, At
<1>2. Moves(c, "rest", 0, NoAnswer, call[c].heard)
  BY <1>1, FinishMoves DEF Moves
<1> DEFINE row == keys[Key(c)]
           new == IF row.state # "pending" THEN row ELSE Unused(row.epoch + 1)
<1>3. keys' = [keys EXCEPT ![Key(c)] = new]
  BY DEF Raise
<1>4. (row.state # "pending" => new = row) /\ (row.state = "pending" => new = Unused(row.epoch + 1))
  OBVIOUS
<1>5. new \in KeyRow
  BY <1>0, <1>4, KeyFacts DEF Typed
<1> HIDE DEF new
<1> QED
  BY <1>0, <1>1, <1>2, <1>3, <1>4, <1>5

LEMMA FailedSteps ==
  ASSUME Typed, NEW c \in Calls, NEW a \in {Rejected, Broken}, Failed(c, a)
  PROVE  FailsWith(c, a)
<1>1. CASE Is(c, "song")
  BY <1>1, FailedMoves DEF Typed, FailsWith, Moves
<1>2. CASE ~Is(c, "song")
  BY <1>2, FailedMoves DEF Typed, FailsWith, Moves
<1> QED
  BY <1>1, <1>2

LEMMA CreateSteps ==
  ASSUME Typed, NEW c \in Calls, Create(c)
  PROVE  /\ call[c].pc = "create" /\ UNCHANGED <<keys, jobs>>
         /\ DOMAIN projects \subseteq DOMAIN projects'
         /\ \A p \in DOMAIN projects : projects'[p] = projects[p]
         /\ projects' \in Seq(Project) /\ Len(projects) <= Len(projects')
         /\ \/ LET n == Len(projects) + 1 IN
               /\ Moves(c, "plan", n, call[c].outcome, call[c].heard)
               /\ DOMAIN projects' = DOMAIN projects \cup {n} /\ n \notin DOMAIN projects
               /\ n <= Len(projects')
            \/ /\ Moves(c, "raise", call[c].project, Broken, call[c].heard)
               /\ \A p \in DOMAIN projects' : projects'[p].state = "there" => p \in DOMAIN projects
<1> DEFINE made == [state |-> "there", tombstone |-> FALSE]
           left == [state |-> "left", tombstone |-> FALSE]
           n == Len(projects) + 1
<1>0. /\ made \in Project /\ left \in Project /\ left.state = "left"
      /\ n \in Nat /\ "plan" \in Pcs /\ "raise" \in Pcs /\ Broken \in Answer
      /\ projects \in Seq(Project) /\ TypeOK /\ Len(projects) \in Nat
  BY LogFacts, ConstantTypes DEF Project, Pcs, Typed, TypeOK
<1>1. call[c].pc = "create" /\ UNCHANGED <<keys, jobs>>
  BY DEF Create, At
<1>2. CASE /\ projects' = Append(projects, made)
           /\ call' = [call EXCEPT ![c].pc = "plan", ![c].project = n]
  <2> HIDE DEF made, n
  <2>1. Moves(c, "plan", n, call[c].outcome, call[c].heard)
    BY <1>0, <1>2, ProjectMoves DEF Moves
  <2>2. /\ DOMAIN projects' = DOMAIN projects \cup {n} /\ n \notin DOMAIN projects
        /\ \A p \in DOMAIN projects : projects'[p] = projects[p]
        /\ projects' \in Seq(Project) /\ Len(projects') = n
    BY <1>0, <1>2, AppendFacts DEF n
  <2> QED
    BY <1>0, <1>1, <2>1, <2>2 DEF n
<1>3. CASE /\ Outcome(c, "raise", Broken)
           /\ \E m \in {<<>>, <<left>>} : projects' = projects \o m
  <2> HIDE DEF left
  <2>1. Moves(c, "raise", call[c].project, Broken, call[c].heard)
    BY <1>0, <1>3, OutcomeMoves DEF Moves
  <2>2. projects' = projects \/ projects' = Append(projects, left)
    BY <1>0, <1>3, ConcatFacts
  <2>3. /\ DOMAIN projects \subseteq DOMAIN projects'
        /\ \A p \in DOMAIN projects : projects'[p] = projects[p]
        /\ \A p \in DOMAIN projects' : projects'[p].state = "there" => p \in DOMAIN projects
        /\ projects' \in Seq(Project) /\ Len(projects) <= Len(projects')
    BY <1>0, <2>2, AppendFacts
  <2> QED
    BY <1>1, <2>1, <2>3
<1> QED
  BY <1>2, <1>3 DEF Create

LEMMA WritePlanSteps ==
  ASSUME Typed, NEW c \in Calls, WritePlan(c)
  PROVE  /\ call[c].pc = "plan" /\ UNCHANGED <<keys, projects, jobs>>
         /\ \/ Moves(c, "enqueue", call[c].project, call[c].outcome, call[c].heard)
            \/ Fails(c)
<1>1. "enqueue" \in Pcs
  BY DEF Pcs
<1>2. CASE Goto(c, "enqueue")
  BY <1>1, <1>2, GotoMoves DEF Typed, Moves, WritePlan, At
<1>3. CASE Failed(c, Rejected) \/ Failed(c, Broken)
  BY <1>3, FailedSteps DEF WritePlan, At, Fails
<1> QED
  BY <1>2, <1>3 DEF WritePlan

Inserts(c) ==
  LET n == Len(jobs) + 1 IN
  /\ Moves(c, "inserted", call[c].project, Accepted(n), call[c].heard)
  /\ call[c].project \in DOMAIN projects /\ SameSubmission(c) = {}
  /\ jobs' \in Seq(JobRow) /\ Len(jobs') = n
  /\ DOMAIN jobs' = DOMAIN jobs \cup {n} /\ n \notin DOMAIN jobs
  /\ \A i \in DOMAIN jobs : jobs'[i] = jobs[i]
  /\ jobs'[n].project = call[c].project /\ jobs'[n].by = c /\ jobs'[n].epoch = keys[Key(c)].epoch

LEMMA EnqueueSteps ==
  ASSUME Typed, NEW c \in Calls, Enqueue(c)
  PROVE  /\ call[c].pc = "enqueue" /\ UNCHANGED <<keys, projects>>
         /\ \/ Inserts(c)
            \/ /\ UNCHANGED jobs
               /\ \E j \in SameSubmission(c) :
                    /\ BodyOf[jobs[j].by] = BodyOf[c]
                    /\ Moves(c, "inserted", call[c].project, Accepted(j), call[c].heard)
            \/ UNCHANGED jobs /\ Fails(c)
<1>1. call[c].pc = "enqueue" /\ UNCHANGED <<keys, projects>>
  BY DEF Enqueue, At
<1>2. CASE call[c].project \in Visible /\ SameSubmission(c) = {} /\ Insert(c)
  <2>1. call[c].project \in DOMAIN projects
    BY <1>2 DEF Visible
  <2> QED
    BY <1>1, <1>2, <2>1, InsertFacts DEF Inserts, Moves
<1>3. ASSUME NEW j \in SameSubmission(c), BodyOf[jobs[j].by] = BodyOf[c], Outcome(c, "inserted", Accepted(j))
      PROVE  Moves(c, "inserted", call[c].project, Accepted(j), call[c].heard)
  <2>1. Accepted(j) \in Answer /\ "inserted" \in Pcs
    BY LogFacts, ConstantTypes DEF SameSubmission, Typed, Pcs
  <2> QED
    BY <1>3, <2>1, OutcomeMoves DEF Typed, Moves
<1>4. CASE (Failed(c, Rejected) \/ Failed(c, Broken)) /\ UNCHANGED jobs
  BY <1>1, <1>4, FailedSteps DEF Fails
<1>5. CASE /\ call[c].project \in Visible
           /\ \E j \in SameSubmission(c) :
                 IF BodyOf[jobs[j].by] = BodyOf[c] THEN Outcome(c, "inserted", Accepted(j))
                 ELSE Failed(c, Rejected)
           /\ UNCHANGED jobs
  BY <1>1, <1>3, <1>4, <1>5
<1> QED
  BY <1>2, <1>4, <1>5 DEF Enqueue

LEMMA ReadSteps ==
  ASSUME Typed, NEW c \in Calls, GetJob(c) \/ ReadJob(c)
  PROVE  /\ UNCHANGED <<keys, projects, jobs>>
         /\ \/ /\ call[c].pc = "inserted"
               /\ \/ Moves(c, "read", call[c].project, call[c].outcome, call[c].heard)
                  \/ FailsWith(c, Broken)
            \/ /\ call[c].pc = "read"
               /\ \/ Moves(c, "reply", call[c].project, call[c].outcome, call[c].heard)
                  \/ Moves(c, "raise", call[c].project, Broken, call[c].heard)
<1>1. {"read", "reply", "raise"} \subseteq Pcs /\ Broken \in Answer
  BY ConstantTypes DEF Pcs
<1>2. CASE GetJob(c)
  <2>1. CASE Goto(c, "read")
    BY <1>1, <1>2, <2>1, GotoMoves DEF GetJob, Typed, Moves, At
  <2>2. CASE Failed(c, Broken)
    BY <1>2, <2>2, FailedSteps DEF GetJob, At
  <2> QED
    BY <1>2, <2>1, <2>2 DEF GetJob
<1>3. CASE ReadJob(c)
  <2>1. CASE Goto(c, "reply")
    BY <1>1, <1>3, <2>1, GotoMoves DEF ReadJob, Typed, Moves, At
  <2>2. CASE Outcome(c, "raise", Broken)
    BY <1>1, <1>3, <2>2, OutcomeMoves DEF ReadJob, Typed, Moves, At
  <2> QED
    BY <1>3, <2>1, <2>2 DEF ReadJob
<1> QED
  BY <1>2, <1>3

LEMMA UndoSteps ==
  ASSUME Typed, NEW c \in Calls, Undo(c)
  PROVE  /\ call[c].pc = "undo" /\ UNCHANGED <<keys, jobs>>
         /\ projects' \in Seq(Project) /\ Len(projects') = Len(projects) /\ DOMAIN projects' = DOMAIN projects
         /\ \A p \in DOMAIN projects \ {call[c].project} : projects'[p] = projects[p]
         /\ \A p \in DOMAIN projects : projects'[p].state = "there" => p # call[c].project
         /\ \/ /\ call[c].project \notin Visible'
               /\ \E pc \in {"raise", "reply"} :
                    /\ Moves(c, pc, call[c].project, call[c].outcome, call[c].heard)
                    /\ call[c].outcome = Broken => pc = "raise"
            \/ call[c].project \notin Visible' /\ Moves(c, "reply", call[c].project, Rejected, call[c].heard)
            \/ Moves(c, "raise", call[c].project, Broken, call[c].heard)
<1> DEFINE p == call[c].project
           As(state) == [projects[p] EXCEPT !.state = state]
<1>0. /\ {"reply", "raise"} \subseteq Pcs /\ Rejected \in Answer /\ projects \in Seq(Project)
      /\ DOMAIN projects = 1 .. Len(projects)
  BY LogFacts, ConstantTypes DEF Pcs, Typed, TypeOK
<1>1. call[c].pc = "undo" /\ UNCHANGED <<keys, jobs>>
  BY DEF Undo, At
<1>4. ASSUME NEW state \in {"left", "gone"}, p \in Visible, projects' = [projects EXCEPT ![p].state = state]
      PROVE  /\ projects' \in Seq(Project) /\ Len(projects') = Len(projects) /\ DOMAIN projects' = DOMAIN projects
             /\ \A r \in DOMAIN projects \ {p} : projects'[r] = projects[r]
             /\ projects'[p].state = state
  <2>1. p \in DOMAIN projects
    BY <1>4 DEF Visible
  <2>2. As(state) \in Project /\ As(state).state = state
    BY <2>1, LogFacts DEF Typed, Project
  <2>3. projects' = [projects EXCEPT ![p] = As(state)]
    BY <1>4
  <2> HIDE DEF As
  <2>4. /\ projects' \in [DOMAIN projects -> Project] /\ projects'[p] = As(state)
        /\ \A r \in DOMAIN projects \ {p} : projects'[r] = projects[r]
    BY <1>0, <2>1, <2>2, <2>3, SequenceFacts
  <2> QED
    BY <1>0, <2>2, <2>4, SequenceFacts
<1>5. ASSUME p \notin Visible, UNCHANGED projects
      PROVE  /\ projects' \in Seq(Project) /\ Len(projects') = Len(projects) /\ DOMAIN projects' = DOMAIN projects
             /\ \A r \in DOMAIN projects : projects'[r] = projects[r]
             /\ \A r \in DOMAIN projects : projects'[r].state = "there" => r # p
             /\ p \notin Visible'
  BY <1>0, <1>5 DEF Visible
<1>2. CASE p \in Visible /\ projects' = [projects EXCEPT ![p].state = "gone"] /\
           Goto(c, IF call[c].outcome = Broken THEN "raise" ELSE "reply")
  <2> DEFINE pc == IF call[c].outcome = Broken THEN "raise" ELSE "reply"
  <2>1. pc \in {"raise", "reply"} /\ (call[c].outcome = Broken => pc = "raise") /\ Goto(c, pc)
    BY <1>2
  <2> HIDE DEF pc
  <2>2. Moves(c, pc, p, call[c].outcome, call[c].heard)
    BY <1>0, <2>1, GotoMoves DEF Typed, Moves
  <2>3. projects'[p].state = "gone"
    BY <1>2, <1>4
  <2>4. p \notin Visible'
    BY <2>3 DEF Visible
  <2> QED
    BY <1>1, <1>2, <1>4, <2>1, <2>2, <2>3, <2>4
<1>3. CASE p \notin Visible /\ Outcome(c, "reply", Rejected) /\ UNCHANGED projects
  <2>1. Moves(c, "reply", p, Rejected, call[c].heard)
    BY <1>0, <1>3, OutcomeMoves DEF Typed, Moves
  <2> QED
    BY <1>1, <1>3, <1>5, <2>1
<1>6. CASE /\ Outcome(c, "raise", Broken)
           /\ projects' \in IF p \in Visible THEN {[projects EXCEPT ![p].state = state] : state \in {"left", "gone"}}
                            ELSE {projects}
  <2>1. Moves(c, "raise", p, Broken, call[c].heard)
    BY <1>0, <1>6, OutcomeMoves, ConstantTypes DEF Typed, Moves
  <2>2. CASE p \notin Visible
    BY <1>1, <1>5, <1>6, <2>1, <2>2
  <2>3. ASSUME p \in Visible, NEW state \in {"left", "gone"}, projects' = [projects EXCEPT ![p].state = state]
        PROVE  /\ projects' \in Seq(Project) /\ Len(projects') = Len(projects) /\ DOMAIN projects' = DOMAIN projects
               /\ \A r \in DOMAIN projects \ {p} : projects'[r] = projects[r]
               /\ \A r \in DOMAIN projects : projects'[r].state = "there" => r # p
    BY <1>4, <2>3
  <2> QED
    BY <1>1, <1>6, <2>1, <2>2, <2>3
<1> QED
  BY <1>2, <1>3, <1>6 DEF Undo

LEMMA UndoGone ==
  ASSUME Typed, NEW c \in Calls, Undo(c)
  PROVE  call[c].project \in Visible' => call[c].project \in Visible
BY LogFacts DEF Typed, Undo, Visible

-----------------------------------------------------------------------------
(* Every step keeps the types *)

LEMMA RequestTyped ==
  ASSUME Typed, NEW c \in Calls, Request(c)
  PROVE  Typed'
<1>0. /\ call[c].project \in 0 .. Len(projects) /\ call[c].heard.job \in 0 .. Len(jobs)
      /\ call[c].outcome.job \in 0 .. Len(jobs) /\ 0 \in 0 .. Len(jobs) /\ 0 \in 0 .. Len(projects)
      /\ Len(jobs) \in Nat /\ Len(projects) \in Nat /\ Key(c) \in Keys
      /\ \A p \in DOMAIN projects : p \in 0 .. Len(projects)
      /\ \A j \in DOMAIN jobs : j \in 0 .. Len(jobs)
  BY CallFacts, LogFacts DEF Typed
<1>f. faults' \in 0 .. MaxFaults
  <2>1. UNCHANGED faults \/ Fault("lost") \/ Fault("db") \/ Fault("disk")
    BY DEF Request, Handle, Reserve, Reply, Store, Raise, Create, WritePlan, Enqueue, GetJob, ReadJob, Undo
  <2> QED
    BY <2>1, FaultTyped
<1>s. jobs \in Seq(JobRow) /\ projects \in Seq(Project) /\ KeysTyped /\ TypeOK
  BY DEF Typed, TypeOK
<1>q. ASSUME NEW pc, NEW p \in 0 .. Len(projects), NEW a, NEW h, Moves(c, pc, p, a, h),
             a.job \in 0 .. Len(jobs), h.job \in 0 .. Len(jobs), UNCHANGED <<keys, projects, jobs>>
      PROVE  Typed'
  BY <1>f, <1>q, QuietTyped DEF Moves
<1>x. ASSUME Fails(c), UNCHANGED <<keys, projects, jobs>> PROVE Typed'
  BY <1>0, <1>q, <1>x, NoJob DEF Fails, FailsWith
<1>k. ASSUME keys' \in [Keys -> KeyRow], UNCHANGED <<projects, jobs>>,
             NEW pc, NEW p \in 0 .. Len(projects), NEW a, Moves(c, pc, p, a, call[c].heard),
             a.job \in 0 .. Len(jobs),
             \A k \in Keys : /\ keys'[k].state = "none" => keys'[k] = Unused(keys'[k].epoch)
                             /\ keys'[k].answer.job \in 0 .. Len(jobs)
      PROVE  Typed'
  <2>1. KeysTyped'
    BY <1>k DEF KeysTyped
  <2> QED
    BY <1>0, <1>f, <1>k, <1>s, <2>1, CallTyped DEF Moves
<1>1. CASE Reserve(c)
  <2>1. ASSUME NEW pc, NEW p \in 0 .. Len(projects), Moves(c, pc, p, call[c].outcome, call[c].heard),
               Purged[Key(c)].state = "none", keys' = Reserved(c)
        PROVE  Typed'
    <3>1. \A k \in Keys : /\ keys'[k].state = "none" => keys'[k] = Unused(keys'[k].epoch)
                          /\ keys'[k].answer.job \in 0 .. Len(jobs)
      <4>1. /\ keys'[Key(c)].state = "pending" /\ keys'[Key(c)].answer = NoAnswer
            /\ \A k \in Keys \ {Key(c)} : keys'[k] = Purged[k]
        BY <2>1, ReservedFacts
      <4> QED
        BY <1>0, <4>1, PurgedFacts, NoJob
    <3>2. keys' \in [Keys -> KeyRow]
      BY <2>1, ReservedFacts
    <3> QED
      BY <1>0, <1>1, <1>k, <2>1, <3>1, <3>2, ReserveSteps
  <2>2. ASSUME NEW a \in Answer, Moves(c, "answer", call[c].project, a, call[c].heard), UNCHANGED keys,
               a = Rejected \/ a = keys[Key(c)].answer
        PROVE  Typed'
    <3>1. a.job \in 0 .. Len(jobs)
      BY <1>0, <1>s, <2>2, NoJob DEF KeysTyped
    <3> QED
      BY <1>0, <1>1, <1>q, <2>2, <3>1, ReserveSteps
  <2>3. CASE UNCHANGED <<keys, call>>
    BY <1>1, <2>3, ReserveSteps DEF Typed, TypeOK, KeysTyped
  <2> QED
    BY <1>0, <1>1, <2>1, <2>2, <2>3, ReserveSteps
<1>2. CASE Reply(c)
  BY <1>0, <1>2, <1>q, NoJob, ReplySteps
<1>3. CASE Store(c)
  <2>1. CASE UNCHANGED keys
    BY <1>0, <1>3, <1>q, <2>1, NoJob, StoreSteps
  <2>2. CASE ~UNCHANGED keys
    <3>1. \A k \in Keys : /\ keys'[k].state = "none" => keys'[k] = Unused(keys'[k].epoch)
                          /\ keys'[k].answer.job \in 0 .. Len(jobs)
      BY <1>0, <1>3, <1>s, <2>2, StoreSteps DEF KeysTyped
    <3> QED
      BY <1>0, <1>3, <1>k, <2>2, <3>1, NoJob, StoreSteps
  <2> QED
    BY <2>1, <2>2
<1>4. CASE Raise(c)
  <2>1. keys[Key(c)].epoch + 1 = Unused(keys[Key(c)].epoch + 1).epoch
        /\ Unused(keys[Key(c)].epoch + 1).answer.job = 0
    BY <1>0, PurgedFacts, NoJob
  <2>2. \A k \in Keys : /\ keys'[k].state = "none" => keys'[k] = Unused(keys'[k].epoch)
                        /\ keys'[k].answer.job \in 0 .. Len(jobs)
    <3>1. \A k \in Keys : keys'[k] = keys[k] \/ keys'[k] = Unused(keys[Key(c)].epoch + 1)
      BY <1>4, RaiseSteps
    <3> QED
      BY <1>0, <1>s, <2>1, <3>1 DEF KeysTyped
  <2> QED
    BY <1>0, <1>4, <1>k, <2>2, NoJob, RaiseSteps
<1>5. CASE Create(c)
  <2>1. /\ KeysTyped' /\ jobs' \in Seq(JobRow) /\ Len(jobs') = Len(jobs)
        /\ projects' \in Seq(Project) /\ Len(projects) <= Len(projects') /\ Len(projects') \in Nat
    BY <1>5, <1>s, CreateSteps, SequenceFacts DEF KeysTyped
  <2>2. /\ OnlyCall(c) /\ call'[c].outcome \in {call[c].outcome, Broken} /\ call'[c].heard = call[c].heard
        /\ \/ call'[c].project = call[c].project
           \/ call'[c].project = Len(projects) + 1 /\ Len(projects) + 1 <= Len(projects')
    BY <1>5, CreateSteps DEF Moves
  <2>3. call'[c].project \in 0 .. Len(projects') /\ call'[c].outcome.job \in 0 .. Len(jobs')
        /\ call'[c].heard.job \in 0 .. Len(jobs')
    BY <1>0, <2>1, <2>2, NoJob
  <2> QED
    BY <1>0, <1>f, <2>1, <2>2, <2>3, CallTyped
<1>6. CASE WritePlan(c)
  BY <1>0, <1>6, <1>q, <1>x, WritePlanSteps
<1>7. CASE Enqueue(c)
  <2>1. CASE Inserts(c)
    <3>1. /\ OnlyCall(c) /\ call'[c].project = call[c].project
          /\ call'[c].outcome = Accepted(Len(jobs) + 1) /\ call'[c].heard = call[c].heard
          /\ jobs' \in Seq(JobRow) /\ Len(jobs') = Len(jobs) + 1 /\ UNCHANGED <<keys, projects>>
      BY <1>7, <2>1, EnqueueSteps DEF Inserts, Moves
    <3>2. call'[c].outcome.job \in 0 .. Len(jobs') /\ call'[c].heard.job \in 0 .. Len(jobs')
          /\ Len(jobs) <= Len(jobs')
      BY <1>0, <3>1 DEF Accepted
    <3>3. \A j \in 0 .. Len(jobs) : j \in 0 .. Len(jobs')
      BY <1>0, <3>1
    <3>4. KeysTyped'
      BY <1>s, <3>1, <3>3 DEF KeysTyped
    <3>5. /\ Len(projects) <= Len(projects') /\ projects' \in Seq(Project)
          /\ call'[c].project \in 0 .. Len(projects')
      BY <1>0, <1>s, <3>1
    <3> QED
      BY <1>f, <3>1, <3>2, <3>4, <3>5, CallTyped
  <2>2. ASSUME NEW j \in SameSubmission(c), UNCHANGED jobs,
               Moves(c, "inserted", call[c].project, Accepted(j), call[c].heard)
        PROVE  Typed'
    <3>1. Accepted(j).job \in 0 .. Len(jobs)
      BY <1>0 DEF SameSubmission, Accepted
    <3> QED
      BY <1>0, <1>7, <1>q, <2>2, <3>1, EnqueueSteps
  <2> QED
    BY <1>7, <1>x, <2>1, <2>2, EnqueueSteps
<1>8. CASE GetJob(c) \/ ReadJob(c)
  <2>1. CASE \/ Moves(c, "read", call[c].project, call[c].outcome, call[c].heard)
             \/ Moves(c, "reply", call[c].project, call[c].outcome, call[c].heard)
             \/ Moves(c, "raise", call[c].project, Broken, call[c].heard)
    BY <1>0, <1>8, <1>q, <2>1, NoJob, ReadSteps
  <2> QED
    BY <1>8, <1>x, <2>1, ReadSteps DEF Fails
<1>9. CASE Undo(c)
  <2>1. /\ OnlyCall(c) /\ call'[c].project = call[c].project
        /\ call'[c].outcome \in {call[c].outcome, Rejected, Broken} /\ call'[c].heard = call[c].heard
        /\ projects' \in Seq(Project) /\ Len(projects') = Len(projects) /\ UNCHANGED <<keys, jobs>>
    BY <1>9, UndoSteps DEF Moves
  <2>2. KeysTyped' /\ call'[c].outcome.job \in 0 .. Len(jobs)
    BY <1>0, <1>s, <2>1, NoJob DEF KeysTyped
  <2> QED
    BY <1>0, <1>f, <1>s, <2>1, <2>2, CallTyped
<1> QED
  BY <1>1, <1>2, <1>3, <1>4, <1>5, <1>6, <1>7, <1>8, <1>9 DEF Request, Handle

LEMMA InitTyped == Init => Typed
<1> SUFFICES ASSUME Init PROVE Typed
  OBVIOUS
<1> DEFINE home == [state |-> "there", tombstone |-> FALSE]
<1>1. /\ home \in Project /\ projects = <<home>>
  BY DEF Init, Project
<1>2. projects \in Seq(Project) /\ jobs \in Seq(JobRow) /\ Len(jobs) = 0 /\ Len(projects) = 1
  <2>1. \A S : \A e \in S : <<e>> \in Seq(S) /\ Len(<<e>>) = 1
    OBVIOUS
  <2>2. \A S : <<>> \in Seq(S)
    OBVIOUS
  <2>3. jobs = <<>> /\ Len(<<>>) = 0
    BY DEF Init
  <2> HIDE DEF home
  <2> QED
    BY <1>1, <2>1, <2>2, <2>3
<1>3. \A k \in Keys : keys[k] = Unused(0)
  BY DEF Init
<1>4. Unused(0) \in KeyRow /\ Unused(0).epoch = 0 /\ Unused(0).answer.job = 0
  BY ConstantTypes, NoJob DEF Unused, KeyRow
<1>5. KeysTyped
  BY <1>2, <1>3, <1>4 DEF Init, KeysTyped
<1>6. \A c \in Calls : call[c] = Resting
  BY DEF Init
<1>7. Resting.project = 0 /\ Resting.outcome.job = 0 /\ Resting.heard.job = 0
  BY NoJob DEF Resting
<1>8. call \in [Calls -> Call] /\ faults \in 0 .. MaxFaults
  BY ConstantTypes, PostAssumption DEF Init
<1> QED
  BY <1>2, <1>5, <1>6, <1>7, <1>8 DEF Typed, TypeOK, KeysTyped

\* What the rest of the system does to the rows and the calls.
LEMMA ExpireFacts ==
  ASSUME Typed, NEW k \in Keys, Expire(k)
  PROVE  /\ keys' \in [Keys -> KeyRow] /\ \A l \in Keys \ {k} : keys'[l] = keys[l]
         /\ keys'[k].state = keys[k].state /\ keys'[k].body = keys[k].body
         /\ keys'[k].by = keys[k].by /\ keys'[k].answer = keys[k].answer
         /\ keys'[k].epoch = keys[k].epoch /\ keys'[k].old
         /\ keys[k].state # "none" /\ ~keys[k].old
         /\ UNCHANGED <<call, projects, jobs, faults>>
<1> DEFINE row == [keys[k] EXCEPT !.old = TRUE]
<1>1. /\ row \in KeyRow /\ row.state = keys[k].state /\ row.body = keys[k].body
      /\ row.by = keys[k].by /\ row.answer = keys[k].answer
      /\ row.epoch = keys[k].epoch /\ row.old
  BY KeyFacts DEF Typed, KeyRow
<1>2. keys' = [keys EXCEPT ![k] = row] /\ keys \in [Keys -> KeyRow]
  BY DEF Expire, Typed, KeysTyped
<1> HIDE DEF row
<1>3. keys' \in [Keys -> KeyRow] /\ keys'[k] = row /\ \A l \in Keys \ {k} : keys'[l] = keys[l]
  BY <1>1, <1>2
<1>4. keys[k].state # "none" /\ ~keys[k].old /\ UNCHANGED <<call, projects, jobs, faults>>
  BY DEF Expire
<1> QED
  BY <1>1, <1>3, <1>4

LEMMA RemoveFacts ==
  ASSUME Typed, NEW p \in DOMAIN projects, RemoveProject(p)
  PROVE  /\ projects' \in Seq(Project) /\ DOMAIN projects' = DOMAIN projects
         /\ Len(projects') = Len(projects) /\ projects'[p].state = "gone"
         /\ \A r \in DOMAIN projects \ {p} : projects'[r] = projects[r]
         /\ jobs' \in Seq(JobRow) /\ DOMAIN jobs' = DOMAIN jobs /\ Len(jobs') = Len(jobs)
         /\ \A j \in DOMAIN jobs : /\ jobs'[j].project = jobs[j].project
                                   /\ jobs'[j].by = jobs[j].by /\ jobs'[j].epoch = jobs[j].epoch
<1> DEFINE gone == [state |-> "gone", tombstone |-> TRUE]
           Swept(j) == IF jobs[j].project = p /\ jobs[j].status = "queued"
                       THEN [jobs[j] EXCEPT !.status = "error"] ELSE jobs[j]
<1>1. gone \in Project /\ gone.state = "gone"
  BY DEF Project
<1>2. projects' = [projects EXCEPT ![p] = gone] /\ jobs' = [j \in DOMAIN jobs |-> Swept(j)]
  BY DEF RemoveProject
<1>3. \A j \in DOMAIN jobs : /\ Swept(j) \in JobRow /\ Swept(j).project = jobs[j].project
                             /\ Swept(j).by = jobs[j].by /\ Swept(j).epoch = jobs[j].epoch
  BY LogFacts DEF Typed, JobRow
<1>4. projects \in Seq(Project) /\ jobs \in Seq(JobRow)
  BY DEF Typed, TypeOK
<1> HIDE DEF gone, Swept
<1>5. jobs' \in [DOMAIN jobs -> JobRow] /\ \A j \in DOMAIN jobs : jobs'[j] = Swept(j)
  BY <1>2, <1>3
<1>6. /\ projects' \in [DOMAIN projects -> Project] /\ projects'[p] = gone
      /\ \A r \in DOMAIN projects \ {p} : projects'[r] = projects[r]
  BY <1>1, <1>2, <1>4, SequenceFacts
<1>7. projects' \in Seq(Project) /\ Len(projects') = Len(projects) /\ DOMAIN projects' = DOMAIN projects
  BY <1>4, <1>6, SequenceFacts
<1>8. jobs' \in Seq(JobRow) /\ Len(jobs') = Len(jobs) /\ DOMAIN jobs' = DOMAIN jobs
  BY <1>4, <1>5, SequenceFacts
<1> QED
  BY <1>1, <1>3, <1>5, <1>6, <1>7, <1>8

LEMMA CrashFacts ==
  ASSUME Typed, Crash
  PROVE  /\ call' \in [Calls -> Call]
         /\ \A c \in Calls : /\ call'[c].pc = "rest" /\ call'[c].project = 0
                             /\ call'[c].outcome = NoAnswer /\ call'[c].heard = call[c].heard
         /\ projects' \in Seq(Project) /\ DOMAIN projects' = DOMAIN projects
         /\ Len(projects') = Len(projects)
         /\ \A p \in DOMAIN projects :
              /\ projects'[p] # projects[p] => projects'[p].state = "left"
              /\ projects'[p].state = "there" => ~\E c \in Calls : Is(c, "song") /\ call[c].project = p /\ Running(c)
         /\ UNCHANGED <<keys, jobs>>
<1> DEFINE Rested(c) == [Resting EXCEPT !.heard = call[c].heard]
           Cut(p) == \E c \in Calls : Is(c, "song") /\ call[c].project = p /\ Running(c)
           Left(p) == IF projects[p].state = "there" /\ Cut(p)
                      THEN [projects[p] EXCEPT !.state = "left"] ELSE projects[p]
<1>1. \A c \in Calls : /\ Rested(c) \in Call /\ Rested(c).pc = "rest" /\ Rested(c).project = 0
                       /\ Rested(c).outcome = NoAnswer /\ Rested(c).heard = call[c].heard
  BY CallFacts, ConstantTypes DEF Typed, Call, Resting
<1>2. call' = [c \in Calls |-> Rested(c)] /\ projects' = [p \in DOMAIN projects |-> Left(p)]
      /\ UNCHANGED <<keys, jobs>>
  BY DEF Crash
<1>3. \A p \in DOMAIN projects : /\ Left(p) \in Project
                                 /\ Left(p) # projects[p] => Left(p).state = "left"
                                 /\ Left(p).state = "there" => ~Cut(p)
  <2> SUFFICES ASSUME NEW p \in DOMAIN projects
               PROVE  /\ Left(p) \in Project /\ (Left(p) # projects[p] => Left(p).state = "left")
                      /\ Left(p).state = "there" => ~Cut(p)
    OBVIOUS
  <2>1. projects[p] \in Project /\ [projects[p] EXCEPT !.state = "left"] \in Project
        /\ [projects[p] EXCEPT !.state = "left"].state = "left"
    BY LogFacts DEF Typed, Project
  <2> HIDE DEF Cut
  <2> QED
    BY <2>1
<1>4. projects \in Seq(Project)
  BY DEF Typed, TypeOK
<1> HIDE DEF Left, Rested
<1>5. call' \in [Calls -> Call] /\ \A c \in Calls : call'[c] = Rested(c)
  BY <1>1, <1>2
<1>6. projects' \in [DOMAIN projects -> Project] /\ \A p \in DOMAIN projects : projects'[p] = Left(p)
  BY <1>2, <1>3
<1>7. projects' \in Seq(Project) /\ Len(projects') = Len(projects) /\ DOMAIN projects' = DOMAIN projects
  BY <1>4, <1>6, SequenceFacts
<1> QED
  BY <1>1, <1>2, <1>3, <1>5, <1>6, <1>7

LEMMA OutsideTyped ==
  ASSUME Typed, \/ \E k \in Keys : Expire(k)
                \/ \E p \in DOMAIN projects : RemoveProject(p)
                \/ Crash \/ UNCHANGED vars
  PROVE  Typed'
<1>1. ASSUME NEW k \in Keys, Expire(k) PROVE Typed'
  <2>1. KeysTyped'
    <3>1. \A l \in Keys : /\ keys'[l].state = "none" => keys'[l] = Unused(keys'[l].epoch)
                          /\ keys'[l].answer.job \in 0 .. Len(jobs')
      BY <1>1, ExpireFacts DEF Typed, KeysTyped
    <3> QED
      BY <1>1, <3>1, ExpireFacts DEF KeysTyped
  <2> QED
    BY <1>1, <2>1, ExpireFacts DEF Typed, TypeOK, KeysTyped
<1>2. ASSUME NEW p \in DOMAIN projects, RemoveProject(p) PROVE Typed'
  <2>1. UNCHANGED <<keys, call>> /\ faults' \in 0 .. MaxFaults
    BY <1>2, FaultTyped DEF RemoveProject
  <2> QED
    BY <1>2, <2>1, RemoveFacts DEF Typed, TypeOK, KeysTyped
<1>3. CASE Crash
  <2>1. faults' \in 0 .. MaxFaults
    BY <1>3, FaultTyped DEF Crash
  <2>2. \A c \in Calls : call[c].heard.job \in 0 .. Len(jobs)
    BY DEF Typed, TypeOK
  <2>3. Len(jobs) \in Nat /\ Len(projects) \in Nat
    BY LogFacts DEF Typed
  <2>4. \A c \in Calls : /\ call'[c].project \in 0 .. Len(projects')
                         /\ call'[c].outcome.job \in 0 .. Len(jobs')
                         /\ call'[c].heard.job \in 0 .. Len(jobs')
    BY <1>3, <2>2, <2>3, CrashFacts, NoJob
  <2> QED
    BY <1>3, <2>1, <2>4, CrashFacts DEF Typed, TypeOK, KeysTyped
<1>4. CASE UNCHANGED vars
  BY <1>4 DEF vars, Typed, TypeOK, KeysTyped
<1> QED
  BY <1>1, <1>2, <1>3, <1>4

\* Every step keeps the types.
LEMMA NextTyped == Typed /\ [Next]_vars => Typed'
<1> SUFFICES ASSUME Typed, [Next]_vars PROVE Typed'
  OBVIOUS
<1>1. ASSUME NEW c \in Calls, Request(c) PROVE Typed'
  BY <1>1, RequestTyped
<1> QED
  BY <1>1, OutsideTyped DEF Next

\* The types of the rows, the calls and the logs.
THEOREM RequestsTyped == Spec => []TypeOK
<1>1. Typed => TypeOK
  BY DEF Typed
<1> QED
  BY <1>1, InitTyped, NextTyped, PTL DEF Spec

-----------------------------------------------------------------------------
(* No stray project *)

\* Only a song request is at a step that makes a project or takes one back, and
\* the song requests that still answer for their project are these: what the
\* property says of any request that runs is inductive of them only.
SongSteps == \A c \in Calls : call[c].pc \in {"create", "plan", "undo"} => Is(c, "song")
Holds(c, p) == Is(c, "song") /\ call[c].project = p /\ call[c].pc \in {"plan", "enqueue", "undo"}
Used(p) == \E j \in DOMAIN jobs : jobs[j].project = p
Held == \A p \in DOMAIN projects : p # Home /\ projects[p].state = "there" =>
          Used(p) \/ \E c \in Calls : Holds(c, p)

LEMMA CallHeld ==
  ASSUME Held, NEW c \in Calls, OnlyCall(c),
         \A p \in DOMAIN projects' : projects'[p].state = "there" =>
           \/ p \in DOMAIN projects /\ projects[p].state = "there"
           \/ Holds(c, p)',
         \A p : Used(p) => Used(p)',
         \A p \in DOMAIN projects' : projects'[p].state = "there" /\ Holds(c, p) => Holds(c, p)' \/ Used(p)'
  PROVE  Held'
<1>1. \A d \in Calls \ {c} : \A p : Holds(d, p) => Holds(d, p)'
  BY DEF OnlyCall, Holds
<1> HIDE DEF Holds, Used
<1> QED
  BY <1>1 DEF Held

LEMMA UsedKept ==
  ASSUME UNCHANGED jobs
  PROVE  \A p : Used(p) => Used(p)'
BY DEF Used

\* A step that changes no project and no row keeps what its call holds.
LEMMA QuietHeld ==
  ASSUME Held, NEW c \in Calls, OnlyCall(c), UNCHANGED <<projects, jobs>>,
         \/ ~Is(c, "song") \/ call[c].pc \notin {"plan", "enqueue", "undo"}
         \/ call'[c].project = call[c].project /\ call'[c].pc \in {"plan", "enqueue", "undo"}
         \/ Used(call[c].project)
  PROVE  Held'
<1>1. \A p : Holds(c, p) => Holds(c, p)' \/ Used(p)
  BY DEF Holds
<1>2. \A p : Used(p) => Used(p)'
  BY UsedKept
<1> HIDE DEF Holds, Used
<1> QED
  BY <1>1, <1>2, CallHeld

LEMMA CallSongs ==
  ASSUME SongSteps, NEW c \in Calls, OnlyCall(c),
         call'[c].pc \in {"create", "plan", "undo"} => Is(c, "song")
  PROVE  SongSteps'
BY DEF SongSteps, OnlyCall, Is

LEMMA FirstHeld ==
  ASSUME Typed, SongSteps, Held, NEW c \in Calls, Reserve(c) \/ Reply(c) \/ Store(c) \/ Raise(c)
  PROVE  SongSteps' /\ Held'
<1>1. UNCHANGED <<projects, jobs>> /\ call[c].pc \notin {"plan", "enqueue", "undo"}
  BY ReserveSteps, ReplySteps, StoreSteps, RaiseSteps
<1>2. CASE OnlyCall(c) /\ (call'[c].pc \in {"create", "plan", "undo"} => Is(c, "song"))
  BY <1>1, <1>2, CallSongs, QuietHeld
<1>3. CASE UNCHANGED <<keys, call>>
  BY <1>1, <1>3 DEF SongSteps, Held, Holds, Used, Is
<1>4. CASE Reserve(c)
  BY <1>2, <1>3, <1>4, ReserveSteps DEF Moves
<1>5. CASE Reply(c) \/ Store(c) \/ Raise(c)
  BY <1>2, <1>5, ReplySteps, StoreSteps, RaiseSteps DEF Moves
<1> QED
  BY <1>4, <1>5

LEMMA HandleHeld ==
  ASSUME Typed, SongSteps, Held, NEW c \in Calls, Handle(c)
  PROVE  SongSteps' /\ Held'
<1>f. ASSUME Fails(c), UNCHANGED <<projects, jobs>> PROVE SongSteps' /\ Held'
  <2>1. PICK a \in {Rejected, Broken}, pc \in {"undo", "raise", "reply"} :
          Moves(c, pc, call[c].project, a, call[c].heard) /\ (Is(c, "song") <=> pc = "undo")
    BY <1>f DEF Fails, FailsWith
  <2> QED
    BY <1>f, <2>1, CallSongs, QuietHeld DEF Moves
<1>1. CASE Create(c)
  <2>1. \A p : ~Holds(c, p)
    BY <1>1, CreateSteps DEF Holds
  <2>2. \A p : Used(p) => Used(p)'
    BY <1>1, CreateSteps, UsedKept
  <2>3. Is(c, "song")
    BY <1>1, CreateSteps DEF SongSteps
  <2>4. ASSUME NEW n, Moves(c, "plan", n, call[c].outcome, call[c].heard),
               DOMAIN projects' = DOMAIN projects \cup {n}
        PROVE  SongSteps' /\ Held'
    <3>1. Holds(c, n)' /\ OnlyCall(c) /\ call'[c].pc = "plan"
      BY <2>3, <2>4 DEF Moves, Holds, Is
    <3>2. \A p \in DOMAIN projects' : projects'[p].state = "there" =>
            \/ p \in DOMAIN projects /\ projects[p].state = "there"
            \/ Holds(c, p)'
      BY <1>1, <2>4, <3>1, CreateSteps
    <3> QED
      BY <2>1, <2>2, <2>3, <3>1, <3>2, CallHeld, CallSongs
  <2>5. CASE /\ Moves(c, "raise", call[c].project, Broken, call[c].heard)
             /\ \A p \in DOMAIN projects' : projects'[p].state = "there" => p \in DOMAIN projects
    BY <1>1, <2>1, <2>2, <2>5, CreateSteps, CallHeld, CallSongs DEF Moves
  <2> QED
    BY <1>1, <2>4, <2>5, CreateSteps
<1>2. CASE WritePlan(c)
  <2>1. CASE Moves(c, "enqueue", call[c].project, call[c].outcome, call[c].heard)
    BY <1>2, <2>1, WritePlanSteps, CallSongs, QuietHeld DEF Moves
  <2> QED
    BY <1>2, <1>f, <2>1, WritePlanSteps
<1>3. CASE Enqueue(c)
  <2>1. CASE Inserts(c)
    <3>1. \A p : Used(p) => Used(p)'
      BY <2>1 DEF Inserts, Used
    <3>2. Used(call[c].project)'
      <4>1. (Len(jobs) + 1) \in DOMAIN jobs' /\ jobs'[Len(jobs) + 1].project = call[c].project
        BY <2>1 DEF Inserts
      <4>2. call'[c].project = call[c].project
        BY <2>1 DEF Inserts, Moves
      <4> QED
        BY <4>1, <4>2 DEF Used
    <3>3. UNCHANGED projects /\ OnlyCall(c) /\ call'[c].pc = "inserted" /\ call'[c].project = call[c].project
      BY <1>3, <2>1, EnqueueSteps DEF Inserts, Moves
    <3>4. \A p : Holds(c, p) => Used(p)'
      BY <3>2, <3>3 DEF Holds, Used
    <3> QED
      BY <3>1, <3>3, <3>4, CallHeld, CallSongs
  <2>2. ASSUME NEW j \in SameSubmission(c), UNCHANGED jobs,
               Moves(c, "inserted", call[c].project, Accepted(j), call[c].heard)
        PROVE  SongSteps' /\ Held'
    <3>1. Used(call[c].project)
      BY DEF SameSubmission, Used
    <3>2. UNCHANGED projects
      BY <1>3, EnqueueSteps
    <3> QED
      BY <2>2, <3>1, <3>2, CallSongs, QuietHeld DEF Moves
  <2> QED
    BY <1>3, <1>f, <2>1, <2>2, EnqueueSteps
<1>4. CASE GetJob(c) \/ ReadJob(c)
  <2>1. CASE Moves(c, "read", call[c].project, call[c].outcome, call[c].heard) /\ call[c].pc = "inserted"
    BY <1>4, <2>1, ReadSteps, CallSongs, QuietHeld DEF Moves
  <2>2. CASE /\ \/ Moves(c, "reply", call[c].project, call[c].outcome, call[c].heard)
                \/ Moves(c, "raise", call[c].project, Broken, call[c].heard)
             /\ call[c].pc = "read"
    BY <1>4, <2>2, ReadSteps, CallSongs, QuietHeld DEF Moves
  <2> QED
    BY <1>4, <1>f, <2>1, <2>2, ReadSteps DEF Fails
<1>5. CASE Undo(c)
  <2>1. \A p : Used(p) => Used(p)'
    BY <1>5, UndoSteps, UsedKept
  <2>2. \A p \in DOMAIN projects' : projects'[p].state = "there" =>
          p \in DOMAIN projects /\ projects[p].state = "there" /\ ~Holds(c, p)
    BY <1>5, UndoSteps DEF Holds
  <2>3. OnlyCall(c) /\ call'[c].pc \notin {"create", "plan", "undo"}
    BY <1>5, UndoSteps DEF Moves
  <2> QED
    BY <2>1, <2>2, <2>3, CallHeld, CallSongs
<1> QED
  BY <1>1, <1>2, <1>3, <1>4, <1>5 DEF Handle

LEMMA OutsideHeld ==
  ASSUME Typed, SongSteps, Held,
         \/ \E k \in Keys : Expire(k)
         \/ \E p \in DOMAIN projects : RemoveProject(p)
         \/ Crash \/ UNCHANGED vars
  PROVE  SongSteps' /\ Held'
<1>1. CASE UNCHANGED <<call, projects, jobs>>
  BY <1>1 DEF SongSteps, Held, Holds, Used, Is
<1>2. ASSUME NEW p \in DOMAIN projects, RemoveProject(p) PROVE SongSteps' /\ Held'
  <2>1. UNCHANGED call
    BY <1>2 DEF RemoveProject
  <2>2. \A r : (Used(r) => Used(r)') /\ \A c \in Calls : Holds(c, r) => Holds(c, r)'
    BY <1>2, <2>1, RemoveFacts DEF Used, Holds, Is
  <2>3. \A r \in DOMAIN projects' : projects'[r].state = "there" => r \in DOMAIN projects /\ projects[r].state = "there"
    BY <1>2, RemoveFacts
  <2>4. Held'
    <3> HIDE DEF Used, Holds
    <3> QED
      BY <2>2, <2>3 DEF Held
  <2> QED
    BY <2>1, <2>4 DEF SongSteps, Is
<1>3. CASE Crash
  <2>1. \A r : Used(r) => Used(r)'
    BY <1>3, CrashFacts, UsedKept
  <2>2. \A r \in DOMAIN projects' : projects'[r].state = "there" =>
          /\ r \in DOMAIN projects /\ projects[r].state = "there"
          /\ ~\E c \in Calls : Holds(c, r)
    BY <1>3, CrashFacts DEF Holds, Running, At
  <2>3. Held'
    <3> HIDE DEF Used, Holds
    <3> QED
      BY <2>1, <2>2 DEF Held
  <2> QED
    BY <1>3, <2>3, CrashFacts DEF SongSteps
<1>4. ASSUME NEW k \in Keys, Expire(k) PROVE UNCHANGED <<call, projects, jobs>>
  BY <1>4 DEF Expire
<1> QED
  BY <1>1, <1>2, <1>3, <1>4 DEF vars

\* A song that is being refused has lost its project, and one that has a row is
\* not being refused.
DeniedOne(c) ==
  Is(c, "song") =>
    /\ call[c].pc \in {"inserted", "read"} => call[c].outcome # Rejected
    /\ call[c].pc = "reply" /\ call[c].outcome = Rejected => call[c].project \notin Visible
Denied == \A c \in Calls : DeniedOne(c)

\* No project that is out of sight comes back.
Fading == \A p \in 0 .. Len(projects) : p \in Visible' => p \in Visible

LEMMA SomeFading ==
  ASSUME Typed, \A p \in DOMAIN projects : p \in DOMAIN projects' /\ (projects'[p] = projects[p] \/ p \notin Visible'),
         \A p \in DOMAIN projects' : p \in DOMAIN projects \/ p > Len(projects)
  PROVE  Fading
BY LogFacts DEF Fading, Visible, Typed

LEMMA CallDenied ==
  ASSUME Typed, Denied, NEW c \in Calls, OnlyCall(c), Fading, DeniedOne(c)'
  PROVE  Denied'
<1>1. ASSUME NEW d \in Calls \ {c} PROVE DeniedOne(d)'
  BY CallFacts DEF Typed, Denied, DeniedOne, OnlyCall, Fading, Is
<1> QED
  BY <1>1 DEF Denied

LEMMA RequestDenied ==
  ASSUME Typed, SongSteps, Denied, NEW c \in Calls, Request(c)
  PROVE  Denied'
<1>0. DeniedOne(c) /\ Rejected # Broken /\ \A j : Accepted(j) # Rejected
  BY DEF Denied, Rejected, Broken, Accepted
<1>q. UNCHANGED projects => Fading
  BY DEF Fading, Visible
<1>f. ASSUME UNCHANGED projects, Fails(c) PROVE Denied'
  <2>1. PICK a \in {Rejected, Broken}, pc \in {"undo", "raise", "reply"} :
          Moves(c, pc, call[c].project, a, call[c].heard) /\ (Is(c, "song") <=> pc = "undo")
    BY <1>f DEF Fails, FailsWith
  <2>2. OnlyCall(c) /\ DeniedOne(c)'
    BY <2>1 DEF Moves, DeniedOne, Is
  <2> QED
    BY <1>f, <1>q, <2>2, CallDenied
<1>1. CASE Reserve(c)
  <2>1. CASE UNCHANGED <<keys, call>>
    BY <1>1, <2>1, ReserveSteps DEF Denied, DeniedOne, Visible, Is
  <2>2. CASE OnlyCall(c) /\ call'[c].pc \in {"create", "enqueue", "answer"}
    BY <1>1, <1>q, <2>2, ReserveSteps, CallDenied DEF DeniedOne
  <2> QED
    BY <1>1, <2>1, <2>2, ReserveSteps DEF Moves
<1>2. CASE Reply(c)
  <2>1. OnlyCall(c) /\ call'[c].pc \in {"store", "rest"}
    BY <1>2, ReplySteps DEF Moves
  <2> QED
    BY <1>2, <1>q, <2>1, ReplySteps, CallDenied DEF DeniedOne
<1>3. CASE Store(c) \/ Raise(c)
  <2>1. OnlyCall(c) /\ call'[c].pc \in {"raise", "rest"}
    BY <1>3, StoreSteps, RaiseSteps DEF Moves
  <2> QED
    BY <1>3, <1>q, <2>1, StoreSteps, RaiseSteps, CallDenied DEF DeniedOne
<1>4. CASE Create(c)
  <2>1. OnlyCall(c) /\ call'[c].pc \in {"plan", "raise"}
    BY <1>4, CreateSteps DEF Moves
  <2>2. projects' \in Seq(Project) /\ Len(projects') \in Nat /\ DOMAIN projects' = 1 .. Len(projects')
    BY <1>4, CreateSteps, SequenceFacts
  <2>3. Fading
    BY <1>4, <2>2, CreateSteps, SomeFading, LogFacts DEF Typed
  <2> QED
    BY <2>1, <2>3, CallDenied DEF DeniedOne
<1>5. CASE WritePlan(c)
  <2>1. CASE Moves(c, "enqueue", call[c].project, call[c].outcome, call[c].heard)
    BY <1>5, <1>q, <2>1, WritePlanSteps, CallDenied DEF Moves, DeniedOne
  <2> QED
    BY <1>5, <1>f, <2>1, WritePlanSteps
<1>6. CASE Enqueue(c)
  <2>1. ASSUME NEW j, Moves(c, "inserted", call[c].project, Accepted(j), call[c].heard) PROVE Denied'
    <3>1. OnlyCall(c) /\ DeniedOne(c)'
      BY <1>0, <2>1 DEF Moves, DeniedOne
    <3> QED
      BY <1>6, <1>q, <3>1, EnqueueSteps, CallDenied
  <2> QED
    BY <1>6, <1>f, <2>1, EnqueueSteps DEF Inserts
<1>7. CASE GetJob(c) \/ ReadJob(c)
  <2>1. CASE /\ call[c].pc \in {"inserted", "read"}
             /\ \/ \E pc \in {"read", "reply"} : Moves(c, pc, call[c].project, call[c].outcome, call[c].heard)
                \/ Moves(c, "raise", call[c].project, Broken, call[c].heard)
    <3>1. OnlyCall(c) /\ DeniedOne(c)'
      BY <1>0, <2>1 DEF Moves, DeniedOne, Is
    <3> QED
      BY <1>7, <1>q, <3>1, ReadSteps, CallDenied
  <2> QED
    BY <1>7, <1>f, <2>1, ReadSteps DEF Fails
<1>8. CASE Undo(c)
  <2>1. OnlyCall(c) /\ DeniedOne(c)'
    BY <1>0, <1>8, UndoSteps DEF Moves, DeniedOne, Is
  <2>2. Fading
    <3>1. projects' \in Seq(Project) /\ DOMAIN projects' = DOMAIN projects /\ DOMAIN projects = 1 .. Len(projects)
      BY <1>8, UndoSteps, LogFacts DEF Typed
    <3>2. call[c].project \in Visible' => call[c].project \in Visible
      BY <1>8, UndoGone
    <3>3. \A p \in DOMAIN projects \ {call[c].project} : projects'[p] = projects[p]
      BY <1>8, UndoSteps
    <3> QED
      BY <3>1, <3>2, <3>3 DEF Fading, Visible
  <2> QED
    BY <2>1, <2>2, CallDenied
<1> QED
  BY <1>1, <1>2, <1>3, <1>4, <1>5, <1>6, <1>7, <1>8 DEF Request, Handle

LEMMA OutsideDenied ==
  ASSUME Typed, Denied,
         \/ \E k \in Keys : Expire(k)
         \/ \E p \in DOMAIN projects : RemoveProject(p)
         \/ Crash \/ UNCHANGED vars
  PROVE  Denied'
<1>1. CASE UNCHANGED <<call, projects>>
  BY <1>1 DEF Denied, DeniedOne, Visible, Is
<1>2. ASSUME NEW p \in DOMAIN projects, RemoveProject(p) PROVE Denied'
  <2>1. UNCHANGED call
    BY <1>2 DEF RemoveProject
  <2>2. Visible' \subseteq Visible
    BY <1>2, RemoveFacts DEF Visible
  <2> QED
    BY <2>1, <2>2 DEF Denied, DeniedOne, Is
<1>3. CASE Crash
  BY <1>3, CrashFacts DEF Denied, DeniedOne
<1>4. ASSUME NEW k \in Keys, Expire(k) PROVE UNCHANGED <<call, projects>>
  BY <1>4 DEF Expire
<1> QED
  BY <1>1, <1>2, <1>3, <1>4 DEF vars

\* No song is refused while its project is still in the library, and any other
\* project of a request that is over has a job, but for those that a crash, a
\* failed create_project or a failed delete_project left: whatever else fails,
\* expires, is lost or is removed meanwhile.
THEOREM NoProjectIsStray == Spec => []NoStrayProject
<1>1. Init => SongSteps /\ Held /\ Denied
  BY DEF Init, SongSteps, Held, Resting, Home, Denied, DeniedOne
<1>2. Typed /\ SongSteps /\ Held /\ Denied /\ [Next]_vars => (SongSteps /\ Held /\ Denied)'
  <2> SUFFICES ASSUME Typed, SongSteps, Held, Denied, [Next]_vars PROVE SongSteps' /\ Held' /\ Denied'
    OBVIOUS
  <2>1. ASSUME NEW c \in Calls, Request(c) PROVE SongSteps' /\ Held' /\ Denied'
    BY <2>1, FirstHeld, HandleHeld, RequestDenied DEF Request
  <2> QED
    BY <2>1, OutsideHeld, OutsideDenied DEF Next
<1>3. Held /\ Denied => NoStrayProject
  BY DEF Held, Holds, Used, Denied, DeniedOne, NoStrayProject, Running, At
<1> QED
  BY <1>1, <1>2, <1>3, InitTyped, NextTyped, PTL DEF Spec

-----------------------------------------------------------------------------
(* One job for one reservation *)

\* The row of a key names the call that reserved it; while that call runs past
\* its reservation the row is pending and young; and a job of the present
\* reservation was queued by its holder, which is past queueing.
Rows == \A k \in Keys : keys[k].state # "none" =>
          keys[k].by \in Calls /\ Key(keys[k].by) = k /\ keys[k].body = BodyOf[keys[k].by]
Owned == \A c \in Calls : Inside(c) =>
           keys[Key(c)].state = "pending" /\ keys[Key(c)].by = c /\ ~keys[Key(c)].old
Early == {"create", "plan", "enqueue"}
Current(j) == jobs[j].epoch = keys[Key(jobs[j].by)].epoch
Logged == \A j \in DOMAIN jobs :
  /\ jobs[j].epoch <= keys[Key(jobs[j].by)].epoch
  /\ Current(j) => /\ keys[Key(jobs[j].by)].state # "none"
                   /\ keys[Key(jobs[j].by)].by = jobs[j].by
                   /\ call[jobs[j].by].pc \notin Early
Once == Rows /\ Owned /\ Logged /\ RunsOnce

\* A step of one call that touches neither the rows nor the jobs.
LEMMA CallOnce ==
  ASSUME Typed, Once, NEW c \in Calls, OnlyCall(c), UNCHANGED <<keys, jobs>>,
         call'[c].pc \notin {"rest", "answer"} => Inside(c),
         call'[c].pc \in Early => call[c].pc \in Early
  PROVE  Once'
<1>1. Rows' /\ RunsOnce'
  BY DEF Once, Rows, RunsOnce, Key
<1>2. Owned'
  BY DEF Once, Owned, OnlyCall, Inside, Key
<1>3. Logged'
  <2>1. \A j \in DOMAIN jobs : jobs[j].by \in Calls
    BY LogFacts DEF Typed
  <2>2. \A d \in Calls : call'[d].pc \in Early => call[d].pc \in Early
    BY DEF OnlyCall
  <2> QED
    BY <2>1, <2>2 DEF Once, Logged, Current, Key
<1> QED
  BY <1>1, <1>2, <1>3 DEF Once

LEMMA ReserveOnce ==
  ASSUME Typed, Once, NEW c \in Calls, UNCHANGED jobs, call[c].pc = "rest",
         Purged[Key(c)].state = "none", keys' = Reserved(c), OnlyCall(c)
  PROVE  Once'
<1>0. /\ Key(c) \in Keys /\ \A j \in DOMAIN jobs : /\ jobs[j].by \in Calls /\ Key(jobs[j].by) \in Keys
                                                    /\ jobs[j].epoch \in Nat
      /\ \A d \in Calls : Key(d) \in Keys
      /\ \A k \in Keys : keys[k].epoch \in Nat
  BY CallFacts, LogFacts, KeyFacts DEF Typed
<1>1. LET row == keys'[Key(c)] IN
      /\ row.state = "pending" /\ row.body = BodyOf[c] /\ row.by = c /\ ~row.old
      /\ row.epoch = Purged[Key(c)].epoch
      /\ \A k \in Keys \ {Key(c)} : keys'[k] = Purged[k]
  BY ReservedFacts
<1>2. \A k \in Keys : IF keys[k].old
        THEN Purged[k].state = "none" /\ Purged[k].epoch = keys[k].epoch + 1
        ELSE Purged[k] = keys[k]
  BY PurgedFacts
<1>3. \A d \in Calls : Inside(d) => Key(d) # Key(c) /\ keys'[Key(d)] = keys[Key(d)]
  BY <1>0, <1>1, <1>2 DEF Once, Owned
<1>4. Rows'
  <2> SUFFICES ASSUME NEW k \in Keys, keys'[k].state # "none"
               PROVE  keys'[k].by \in Calls /\ Key(keys'[k].by) = k /\ keys'[k].body = BodyOf[keys'[k].by]
    BY DEF Rows, Key
  <2>1. CASE k = Key(c)
    BY <1>1, <2>1
  <2>2. CASE k # Key(c)
    BY <1>1, <1>2, <2>2 DEF Once, Rows
  <2> QED
    BY <2>1, <2>2
<1>5. Owned'
  <2> SUFFICES ASSUME NEW d \in Calls, Inside(d)'
               PROVE  keys'[Key(d)].state = "pending" /\ keys'[Key(d)].by = d /\ ~keys'[Key(d)].old
    BY DEF Owned, Key
  <2>1. CASE d = c
    BY <1>1, <2>1
  <2>2. CASE d # c
    <3>1. Inside(d)
      BY <2>2 DEF OnlyCall, Inside
    <3> QED
      BY <1>3, <3>1 DEF Once, Owned
  <2> QED
    BY <2>1, <2>2
<1>6. \A j \in DOMAIN jobs : /\ jobs[j].epoch <= keys'[Key(jobs[j].by)].epoch
                             /\ Current(j)' => Key(jobs[j].by) # Key(c) /\ keys'[Key(jobs[j].by)] = keys[Key(jobs[j].by)]
  <2> SUFFICES ASSUME NEW j \in DOMAIN jobs
               PROVE  LET k == Key(jobs[j].by) IN
                      /\ jobs[j].epoch <= keys'[k].epoch
                      /\ jobs[j].epoch = keys'[k].epoch => k # Key(c) /\ keys'[k] = keys[k]
    BY DEF Current, Key
  <2> DEFINE k == Key(jobs[j].by)
  <2>1. /\ k \in Keys /\ jobs[j].epoch \in Nat /\ keys[k].epoch \in Nat /\ jobs[j].epoch <= keys[k].epoch
        /\ jobs[j].epoch = keys[k].epoch => keys[k].state # "none"
    BY <1>0 DEF Once, Logged, Current
  <2>2. keys'[k].epoch = Purged[k].epoch
    BY <1>1, <2>1
  <2>3. CASE keys[k].old
    BY <1>2, <2>1, <2>2, <2>3
  <2>4. CASE ~keys[k].old
    BY <1>1, <1>2, <2>1, <2>2, <2>4
  <2> QED
    BY <2>3, <2>4
<1>7. Logged'
  <2> SUFFICES ASSUME NEW j \in DOMAIN jobs, Current(j)'
               PROVE  /\ keys'[Key(jobs[j].by)].state # "none"
                      /\ keys'[Key(jobs[j].by)].by = jobs[j].by
                      /\ call'[jobs[j].by].pc \notin Early
    BY <1>6 DEF Logged, Key
  <2>1. Key(jobs[j].by) # Key(c) /\ keys'[Key(jobs[j].by)] = keys[Key(jobs[j].by)]
    BY <1>6
  <2>2. Current(j) /\ jobs[j].by \in Calls \ {c}
    BY <1>0, <2>1 DEF Current, Key
  <2> QED
    BY <2>1, <2>2 DEF Once, Logged, OnlyCall
<1>8. RunsOnce'
  BY DEF Once, RunsOnce, Key
<1> QED
  BY <1>4, <1>5, <1>7, <1>8 DEF Once

\* Its own row is ended, done or free again, by a call that rests.
LEMMA EndOnce ==
  ASSUME Typed, Once, NEW c \in Calls, Inside(c), UNCHANGED jobs,
         OnlyCall(c), call'[c].pc = "rest",
         \A k \in Keys \ {Key(c)} : keys'[k] = keys[k],
         \/ /\ keys'[Key(c)].state = "done" /\ keys'[Key(c)].by = keys[Key(c)].by
            /\ keys'[Key(c)].body = keys[Key(c)].body
            /\ keys'[Key(c)].epoch = keys[Key(c)].epoch
         \/ keys'[Key(c)].state = "none" /\ keys'[Key(c)].epoch = keys[Key(c)].epoch + 1
  PROVE  Once'
<1>0. /\ Key(c) \in Keys /\ \A j \in DOMAIN jobs : /\ jobs[j].by \in Calls /\ Key(jobs[j].by) \in Keys
                                                    /\ jobs[j].epoch \in Nat
      /\ \A d \in Calls : Key(d) \in Keys
      /\ \A k \in Keys : keys[k].epoch \in Nat
  BY CallFacts, LogFacts, KeyFacts DEF Typed
<1>1. keys[Key(c)].state = "pending" /\ keys[Key(c)].by = c
  BY DEF Once, Owned
<1>2. Rows'
  <2> SUFFICES ASSUME NEW k \in Keys, keys'[k].state # "none"
               PROVE  keys'[k].by \in Calls /\ Key(keys'[k].by) = k /\ keys'[k].body = BodyOf[keys'[k].by]
    BY DEF Rows, Key
  <2>1. keys[k].state # "none" /\ keys'[k].by = keys[k].by /\ keys'[k].body = keys[k].body
    BY <1>1
  <2> QED
    BY <2>1 DEF Once, Rows
<1>3. Owned'
  <2> SUFFICES ASSUME NEW d \in Calls, Inside(d)'
               PROVE  keys'[Key(d)].state = "pending" /\ keys'[Key(d)].by = d /\ ~keys'[Key(d)].old
    BY DEF Owned, Key
  <2>1. d # c /\ Inside(d)
    BY DEF OnlyCall, Inside
  <2>2. Key(d) # Key(c)
    BY <1>1, <2>1 DEF Once, Owned
  <2> QED
    BY <1>0, <2>1, <2>2 DEF Once, Owned
<1>4. Logged'
  <2> SUFFICES ASSUME NEW j \in DOMAIN jobs
               PROVE  LET k == Key(jobs[j].by) IN
                      /\ jobs[j].epoch <= keys'[k].epoch
                      /\ jobs[j].epoch = keys'[k].epoch =>
                           keys'[k].state # "none" /\ keys'[k].by = jobs[j].by /\ call'[jobs[j].by].pc \notin Early
    BY DEF Logged, Current, Key
  <2> DEFINE k == Key(jobs[j].by)
  <2>1. /\ k \in Keys /\ jobs[j].epoch \in Nat /\ keys[k].epoch \in Nat /\ jobs[j].epoch <= keys[k].epoch
        /\ jobs[j].epoch = keys[k].epoch =>
             keys[k].state # "none" /\ keys[k].by = jobs[j].by /\ call[jobs[j].by].pc \notin Early
    BY <1>0 DEF Once, Logged, Current
  <2>2. call'[jobs[j].by].pc \in Early => call[jobs[j].by].pc \in Early
    BY <1>0 DEF OnlyCall, Early
  <2> HIDE DEF k
  <2>3. CASE k = Key(c)
    BY <2>1, <2>2, <2>3 DEF k
  <2>4. CASE k # Key(c)
    BY <2>1, <2>2, <2>4 DEF k
  <2> QED
    BY <2>3, <2>4
<1>5. RunsOnce'
  BY DEF Once, RunsOnce, Key
<1> QED
  BY <1>2, <1>3, <1>4, <1>5 DEF Once

LEMMA InsertOnce ==
  ASSUME Typed, Once, NEW c \in Calls, call[c].pc = "enqueue", UNCHANGED keys, Inserts(c)
  PROVE  Once'
<1> DEFINE n == Len(jobs) + 1
<1>0. /\ \A j \in DOMAIN jobs : jobs[j].by \in Calls /\ jobs[j].epoch \in Nat
      /\ keys[Key(c)].epoch \in Nat /\ Key(c) \in Keys
  BY CallFacts, LogFacts, KeyFacts DEF Typed
<1>1. /\ OnlyCall(c) /\ call'[c].pc = "inserted"
      /\ DOMAIN jobs' = DOMAIN jobs \cup {n} /\ n \notin DOMAIN jobs
      /\ \A i \in DOMAIN jobs : jobs'[i] = jobs[i]
      /\ jobs'[n].project = call[c].project /\ jobs'[n].by = c /\ jobs'[n].epoch = keys[Key(c)].epoch
  BY DEF Inserts, Moves
<1>2. keys[Key(c)].state = "pending" /\ keys[Key(c)].by = c
  BY DEF Once, Owned, Inside
<1>3. \A i \in DOMAIN jobs : Key(jobs[i].by) # Key(c) \/ jobs[i].epoch # keys[Key(c)].epoch
  BY <1>2 DEF Once, Logged, Current, Early
<1>4. \A i \in DOMAIN jobs : \/ BodyOf[c].submission = None
                             \/ BodyOf[jobs[i].by].submission # BodyOf[c].submission
                             \/ jobs[i].project # call[c].project
  BY DEF Inserts, SameSubmission
<1> HIDE DEF n
<1>5. RunsOnce'
  <2> SUFFICES ASSUME NEW i \in DOMAIN jobs', NEW j \in DOMAIN jobs', i # j
               PROVE  /\ Key(jobs'[i].by) # Key(jobs'[j].by) \/ jobs'[i].epoch # jobs'[j].epoch
                      /\ \/ BodyOf[jobs'[i].by].submission = None
                         \/ BodyOf[jobs'[i].by].submission # BodyOf[jobs'[j].by].submission
                         \/ jobs'[i].project # jobs'[j].project
    BY DEF RunsOnce, Key
  <2>1. CASE i \in DOMAIN jobs /\ j \in DOMAIN jobs
    BY <1>1, <2>1 DEF Once, RunsOnce
  <2>2. CASE i = n /\ j \in DOMAIN jobs
    BY <1>1, <1>3, <1>4, <2>2
  <2>3. CASE i \in DOMAIN jobs /\ j = n
    BY <1>1, <1>3, <1>4, <2>3
  <2> QED
    BY <1>1, <2>1, <2>2, <2>3
<1>6. Rows' /\ Owned'
  BY <1>1 DEF Once, Rows, Owned, OnlyCall, Inside, Key
<1>7. Logged'
  <2> SUFFICES ASSUME NEW j \in DOMAIN jobs'
               PROVE  /\ jobs'[j].epoch <= keys[Key(jobs'[j].by)].epoch
                      /\ jobs'[j].epoch = keys[Key(jobs'[j].by)].epoch =>
                           /\ keys[Key(jobs'[j].by)].state # "none"
                           /\ keys[Key(jobs'[j].by)].by = jobs'[j].by
                           /\ call'[jobs'[j].by].pc \notin Early
    BY DEF Logged, Current, Key
  <2>1. CASE j = n
    BY <1>0, <1>1, <1>2, <2>1 DEF Early
  <2>2. CASE j \in DOMAIN jobs
    <3>1. call'[jobs[j].by].pc \in Early => call[jobs[j].by].pc \in Early
      BY <1>0, <1>1, <2>2 DEF OnlyCall, Early
    <3> QED
      BY <1>1, <2>2, <3>1 DEF Once, Logged, Current
  <2> QED
    BY <1>1, <2>1, <2>2
<1> QED
  BY <1>5, <1>6, <1>7 DEF Once

LEMMA RequestOnce ==
  ASSUME Typed, Once, NEW c \in Calls, Request(c)
  PROVE  Once'
<1>1. CASE Reserve(c)
  <2>1. CASE keys' = Reserved(c) /\ Purged[Key(c)].state = "none" /\ OnlyCall(c)
    BY <1>1, <2>1, ReserveOnce, ReserveSteps
  <2>2. CASE UNCHANGED keys /\ OnlyCall(c) /\ call'[c].pc = "answer"
    BY <1>1, <2>2, CallOnce, ReserveSteps DEF Early
  <2>3. CASE UNCHANGED <<keys, call>>
    BY <1>1, <2>3, ReserveSteps
       DEF Once, Rows, Owned, Logged, Current, RunsOnce, Inside, Key
  <2> QED
    BY <1>1, <2>1, <2>2, <2>3, ReserveSteps DEF Moves
<1>2. CASE Reply(c)
  BY <1>2, CallOnce, ReplySteps DEF Moves, Inside, Early
<1>3. CASE Store(c)
  <2>0. call[c].pc = "store" /\ Inside(c) /\ keys[Key(c)].state = "pending"
    BY <1>3, StoreSteps DEF Once, Owned, Inside
  <2>1. CASE Moves(c, "raise", call[c].project, call[c].outcome, call[c].heard) /\ UNCHANGED keys
    BY <1>3, <2>0, <2>1, CallOnce, StoreSteps DEF Moves, Early
  <2>2. CASE Moves(c, "rest", 0, NoAnswer, call[c].heard)
    BY <1>3, <2>0, <2>2, EndOnce, StoreSteps DEF Moves
  <2> QED
    BY <1>3, <2>1, <2>2, StoreSteps
<1>4. CASE Raise(c)
  <2>1. Inside(c) /\ keys[Key(c)].state = "pending" /\ Key(c) \in Keys
    BY <1>4, RaiseSteps, CallFacts DEF Once, Owned, Inside, Typed
  <2>2. keys'[Key(c)].state = "none" /\ keys'[Key(c)].epoch = keys[Key(c)].epoch + 1
    BY <1>4, <2>1, RaiseSteps, PurgedFacts
  <2> QED
    BY <1>4, <2>1, <2>2, EndOnce, RaiseSteps DEF Moves
<1>f. ASSUME Inside(c), Fails(c), UNCHANGED <<keys, jobs>> PROVE Once'
  BY <1>f, CallOnce DEF Fails, FailsWith, Moves, Early
<1>5. CASE Create(c)
  BY <1>5, CallOnce, CreateSteps DEF Moves, Inside, Early
<1>6. CASE WritePlan(c)
  <2>1. CASE Moves(c, "enqueue", call[c].project, call[c].outcome, call[c].heard)
    BY <1>6, <2>1, CallOnce, WritePlanSteps DEF Moves, Inside, Early
  <2> QED
    BY <1>6, <1>f, <2>1, WritePlanSteps DEF Inside
<1>7. CASE Enqueue(c)
  <2>1. ASSUME NEW a, Moves(c, "inserted", call[c].project, a, call[c].heard), UNCHANGED jobs
        PROVE  Once'
    BY <1>7, <2>1, CallOnce, EnqueueSteps DEF Moves, Inside, Early
  <2> QED
    BY <1>7, <1>f, <2>1, EnqueueSteps, InsertOnce DEF Inside
<1>8. CASE GetJob(c) \/ ReadJob(c)
  <2>1. CASE \/ Moves(c, "read", call[c].project, call[c].outcome, call[c].heard)
             \/ Moves(c, "reply", call[c].project, call[c].outcome, call[c].heard)
             \/ Moves(c, "raise", call[c].project, Broken, call[c].heard)
    BY <1>8, <2>1, CallOnce, ReadSteps DEF Moves, Inside, Early
  <2> QED
    BY <1>8, <1>f, <2>1, ReadSteps DEF Inside, Fails
<1>9. CASE Undo(c)
  BY <1>9, CallOnce, UndoSteps DEF Moves, Inside, Early
<1> QED
  BY <1>1, <1>2, <1>3, <1>4, <1>5, <1>6, <1>7, <1>8, <1>9 DEF Request, Handle

\* Where no request outlives its key.
LEMMA OutsideOnce ==
  ASSUME Typed, Once, "day" \notin PostFaults,
         \/ \E k \in Keys : Expire(k)
         \/ \E p \in DOMAIN projects : RemoveProject(p)
         \/ Crash \/ UNCHANGED vars
  PROVE  Once'
<1>0. \A j \in DOMAIN jobs : jobs[j].by \in Calls
  BY LogFacts DEF Typed
<1>k. \A d \in Calls : Key(d) \in Keys
  BY CallFacts DEF Typed
<1>1. ASSUME NEW k \in Keys, Expire(k) PROVE Once'
  <2>1. /\ UNCHANGED <<call, jobs>> /\ \A l \in Keys \ {k} : keys'[l] = keys[l]
        /\ keys'[k].state = keys[k].state /\ keys'[k].body = keys[k].body
        /\ keys'[k].by = keys[k].by /\ keys'[k].epoch = keys[k].epoch
    BY <1>1, ExpireFacts
  <2>2. \A l \in Keys : /\ keys'[l].state = keys[l].state /\ keys'[l].body = keys[l].body
                        /\ keys'[l].by = keys[l].by /\ keys'[l].epoch = keys[l].epoch
    BY <2>1
  <2>3. Rows' /\ Logged' /\ RunsOnce'
    BY <1>0, <1>k, <2>1, <2>2 DEF Once, Rows, Logged, Current, RunsOnce, Key
  <2>4. Owned'
    <3>1. ~\E c \in Calls : Inside(c) /\ keys[k].by = c
      BY <1>1 DEF Expire
    <3> QED
      BY <1>k, <2>1, <2>2, <3>1 DEF Once, Owned, Inside, Key
  <2> QED
    BY <2>3, <2>4 DEF Once
<1>2. ASSUME NEW p \in DOMAIN projects, RemoveProject(p) PROVE Once'
  <2>1. UNCHANGED <<keys, call>>
    BY <1>2 DEF RemoveProject
  <2>2. /\ DOMAIN jobs' = DOMAIN jobs
        /\ \A j \in DOMAIN jobs : /\ jobs'[j].project = jobs[j].project
                                  /\ jobs'[j].by = jobs[j].by /\ jobs'[j].epoch = jobs[j].epoch
    BY <1>2, RemoveFacts
  <2> QED
    BY <2>1, <2>2 DEF Once, Rows, Owned, Logged, Current, RunsOnce, Inside, Key
<1>3. CASE Crash
  <2>1. UNCHANGED <<keys, jobs>> /\ \A c \in Calls : call'[c].pc = "rest"
    BY <1>3, CrashFacts
  <2> QED
    BY <1>0, <2>1 DEF Once, Rows, Owned, Logged, Current, RunsOnce, Inside, Key, Early
<1>4. CASE UNCHANGED vars
  BY <1>4 DEF vars, Once, Rows, Owned, Logged, Current, RunsOnce, Inside, Key
<1> QED
  BY <1>1, <1>2, <1>3, <1>4

LEMMA OnceInvariant ==
  ASSUME "day" \notin PostFaults
  PROVE  Spec => [](Typed /\ Once)
<1>1. Init => Once
  BY PostAssumption DEF Init, Once, Rows, Owned, Logged, RunsOnce, Unused, Resting, Inside, Key
<1>2. Typed /\ Once /\ [Next]_vars => Once'
  <2> SUFFICES ASSUME Typed, Once, [Next]_vars PROVE Once'
    OBVIOUS
  <2> QED
    BY RequestOnce, OutsideOnce DEF Next
<1> QED
  BY <1>1, <1>2, InitTyped, NextTyped, PTL DEF Spec

\* One reservation queues one job and a submission id names one job of its
\* project, however requests overlap, fail, are cut short and are repeated, as
\* long as no request outlives its key.
THEOREM OneJobPerReservation == ASSUME "day" \notin PostFaults PROVE Spec => []RunsOnce
<1>1. Typed /\ Once => RunsOnce
  BY DEF Once
<1> QED
  BY <1>1, OnceInvariant, PTL

\* What a handler releases or remembers by the name of its key is its own row.
THEOREM EndsItsOwn == ASSUME "day" \notin PostFaults PROVE Spec => []OwnReservation
<1>1. Typed /\ Once => OwnReservation
  BY DEF Once, Owned, OwnReservation
<1> QED
  BY <1>1, OnceInvariant, PTL

-----------------------------------------------------------------------------
(* Every song has a project of its own *)

\* The project a song request makes has no other maker and no song's job in it
\* before its own; a job may be for any project.
Making(c) == Is(c, "song") /\ call[c].pc \in {"plan", "enqueue"}
Apart ==
  /\ \A j \in DOMAIN jobs : jobs[j].project \in DOMAIN projects
  /\ \A c \in Calls : Making(c) =>
       /\ \A j \in DOMAIN jobs : jobs[j].project = call[c].project => ~Is(jobs[j].by, "song")
       /\ \A d \in Calls : Making(d) /\ call[d].project = call[c].project => d = c

LEMMA CallApart ==
  ASSUME Apart, NEW c \in Calls, OnlyCall(c), UNCHANGED jobs,
         DOMAIN projects \subseteq DOMAIN projects',
         Making(c)' => Making(c) /\ call'[c].project = call[c].project
  PROVE  Apart'
<1>1. \A d \in Calls : Making(d)' => Making(d) /\ call'[d].project = call[d].project
  BY DEF OnlyCall, Making, Is
<1> HIDE DEF Making
<1> QED
  BY <1>1 DEF Apart, Is

LEMMA RequestApart ==
  ASSUME Typed, Apart, NEW c \in Calls, Request(c)
  PROVE  Apart'
<1>0. /\ Len(projects) \in Nat /\ DOMAIN projects = 1 .. Len(projects)
      /\ \A d \in Calls : call[d].project \in 0 .. Len(projects)
  BY LogFacts DEF Typed, TypeOK
<1>f. ASSUME Fails(c), UNCHANGED <<projects, jobs>> PROVE Apart'
  BY <1>f, CallApart DEF Fails, FailsWith, Moves, Making
<1>1. CASE Reserve(c)
  <2>1. CASE UNCHANGED call
    BY <1>1, <2>1, ReserveSteps DEF Apart, Making, Is
  <2>2. CASE Is(c, "song") /\ Moves(c, "create", 0, call[c].outcome, call[c].heard)
    BY <1>1, <2>2, ReserveSteps, CallApart DEF Moves, Making
  <2>3. CASE ~Is(c, "song") /\ OnlyCall(c)
    BY <1>1, <2>3, ReserveSteps, CallApart DEF Making, Is
  <2>4. CASE OnlyCall(c) /\ call'[c].pc = "answer"
    BY <1>1, <2>4, ReserveSteps, CallApart DEF Making
  <2> QED
    BY <1>1, <2>1, <2>2, <2>3, <2>4, ReserveSteps DEF Moves
<1>2. CASE Reply(c) \/ Store(c) \/ Raise(c)
  BY <1>2, ReplySteps, StoreSteps, RaiseSteps, CallApart DEF Moves, Making
<1>3. CASE Create(c)
  <2>1. ASSUME NEW n, n \notin DOMAIN projects, n # 0, DOMAIN projects' = DOMAIN projects \cup {n},
               OnlyCall(c), call'[c].project = n, UNCHANGED jobs
        PROVE  Apart'
    <3>1. \A d \in Calls \ {c} : Making(d)' => Making(d) /\ call'[d].project = call[d].project
                                               /\ call[d].project # n
      BY <1>0, <2>1 DEF OnlyCall, Making, Is
    <3> HIDE DEF Making
    <3> QED
      BY <2>1, <3>1 DEF Apart, Is
  <2>2. CASE LET n == Len(projects) + 1 IN
             /\ Moves(c, "plan", n, call[c].outcome, call[c].heard)
             /\ DOMAIN projects' = DOMAIN projects \cup {n} /\ n \notin DOMAIN projects
    BY <1>0, <1>3, <2>1, <2>2, CreateSteps DEF Moves
  <2>3. CASE Moves(c, "raise", call[c].project, Broken, call[c].heard)
    BY <1>3, <2>3, CreateSteps, CallApart DEF Moves, Making
  <2> QED
    BY <1>3, <2>2, <2>3, CreateSteps
<1>4. CASE WritePlan(c)
  <2>1. CASE Moves(c, "enqueue", call[c].project, call[c].outcome, call[c].heard)
    BY <1>4, <2>1, WritePlanSteps, CallApart DEF Moves, Making, Is
  <2> QED
    BY <1>4, <1>f, <2>1, WritePlanSteps
<1>5. CASE Enqueue(c)
  <2>1. ASSUME NEW a, Moves(c, "inserted", call[c].project, a, call[c].heard), UNCHANGED jobs
        PROVE  Apart'
    BY <1>5, <2>1, EnqueueSteps, CallApart DEF Moves, Making
  <2>2. CASE Inserts(c)
    <3> DEFINE n == Len(jobs) + 1
    <3>1. /\ DOMAIN jobs' = DOMAIN jobs \cup {n} /\ n \notin DOMAIN jobs
          /\ \A i \in DOMAIN jobs : jobs'[i] = jobs[i]
          /\ jobs'[n].project = call[c].project /\ jobs'[n].by = c
          /\ call[c].project \in DOMAIN projects /\ OnlyCall(c) /\ call'[c].pc = "inserted"
          /\ call[c].pc = "enqueue" /\ UNCHANGED projects
      BY <1>5, <2>2, EnqueueSteps DEF Inserts, Moves
    <3> HIDE DEF n
    <3>2. /\ ~Making(c)' /\ (Is(c, "song") => Making(c))
          /\ \A d \in Calls \ {c} : Making(d)' => Making(d) /\ call'[d].project = call[d].project
      BY <3>1 DEF OnlyCall, Making, Is
    <3>3. \A j \in DOMAIN jobs' : jobs'[j].project \in DOMAIN projects'
      BY <3>1 DEF Apart
    <3>4. ASSUME NEW d \in Calls, Making(d)'
          PROVE  /\ \A j \in DOMAIN jobs' : jobs'[j].project = call'[d].project => ~Is(jobs'[j].by, "song")
                 /\ \A e \in Calls : Making(e)' /\ call'[e].project = call'[d].project => e = d
      <4>1. d # c /\ Making(d) /\ call'[d].project = call[d].project
        BY <3>2, <3>4
      <4>2. call[d].project = call[c].project => ~Is(c, "song")
        BY <3>2, <4>1 DEF Apart
      <4> HIDE DEF Making
      <4> QED
        BY <3>1, <3>2, <4>1, <4>2 DEF Apart
    <3> HIDE DEF Making
    <3> QED
      BY <3>3, <3>4 DEF Apart, Is
  <2> QED
    BY <1>5, <1>f, <2>1, <2>2, EnqueueSteps
<1>6. CASE GetJob(c) \/ ReadJob(c)
  <2>1. CASE /\ OnlyCall(c) /\ call'[c].pc \in {"read", "reply", "raise"}
    BY <1>6, <2>1, ReadSteps, CallApart DEF Making
  <2> QED
    BY <1>6, <1>f, <2>1, ReadSteps DEF Moves, Fails
<1>7. CASE Undo(c)
  BY <1>7, UndoSteps, CallApart DEF Moves, Making
<1> QED
  BY <1>1, <1>2, <1>3, <1>4, <1>5, <1>6, <1>7 DEF Request, Handle

LEMMA OutsideApart ==
  ASSUME Typed, Apart,
         \/ \E k \in Keys : Expire(k)
         \/ \E p \in DOMAIN projects : RemoveProject(p)
         \/ Crash \/ UNCHANGED vars
  PROVE  Apart'
<1>1. CASE UNCHANGED <<call, projects, jobs>>
  BY <1>1 DEF Apart, Making, Is
<1>2. ASSUME NEW p \in DOMAIN projects, RemoveProject(p) PROVE Apart'
  <2>1. UNCHANGED call
    BY <1>2 DEF RemoveProject
  <2> QED
    <3>1. /\ DOMAIN projects' = DOMAIN projects /\ DOMAIN jobs' = DOMAIN jobs
          /\ \A j \in DOMAIN jobs : jobs'[j].project = jobs[j].project /\ jobs'[j].by = jobs[j].by
      BY <1>2, RemoveFacts
    <3>2. \A c \in Calls : Making(c)' => Making(c)
      BY <2>1 DEF Making, Is
    <3> HIDE DEF Making
    <3>3. \A j \in DOMAIN jobs' : jobs'[j].project \in DOMAIN projects'
      BY <3>1 DEF Apart
    <3>4. ASSUME NEW c \in Calls, Making(c)'
          PROVE  /\ \A j \in DOMAIN jobs' : jobs'[j].project = call[c].project => ~Is(jobs'[j].by, "song")
                 /\ \A d \in Calls : Making(d)' /\ call[d].project = call[c].project => d = c
      BY <3>1, <3>2, <3>4 DEF Apart
    <3> QED
      BY <2>1, <3>3, <3>4 DEF Apart, Is
<1>3. CASE Crash
  BY <1>3, CrashFacts DEF Apart, Making
<1> QED
  BY <1>1, <1>2, <1>3 DEF Expire, vars

-----------------------------------------------------------------------------
(* Answers name jobs made from what was sent *)

Sent(a, body) == a.status = "accepted" => a.job \in DOMAIN jobs /\ BodyOf[jobs[a.job].by] = body
Answered ==
  /\ \A c \in Calls : Sent(call[c].heard, BodyOf[c]) /\ Sent(call[c].outcome, BodyOf[c])
  /\ \A k \in Keys : Sent(keys[k].answer, keys[k].body)

LEMMA NothingSent ==
  \A body : Sent(NoAnswer, body) /\ Sent(Rejected, body) /\ Sent(Broken, body)
BY DEF Sent, NoAnswer, Rejected, Broken

LEMMA AcceptedFacts ==
  /\ \A i, j : Accepted(i) = Accepted(j) => i = j
  /\ \A j : Accepted(j).job = j /\ Accepted(j).status = "accepted"
  /\ \A j : Accepted(j) # NoAnswer /\ Accepted(j) # Rejected /\ Accepted(j) # Broken
BY DEF Accepted, NoAnswer, Rejected, Broken

\* Jobs keep their number and who queued them.
Grown == /\ DOMAIN jobs \subseteq DOMAIN jobs'
         /\ \A j \in DOMAIN jobs : jobs'[j].by = jobs[j].by

LEMMA SentKept ==
  ASSUME Grown
  PROVE  \A a, body : Sent(a, body) => Sent(a, body)'
BY DEF Grown, Sent

LEMMA CallAnswered ==
  ASSUME Answered, NEW c \in Calls, OnlyCall(c), Grown,
         Sent(call'[c].heard, BodyOf[c]) \/ Sent(call[c].heard, BodyOf[c])',
         Sent(call'[c].outcome, BodyOf[c]) \/ Sent(call[c].outcome, BodyOf[c])',
         \A k \in Keys : Sent(keys'[k].answer, keys'[k].body)
  PROVE  Answered'
<1>1. \A a, body : Sent(a, body) => Sent(a, body)'
  BY SentKept
<1>2. \A k \in Keys : Sent(keys[k].answer, keys[k].body)'
  BY <1>1
<1>3. Sent(call[c].heard, BodyOf[c])' /\ Sent(call[c].outcome, BodyOf[c])'
  BY <1>1
<1>4. \A d \in Calls \ {c} : Sent(call[d].heard, BodyOf[d])' /\ Sent(call[d].outcome, BodyOf[d])'
  BY <1>1 DEF Answered, OnlyCall
<1> HIDE DEF Sent
<1> QED
  BY <1>2, <1>3, <1>4 DEF Answered

LEMMA RequestAnswered ==
  ASSUME Typed, Once, Answered, NEW c \in Calls, Request(c)
  PROVE  Answered'
<1>0. /\ Sent(call[c].heard, BodyOf[c]) /\ Sent(call[c].outcome, BodyOf[c])
      /\ Sent(NoAnswer, BodyOf[c]) /\ Sent(Rejected, BodyOf[c]) /\ Sent(Broken, BodyOf[c])
      /\ \A k \in Keys : Sent(keys[k].answer, keys[k].body)
  BY NothingSent DEF Answered
<1>s. UNCHANGED jobs => Grown
  BY DEF Grown
<1> HIDE DEF Sent
<1>q. ASSUME NEW pc, NEW p, NEW a, NEW h, Moves(c, pc, p, a, h), UNCHANGED <<keys, jobs>>,
             Sent(a, BodyOf[c]), Sent(h, BodyOf[c])
      PROVE  Answered'
  BY <1>0, <1>q, <1>s, CallAnswered DEF Moves
<1>f. ASSUME Fails(c), UNCHANGED <<keys, jobs>> PROVE Answered'
  <2>1. PICK a \in {Rejected, Broken}, pc \in {"undo", "raise", "reply"} :
          Moves(c, pc, call[c].project, a, call[c].heard)
    BY <1>f DEF Fails, FailsWith
  <2> QED
    BY <1>0, <1>f, <1>q, <2>1
<1>1. CASE Reserve(c)
  <2>1. CASE keys' = Reserved(c) /\ Purged[Key(c)].state = "none" /\ OnlyCall(c)
             /\ call'[c].outcome = call[c].outcome /\ call'[c].heard = call[c].heard
    <3>1. /\ keys'[Key(c)].answer = NoAnswer
          /\ \A k \in Keys \ {Key(c)} : keys'[k] = Purged[k]
      BY <2>1, ReservedFacts
    <3>2. \A k \in Keys : Purged[k] = keys[k] \/ Purged[k].answer = NoAnswer
      BY PurgedFacts
    <3>3. \A k \in Keys : Sent(keys'[k].answer, keys'[k].body)
      BY <1>0, <3>1, <3>2, NothingSent
    <3> QED
      BY <1>0, <1>1, <1>s, <2>1, <3>3, CallAnswered, ReserveSteps
  <2>2. ASSUME NEW a \in Answer, Moves(c, "answer", call[c].project, a, call[c].heard), UNCHANGED keys,
               \/ a = Rejected
               \/ keys[Key(c)].body = BodyOf[c] /\ a = keys[Key(c)].answer
        PROVE  Answered'
    <3>1. Sent(a, BodyOf[c])
      BY <1>0, <2>2, CallFacts DEF Typed
    <3> QED
      BY <1>0, <1>1, <1>q, <2>2, <3>1, ReserveSteps
  <2>3. CASE UNCHANGED <<keys, call>>
    BY <1>1, <2>3, ReserveSteps DEF Answered, Sent
  <2> QED
    BY <1>1, <2>1, <2>2, <2>3, ReserveSteps DEF Moves
<1>2. CASE Reply(c)
  <2>1. PICK h \in {call[c].outcome, NoAnswer} :
          \/ Moves(c, "store", call[c].project, call[c].outcome, h)
          \/ Moves(c, "rest", 0, NoAnswer, h)
    BY <1>2, ReplySteps
  <2> QED
    BY <1>0, <1>2, <1>q, <2>1, ReplySteps
<1>3. CASE Store(c)
  <2>1. CASE Moves(c, "raise", call[c].project, call[c].outcome, call[c].heard) /\ UNCHANGED keys
    BY <1>0, <1>3, <1>q, <2>1, StoreSteps
  <2>2. CASE Moves(c, "rest", 0, NoAnswer, call[c].heard) /\ ~UNCHANGED keys
    <3>1. /\ keys[Key(c)].state = "pending" /\ keys[Key(c)].by = c
          /\ keys[Key(c)].body = BodyOf[c] /\ Key(c) \in Keys
      BY <1>3, StoreSteps, CallFacts DEF Once, Owned, Rows, Inside, Typed
    <3>2. /\ \A k \in Keys \ {Key(c)} : keys'[k] = keys[k]
          /\ keys'[Key(c)].answer = call[c].outcome /\ keys'[Key(c)].body = BodyOf[c]
      BY <1>3, <2>1, <2>2, <3>1, StoreSteps
    <3>3. \A k \in Keys : Sent(keys'[k].answer, keys'[k].body)
      BY <1>0, <3>2
    <3> QED
      BY <1>0, <1>3, <1>s, <2>2, <3>3, CallAnswered, StoreSteps DEF Moves
  <2>3. CASE Moves(c, "rest", 0, NoAnswer, call[c].heard) /\ UNCHANGED keys
    BY <1>0, <1>3, <1>q, <2>3, StoreSteps
  <2> QED
    BY <1>3, <2>1, <2>2, <2>3, StoreSteps
<1>4. CASE Raise(c)
  <2>1. \A k \in Keys : keys'[k] = keys[k] \/ keys'[k].answer = NoAnswer
    BY <1>4, RaiseSteps, PurgedFacts
  <2>2. \A k \in Keys : Sent(keys'[k].answer, keys'[k].body)
    BY <1>0, <2>1, NothingSent
  <2> QED
    BY <1>0, <1>4, <1>s, <2>2, CallAnswered, RaiseSteps DEF Moves
<1>5. CASE Create(c)
  BY <1>0, <1>5, <1>q, CreateSteps
<1>6. CASE WritePlan(c)
  BY <1>0, <1>6, <1>f, <1>q, WritePlanSteps
<1>7. CASE Enqueue(c)
  <2>1. ASSUME NEW j \in SameSubmission(c), BodyOf[jobs[j].by] = BodyOf[c], UNCHANGED jobs,
               Moves(c, "inserted", call[c].project, Accepted(j), call[c].heard)
        PROVE  Answered'
    <3>1. Sent(Accepted(j), BodyOf[c])
      BY <2>1, AcceptedFacts DEF Sent, SameSubmission
    <3> QED
      BY <1>0, <1>7, <1>q, <2>1, <3>1, EnqueueSteps
  <2>2. CASE Inserts(c)
    <3>1. Grown /\ OnlyCall(c) /\ call'[c].heard = call[c].heard
      BY <2>2 DEF Inserts, Moves, Grown
    <3>2. \E n \in DOMAIN jobs' : jobs'[n].by = c /\ call'[c].outcome = Accepted(n)
      BY <2>2 DEF Inserts, Moves
    <3>3. Sent(call[c].outcome, BodyOf[c])'
      BY <3>2, AcceptedFacts DEF Sent
    <3> QED
      BY <1>0, <1>7, <3>1, <3>3, CallAnswered, EnqueueSteps
  <2> QED
    BY <1>7, <1>f, <2>1, <2>2, EnqueueSteps
<1>8. CASE GetJob(c) \/ ReadJob(c)
  <2>1. CASE \/ Moves(c, "read", call[c].project, call[c].outcome, call[c].heard)
             \/ Moves(c, "reply", call[c].project, call[c].outcome, call[c].heard)
             \/ Moves(c, "raise", call[c].project, Broken, call[c].heard)
    BY <1>0, <1>8, <1>q, <2>1, ReadSteps
  <2> QED
    BY <1>8, <1>f, <2>1, ReadSteps DEF Fails
<1>9. CASE Undo(c)
  BY <1>0, <1>9, <1>q, UndoSteps
<1> QED
  BY <1>1, <1>2, <1>3, <1>4, <1>5, <1>6, <1>7, <1>8, <1>9 DEF Request, Handle

LEMMA OutsideAnswered ==
  ASSUME Typed, Answered,
         \/ \E k \in Keys : Expire(k)
         \/ \E p \in DOMAIN projects : RemoveProject(p)
         \/ Crash \/ UNCHANGED vars
  PROVE  Answered'
<1>0. Grown => \A a, body : Sent(a, body) => Sent(a, body)'
  BY SentKept
<1>1. ASSUME NEW k \in Keys, Expire(k) PROVE Answered'
  <2>1. UNCHANGED <<call, jobs>> /\ \A l \in Keys : keys'[l].answer = keys[l].answer /\ keys'[l].body = keys[l].body
    BY <1>1, ExpireFacts
  <2> QED
    BY <2>1 DEF Answered, Sent
<1>2. ASSUME NEW p \in DOMAIN projects, RemoveProject(p) PROVE Answered'
  <2>1. Grown /\ UNCHANGED <<keys, call>>
    BY <1>2, RemoveFacts DEF Grown, RemoveProject
  <2> HIDE DEF Sent
  <2> QED
    BY <1>0, <2>1 DEF Answered
<1>3. CASE Crash
  <2>1. UNCHANGED <<keys, jobs>> /\ \A c \in Calls : call'[c].outcome = NoAnswer /\ call'[c].heard = call[c].heard
    BY <1>3, CrashFacts
  <2>2. \A a, body : Sent(a, body)' <=> Sent(a, body)
    BY <2>1 DEF Sent
  <2> HIDE DEF Sent
  <2> QED
    BY <2>1, <2>2, NothingSent DEF Answered
<1>4. CASE UNCHANGED vars
  BY <1>4 DEF vars, Answered, Sent
<1> QED
  BY <1>1, <1>2, <1>3, <1>4

-----------------------------------------------------------------------------
(* Two answers under one reservation name the same job *)

\* Nobody has been told of a job, or nobody but the request that queued it. A
\* song request that fails after its job is queued undoes its project and is
\* remembered as failed: its job stays a secret, which no replay, and no request
\* with the same submission id, can meet again.
Told(j) == \/ \E c \in Calls : call[c].heard = Accepted(j) \/ call[c].outcome = Accepted(j)
           \/ \E k \in Keys : keys[k].answer = Accepted(j)
Unheard(j) == /\ \A c \in Calls : call[c].heard # Accepted(j)
              /\ \A c \in Calls \ {jobs[j].by} : call[c].outcome # Accepted(j)
              /\ \A k \in Keys : keys[k].answer # Accepted(j)
Secret(j) == Is(jobs[j].by, "song") /\ ~Told(j)

\* What the row, and the request that is under way, say of a job of theirs.
Ended(j) == keys[Key(jobs[j].by)].state = "done" =>
              keys[Key(jobs[j].by)].answer = Accepted(j) \/ Secret(j)
Going(j) == LET d == jobs[j].by pc == call[jobs[j].by].pc IN
  /\ pc \in {"inserted", "read"} => call[d].outcome = Accepted(j)
  /\ pc = "inserted" /\ Is(d, "song") => Unheard(j)
  /\ pc \in {"undo", "reply", "store"} => call[d].outcome = Accepted(j) \/ Secret(j)
  /\ pc = "undo" => Secret(j)
Settled == \A j \in DOMAIN jobs : Current(j) => Ended(j) /\ Going(j)

\* The step makes no song's job known to whoever knew nothing of it.
Carries(c) == \A j \in DOMAIN jobs : Is(jobs[j].by, "song") =>
  /\ call'[c].outcome = Accepted(j) \/ call'[c].heard = Accepted(j) =>
       \/ call[c].outcome = Accepted(j) \/ call[c].heard = Accepted(j)
       \/ \E k \in Keys : keys[k].answer = Accepted(j)
  /\ \A k \in Keys : keys'[k].answer = Accepted(j) =>
       call[c].outcome = Accepted(j) \/ \E l \in Keys : keys[l].answer = Accepted(j)

LEMMA SecretKept ==
  ASSUME NEW c \in Calls, OnlyCall(c), Grown, Carries(c), NEW j \in DOMAIN jobs, Secret(j)
  PROVE  Secret(j)'
BY DEF Secret, Told, OnlyCall, Grown, Carries, Is

LEMMA UnheardKept ==
  ASSUME NEW c \in Calls, OnlyCall(c), Grown, Carries(c), NEW j \in DOMAIN jobs,
         Is(jobs[j].by, "song"), c # jobs[j].by, Unheard(j)
  PROVE  Unheard(j)'
BY DEF Unheard, OnlyCall, Grown, Carries, Is

LEMMA OldSettled ==
  ASSUME Typed, Settled, NEW c \in Calls, OnlyCall(c), Grown, Carries(c),
         \A j \in DOMAIN jobs : Current(j)' =>
           /\ Current(j)
           /\ keys'[Key(jobs[j].by)].state = "done" =>
                \/ /\ keys[Key(jobs[j].by)].state = "done"
                   /\ keys'[Key(jobs[j].by)].answer = keys[Key(jobs[j].by)].answer
                \/ keys'[Key(jobs[j].by)].answer = Accepted(j)
                \/ Secret(j)
           /\ jobs[j].by = c /\ Going(j) => Going(j)'
  PROVE  \A j \in DOMAIN jobs : Current(j)' => Ended(j)' /\ Going(j)'
<1> SUFFICES ASSUME NEW j \in DOMAIN jobs, Current(j)' PROVE Ended(j)' /\ Going(j)'
  OBVIOUS
<1>1. Current(j) /\ Ended(j) /\ Going(j) /\ jobs[j].by \in Calls /\ jobs'[j].by = jobs[j].by
  BY LogFacts DEF Settled, Typed, Grown
<1>2. Secret(j) => Secret(j)'
  BY SecretKept
<1>3. Ended(j)'
  <2> HIDE DEF Secret
  <2> QED
    BY <1>1, <1>2 DEF Ended, Key
<1>4. CASE jobs[j].by = c
  BY <1>1, <1>3, <1>4
<1>5. CASE jobs[j].by # c
  <2>1. Unheard(j) /\ Is(jobs[j].by, "song") => Unheard(j)'
    BY <1>5, UnheardKept
  <2>2. call'[jobs[j].by] = call[jobs[j].by]
    BY <1>1, <1>5 DEF OnlyCall
  <2>3. Going(j)'
    <3> HIDE DEF Secret, Unheard
    <3> QED
      BY <1>1, <1>2, <2>1, <2>2 DEF Going, Is
  <2> QED
    BY <1>3, <2>3
<1> QED
  BY <1>4, <1>5

\* A step of one call that touches neither the rows nor the jobs.
LEMMA QuietSettled ==
  ASSUME Typed, Settled, NEW c \in Calls, OnlyCall(c), UNCHANGED <<keys, jobs>>, Carries(c),
         \A j \in DOMAIN jobs : jobs[j].by = c /\ Current(j) /\ Going(j) => Going(j)'
  PROVE  Settled'
<1>1. Grown /\ \A j \in DOMAIN jobs : Current(j)' <=> Current(j)
  BY DEF Grown, Current, Key
<1>2. \A j \in DOMAIN jobs : Current(j)' => Ended(j)' /\ Going(j)'
  BY <1>1, OldSettled
<1> QED
  BY <1>2 DEF Settled

\* What is carried when a call moves and the rows stay: its own answers, a
\* replay, or nothing.
LEMMA QuietCarries ==
  ASSUME NEW c \in Calls, UNCHANGED keys,
         call'[c].outcome \in {call[c].outcome, NoAnswer, Rejected, Broken} \/ \E k \in Keys : call'[c].outcome = keys[k].answer,
         call'[c].heard \in {call[c].heard, call[c].outcome, NoAnswer}
  PROVE  Carries(c)
BY AcceptedFacts DEF Carries

LEMMA ReserveSettled ==
  ASSUME Typed, Once, Settled, NEW c \in Calls, Reserve(c)
  PROVE  Settled'
<1>0. call[c].pc = "rest" /\ UNCHANGED jobs /\ Grown
  BY ReserveSteps DEF Grown
<1>1. CASE keys' = Reserved(c) /\ Purged[Key(c)].state = "none" /\ OnlyCall(c)
           /\ call'[c].outcome = call[c].outcome /\ call'[c].heard = call[c].heard
  <2>1. /\ keys'[Key(c)].answer = NoAnswer /\ keys'[Key(c)].epoch = Purged[Key(c)].epoch
        /\ \A k \in Keys \ {Key(c)} : keys'[k] = Purged[k]
    BY <1>1, ReservedFacts
  <2>2. \A k \in Keys : IF keys[k].old
          THEN Purged[k].state = "none" /\ Purged[k].epoch = keys[k].epoch + 1 /\ Purged[k].answer = NoAnswer
          ELSE Purged[k] = keys[k]
    BY PurgedFacts
  <2>3. Carries(c)
    BY <1>1, <2>1, <2>2, AcceptedFacts DEF Carries
  <2>4. ASSUME NEW j \in DOMAIN jobs, Current(j)'
        PROVE  Current(j) /\ keys'[Key(jobs[j].by)] = keys[Key(jobs[j].by)] /\ jobs[j].by # c
    <3> DEFINE k == Key(jobs[j].by)
    <3>1. /\ k \in Keys /\ jobs[j].epoch \in Nat /\ keys[k].epoch \in Nat /\ jobs[j].epoch <= keys[k].epoch
          /\ jobs[j].epoch = keys[k].epoch => keys[k].state # "none"
      BY LogFacts, CallFacts, KeyFacts DEF Once, Logged, Current, Typed
    <3>2. jobs[j].epoch = keys'[k].epoch /\ keys'[k].epoch = Purged[k].epoch
      BY <1>0, <2>1, <2>4, <3>1 DEF Current, Key
    <3>3. ~keys[k].old /\ k # Key(c)
      BY <1>1, <2>2, <3>1, <3>2
    <3> QED
      BY <2>1, <2>2, <3>1, <3>2, <3>3 DEF Current
  <2>5. \A j \in DOMAIN jobs : Current(j)' => Ended(j)' /\ Going(j)'
    <3> HIDE DEF Current, Going, Ended
    <3> QED
      BY <1>0, <1>1, <2>3, <2>4, OldSettled
  <2> QED
    BY <1>0, <2>5 DEF Settled
<1>2. ASSUME NEW a, UNCHANGED keys, Moves(c, "answer", call[c].project, a, call[c].heard),
             a = Rejected \/ a = keys[Key(c)].answer
      PROVE  Settled'
  <2>1. Carries(c)
    BY <1>2, QuietCarries, CallFacts DEF Moves, Typed
  <2>2. \A j \in DOMAIN jobs : jobs[j].by = c => Going(j)'
    BY <1>0, <1>2 DEF Going, Moves
  <2> QED
    BY <1>0, <1>2, <2>1, <2>2, QuietSettled DEF Moves
<1>3. CASE UNCHANGED <<keys, call>>
  BY <1>0, <1>3 DEF Settled, Current, Ended, Going, Secret, Told, Unheard, Key, Is
<1> QED
  BY <1>1, <1>2, <1>3, ReserveSteps DEF Moves

\* Its own row is ended by a call that rests.
LEMMA EndSettled ==
  ASSUME Typed, Once, Settled, NEW c \in Calls, Store(c) \/ Raise(c)
  PROVE  Settled'
<1>0. /\ UNCHANGED jobs /\ Grown /\ Key(c) \in Keys
      /\ Inside(c) /\ keys[Key(c)].state = "pending" /\ keys[Key(c)].by = c
      /\ \A j \in DOMAIN jobs : /\ jobs[j].by \in Calls /\ Key(jobs[j].by) \in Keys
                                /\ jobs[j].epoch \in Nat
      /\ \A k \in Keys : keys[k].epoch \in Nat
  BY StoreSteps, RaiseSteps, CallFacts, LogFacts, KeyFacts DEF Grown, Once, Owned, Inside, Typed
<1>1. CASE Store(c) /\ Moves(c, "raise", call[c].project, call[c].outcome, call[c].heard) /\ UNCHANGED keys
  <2>1. Carries(c)
    BY <1>1, QuietCarries DEF Moves
  <2>2. \A j \in DOMAIN jobs : jobs[j].by = c => Going(j)'
    BY <1>0, <1>1 DEF Going, Moves
  <2> QED
    BY <1>0, <1>1, <2>1, <2>2, QuietSettled DEF Moves
<1>2. CASE Store(c) /\ Moves(c, "rest", 0, NoAnswer, call[c].heard)
           /\ keys'[Key(c)].state = "done" /\ keys'[Key(c)].answer = call[c].outcome
           /\ keys'[Key(c)].epoch = keys[Key(c)].epoch
           /\ \A k \in Keys \ {Key(c)} : keys'[k] = keys[k]
  <2>1. Carries(c)
    BY <1>0, <1>2, AcceptedFacts DEF Moves, Carries
  <2>2. \A j \in DOMAIN jobs : jobs[j].by = c => Going(j)'
    BY <1>0, <1>2 DEF Going, Moves
  <2>3. ASSUME NEW j \in DOMAIN jobs, Current(j)'
        PROVE  /\ Current(j)
               /\ \/ keys'[Key(jobs[j].by)] = keys[Key(jobs[j].by)]
                  \/ keys'[Key(jobs[j].by)].answer = Accepted(j)
                  \/ Secret(j)
    <3>1. Current(j)
      BY <1>0, <1>2, <2>3 DEF Current, Key
    <3>2. CASE Key(jobs[j].by) # Key(c)
      BY <1>0, <1>2, <3>1, <3>2
    <3>3. CASE Key(jobs[j].by) = Key(c)
      <4>1. jobs[j].by = c
        BY <1>0, <3>1, <3>3 DEF Once, Logged
      <4>2. call[c].pc = "store"
        BY <1>2, StoreSteps
      <4>3. call[c].outcome = Accepted(j) \/ Secret(j)
        BY <3>1, <4>1, <4>2 DEF Settled, Going
      <4> HIDE DEF Secret
      <4> QED
        BY <1>2, <3>1, <4>1, <4>3
    <3> QED
      BY <3>2, <3>3
  <2>4. \A j \in DOMAIN jobs : Current(j)' => Ended(j)' /\ Going(j)'
    <3> HIDE DEF Current, Going, Ended, Secret
    <3> QED
      BY <1>0, <1>2, <2>1, <2>2, <2>3, OldSettled DEF Moves
  <2> QED
    BY <1>0, <2>4 DEF Settled
<1>3. CASE Raise(c)
  <2>1. /\ Moves(c, "rest", 0, NoAnswer, call[c].heard)
        /\ \A k \in Keys \ {Key(c)} : keys'[k] = keys[k]
        /\ keys'[Key(c)].epoch = keys[Key(c)].epoch + 1 /\ keys'[Key(c)].answer = NoAnswer
    BY <1>0, <1>3, RaiseSteps, PurgedFacts
  <2>2. Carries(c)
    BY <1>0, <2>1, AcceptedFacts DEF Moves, Carries
  <2>3. ASSUME NEW j \in DOMAIN jobs, Current(j)'
        PROVE  Current(j) /\ keys'[Key(jobs[j].by)] = keys[Key(jobs[j].by)] /\ jobs[j].by # c
    <3> DEFINE k == Key(jobs[j].by)
    <3>1. jobs[j].epoch = keys'[k].epoch /\ jobs[j].epoch <= keys[k].epoch
      BY <1>0, <2>3 DEF Current, Key, Once, Logged
    <3>2. k # Key(c)
      BY <1>0, <2>1, <3>1
    <3> QED
      BY <1>0, <2>1, <3>1, <3>2 DEF Current
  <2>4. \A j \in DOMAIN jobs : Current(j)' => Ended(j)' /\ Going(j)'
    <3> HIDE DEF Current, Going, Ended
    <3> QED
      BY <1>0, <2>1, <2>2, <2>3, OldSettled DEF Moves
  <2> QED
    BY <1>0, <2>4 DEF Settled
<1> QED
  BY <1>0, <1>1, <1>2, <1>3, StoreSteps

LEMMA InsertSettled ==
  ASSUME Typed, Once, Apart, Settled, NEW c \in Calls, Enqueue(c), Inserts(c)
  PROVE  Settled'
<1>n. PICK n : n = Len(jobs) + 1
  OBVIOUS
<1>1. /\ OnlyCall(c) /\ call'[c].pc = "inserted" /\ call'[c].outcome = Accepted(n)
      /\ call'[c].heard = call[c].heard
      /\ DOMAIN jobs' = DOMAIN jobs \cup {n} /\ n \notin DOMAIN jobs
      /\ \A i \in DOMAIN jobs : jobs'[i] = jobs[i]
      /\ jobs'[n].by = c /\ jobs'[n].epoch = keys[Key(c)].epoch
      /\ call[c].pc = "enqueue" /\ UNCHANGED keys
  BY <1>n, EnqueueSteps DEF Inserts, Moves
<1>2. \A j \in 0 .. Len(jobs) : j # n
  BY <1>n, LogFacts DEF Typed
<1>3. /\ \A d \in Calls : call[d].heard # Accepted(n) /\ call[d].outcome # Accepted(n)
      /\ \A k \in Keys : keys[k].answer # Accepted(n)
  <2>1. /\ \A d \in Calls : call[d].heard.job # n /\ call[d].outcome.job # n
        /\ \A k \in Keys : keys[k].answer.job # n
    BY <1>2 DEF Typed, TypeOK, KeysTyped
  <2> QED
    BY <2>1, AcceptedFacts
<1>4. /\ Key(c) \in Keys /\ keys[Key(c)].state = "pending"
      /\ \A j \in DOMAIN jobs : Current(j) => jobs[j].by # c
  BY <1>1, CallFacts DEF Once, Owned, Logged, Inside, Early, Typed
<1>5. Carries(c) /\ Grown
  BY <1>1, AcceptedFacts DEF Carries, Grown
<1>6. \A j \in DOMAIN jobs : Current(j)' <=> Current(j)
  BY <1>1 DEF Current, Key
<1>7. \A j \in DOMAIN jobs : Current(j)' => Ended(j)' /\ Going(j)'
  <2> HIDE DEF Current, Going, Ended
  <2> QED
    BY <1>1, <1>4, <1>5, <1>6, OldSettled
<1>8. Unheard(n)'
  BY <1>1, <1>3 DEF Unheard, OnlyCall
<1>9. Going(n)'
  <2> HIDE DEF Unheard
  <2> QED
    BY <1>1, <1>8 DEF Going
<1>10. Ended(n)'
  BY <1>1, <1>4 DEF Ended, Key
<1> HIDE DEF Current, Going, Ended
<1> QED
  BY <1>1, <1>7, <1>9, <1>10 DEF Settled

LEMMA HandleSettled ==
  ASSUME Typed, Once, Apart, Settled, NEW c \in Calls, Handle(c)
  PROVE  Settled'
<1>0. \A j \in DOMAIN jobs : jobs[j].by = c /\ Current(j) => call[c].pc \notin Early
  BY DEF Once, Logged
\* A handler that has not queued its job yet has none under its reservation.
<1>q. ASSUME NEW pc, NEW p, NEW a, Moves(c, pc, p, a, call[c].heard), UNCHANGED <<keys, jobs>>,
             a \in {call[c].outcome, Rejected, Broken}, call[c].pc \in Early
      PROVE  Settled'
  <2>1. Carries(c)
    BY <1>q, QuietCarries DEF Moves
  <2> QED
    BY <1>0, <1>q, <2>1, QuietSettled DEF Moves
<1>f. ASSUME Fails(c), UNCHANGED <<keys, jobs>>, call[c].pc \in Early PROVE Settled'
  <2>1. PICK a \in {Rejected, Broken}, pc \in {"undo", "raise", "reply"} :
          Moves(c, pc, call[c].project, a, call[c].heard)
    BY <1>f DEF Fails, FailsWith
  <2> QED
    BY <1>f, <1>q, <2>1
<1>1. CASE Create(c)
  BY <1>1, <1>q, CreateSteps DEF Early
<1>2. CASE WritePlan(c)
  BY <1>2, <1>f, <1>q, WritePlanSteps DEF Early
<1>3. CASE Enqueue(c)
  <2>1. ASSUME NEW j \in SameSubmission(c), BodyOf[jobs[j].by] = BodyOf[c], UNCHANGED <<keys, jobs>>,
               Moves(c, "inserted", call[c].project, Accepted(j), call[c].heard), call[c].pc = "enqueue"
        PROVE  Settled'
    \* The job of a song is in a project of its own.
    <3>1. ~Is(jobs[j].by, "song")
      <4>1. j \in DOMAIN jobs /\ jobs[j].project = call[c].project
        BY DEF SameSubmission
      <4>2. Is(jobs[j].by, "song") => Making(c)
        BY <2>1 DEF Making, Is
      <4> QED
        BY <4>1, <4>2 DEF Apart
    <3>2. Carries(c)
      BY <2>1, <3>1, AcceptedFacts DEF Moves, Carries
    <3> QED
      BY <1>0, <2>1, <3>2, QuietSettled DEF Moves, Early
  <2> QED
    BY <1>3, <1>f, <2>1, EnqueueSteps, InsertSettled DEF Early
<1>4. CASE GetJob(c) \/ ReadJob(c)
  <2>0. UNCHANGED <<keys, jobs>> /\ Grown
    BY <1>4, ReadSteps DEF Grown
  <2>1. CASE call[c].pc = "inserted" /\ Moves(c, "read", call[c].project, call[c].outcome, call[c].heard)
    <3>1. Carries(c)
      BY <2>0, <2>1, QuietCarries DEF Moves
    <3>2. \A j \in DOMAIN jobs : jobs[j].by = c /\ Going(j) => Going(j)'
      BY <2>0, <2>1 DEF Going, Moves
    <3> QED
      BY <2>0, <2>1, <3>1, <3>2, QuietSettled DEF Moves
  <2>2. CASE call[c].pc = "inserted" /\ FailsWith(c, Broken)
    <3>1. PICK pc \in {"undo", "raise", "reply"} :
            /\ Moves(c, pc, call[c].project, Broken, call[c].heard)
            /\ (Is(c, "song") <=> pc = "undo") /\ pc # "reply"
      BY <2>2 DEF FailsWith
    <3>2. Carries(c)
      BY <2>0, <3>1, QuietCarries DEF Moves
    <3>3. ASSUME NEW j \in DOMAIN jobs, jobs[j].by = c, Going(j) PROVE Going(j)'
      <4>1. CASE Is(c, "song")
        <5>1. Unheard(j)
          BY <2>2, <3>3, <4>1 DEF Going
        <5>2. Secret(j)'
          BY <2>0, <3>1, <3>3, <4>1, <5>1, AcceptedFacts DEF Unheard, Secret, Told, Moves, OnlyCall, Is
        <5> HIDE DEF Secret, Unheard
        <5> QED
          BY <2>0, <3>1, <3>3, <4>1, <5>2 DEF Going, Moves
      <4>2. CASE ~Is(c, "song")
        BY <2>0, <3>1, <3>3, <4>2 DEF Going, Moves
      <4> QED
        BY <4>1, <4>2
    <3> QED
      BY <2>0, <3>1, <3>2, <3>3, QuietSettled DEF Moves
  <2>3. CASE call[c].pc = "read" /\ Moves(c, "reply", call[c].project, call[c].outcome, call[c].heard)
    <3>1. Carries(c)
      BY <2>0, <2>3, QuietCarries DEF Moves
    <3>2. \A j \in DOMAIN jobs : jobs[j].by = c /\ Going(j) => Going(j)'
      BY <2>0, <2>3 DEF Going, Moves
    <3> QED
      BY <2>0, <2>3, <3>1, <3>2, QuietSettled DEF Moves
  <2>4. CASE call[c].pc = "read" /\ Moves(c, "raise", call[c].project, Broken, call[c].heard)
    <3>1. Carries(c)
      BY <2>0, <2>4, QuietCarries DEF Moves
    <3>2. \A j \in DOMAIN jobs : jobs[j].by = c /\ Going(j) => Going(j)'
      BY <2>0, <2>4 DEF Going, Moves
    <3> QED
      BY <2>0, <2>4, <3>1, <3>2, QuietSettled DEF Moves
  <2> QED
    BY <1>4, <2>1, <2>2, <2>3, <2>4, ReadSteps
<1>5. CASE Undo(c)
  <2>0. UNCHANGED <<keys, jobs>> /\ Grown /\ call[c].pc = "undo"
    BY <1>5, UndoSteps DEF Grown
  <2>1. PICK pc \in {"raise", "reply"}, a \in {call[c].outcome, Rejected, Broken} :
          Moves(c, pc, call[c].project, a, call[c].heard)
    BY <1>5, UndoSteps
  <2>2. Carries(c)
    BY <2>0, <2>1, QuietCarries DEF Moves
  <2>3. ASSUME NEW j \in DOMAIN jobs, jobs[j].by = c, Going(j) PROVE Going(j)'
    <3>1. Secret(j)'
      BY <2>0, <2>1, <2>2, <2>3, SecretKept DEF Going, Moves
    <3> HIDE DEF Secret
    <3> QED
      BY <2>0, <2>1, <2>3, <3>1 DEF Going, Moves
  <2> QED
    BY <2>0, <2>1, <2>2, <2>3, QuietSettled DEF Moves
<1> QED
  BY <1>1, <1>2, <1>3, <1>4, <1>5 DEF Handle

LEMMA ReplySettled ==
  ASSUME Typed, Settled, NEW c \in Calls, Reply(c)
  PROVE  Settled'
<1>0. UNCHANGED <<keys, jobs>> /\ Grown
  BY ReplySteps DEF Grown
<1>1. PICK h \in {call[c].outcome, NoAnswer} :
        \/ call[c].pc = "reply" /\ Moves(c, "store", call[c].project, call[c].outcome, h)
        \/ call[c].pc = "answer" /\ Moves(c, "rest", 0, NoAnswer, h)
  BY ReplySteps
<1>2. Carries(c)
  BY <1>0, <1>1, QuietCarries DEF Moves
<1>3. ASSUME NEW j \in DOMAIN jobs, jobs[j].by = c, Going(j) PROVE Going(j)'
  <2>1. Secret(j) => Secret(j)'
    BY <1>0, <1>1, <1>2, SecretKept DEF Moves
  <2> HIDE DEF Secret
  <2> QED
    BY <1>0, <1>1, <1>3, <2>1 DEF Going, Moves
<1> QED
  BY <1>0, <1>1, <1>2, <1>3, QuietSettled DEF Moves

LEMMA OutsideSettled ==
  ASSUME Typed, Settled,
         \/ \E k \in Keys : Expire(k)
         \/ \E p \in DOMAIN projects : RemoveProject(p)
         \/ Crash \/ UNCHANGED vars
  PROVE  Settled'
<1>0. \A j \in DOMAIN jobs : jobs[j].by \in Calls /\ Key(jobs[j].by) \in Keys
  BY LogFacts, CallFacts DEF Typed
<1>1. CASE /\ UNCHANGED call /\ DOMAIN jobs' = DOMAIN jobs
           /\ \A j \in DOMAIN jobs : jobs'[j].by = jobs[j].by /\ jobs'[j].epoch = jobs[j].epoch
           /\ \A k \in Keys : /\ keys'[k].state = keys[k].state /\ keys'[k].answer = keys[k].answer
                              /\ keys'[k].epoch = keys[k].epoch
  <2>1. \A j \in DOMAIN jobs : (Secret(j)' <=> Secret(j)) /\ (Unheard(j)' <=> Unheard(j)) /\ (Current(j)' <=> Current(j))
    BY <1>0, <1>1 DEF Secret, Told, Unheard, Current, Is, Key
  <2> HIDE DEF Secret, Unheard, Current
  <2>2. \A j \in DOMAIN jobs : (Ended(j) => Ended(j)') /\ (Going(j) => Going(j)')
    BY <1>0, <1>1, <2>1 DEF Ended, Going, Key, Is
  <2> HIDE DEF Ended, Going
  <2> QED
    BY <1>1, <2>1, <2>2 DEF Settled
<1>2. ASSUME NEW k \in Keys, Expire(k) PROVE Settled'
  <2>1. \A l \in Keys : /\ keys'[l].state = keys[l].state /\ keys'[l].answer = keys[l].answer
                        /\ keys'[l].epoch = keys[l].epoch
    BY <1>2, ExpireFacts
  <2> QED
    BY <1>1, <1>2, <2>1, ExpireFacts
<1>3. ASSUME NEW p \in DOMAIN projects, RemoveProject(p) PROVE Settled'
  BY <1>1, <1>3, RemoveFacts DEF RemoveProject
<1>4. CASE Crash
  <2>1. UNCHANGED <<keys, jobs>>
        /\ \A c \in Calls : call'[c].pc = "rest" /\ call'[c].outcome = NoAnswer /\ call'[c].heard = call[c].heard
    BY <1>4, CrashFacts
  <2>2. \A j \in DOMAIN jobs : (Secret(j) => Secret(j)') /\ (Current(j)' <=> Current(j))
    BY <2>1, AcceptedFacts DEF Secret, Told, Current, Is, Key
  <2>3. \A j \in DOMAIN jobs : Going(j)'
    BY <1>0, <2>1 DEF Going
  <2> HIDE DEF Secret, Current
  <2>4. \A j \in DOMAIN jobs : Ended(j) => Ended(j)'
    BY <2>1, <2>2 DEF Ended, Key
  <2> HIDE DEF Ended, Going
  <2> QED
    BY <2>1, <2>2, <2>3, <2>4 DEF Settled
<1>5. CASE UNCHANGED vars
  BY <1>1, <1>5 DEF vars
<1> QED
  BY <1>2, <1>3, <1>4, <1>5

\* Every accepted answer, replayed or not, names a job made from what its client
\* sent, and two of them under one reservation name the same job, as long as no
\* request outlives its key.
THEOREM AnswersNameOneJob == ASSUME "day" \notin PostFaults PROVE Spec => []AnswersAgree
<1> DEFINE Inv == Apart /\ Answered /\ Settled
<1>1. Init => Inv
  <2> SUFFICES ASSUME Init PROVE Inv
    OBVIOUS
  <2>1. DOMAIN jobs = {} /\ (\A c \in Calls : call[c] = Resting) /\ \A k \in Keys : keys[k] = Unused(0)
    BY DEF Init
  <2>2. Resting.pc = "rest" /\ Resting.outcome = NoAnswer /\ Resting.heard = NoAnswer /\ Unused(0).answer = NoAnswer
    BY DEF Resting, Unused
  <2> QED
    BY <2>1, <2>2, NothingSent DEF Apart, Answered, Settled, Making
<1>2. Typed /\ Once /\ Inv /\ [Next]_vars => Inv'
  <2> SUFFICES ASSUME Typed, Once, Apart, Answered, Settled, [Next]_vars
               PROVE  Apart' /\ Answered' /\ Settled'
    OBVIOUS
  <2>1. ASSUME NEW c \in Calls, Request(c) PROVE Apart' /\ Answered' /\ Settled'
    <3>1. Settled'
      BY <2>1, ReserveSettled, HandleSettled, ReplySettled, EndSettled DEF Request
    <3> QED
      BY <2>1, <3>1, RequestApart, RequestAnswered
  <2> QED
    BY <2>1, OutsideApart, OutsideAnswered, OutsideSettled DEF Next
<1>3. Typed /\ Inv => AnswersAgree
  <2> SUFFICES ASSUME Typed, Answered, Settled, NEW c \in Calls, call[c].heard.status = "accepted"
               PROVE  LET j == call[c].heard.job IN
                      /\ BodyOf[jobs[j].by] = BodyOf[c]
                      /\ \A k \in Keys : keys[k].state = "done" /\ Key(jobs[j].by) = k /\ jobs[j].epoch = keys[k].epoch =>
                           keys[k].answer = call[c].heard
    BY DEF AnswersAgree
  <2> DEFINE j == call[c].heard.job
  <2>1. j \in DOMAIN jobs /\ BodyOf[jobs[j].by] = BodyOf[c]
    BY DEF Answered, Sent
  <2>2. call[c].heard = Accepted(j)
    BY CallFacts DEF Typed, Answer, Accepted
  <2> HIDE DEF j
  <2>3. ~Secret(j)
    BY <2>2 DEF Secret, Told
  <2>4. Current(j) /\ keys[Key(jobs[j].by)].state = "done" => keys[Key(jobs[j].by)].answer = Accepted(j)
    BY <2>1, <2>3 DEF Settled, Ended
  <2> QED
    BY <2>1, <2>2, <2>4 DEF Current, j
<1> HIDE DEF Inv
<1> QED
  BY <1>1, <1>2, <1>3, OnceInvariant, PTL DEF Spec
=============================================================================
