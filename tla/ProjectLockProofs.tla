-------------------------- MODULE ProjectLockProofs -------------------------
(***************************************************************************)
(* Mutual exclusion of the project lock, for any number of threads, until  *)
(* a holder first dies, sleeps or stops refreshing: what JobQueue assumes. *)
(***************************************************************************)
EXTENDS ProjectLock, TLAPS

\* Nothing disturbs the variables' types.
LEMMA TypeInductive ==
  TypeOK /\ [Next]_vars => TypeOK'
<1> SUFFICES ASSUME TypeOK, [Next]_vars PROVE TypeOK'
  OBVIOUS
<1> USE LockAssumption DEF TypeOK, Waiting, Holding
<1>1. ASSUME NEW t \in Threads, Ask(t) PROVE TypeOK'
  BY <1>1 DEF Ask, Goto
<1>2. ASSUME NEW t \in Threads, Reenter(t) PROVE TypeOK'
  BY <1>2 DEF Reenter
<1>3. ASSUME NEW t \in Threads, Create(t) PROVE TypeOK'
  BY <1>3 DEF Create, Goto
<1>4. ASSUME NEW t \in Threads, Exists(t) PROVE TypeOK'
  BY <1>4 DEF Exists, Goto
<1>5. ASSUME NEW t \in Threads, Judge(t) PROVE TypeOK'
  BY <1>5 DEF Judge, Goto
<1>6. ASSUME NEW t \in Threads, Steal(t) PROVE TypeOK'
  BY <1>6 DEF Steal, Goto
<1>7. ASSUME NEW t \in Threads, TimeOut(t) PROVE TypeOK'
  BY <1>7 DEF TimeOut, Goto
<1>8. ASSUME NEW t \in Threads, Touch(t) PROVE TypeOK'
  BY <1>8 DEF Touch
<1>9. ASSUME NEW t \in Threads, Leave(t) PROVE TypeOK'
  <2>1. CASE held[t] > 1
    <3>1. held[t] - 1 \in 0 .. MaxDepth /\ held[t] - 1 > 0
      BY <2>1
    <3> QED
      BY <1>9, <2>1, <3>1 DEF Leave
  <2>2. CASE held[t] = 1
    <3>1. /\ held' = [held EXCEPT ![t] = 0] /\ pc' = [pc EXCEPT ![t] = "release"]
          /\ refreshing' = [refreshing EXCEPT ![t] = FALSE]
          /\ UNCHANGED <<file, lapsed>>
      BY <1>9, <2>2 DEF Leave, Goto
    <3>2. held' \in [Threads -> 0 .. MaxDepth] /\ (\A u \in Threads : held'[u] > 0 <=> pc'[u] = "in")
      BY <3>1
    <3> QED
      BY <3>1, <3>2
  <2> QED
    BY <1>9, <2>1, <2>2 DEF Leave
<1>10. ASSUME NEW t \in Threads, Release(t) PROVE TypeOK'
  BY <1>10 DEF Release, Goto
<1>11. ASSUME NEW t \in Threads, Crash(t) PROVE TypeOK'
  BY <1>11 DEF Crash, Goto
<1>12. CASE Expire
  BY <1>12 DEF Expire, KeptFresh
<1>13. CASE UNCHANGED vars
  BY <1>13 DEF vars
<1> QED
  BY <1>1, <1>2, <1>3, <1>4, <1>5, <1>6, <1>7, <1>8, <1>9, <1>10, <1>11, <1>12, <1>13
     DEF Next, Step, Acquire

\* Until a holder lapses the file is there exactly while one live thread
\* refreshes it or is about to remove it, so nobody judges it abandoned.
Kept ==
  /\ \A t \in Threads : pc[t] # "unlink"
  /\ \A t \in Threads : pc[t] = "in" => refreshing[t]
  /\ \A t \in Threads : pc[t] \in Holding => file = "fresh"
  /\ \A t, u \in Threads : pc[t] \in Holding /\ pc[u] \in Holding => t = u
  /\ file # "none" => file = "fresh" /\ \E t \in Threads : pc[t] \in Holding

\* A lapse is never forgotten.
LEMMA LapseStays ==
  TypeOK /\ [Next]_vars /\ lapsed' = FALSE => lapsed = FALSE
BY DEF TypeOK, Next, Step, Acquire, vars, Ask, Reenter, Create, Exists, Judge, Steal,
       TimeOut, Touch, Leave, Release, Crash, Expire

\* Only the exclusive create makes a holder, and only of a file that is not there.
LEMMA KeptInductive ==
  TypeOK /\ Kept /\ [Next]_vars /\ lapsed' = FALSE => Kept'
<1> SUFFICES ASSUME TypeOK, Kept, [Next]_vars, lapsed' = FALSE PROVE Kept'
  OBVIOUS
<1> USE DEF Kept, TypeOK, Holding
<1>1. ASSUME NEW t \in Threads, Ask(t) PROVE Kept'
  BY <1>1 DEF Ask, Goto
<1>2. ASSUME NEW t \in Threads, Reenter(t) PROVE Kept'
  BY <1>2 DEF Reenter
<1>3. ASSUME NEW t \in Threads, Create(t) PROVE Kept'
  BY <1>3 DEF Create, Goto
<1>4. ASSUME NEW t \in Threads, Exists(t) PROVE Kept'
  BY <1>4 DEF Exists, Goto
<1>5. ASSUME NEW t \in Threads, Judge(t) PROVE Kept'
  BY <1>5 DEF Judge, Goto
<1>6. ASSUME NEW t \in Threads, Steal(t) PROVE Kept'
  BY <1>6 DEF Steal
<1>7. ASSUME NEW t \in Threads, TimeOut(t) PROVE Kept'
  BY <1>7 DEF TimeOut, Goto
<1>8. ASSUME NEW t \in Threads, Touch(t) PROVE Kept'
  BY <1>8 DEF Touch
<1>9. ASSUME NEW t \in Threads, Leave(t) PROVE Kept'
  BY <1>9 DEF Leave, Goto
<1>10. ASSUME NEW t \in Threads, Release(t) PROVE Kept'
  BY <1>10 DEF Release, Goto
<1>11. ASSUME NEW t \in Threads, Crash(t) PROVE Kept'
  BY <1>11 DEF Crash, Goto
<1>12. CASE Expire
  BY <1>12 DEF Expire, KeptFresh
<1>13. CASE UNCHANGED vars
  BY <1>13 DEF vars
<1> QED
  BY <1>1, <1>2, <1>3, <1>4, <1>5, <1>6, <1>7, <1>8, <1>9, <1>10, <1>11, <1>12, <1>13
     DEF Next, Step, Acquire

LockInv == TypeOK /\ (lapsed = FALSE => Kept)

\* One thread at a time is inside the lock of a project, as long as no holder
\* dies, sleeps through the stale limit or loses its refresh thread (locks.py:
\* "One lock per project_id guards *all* metadata mutations for that project").
THEOREM LockExcludes ==
  Spec => []Exclusive
<1>1. Init => LockInv
  <2> SUFFICES ASSUME Init PROVE LockInv
    OBVIOUS
  <2>1. TypeOK
    <3>1. held \in [Threads -> 0 .. MaxDepth]
      BY LockAssumption DEF Init
    <3>2. ASSUME NEW t \in Threads PROVE held[t] > 0 <=> pc[t] = "in"
      <4>1. held[t] = 0 /\ pc[t] # "in"
        BY DEF Init
      <4> QED
        BY <4>1
    <3>3. pc \in [Threads -> {"idle", "dead"} \cup Waiting \cup Holding]
      BY DEF Init
    <3> QED
      BY <3>1, <3>2, <3>3 DEF Init, TypeOK
  <2>2. Kept
    BY DEF Init, Kept, Holding
  <2> QED
    BY <2>1, <2>2 DEF LockInv
<1>2. LockInv /\ [Next]_vars => LockInv'
  BY TypeInductive, LapseStays, KeptInductive DEF LockInv
<1>3. LockInv => Exclusive
  BY DEF LockInv, Kept, TypeOK, Exclusive, OneHolder, Holding
<1> QED
  BY <1>1, <1>2, <1>3, PTL DEF Spec
=============================================================================
