------------------------- MODULE RemoteSessionProofs ------------------------
(* RecordLostToStale and RentsUnrecorded of RemoteSession, proved for every   *)
(* set of pods, any number of handlers open at once, and whatever the faults. *)
EXTENDS RemoteSession, TLAPS

-----------------------------------------------------------------------------
(* The inductive invariant *)

\* Who has not been overtaken knows the record: it is the pod it holds, or there
\* is none. A pod that is being forgotten, or has been, is gone for good.
Holding == {"get", "save", "mark", "delete", "forget"}
Empty == {"detach", "check", "create", "record"}
Seen(r) ==
  /\ request[r].pc = "load" => request[r].pod = None
  /\ request[r].pc \in Holding \cup {"detach", "record", "attach"} =>
       request[r].pod \in Pods /\ pods[request[r].pod] # "none"
  /\ request[r].pc \in {"forget", "detach"} => pods[request[r].pod] = "gone"
  /\ request[r].pc \in {"check", "create"} => request[r].pod = None \/ pods[request[r].pod] = "gone"
  /\ r \notin stale =>
       /\ request[r].pc \in Holding => session = request[r].pod
       /\ request[r].pc \in Empty => session = None
SessionMade == session # None => session \in Pods /\ pods[session] # "none"
Safe == TypeOK /\ SessionMade /\ \A r \in Threads : Seen(r)

-----------------------------------------------------------------------------
(* How a handler goes on *)

LEMMA RequestFacts ==
  ASSUME TypeOK, NEW r \in Threads
  PROVE  /\ request[r] \in Request /\ request[r].pc \in Pcs /\ request[r].pod \in Pods \cup {None}
         /\ request[r].kind \in Kinds \cup {"startup", "shutdown"}
BY DEF TypeOK, Request

LEMMA IdleFacts ==
  ASSUME NEW kind \in Kinds \cup {"startup", "shutdown"}
  PROVE  LET q == [[Idle EXCEPT !.kind = kind] EXCEPT !.pc = "load"]
         IN  /\ q \in Request /\ q.pc = "load" /\ q.pod = None
             /\ Idle \in Request /\ Idle.pc = "idle" /\ Idle.pod = None
BY DEF Idle, Request, Kinds, Pcs

\* The other handlers are where they were.
Moves(r, pc, pod) ==
  /\ request' \in [Threads -> Request] /\ \A q \in Threads \ {r} : request'[q] = request[q]
  /\ request'[r].pc = pc /\ request'[r].pod = pod
  /\ server' \in {"down", "starting", "up", "stopping"}
Rests(r) == Moves(r, "idle", None) \/ Moves(r, "load", None)

LEMMA OneMoves ==
  ASSUME TypeOK, NEW r \in Threads, NEW q \in Request, request' = [request EXCEPT ![r] = q],
         server' \in {"down", "starting", "up", "stopping"}
  PROVE  Moves(r, q.pc, q.pod)
BY DEF TypeOK, Moves

LEMMA Ends ==
  ASSUME TypeOK, NEW r \in Threads, End(r)
  PROVE  Moves(r, "idle", None)
<1>1. Idle \in Request /\ Idle.pc = "idle" /\ Idle.pod = None
  BY IdleFacts DEF Kinds
<1>2. server' \in {"down", "starting", "up", "stopping"} /\ request' = [request EXCEPT ![r] = Idle]
  BY DEF End, TypeOK
<1> QED
  BY <1>1, <1>2, OneMoves

LEMMA Goes ==
  ASSUME TypeOK, NEW r \in Threads, NEW pc \in Pcs, Goto(r, pc), UNCHANGED server
  PROVE  Moves(r, pc, request[r].pod)
<1> DEFINE q == [request[r] EXCEPT !.pc = pc]
<1>1. request[r] \in Request /\ server' \in {"down", "starting", "up", "stopping"}
  BY RequestFacts DEF TypeOK
<1>2. q \in Request /\ q.pc = pc /\ q.pod = request[r].pod
  BY <1>1 DEF Request
<1>3. request' = [request EXCEPT ![r] = q]
  BY DEF Goto
<1> HIDE DEF q
<1> QED
  BY <1>1, <1>2, <1>3, OneMoves

LEMMA LoadsAgain ==
  ASSUME TypeOK, NEW r \in Threads, NEW kind \in Kinds \cup {"startup", "shutdown"},
         request' = [request EXCEPT ![r] = [[Idle EXCEPT !.kind = kind] EXCEPT !.pc = "load"]],
         server' \in {"down", "starting", "up", "stopping"}
  PROVE  Moves(r, "load", None)
<1> DEFINE q == [[Idle EXCEPT !.kind = kind] EXCEPT !.pc = "load"]
<1>1. q \in Request /\ q.pc = "load" /\ q.pod = None
  BY IdleFacts
<1> HIDE DEF q
<1> QED
  BY <1>1, OneMoves DEF q

LEMMA Answers ==
  ASSUME TypeOK, NEW r \in Threads, ThenStatus(r)
  PROVE  Rests(r)
<1>1. CASE r = Lifespan
  BY <1>1, Ends DEF ThenStatus, Rests
<1>2. CASE r # Lifespan
  <2> DEFINE q == [Idle EXCEPT !.pc = "load"]
  <2>1. q \in Request /\ q.pc = "load" /\ q.pod = None
    BY DEF Idle, Request, Kinds, Pcs
  <2>2. request' = [request EXCEPT ![r] = q] /\ server' \in {"down", "starting", "up", "stopping"}
    BY <1>2 DEF ThenStatus, TypeOK
  <2> HIDE DEF q
  <2> QED
    BY <2>1, <2>2, OneMoves DEF Rests
<1> QED
  BY <1>1, <1>2

LEMMA FindsSession ==
  ASSUME TypeOK, NEW r \in Threads, WithSession(r)
  PROVE  Rests(r)
<1>1. CASE Is(r, {"shutdown"})
  BY <1>1, LoadsAgain DEF WithSession, Rests, Kinds, TypeOK
<1>2. CASE ~Is(r, {"shutdown"})
  BY <1>2, Ends DEF WithSession, Rests
<1> QED
  BY <1>1, <1>2

LEMMA FindsNone ==
  ASSUME TypeOK, NEW r \in Threads, WithoutSession(r)
  PROVE  Rests(r) \/ \E pc \in {"check", "set", "clear"} : Moves(r, pc, request[r].pod)
<1>1. ASSUME NEW pc \in {"check", "set", "clear"}, Goto(r, pc), UNCHANGED server
      PROVE  Moves(r, pc, request[r].pod)
  BY <1>1, Goes DEF Pcs
<1>2. CASE Is(r, {"start"}) \/ Is(r, {"connect"}) \/ Is(r, {"disconnect"})
  BY <1>1, <1>2 DEF WithoutSession, Is
<1>3. CASE Is(r, {"stop"})
  BY <1>3, Answers DEF WithoutSession, Is
<1>4. CASE ~Is(r, {"start", "connect", "disconnect", "stop"})
  BY <1>4, Ends DEF WithoutSession, Is, Rests
<1> QED
  BY <1>2, <1>3, <1>4 DEF Is

-----------------------------------------------------------------------------
(* A handler's step keeps what the others know *)

\* No pod comes back, and none is unmade.
Aging ==
  /\ pods' \in [Pods -> {"none", "up", "exited", "gone"}]
  /\ \A p \in Pods : /\ pods[p] # "none" => pods'[p] # "none"
                     /\ pods[p] = "gone" => pods'[p] = "gone"

LEMMA SamePods ==
  ASSUME TypeOK, UNCHANGED pods
  PROVE  Aging
BY DEF TypeOK, Aging

LEMMA ReadFacts ==
  ASSUME TypeOK, Reads
  PROVE  stale' \subseteq Threads /\ \A q \in Threads : q \notin stale' /\ Inside(q)' => q \notin stale
BY DEF Reads, TypeOK

LEMMA WriteFacts ==
  ASSUME TypeOK, NEW r \in Threads, Writes(r)
  PROVE  /\ stale' \subseteq Threads
         /\ \A q \in Threads \ {r} : q \notin stale' /\ Inside(q)' => q \notin stale /\ session' = session
BY DEF Writes, TypeOK

LEMMA StepKeeps ==
  ASSUME Safe, NEW r \in Threads, NEW pc, NEW pod, Moves(r, pc, pod), Aging,
         pc \notin {"idle", "load", "check", "create", "set", "clear"} => pod # None,
         connection' \in Pods \cup {None, Manual}, left' \subseteq Pods, stale' \subseteq Threads,
         \A q \in Threads \ {r} : q \notin stale' /\ Inside(q)' => q \notin stale /\ session' = session,
         Seen(r)', SessionMade', session' \in Pods \cup {None}
  PROVE  Safe'
<1>1. TypeOK'
  BY DEF Safe, TypeOK, Moves, Aging
<1>2. ASSUME NEW q \in Threads \ {r} PROVE Seen(q)'
  <2>1. request'[q] = request[q] /\ Seen(q)
    BY DEF Moves, Safe
  <2>2. q \notin stale' => request[q].pc \in {"idle", "load"} \/ (q \notin stale /\ session' = session)
    BY <2>1 DEF Inside
  <2>3. request[q].pod \in Pods \cup {None}
    BY RequestFacts DEF Safe
  <2> QED
    BY <2>1, <2>2, <2>3, SessionAssumption DEF Seen, Aging, Holding, Empty
<1> QED
  BY <1>1, <1>2 DEF Safe

\* A step that writes no record and calls no one.
LEMMA QuietKeeps ==
  ASSUME Safe, NEW r \in Threads, NEW pc, NEW pod, Moves(r, pc, pod),
         pc \notin {"idle", "load", "check", "create", "set", "clear"} => pod # None,
         UNCHANGED <<pods, session, left>>, connection' \in Pods \cup {None, Manual}, Reads,
         Seen(r)'
  PROVE  Safe'
<1>1. /\ Aging /\ left' \subseteq Pods /\ stale' \subseteq Threads /\ SessionMade'
      /\ session' \in Pods \cup {None}
      /\ \A q \in Threads \ {r} : q \notin stale' /\ Inside(q)' => q \notin stale /\ session' = session
  BY SamePods, ReadFacts DEF Safe, TypeOK, SessionMade
<1> QED
  BY <1>1, StepKeeps

\* Nothing is asked of a handler that is done with the record.
LEMMA RestSeen ==
  ASSUME NEW r \in Threads, NEW pod, NEW pc \in {"idle", "load", "set", "clear"},
         Moves(r, pc, pod), pc = "load" => pod = None
  PROVE  Seen(r)'
BY DEF Moves, Seen, Holding, Empty

LEMMA QuietRests ==
  ASSUME Safe, NEW r \in Threads, Rests(r),
         UNCHANGED <<pods, session, left>>, connection' \in Pods \cup {None, Manual}, Reads
  PROVE  Safe'
<1>1. PICK pc \in {"idle", "load"} : Moves(r, pc, None)
  BY DEF Rests
<1>2. Seen(r)'
  BY <1>1, RestSeen
<1> QED
  BY <1>1, <1>2, QuietKeeps

LEMMA Held ==
  ASSUME Safe, NEW r \in Threads, request[r].pc \in Holding \cup {"detach", "record", "attach"}
  PROVE  request[r].pod \in Pods /\ request[r].pod # None /\ pods[request[r].pod] # "none"
BY SessionAssumption DEF Safe, Seen

-----------------------------------------------------------------------------
(* The steps of a handler *)

LEMMA LoadSafe ==
  ASSUME Safe, NEW r \in Threads, Load(r)
  PROVE  Safe'
<1>1. /\ request[r].pc = "load" /\ request[r].pod = None /\ Reads
      /\ UNCHANGED <<pods, session, left>> /\ connection' \in Pods \cup {None, Manual}
      /\ r \notin stale => r \notin stale'
  BY DEF Load, At, Safe, TypeOK, Seen, Reads
<1>2. CASE session = None
  <2>1. ASSUME NEW pc \in {"check", "set", "clear"}, Moves(r, pc, request[r].pod) PROVE Safe'
    <3>1. Seen(r)'
      BY <1>1, <1>2, <2>1 DEF Moves, Seen, Holding, Empty
    <3> QED
      BY <1>1, <2>1, <3>1, QuietKeeps
  <2> QED
    BY <1>1, <1>2, <2>1, FindsNone, QuietRests DEF Load, Safe
<1>3. CASE session # None
  <2> DEFINE pc == IF Is(r, {"stop"}) THEN "mark" ELSE "get"
             q == [[request[r] EXCEPT !.pod = session] EXCEPT !.pc = pc]
  <2>1. session \in Pods /\ pods[session] # "none" /\ request[r] \in Request
    BY <1>3, RequestFacts DEF Safe, SessionMade
  <2>2. pc \in {"mark", "get"}
    OBVIOUS
  <2>3. request' = [request EXCEPT ![r] = q] /\ UNCHANGED server
    BY <1>3 DEF Load
  <2> HIDE DEF pc
  <2>4. q \in Request /\ q.pc = pc /\ q.pod = session
    BY <2>1, <2>2 DEF Request, Pcs
  <2> HIDE DEF q
  <2>5. Moves(r, pc, session)
    <3>1. server' \in {"down", "starting", "up", "stopping"}
      BY <2>3 DEF Safe, TypeOK
    <3> QED
      BY <2>3, <2>4, <3>1, OneMoves DEF Safe
  <2>6. Seen(r)'
    BY <1>1, <2>1, <2>2, <2>5 DEF Moves, Seen, Holding, Empty
  <2> QED
    BY <1>1, <1>3, <2>5, <2>6, QuietKeeps
<1> QED
  BY <1>2, <1>3

LEMMA GetSafe ==
  ASSUME Safe, NEW r \in Threads, Get(r)
  PROVE  Safe'
<1>1. /\ request[r].pc = "get" /\ Seen(r) /\ Reads
      /\ UNCHANGED <<pods, session, left>> /\ connection' \in Pods \cup {None, Manual}
  BY DEF Get, At, Safe, TypeOK
<1>2. request[r].pod \in Pods /\ request[r].pod # None /\ pods[request[r].pod] # "none"
  BY <1>1, Held DEF Holding
<1>3. r \notin stale' /\ Inside(r)' => r \notin stale
  BY <1>1, ReadFacts DEF Safe
<1>4. ASSUME NEW pc \in {"save", "forget"}, Goto(r, pc), UNCHANGED server,
             pc = "forget" => pods[Pod(r)] = "gone"
      PROVE  Safe'
  <2>1. Moves(r, pc, request[r].pod)
    BY <1>4, Goes DEF Pcs, Safe
  <2>2. Inside(r)'
    BY <2>1 DEF Moves, Inside
  <2>3. Seen(r)'
    BY <1>1, <1>2, <1>3, <1>4, <2>1, <2>2 DEF Moves, Seen, Holding, Empty, Pod
  <2> QED
    BY <1>1, <1>2, <2>1, <2>3, QuietKeeps
<1>5. pods[Pod(r)] \notin {"up", "exited"} => pods[Pod(r)] = "gone"
  BY <1>2 DEF Pod, Safe, TypeOK
<1> QED
  BY <1>1, <1>4, <1>5, FindsSession, Ends, QuietRests DEF Get, Rests, Safe

LEMMA SaveSafe ==
  ASSUME Safe, NEW r \in Threads, Save(r)
  PROVE  Safe'
<1>1. /\ request[r].pc = "save" /\ session' = request[r].pod /\ Writes(r) /\ Rests(r) /\ Aging
      /\ left' \subseteq Pods /\ connection' \in Pods \cup {None, Manual}
  BY FindsSession, SamePods DEF Save, At, Pod, Safe, TypeOK
<1>2. session' \in Pods /\ SessionMade'
  BY <1>1, Held DEF Holding, SessionMade, Aging
<1>3. PICK pc \in {"idle", "load"} : Moves(r, pc, None)
  BY <1>1 DEF Rests
<1>4. Seen(r)'
  BY <1>3, RestSeen
<1> QED
  BY <1>1, <1>2, <1>3, <1>4, WriteFacts, StepKeeps DEF Safe

LEMMA ForgetSafe ==
  ASSUME Safe, NEW r \in Threads, Forget(r)
  PROVE  Safe'
<1>1. /\ request[r].pc = "forget" /\ session' = None /\ Writes(r) /\ Aging /\ UNCHANGED pods
      /\ left' \subseteq Pods /\ connection' \in Pods \cup {None, Manual} /\ Seen(r)
  BY SamePods DEF Forget, At, Safe, TypeOK
<1>2. Moves(r, "detach", request[r].pod) /\ SessionMade'
  BY <1>1, Goes DEF Forget, Pcs, Safe, SessionMade
<1>3. request[r].pod \in Pods /\ request[r].pod # None
  BY <1>1, Held DEF Holding
<1>4. Seen(r)'
  BY <1>1, <1>2, <1>3 DEF Moves, Seen, Holding, Empty
<1> QED
  BY <1>1, <1>2, <1>3, <1>4, WriteFacts, StepKeeps DEF Safe

LEMMA DetachSafe ==
  ASSUME Safe, NEW r \in Threads, Detach(r)
  PROVE  Safe'
<1>1. /\ request[r].pc = "detach" /\ UNCHANGED <<pods, session, left>> /\ Reads /\ Seen(r)
      /\ connection' \in Pods \cup {None, Manual}
  BY DEF Detach, At, Safe, TypeOK
<1>2. ASSUME NEW pc \in {"check", "set", "clear"}, Moves(r, pc, request[r].pod) PROVE Safe'
  <2>1. Inside(r)'
    BY <1>2 DEF Moves, Inside
  <2>2. Seen(r)'
    BY <1>1, <1>2, <2>1, ReadFacts DEF Moves, Seen, Holding, Empty, Safe
  <2> QED
    BY <1>1, <1>2, <2>2, QuietKeeps
<1> QED
  BY <1>1, <1>2, Answers, FindsNone, QuietRests DEF Detach, Safe

LEMMA MarkSafe ==
  ASSUME Safe, NEW r \in Threads, Mark(r)
  PROVE  Safe'
<1>1. /\ request[r].pc = "mark" /\ session' = request[r].pod /\ Writes(r) /\ Aging /\ UNCHANGED pods
      /\ left' \subseteq Pods /\ connection' \in Pods \cup {None, Manual}
  BY SamePods DEF Mark, At, Pod, Safe, TypeOK
<1>2. Moves(r, "delete", request[r].pod)
  BY Goes DEF Mark, Pcs, Safe
<1>3. request[r].pod \in Pods /\ request[r].pod # None /\ pods[request[r].pod] # "none"
  BY <1>1, Held DEF Holding
<1>4. Seen(r)' /\ SessionMade'
  BY <1>1, <1>2, <1>3 DEF Moves, Seen, Holding, Empty, SessionMade
<1> QED
  BY <1>1, <1>2, <1>3, <1>4, WriteFacts, StepKeeps DEF Safe

LEMMA DeleteSafe ==
  ASSUME Safe, NEW r \in Threads, Delete(r)
  PROVE  Safe'
<1>1. /\ request[r].pc = "delete" /\ UNCHANGED <<session, connection>> /\ Reads /\ Seen(r)
      /\ connection' \in Pods \cup {None, Manual}
  BY DEF Delete, At, Safe, TypeOK
<1>2. request[r].pod \in Pods /\ request[r].pod # None /\ pods[request[r].pod] # "none"
  BY <1>1, Held DEF Holding
<1>3. /\ pods' = [pods EXCEPT ![Pod(r)] = "gone"] \/ UNCHANGED pods
      /\ left' = left \cup {Pod(r)} \/ UNCHANGED left
  BY DEF Delete
<1>4. Aging /\ left' \subseteq Pods
  BY <1>2, <1>3 DEF Aging, Safe, TypeOK, Pod
<1>5. /\ \A q \in Threads : q \notin stale' /\ Inside(q)' => q \notin stale
      /\ stale' \subseteq Threads /\ session' \in Pods \cup {None} /\ SessionMade'
  BY <1>1, <1>4, ReadFacts DEF Safe, TypeOK, SessionMade, Aging
<1>6. CASE End(r)
  <2>1. Moves(r, "idle", None)
    BY <1>6, Ends DEF Safe
  <2>2. Seen(r)'
    BY <2>1, RestSeen
  <2> QED
    BY <1>1, <1>4, <1>5, <2>1, <2>2, StepKeeps
<1>7. CASE pods' = [pods EXCEPT ![Pod(r)] = "gone"] /\ Goto(r, "forget") /\ UNCHANGED server
  <2>1. Moves(r, "forget", request[r].pod) /\ pods'[request[r].pod] = "gone"
    BY <1>2, <1>7, Goes DEF Pcs, Safe, TypeOK, Pod
  <2>2. Seen(r)'
    BY <1>1, <1>2, <1>5, <2>1 DEF Moves, Seen, Holding, Empty, Inside
  <2> QED
    BY <1>1, <1>2, <1>4, <1>5, <2>1, <2>2, StepKeeps
<1> QED
  BY <1>6, <1>7 DEF Delete

LEMMA CheckSafe ==
  ASSUME Safe, NEW r \in Threads, CheckImage(r)
  PROVE  Safe'
<1>1. /\ request[r].pc = "check" /\ UNCHANGED <<pods, session, left>> /\ Reads /\ Seen(r)
      /\ connection' \in Pods \cup {None, Manual}
  BY DEF CheckImage, At, Safe, TypeOK
<1>2. CASE Goto(r, "create") /\ UNCHANGED server
  <2>1. Moves(r, "create", request[r].pod)
    BY <1>2, Goes DEF Pcs, Safe
  <2>2. Seen(r)'
    BY <1>1, <2>1, ReadFacts DEF Moves, Seen, Holding, Empty, Inside, Safe
  <2> QED
    BY <1>1, <2>1, <2>2, QuietKeeps
<1> QED
  BY <1>1, <1>2, Ends, QuietRests DEF CheckImage, Rests, Safe

LEMMA CreateSafe ==
  ASSUME Safe, NEW r \in Threads, Create(r)
  PROVE  Safe'
<1>1. /\ request[r].pc = "create" /\ UNCHANGED <<session, left>> /\ Reads /\ Seen(r)
      /\ connection' \in Pods \cup {None, Manual}
  BY DEF Create, At, Safe, TypeOK
<1>2. CASE End(r) /\ UNCHANGED pods
  BY <1>1, <1>2, Ends, QuietRests DEF Rests, Safe
<1>3. ASSUME NEW p \in Pods, pods[p] = "none", pods' = [pods EXCEPT ![p] = "up"]
      PROVE  /\ Aging /\ pods'[p] = "up" /\ SessionMade' /\ session' \in Pods \cup {None}
             /\ left' \subseteq Pods /\ stale' \subseteq Threads
             /\ \A q \in Threads : q \notin stale' /\ Inside(q)' => q \notin stale
  <2>1. Aging /\ pods'[p] = "up"
    BY <1>3 DEF Aging, Safe, TypeOK
  <2> QED
    BY <1>1, <2>1, ReadFacts DEF Safe, TypeOK, SessionMade, Aging
<1>4. ASSUME NEW p \in Pods, pods[p] = "none", pods' = [pods EXCEPT ![p] = "up"], End(r)
      PROVE  Safe'
  <2>1. Moves(r, "idle", None)
    BY <1>4, Ends DEF Safe
  <2>2. Seen(r)'
    BY <2>1, RestSeen
  <2> QED
    BY <1>1, <1>3, <1>4, <2>1, <2>2, StepKeeps
<1>5. ASSUME NEW p \in Pods, pods[p] = "none", pods' = [pods EXCEPT ![p] = "up"], UNCHANGED server,
             request' = [request EXCEPT ![r].pc = "record", ![r].pod = p]
      PROVE  Safe'
  <2> DEFINE q == [[request[r] EXCEPT !.pc = "record"] EXCEPT !.pod = p]
  <2>1. request[r] \in Request /\ server' \in {"down", "starting", "up", "stopping"}
    BY <1>5, RequestFacts DEF Safe, TypeOK
  <2>2. q \in Request /\ q.pc = "record" /\ q.pod = p
    BY <2>1 DEF Request, Pcs
  <2>3. request' = [request EXCEPT ![r] = q]
    BY <1>5
  <2> HIDE DEF q
  <2>4. Moves(r, "record", p)
    BY <2>1, <2>2, <2>3, OneMoves DEF Safe
  <2>5. Seen(r)'
    BY <1>1, <1>3, <1>5, <2>4 DEF Moves, Seen, Holding, Empty, Inside
  <2>6. p # None
    BY SessionAssumption
  <2> QED
    BY <1>1, <1>3, <1>5, <2>4, <2>5, <2>6, StepKeeps
<1> QED
  BY <1>2, <1>4, <1>5 DEF Create

LEMMA RecordSafe ==
  ASSUME Safe, NEW r \in Threads, RecordSession(r)
  PROVE  Safe'
<1>1. /\ request[r].pc = "record" /\ session' = request[r].pod /\ Writes(r) /\ Aging /\ UNCHANGED pods
      /\ left' \subseteq Pods /\ connection' \in Pods \cup {None, Manual}
  BY SamePods DEF RecordSession, At, Pod, Safe, TypeOK
<1>2. Moves(r, "attach", request[r].pod)
  BY Goes DEF RecordSession, Pcs, Safe
<1>3. request[r].pod \in Pods /\ request[r].pod # None /\ pods[request[r].pod] # "none"
  BY <1>1, Held
<1>4. Seen(r)' /\ SessionMade'
  BY <1>1, <1>2, <1>3 DEF Moves, Seen, Holding, Empty, SessionMade
<1> QED
  BY <1>1, <1>2, <1>3, <1>4, WriteFacts, StepKeeps DEF Safe

LEMMA ConnectionSafe ==
  ASSUME Safe, NEW r \in Threads, Attach(r) \/ SetConnection(r)
  PROVE  Safe'
<1>1. UNCHANGED <<pods, session, left>> /\ Reads /\ connection' \in Pods \cup {None, Manual}
  <2>1. CASE Attach(r)
    BY <2>1, Held DEF Attach, At, Pod, Safe
  <2> QED
    BY <2>1 DEF SetConnection
<1> QED
  BY <1>1, Ends, Answers, QuietRests DEF Attach, SetConnection, Rests, Safe

-----------------------------------------------------------------------------
(* Requests begin, the server stops and dies, pods exit *)

LEMMA BeginSafe ==
  ASSUME Safe, NEW r \in Threads, NEW kind \in Kinds \cup {"startup", "shutdown"},
         request[r].pc = "idle", UNCHANGED <<pods, session, connection, stale>>, left' \subseteq Pods,
         request' = [request EXCEPT ![r] = [[Idle EXCEPT !.kind = kind] EXCEPT !.pc = "load"]],
         server' \in {"down", "starting", "up", "stopping"}
  PROVE  Safe'
<1>1. Moves(r, "load", None)
  BY LoadsAgain DEF Safe
<1>2. Seen(r)'
  BY <1>1, RestSeen
<1>3. /\ Aging /\ SessionMade' /\ session' \in Pods \cup {None} /\ stale' \subseteq Threads
      /\ connection' \in Pods \cup {None, Manual}
  BY SamePods DEF Safe, TypeOK, SessionMade
<1> QED
  BY <1>1, <1>2, <1>3, StepKeeps

LEMMA OutsideSafe ==
  ASSUME Safe,
         \/ \E r \in Requests : \E kind \in Actions[r] : Begin(r, kind)
         \/ BeginLifespan \/ Crash \/ \E p \in Pods : Console(p)
         \/ UNCHANGED vars
  PROVE  Safe'
<1>1. ASSUME NEW r \in Requests, NEW kind \in Actions[r], Begin(r, kind) PROVE Safe'
  <2>1. r \in Threads /\ kind \in Kinds
    BY SessionAssumption DEF Threads
  <2> QED
    BY <1>1, <2>1, BeginSafe DEF Begin, At, Safe, TypeOK
<1>2. CASE BeginLifespan
  <2>1. ASSUME NEW kind \in {"startup", "shutdown"},
               request' = [request EXCEPT ![Lifespan] = [[Idle EXCEPT !.kind = kind] EXCEPT !.pc = "load"]]
        PROVE  Safe'
    <3>1. Lifespan \in Threads /\ left' \subseteq Pods /\ server' \in {"starting", "stopping"}
      BY <1>2 DEF BeginLifespan, Threads, Safe, TypeOK
    <3> QED
      BY <1>2, <2>1, <3>1, BeginSafe DEF BeginLifespan, At
  <2> DEFINE kind == IF server = "down" THEN "startup" ELSE "shutdown"
  <2>2. kind \in {"startup", "shutdown"}
    OBVIOUS
  <2>3. request' = [request EXCEPT ![Lifespan] = [[Idle EXCEPT !.kind = kind] EXCEPT !.pc = "load"]]
    BY <1>2 DEF BeginLifespan
  <2> HIDE DEF kind
  <2> QED
    BY <2>1, <2>2, <2>3
<1>3. CASE Crash
  <2>1. Idle \in Request /\ Idle.pc = "idle" /\ Idle.pod = None
    BY IdleFacts DEF Kinds
  <2>2. request' = [r \in Threads |-> Idle] /\ UNCHANGED <<pods, session, connection>>
    BY <1>3 DEF Crash
  <2>3. \A r \in Threads : Seen(r)'
    BY <2>1, <2>2 DEF Seen, Holding, Empty
  <2>4. TypeOK'
    <3>1. left' \subseteq Pods /\ stale' = {} /\ server' = "down"
      BY <1>3 DEF Crash, Safe, TypeOK
    <3> QED
      BY <2>1, <2>2, <3>1 DEF Safe, TypeOK
  <2> QED
    BY <2>2, <2>3, <2>4 DEF Safe, SessionMade
<1>4. ASSUME NEW p \in Pods, Console(p) PROVE Safe'
  <2>1. UNCHANGED <<session, connection, server, request, stale, left>>
    BY <1>4 DEF Console
  <2>2. Aging
    BY <1>4 DEF Console, Aging, Safe, TypeOK
  <2>3. TypeOK' /\ SessionMade'
    BY <2>1, <2>2 DEF Safe, TypeOK, SessionMade, Aging
  <2>4. \A r \in Threads : Seen(r)'
    BY <2>1, <2>2, RequestFacts, SessionAssumption DEF Safe, Seen, Aging, Holding
  <2> QED
    BY <2>3, <2>4 DEF Safe
<1>5. CASE UNCHANGED vars
  BY <1>5 DEF vars, Safe, TypeOK, SessionMade, Seen
<1> QED
  BY <1>1, <1>2, <1>3, <1>4, <1>5

-----------------------------------------------------------------------------
(* The theorems *)

LEMMA InitSafe == Init => Safe
<1> SUFFICES ASSUME Init PROVE Safe
  OBVIOUS
<1>1. \A r \in Threads : request[r] = Idle /\ request[r].pc = "idle" /\ Idle \in Request
  BY IdleFacts DEF Init, Kinds
<1>2. TypeOK
  BY <1>1 DEF Init, TypeOK
<1>3. \A r \in Threads : Seen(r)
  BY <1>1 DEF Seen, Holding, Empty
<1> QED
  BY <1>2, <1>3 DEF Safe, Init, SessionMade

LEMMA NextSafe == Safe /\ [Next]_vars => Safe'
<1> SUFFICES ASSUME Safe, [Next]_vars PROVE Safe'
  OBVIOUS
<1>1. ASSUME NEW r \in Threads, Step(r) PROVE Safe'
  BY <1>1, LoadSafe, GetSafe, SaveSafe, ForgetSafe, DetachSafe, MarkSafe, DeleteSafe, CheckSafe,
     CreateSafe, RecordSafe, ConnectionSafe DEF Step
<1> QED
  BY <1>1, OutsideSafe DEF Next

\* Who writes the record moves on, and unless it was overtaken it writes what is
\* there already, forgets a pod that is gone, or records one over nothing.
LEMMA LosesNothing ==
  ASSUME Safe, NEW r \in Threads, r \notin stale, Save(r) \/ Mark(r) \/ Forget(r) \/ RecordSession(r)
  PROVE  session' = session \/ session = None \/ pods[session] = "gone"
<1>1. Seen(r)
  BY DEF Safe
<1> QED
  BY <1>1 DEF Seen, Save, Mark, Forget, RecordSession, At, Pod, Holding, Empty

LEMMA WriterMoves ==
  ASSUME Safe, NEW r \in Threads, Save(r) \/ Mark(r) \/ Forget(r) \/ RecordSession(r)
  PROVE  request'[r] # request[r]
<1>1. CASE Save(r)
  <2>1. request[r].pc = "save" /\ Rests(r)
    BY <1>1, FindsSession DEF Save, At, Safe
  <2>2. request'[r].pc \in {"idle", "load"}
    BY <2>1 DEF Rests, Moves
  <2> QED
    BY <2>1, <2>2
<1>2. ASSUME NEW pc \in {"delete", "detach", "attach"}, Goto(r, pc), request[r].pc \in {"mark", "forget", "record"},
             UNCHANGED server
      PROVE  request'[r] # request[r]
  <2>1. request'[r].pc = pc
    BY <1>2, Goes DEF Pcs, Safe, Moves
  <2> QED
    BY <1>2, <2>1
<1> QED
  BY <1>1, <1>2 DEF Mark, Forget, RecordSession, At

\* The record of a pod that bills is lost only to a handler that another one has
\* overtaken, however many are open at once: it outlives unreachable providers,
\* failed stops, lost answers, crashes and restarts of the server.
THEOREM RecordOutlivesHandlers == Spec => RecordLostToStale
<1>1. Safe /\ [Next]_vars =>
        [\A p \in Pods : session = p /\ pods[p] = "up" /\ session' # p =>
           \E r \in stale : request'[r] # request[r]]_vars
  <2> SUFFICES ASSUME Safe, [Next]_vars, NEW p \in Pods, session = p, pods[p] = "up", session' # p
               PROVE  \E r \in stale : request'[r] # request[r]
    OBVIOUS
  <2>1. PICK r \in Threads : Save(r) \/ Mark(r) \/ Forget(r) \/ RecordSession(r)
    BY DEF Next, vars, Step, Begin, BeginLifespan, Load, Get, Detach, Delete, CheckImage, Create, Attach,
       SetConnection, Crash, Console
  <2>2. p # None
    BY SessionAssumption
  <2> QED
    BY <2>1, <2>2, LosesNothing, WriterMoves
<1> QED
  BY <1>1, InitSafe, NextSafe, PTL DEF Spec, RecordLostToStale

\* A start that is about to rent has found no session or seen its pod gone, and
\* nothing is recorded then unless another handler has overtaken it.
THEOREM RentsOverNothing == Spec => []RentsUnrecorded
<1>1. Safe => RentsUnrecorded
  <2> SUFFICES ASSUME Safe, NEW r \in Requests, At(r, "create")
               PROVE  (Pod(r) = None \/ pods[Pod(r)] = "gone") /\ (session = None \/ r \in stale)
    BY DEF RentsUnrecorded
  <2>1. r \in Threads /\ Seen(r)
    BY DEF Safe, Threads
  <2> QED
    BY <2>1 DEF Seen, At, Pod, Empty
<1> QED
  BY <1>1, InitSafe, NextSafe, PTL DEF Spec
=============================================================================
