---------------------------- MODULE RemoteSession ---------------------------
(***************************************************************************)
(* Rented Remote GPUs: server/remote_gpu/service.py, connection.py and     *)
(* provisioners/runpod.py against a provider that bills for every pod that *)
(* is up.  A request is a chain of steps: one read or write of the saved   *)
(* record (connection.py locks each of them alone) or one call of the      *)
(* provider.  Nothing holds a lock from one step to the next, and handlers  *)
(* run side by side: the panel polls the status whatever else is going on. *)
(***************************************************************************)
EXTENDS Naturals

CONSTANTS
  Pods,         \* pod ids the provider may hand out
  Requests,     \* HTTP handler threads: as many requests may be open at once
  Lifespan,     \* the server's startup and shutdown code
  None,         \* nothing saved
  Manual,       \* the address of a host the user runs
  Actions,      \* the kinds of request each thread handles: see Kinds
  SessionFaults \* what may go wrong: see SessionFaultKinds

Kinds == {"status", "start", "stop", "connect", "disconnect"}

\* "unreachable": a call of the provider fails; "lost": a call takes effect and
\* its answer does not arrive; "console": a pod exits or is terminated outside;
\* "crash": the server process dies.
SessionFaultKinds == {"unreachable", "lost", "console", "crash"}

ASSUME SessionAssumption ==
  /\ Lifespan \notin Requests /\ None \notin Pods /\ Manual \notin Pods \cup {None}
  /\ Actions \in [Requests -> SUBSET Kinds] /\ SessionFaults \subseteq SessionFaultKinds

VARIABLES
  pods,         \* the provider: every pod it knows of
  session,      \* remote_gpu.json: the pod of the saved session
  connection,   \* remote_gpu.json: the host the worker is pointed at
  server,       \* the server process
  request,      \* each handler: what it does, where it is, the pod it read
  stale,        \* history: handlers the saved session changed under, by another's
                \* hand, since they last read or wrote it
  left          \* history: pods that a failed stop, or a crash, of this run left running

vars == <<pods, session, connection, server, request, stale, left>>

Threads == Requests \cup {Lifespan}
Pcs == {"idle", "load", "get", "forget", "detach", "save", "mark", "delete",
        "check", "create", "record", "attach", "set", "clear"}
Request == [kind: Kinds \cup {"startup", "shutdown"}, pc: Pcs, pod: Pods \cup {None}]
Idle == [kind |-> "status", pc |-> "idle", pod |-> None]

TypeOK ==
  /\ pods \in [Pods -> {"none", "up", "exited", "gone"}]
  /\ session \in Pods \cup {None}
  /\ connection \in Pods \cup {None, Manual}
  /\ server \in {"down", "starting", "up", "stopping"}
  /\ request \in [Threads -> Request]
  /\ stale \subseteq Threads /\ left \subseteq Pods
  /\ \A r \in Threads :
       request[r].pc \notin {"idle", "load", "check", "create", "set", "clear"} =>
         request[r].pod # None

Init ==
  /\ pods = [p \in Pods |-> "none"]
  /\ session = None /\ connection = None
  /\ server = "down"
  /\ request = [r \in Threads |-> Idle]
  /\ stale = {} /\ left = {}

-----------------------------------------------------------------------------
At(r, pc) == request[r].pc = pc
Is(r, kinds) == request[r].kind \in kinds
Pod(r) == request[r].pod
Open == {r \in Requests : ~At(r, "idle")}
Goto(r, pc) == request' = [request EXCEPT ![r].pc = pc]
Unreachable == "unreachable" \in SessionFaults
Inside(q) == request[q].pc \notin {"idle", "load"}

\* What a step of r leaves of the others' knowledge of the saved session: nothing,
\* if it has changed it. Its own is up to date after a write.
Reads == stale' = {q \in stale : Inside(q)'}
Writes(r) == stale' = {q \in (IF session' = session THEN stale ELSE Threads) \ {r} : Inside(q)'}

\* The end of a handler; the lifespan's end is the server's next state.
End(r) ==
  /\ request' = [request EXCEPT ![r] = Idle]
  /\ server' = CASE server = "starting" /\ r = Lifespan -> "up"
                 [] server = "stopping" /\ r = Lifespan -> "down"
                 [] OTHER -> server

\* service.connect, disconnect and stop answer with a fresh status.
ThenStatus(r) ==
  IF r = Lifespan THEN End(r)
  ELSE request' = [request EXCEPT ![r] = [Idle EXCEPT !.pc = "load"]] /\ UNCHANGED server

\* What each kind of request does when it finds no session, and when it has one:
\* AlreadyRunning and Conflict refuse, on_shutdown stops what it adopted.
WithoutSession(r) ==
  CASE Is(r, {"start"}) -> Goto(r, "check") /\ UNCHANGED server
    [] Is(r, {"connect"}) -> Goto(r, "set") /\ UNCHANGED server
    [] Is(r, {"disconnect"}) -> Goto(r, "clear") /\ UNCHANGED server
    [] Is(r, {"stop"}) -> ThenStatus(r)
    [] OTHER -> End(r)
WithSessionStarts(r) ==                            \* mutant: no refusal
  IF Is(r, {"start"}) THEN Goto(r, "check") /\ UNCHANGED server ELSE End(r)
WithSessionEnds(r) == End(r)                       \* mutant: adopts, never stops
WithSession(r) ==
  IF Is(r, {"shutdown"})
  THEN request' = [request EXCEPT ![r] = [Idle EXCEPT !.kind = "stop", !.pc = "load"]]
       /\ UNCHANGED server
  ELSE End(r)

-----------------------------------------------------------------------------
(* Requests *)

Begin(r, kind) ==
  /\ At(r, "idle") /\ server = "up"
  /\ request' = [request EXCEPT ![r] = [Idle EXCEPT !.kind = kind, !.pc = "load"]]
  /\ UNCHANGED <<pods, session, connection, server, stale, left>>

\* on_startup adopts; on_shutdown runs once the handlers are done.
BeginLifespan ==
  /\ At(Lifespan, "idle") /\ Open = {}
  /\ \/ server = "down" /\ server' = "starting" /\ left' = {}
     \/ server = "up" /\ server' = "stopping" /\ UNCHANGED left
  /\ request' = [request EXCEPT ![Lifespan] =
       [Idle EXCEPT !.kind = IF server = "down" THEN "startup" ELSE "shutdown", !.pc = "load"]]
  /\ UNCHANGED <<pods, session, connection, stale>>

Load(r) ==
  /\ At(r, "load")
  /\ IF session = None THEN WithoutSession(r)
     ELSE /\ request' = [request EXCEPT ![r].pod = session,
                           ![r].pc = IF Is(r, {"stop"}) THEN "mark" ELSE "get"]
          /\ UNCHANGED server
  /\ Reads /\ UNCHANGED <<pods, session, connection, left>>

\* _refresh: a pod the provider does not know is forgotten, any other is saved
\* again with its new state.  adopt takes an unreachable provider for a pod
\* that is still there; status raises.
GetOrForget(r) ==                                  \* mutant: unreachable is gone
  /\ At(r, "get")
  /\ Goto(r, "forget") \/ (pods[Pod(r)] \in {"up", "exited"} /\ Goto(r, "save"))
  /\ Reads /\ UNCHANGED <<pods, session, connection, server, left>>
Get(r) ==
  /\ At(r, "get")
  /\ \/ /\ Goto(r, IF pods[Pod(r)] \in {"up", "exited"} THEN "save" ELSE "forget")
        /\ UNCHANGED server
     \/ /\ Unreachable
        /\ IF Is(r, {"start", "startup", "shutdown"}) THEN WithSession(r) ELSE End(r)
  /\ Reads /\ UNCHANGED <<pods, session, connection, left>>

Save(r) ==
  /\ At(r, "save")
  /\ session' = Pod(r)
  /\ WithSession(r)
  /\ Writes(r) /\ UNCHANGED <<pods, connection, left>>

\* _forget clears the session, whichever it is by now, then its own connection.
Forget(r) ==
  /\ At(r, "forget")
  /\ session' = None
  /\ Goto(r, "detach")
  /\ Writes(r) /\ UNCHANGED <<pods, connection, server, left>>

Detach(r) ==
  /\ At(r, "detach")
  /\ connection' = IF connection = Pod(r) THEN None ELSE connection
  /\ IF Is(r, {"stop"}) THEN ThenStatus(r) ELSE WithoutSession(r)
  /\ Reads /\ UNCHANGED <<pods, session, left>>

Mark(r) ==             \* stop: the record says "stopping" before the call
  /\ At(r, "mark")
  /\ session' = Pod(r)
  /\ Goto(r, "delete")
  /\ Writes(r) /\ UNCHANGED <<pods, connection, server, left>>

Delete(r) ==
  /\ At(r, "delete")
  /\ \/ /\ pods' = [pods EXCEPT ![Pod(r)] = "gone"] /\ Goto(r, "forget")
        /\ UNCHANGED <<server, left>>
     \/ /\ Unreachable /\ End(r)
        /\ left' = left \cup {Pod(r)} /\ UNCHANGED pods
     \/ /\ "lost" \in SessionFaults /\ End(r)
        /\ pods' = [pods EXCEPT ![Pod(r)] = "gone"] /\ UNCHANGED left
  /\ Reads /\ UNCHANGED <<session, connection>>

CheckImage(r) ==       \* _check_published refuses before anything is created
  /\ At(r, "check")
  /\ (Goto(r, "create") /\ UNCHANGED server) \/ End(r)
  /\ Reads /\ UNCHANGED <<pods, session, connection, left>>

Create(r) ==
  /\ At(r, "create")
  /\ \/ \E p \in {q \in Pods : pods[q] = "none"} :
          /\ pods' = [pods EXCEPT ![p] = "up"]
          /\ \/ request' = [request EXCEPT ![r].pc = "record", ![r].pod = p] /\ UNCHANGED server
             \/ "lost" \in SessionFaults /\ End(r)
     \/ Unreachable /\ End(r) /\ UNCHANGED pods
     \/ (\A q \in Pods : pods[q] # "none") /\ End(r) /\ UNCHANGED pods     \* no stock
  /\ Reads /\ UNCHANGED <<session, connection, left>>

RecordSession(r) ==
  /\ At(r, "record")
  /\ session' = Pod(r)
  /\ Goto(r, "attach")
  /\ Writes(r) /\ UNCHANGED <<pods, connection, server, left>>

Attach(r) ==
  /\ At(r, "attach")
  /\ connection' = Pod(r)
  /\ End(r)
  /\ Reads /\ UNCHANGED <<pods, session, left>>

SetConnection(r) ==
  /\ At(r, "set") \/ At(r, "clear")
  /\ connection' = IF At(r, "set") THEN Manual ELSE None
  /\ ThenStatus(r)
  /\ Reads /\ UNCHANGED <<pods, session, left>>

Step(r) == Load(r) \/ Get(r) \/ Save(r) \/ Forget(r) \/ Detach(r) \/ Mark(r) \/ Delete(r)
             \/ CheckImage(r) \/ Create(r) \/ RecordSession(r) \/ Attach(r) \/ SetConnection(r)

-----------------------------------------------------------------------------
Crash ==
  /\ "crash" \in SessionFaults /\ server # "down"
  /\ server' = "down"
  /\ request' = [r \in Threads |-> Idle]
  /\ stale' = {} /\ left' = IF server = "stopping" THEN left \cup {p \in Pods : pods[p] = "up"} ELSE left
  /\ UNCHANGED <<pods, session, connection>>

Console(p) ==
  /\ "console" \in SessionFaults
  /\ \/ pods[p] = "up" /\ pods' = [pods EXCEPT ![p] = "exited"]
     \/ pods[p] \in {"up", "exited"} /\ pods' = [pods EXCEPT ![p] = "gone"]
  /\ UNCHANGED <<session, connection, server, request, stale, left>>

Next ==
  \/ \E r \in Requests : \E kind \in Actions[r] : Begin(r, kind)
  \/ \E r \in Threads : Step(r)
  \/ \E p \in Pods : Console(p)
  \/ BeginLifespan \/ Crash

Spec == Init /\ [][Next]_vars

\* Handlers run on until the process dies.
FairSpec == Spec /\ \A r \in Threads : WF_vars(Step(r))

-----------------------------------------------------------------------------
(* Properties *)

\* The record of a pod that bills is lost only to a handler that another one has
\* overtaken: one the record changed under since it read it. A refresh that finds
\* no provider, a failed stop, a crash, a new pod or any handler that came later
\* keeps it (connection.py: "a pod nobody remembers keeps billing").
RecordLostToStale ==
  [][\A p \in Pods : session = p /\ pods[p] = "up" /\ session' # p =>
       \E r \in stale : request'[r] # request[r]]_vars

\* A start is about to rent only when the pod it found recorded is gone, and while
\* nothing is recorded, unless it was overtaken (RunpodProvisioner.start: "Two
\* pods is the expensive mistake").
RentsUnrecorded ==
  \A r \in Requests : At(r, "create") =>
    /\ Pod(r) = None \/ pods[Pod(r)] = "gone"
    /\ session = None \/ r \in stale

\* A clean exit terminates the rental that is recorded, when the provider answers.
CleanExitTerminates ==
  \A p \in Pods :
    server = "stopping" /\ session = p ~> server = "down" /\ (pods[p] # "up" \/ p \in left)

-----------------------------------------------------------------------------
(* What the documents say, and TLC refutes *)

\* While a pod of the saved session bills, the record is not lost: a failed
\* stop, a refresh that cannot reach the provider and a crash all keep it
\* (RunpodProvisioner.stop: "If this raises, the record stays").
RecordKept == [][\A p \in Pods : session = p /\ pods[p] = "up" => session' = p]_vars

\* provisioners/base.py: "a crash between "created" and "recorded" cannot orphan
\* a billing resource".
About(p) == \E r \in Threads : At(r, "record") /\ Pod(r) = p
CrashOrphansNothing == \A p \in Pods : pods[p] = "up" => session = p \/ About(p)

\* RunpodProvisioner.start: "Two pods is the expensive mistake".
OnePod == \A p, q \in Pods : pods[p] = "up" /\ pods[q] = "up" => p = q
=============================================================================
