------------------------- MODULE LiveSessionsProofs -------------------------
(***************************************************************************)
(* Proofs about LiveSessions for any finite set of connections, any number *)
(* of requests and of runtimes: type correctness, exclusive acquisition of *)
(* runtimes, exact maps, and that no operation loses its runtime.          *)
(***************************************************************************)
EXTENDS LiveSessions, FiniteSetTheorems, TLAPS

-----------------------------------------------------------------------------
(* The inductive invariant. *)

OpsOn(i) == {q \in Requests : req[q].pc = "operating" /\ req[q].rt = i}

(* operationCount counts the operations that run. *)
OpsCounted == \A i \in Runtimes : rt[i].ops = Cardinality(OpsOn(i))

(* Numbers from next on are not in use. *)
Fresh == \A i \in Runtimes : i >= next => rt[i].state = "unused"

(* A runtime leaves the map before it is disposed of only when close() has
   emptied the map. *)
DisposingMapped ==
  \A i \in Runtimes : rt[i].state = "disposing" => live = i \/ shut.pc \in {"disposing", "closed"}

(* While a request has yet to be told of a disposal, no later runtime has got
   beyond the service. *)
UntoldFirst ==
  \A q \in Requests : req[q].pc = "awaitDisposing" /\ Disposed(req[q].rt) =>
    \A i \in Runtimes : rt[i].state \notin {"snapshot", "aborting", "live", "disposing"}

(* close() looks at the sessions when no connection is left. *)
ClosedFirst ==
  shut.pc \in {"opening", "disposing", "closed"} => \A c \in Conns : conn[c] = "closed"

Maps == ExclusiveRuntime /\ LiveMapExact /\ OperationsRunLive
Order == Fresh /\ DisposingMapped /\ UntoldFirst /\ ClosedFirst
IInv == TypeOK /\ OpsCounted /\ Maps /\ Order

-----------------------------------------------------------------------------
(* Types. *)

(* The updates that the actions make to a LiveSession keep it one. *)
LEMMA SessionUpdates ==
  ASSUME NEW l \in Session
  PROVE  /\ MaybeDispose(l) \in Session
         /\ \A S \in SUBSET Conns : [l EXCEPT !.conns = S] \in Session
         /\ \A n \in Nat : [l EXCEPT !.ops = n] \in Session
         /\ \A b \in BOOLEAN : [l EXCEPT !.busy = b] \in Session
         /\ \A n \in Nat, b \in BOOLEAN : [l EXCEPT !.ops = n, !.busy = b] \in Session
         /\ \A b \in BOOLEAN : [l EXCEPT !.ending = b] \in Session
         /\ [l EXCEPT !.terminal = TRUE, !.ending = TRUE, !.subscribed = FALSE] \in Session
         /\ \A s \in RuntimeStates : [l EXCEPT !.state = s] \in Session
         /\ [l EXCEPT !.state = "disposing", !.subscribed = FALSE] \in Session
         /\ \A b \in BOOLEAN : [l EXCEPT !.state = "live", !.subscribed = TRUE,
                                         !.terminal = b, !.ending = b] \in Session
<1>1. {"disposing", "live"} \subseteq RuntimeStates
  BY DEF RuntimeStates
<1>2. [l EXCEPT !.state = "disposing", !.subscribed = FALSE] \in Session
  BY <1>1 DEF Session
<1> QED
  BY <1>1, <1>2 DEF Session, MaybeDispose

(* A LiveSession that left the map is one. *)
LEMMA DeadType ==
  ASSUME TypeOK, NEW i \in Runtimes, NEW s \in RuntimeStates
  PROVE  Dead(i, s) \in Session
<1>1. rt[i].ops \in Nat
  BY DEF TypeOK, Session
<1>2. [NoRuntime EXCEPT !.state = s, !.ops = rt[i].ops] \in Session
  BY <1>1 DEF NoRuntime, Session
<1> QED
  BY <1>2 DEF Dead

(* What maybeDispose leaves alone, and when it acts. *)
LEMMA MaybeDisposeEffect ==
  ASSUME NEW l \in Session
  PROVE  /\ MaybeDispose(l).ops = l.ops
         /\ \/ MaybeDispose(l).state = l.state
            \/ l.state = "live" /\ l.ops = 0 /\ MaybeDispose(l).state = "disposing"
BY DEF MaybeDispose, MayDispose, IdleOnly, Session

(* A request that is suspended or answered is in its type. *)
ReqOK == /\ req \in [Requests -> [pc : RequestPCs, rt : 0..MaxRuntimes]]
         /\ \A q \in Requests : req[q].pc = "free" <=> req[q].rt = 0

(* Suspending a request keeps the requests in their types. *)
LEMMA SuspendType ==
  ASSUME ReqOK, NEW q \in Requests, NEW pc \in RequestPCs \ {"free"}, NEW i \in Runtimes,
         Suspend(q, pc, i)
  PROVE  ReqOK'
<1>1. i \in 0..MaxRuntimes /\ i # 0
  BY ServerAssumption DEF Runtimes
<1> QED
  BY <1>1 DEF ReqOK, Suspend

(* Answering a request keeps the requests in their types. *)
LEMMA FinishType ==
  ASSUME ReqOK, NEW q \in Requests, Finish(q)
  PROVE  ReqOK'
<1>1. 0 \in 0..MaxRuntimes /\ "free" \in RequestPCs
  BY ServerAssumption DEF RequestPCs
<1> QED
  BY <1>1 DEF ReqOK, Finish, NoRequest

(* The runtime of a suspended request is one. *)
LEMMA RequestRuntime ==
  ASSUME TypeOK, NEW q \in Requests, req[q].pc # "free"
  PROVE  req[q].rt \in Runtimes
BY ServerAssumption DEF TypeOK, Runtimes

RtOK == rt \in [Runtimes -> Session]
ConnOK == conn \in [Conns -> Stages] /\ attached \subseteq Conns
MapOK == live \in 0..MaxRuntimes /\ opening \in 0..MaxRuntimes /\ next \in 1..(MaxRuntimes + 1)
ShutOK == shut \in [pc : ClosePCs, rt : 0..MaxRuntimes]

(* TypeOK, by the variables that actions change together. *)
LEMMA TypeParts ==
  /\ TypeOK <=> ConnOK /\ MapOK /\ RtOK /\ ReqOK /\ ShutOK
  /\ TypeOK' <=> ConnOK' /\ MapOK' /\ RtOK' /\ ReqOK' /\ ShutOK'
BY DEF TypeOK, ConnOK, MapOK, RtOK, ReqOK, ShutOK

(* A filled map holds a runtime. *)
LEMMA MapRuntime ==
  ASSUME TypeOK
  PROVE  (live # 0 => live \in Runtimes) /\ (opening # 0 => opening \in Runtimes)
BY ServerAssumption DEF TypeOK, Runtimes

(* Storing a LiveSession keeps the runtimes in their types. *)
LEMMA StoreType ==
  ASSUME RtOK, NEW i \in Runtimes, NEW l \in Session, rt' = [rt EXCEPT ![i] = l]
  PROVE  RtOK'
BY DEF RtOK

(* Leaving a session keeps connections and runtimes in their types. *)
LEMMA LeaveType ==
  ASSUME TypeOK, NEW c \in Conns, Leave(c), conn' \in [Conns -> Stages]
  PROVE  ConnOK' /\ RtOK'
<1>1. RtOK /\ attached \subseteq Conns
  BY DEF TypeOK, RtOK
<1>2. ConnOK'
  BY <1>1 DEF ConnOK, Leave
<1>3. CASE c \in attached /\ live # 0
  <2> DEFINE l == Without(rt[live], c)
  <2>1. live \in Runtimes
    BY <1>3, MapRuntime
  <2>2. rt[live] \in Session /\ rt[live].conns \ {c} \in SUBSET Conns
    BY <1>1, <2>1 DEF RtOK, Session
  <2>3. l \in Session
    BY <2>2, SessionUpdates DEF Without
  <2>4. MaybeDispose(l) \in Session
    BY <2>3, SessionUpdates
  <2>5. rt' = [rt EXCEPT ![live] = MaybeDispose(l)]
    BY <1>3 DEF Leave
  <2> QED
    BY <1>1, <1>2, <2>1, <2>4, <2>5, StoreType
<1>4. CASE ~(c \in attached /\ live # 0)
  BY <1>1, <1>2, <1>4 DEF Leave, RtOK
<1> QED
  BY <1>3, <1>4

(* One round of acquire() keeps every variable in its type. *)
LEMMA AcquireType ==
  ASSUME TypeOK, NEW q \in Requests, Acquire(q), UNCHANGED <<conn, attached, live, shut>>
  PROVE  TypeOK'
<1>0. ConnOK' /\ ShutOK' /\ live' \in 0..MaxRuntimes
  BY DEF TypeOK, ConnOK, ShutOK
<1>a. ReqOK /\ RtOK
  BY TypeParts
<1>b. {"acquired", "awaitDisposing", "awaitOpening", "creating"} \subseteq RequestPCs \ {"free"}
  BY DEF RequestPCs
<1>1. CASE live # 0 /\ rt[live].terminal /\ Finish(q) /\ UNCHANGED <<opening, rt, next>>
  BY <1>0, <1>a, <1>1, FinishType, TypeParts DEF MapOK, RtOK, TypeOK
<1>2. CASE /\ live # 0 /\ ~rt[live].terminal
           /\ Suspend(q, IF rt[live].state = "disposing" THEN "awaitDisposing" ELSE "acquired", live)
           /\ UNCHANGED <<opening, rt, next>>
  <2>1. live \in Runtimes
    BY <1>2, MapRuntime
  <2>2. ReqOK'
    BY <1>a, <1>b, <1>2, <2>1, SuspendType
  <2> QED
    BY <1>0, <1>a, <1>2, <2>2, TypeParts DEF MapOK, RtOK, TypeOK
<1>3. CASE /\ live = 0 /\ opening # 0
           /\ Suspend(q, "awaitOpening", opening)
           /\ UNCHANGED <<opening, rt, next>>
  <2>1. opening \in Runtimes
    BY <1>3, MapRuntime
  <2>2. ReqOK'
    BY <1>a, <1>b, <1>3, <2>1, SuspendType
  <2> QED
    BY <1>0, <1>a, <1>3, <2>2, TypeParts DEF MapOK, RtOK, TypeOK
<1>4. CASE /\ live = 0 /\ opening = 0 /\ next \in Runtimes
           /\ next' = next + 1
           /\ opening' = next
           /\ rt' = [rt EXCEPT ![next].state = "acquiring"]
           /\ Suspend(q, "creating", next)
  <2>1. ReqOK'
    BY <1>a, <1>b, <1>4, SuspendType
  <2>2. [rt[next] EXCEPT !.state = "acquiring"] \in Session
    BY <1>a, <1>4, SessionUpdates DEF RtOK, RuntimeStates
  <2>3. RtOK'
    BY <1>a, <1>4, <2>2 DEF RtOK
  <2>4. MapOK'
    BY <1>0, <1>4, ServerAssumption DEF MapOK, Runtimes
  <2> QED
    BY <1>0, <2>1, <2>3, <2>4, TypeParts
<1> QED
  BY <1>1, <1>2, <1>3, <1>4 DEF Acquire

(* There are finitely many requests. *)
LEMMA FiniteOps ==
  ASSUME NEW i
  PROVE  IsFiniteSet(OpsOn(i)) /\ Cardinality(OpsOn(i)) \in Nat
<1>1. IsFiniteSet(1..MaxInFlight)
  BY ServerAssumption, FS_Interval
<1>2. IsFiniteSet(Requests)
  BY <1>1, ServerAssumption, FS_Product DEF Requests
<1>3. OpsOn(i) \in SUBSET Requests
  BY DEF OpsOn
<1>4. IsFiniteSet(OpsOn(i))
  BY <1>2, <1>3, FS_Subset
<1> QED
  BY <1>4, FS_CardinalityType

(* A runtime that an operation runs on counts it. *)
LEMMA OperatingCounts ==
  ASSUME TypeOK, OpsCounted, NEW q \in Requests, req[q].pc = "operating"
  PROVE  rt[req[q].rt].ops \in Nat \ {0}
<1> DEFINE i == req[q].rt
<1>1. i \in Runtimes
  BY RequestRuntime
<1>2. OpsOn(i) # {}
  BY DEF OpsOn
<1>3. Cardinality(OpsOn(i)) \in Nat \ {0}
  BY <1>2, FiniteOps, FS_EmptySet
<1> QED
  BY <1>1, <1>3 DEF OpsCounted

(* The connections' actions keep every variable in its type. *)
LEMMA NetworkTypes ==
  ASSUME TypeOK, NEW c \in Conns, Network(c)
  PROVE  TypeOK'
<1>0. ConnOK /\ MapOK /\ RtOK /\ ReqOK /\ ShutOK
  BY TypeParts
<1>1. conn' \in [Conns -> Stages]
  BY <1>0 DEF Network, CloseSocket, Disconnect, ConnOK, Stages
<1>2. CASE CloseSocket(c)
  <2>1. ConnOK' /\ MapOK' /\ RtOK' /\ ReqOK' /\ ShutOK'
    BY <1>0, <1>1, <1>2 DEF CloseSocket, ConnOK, MapOK, RtOK, ReqOK, ShutOK
  <2> QED
    BY <2>1, TypeParts
<1>3. CASE Disconnect(c)
  <2>1. ConnOK' /\ RtOK'
    BY <1>1, <1>3, LeaveType DEF Disconnect
  <2>2. MapOK' /\ ReqOK' /\ ShutOK'
    BY <1>0, <1>3 DEF Disconnect, MapOK, ReqOK, ShutOK
  <2> QED
    BY <2>1, <2>2, TypeParts
<1> QED
  BY <1>2, <1>3 DEF Network

(* The commands keep every variable in its type. *)
LEMMA CommandTypes ==
  ASSUME TypeOK, NEW q \in Requests, Command(q)
  PROVE  TypeOK'
<1>0. ConnOK /\ MapOK /\ RtOK /\ ReqOK /\ ShutOK
  BY TypeParts
<1>a. {"detaching", "operating"} \subseteq RequestPCs \ {"free"} /\ Client(q) \in Conns
  BY DEF RequestPCs, Requests, Client
<1>1. CASE AttachCommand(q)
  BY <1>1, AcquireType DEF AttachCommand
<1>2. CASE DetachCommand(q)
  <2> DEFINE c == Client(q)
             stays == live # 0 /\ rt[live].conns \ {c} # {} /\ ~rt[live].terminal /\ rt[live].state = "live"
  <2>0. MapOK' /\ ShutOK' /\ conn' \in [Conns -> Stages]
    BY <1>0, <1>2 DEF DetachCommand, MapOK, ShutOK, ConnOK
  <2>1. CASE stays
    <3>1. live \in Runtimes
      BY <2>1, MapRuntime
    <3>2. rt[live] \in Session /\ rt[live].conns \ {c} \in SUBSET Conns
      BY <1>0, <3>1 DEF RtOK, Session
    <3>3. rt' = [rt EXCEPT ![live] = [rt[live] EXCEPT !.conns = rt[live].conns \ {c}]]
      BY <1>0, <1>2, <2>1, <3>1 DEF DetachCommand, RtOK
    <3>4. RtOK'
      BY <1>0, <3>1, <3>2, <3>3, SessionUpdates, StoreType
    <3>5. Suspend(q, "detaching", live) /\ attached' = attached \ {c}
      BY <1>2, <2>1 DEF DetachCommand
    <3>6. ReqOK'
      BY <1>0, <1>a, <3>1, <3>5, SuspendType
    <3>7. ConnOK'
      BY <1>0, <2>0, <3>5 DEF ConnOK
    <3> QED
      BY <2>0, <3>4, <3>6, <3>7, TypeParts
  <2>2. CASE ~stays
    <3>1. Leave(c) /\ UNCHANGED req
      BY <1>2, <2>2 DEF DetachCommand
    <3>2. ConnOK' /\ RtOK'
      BY <1>a, <2>0, <3>1, LeaveType
    <3>3. ReqOK'
      BY <1>0, <3>1 DEF ReqOK
    <3> QED
      BY <2>0, <3>2, <3>3, TypeParts
  <2> QED
    BY <2>1, <2>2
<1>3. ASSUME NEW works \in BOOLEAN, OperationCommand(q, works) PROVE TypeOK'
  <2>0. ConnOK' /\ MapOK' /\ ShutOK'
    BY <1>0, <1>3 DEF OperationCommand, ConnOK, MapOK, ShutOK
  <2>1. live \in Runtimes
    BY <1>3, MapRuntime DEF OperationCommand
  <2>2. /\ rt[live] \in Session
        /\ rt[live].ops + 1 \in Nat /\ (rt[live].busy \/ works) \in BOOLEAN
    BY <1>0, <2>1 DEF RtOK, Session
  <2>3. rt' = [rt EXCEPT ![live] = [rt[live] EXCEPT !.ops = rt[live].ops + 1,
                                                    !.busy = rt[live].busy \/ works]]
    BY <1>0, <1>3, <2>1, <2>2 DEF OperationCommand, RtOK, Session
  <2>4. [rt[live] EXCEPT !.ops = rt[live].ops + 1, !.busy = rt[live].busy \/ works] \in Session
    BY <2>2, SessionUpdates
  <2>5. RtOK'
    BY <1>0, <2>1, <2>3, <2>4, StoreType
  <2>6. ReqOK'
    BY <1>0, <1>a, <1>3, <2>1, SuspendType DEF OperationCommand
  <2> QED
    BY <2>0, <2>5, <2>6, TypeParts
<1> QED
  BY <1>1, <1>2, <1>3 DEF Command

(* The continuations of requests keep every variable in its type: an
   operation that ends was counted. *)
LEMMA ResumeTypes ==
  ASSUME TypeOK, OpsCounted, NEW q \in Requests, Resume(q)
  PROVE  TypeOK'
<1>0. ConnOK /\ MapOK /\ RtOK /\ ReqOK /\ ShutOK
  BY TypeParts
<1>a. "acquired" \in RequestPCs \ {"free"} /\ Client(q) \in Conns
  BY DEF RequestPCs, Requests, Client
<1> DEFINE i == req[q].rt
<1>b. i \in Runtimes
  BY RequestRuntime DEF Resume, AfterDisposing, AfterOpening, Attach, AfterDetach, AfterOperation
<1>c. rt[i] \in Session
  BY <1>0, <1>b DEF RtOK
<1>d. MaybeDispose(rt[i]) \in Session
  BY <1>c, SessionUpdates
<1>1. CASE AfterDisposing(q)
  <2>1. CASE rt[i].state = "disposed"
    BY <1>1, <2>1, AcquireType DEF AfterDisposing
  <2>2. CASE rt[i].state # "disposed"
    <3>1. ReqOK'
      BY <1>0, <1>1, <2>2, FinishType DEF AfterDisposing
    <3>2. ConnOK' /\ MapOK' /\ RtOK' /\ ShutOK'
      BY <1>0, <1>1, <2>2 DEF AfterDisposing, ConnOK, MapOK, RtOK, ShutOK
    <3> QED
      BY <3>1, <3>2, TypeParts
  <2> QED
    BY <2>1, <2>2
<1>2. CASE AfterOpening(q)
  <2>1. ConnOK' /\ RtOK' /\ ShutOK'
    BY <1>0, <1>2 DEF AfterOpening, ConnOK, RtOK, ShutOK
  <2>2. MapOK'
    BY <1>0, <1>2, ServerAssumption DEF AfterOpening, MapOK
  <2>3. Finish(q) \/ Suspend(q, "acquired", i)
    BY <1>2 DEF AfterOpening
  <2>4. ReqOK'
    BY <1>0, <1>a, <1>b, <2>3, FinishType, SuspendType
  <2> QED
    BY <2>1, <2>2, <2>4, TypeParts
<1>3. CASE Attach(q)
  <2>1. MapOK' /\ ShutOK' /\ conn' \in [Conns -> Stages]
    BY <1>0, <1>3 DEF Attach, MapOK, ShutOK, ConnOK
  <2>2. ConnOK'
    BY <1>0, <1>a, <1>3, <2>1 DEF Attach, ConnOK
  <2>3. ReqOK'
    BY <1>0, <1>3, FinishType DEF Attach
  <2>4. CASE conn[Client(q)] = "ready"
    <3>1. rt' = [rt EXCEPT ![i] = [rt[i] EXCEPT !.conns = rt[i].conns \cup {Client(q)}]]
      BY <1>0, <1>3, <1>b, <2>4 DEF Attach, RtOK
    <3>2. rt[i].conns \cup {Client(q)} \in SUBSET Conns
      BY <1>a, <1>c DEF Session
    <3>3. RtOK'
      BY <1>0, <1>b, <1>c, <3>1, <3>2, SessionUpdates, StoreType
    <3> QED
      BY <2>1, <2>2, <2>3, <3>3, TypeParts
  <2>5. CASE conn[Client(q)] # "ready"
    <3>1. rt' = [rt EXCEPT ![i] = MaybeDispose(rt[i])]
      BY <1>3, <2>5 DEF Attach
    <3>2. RtOK'
      BY <1>0, <1>b, <1>d, <3>1, StoreType
    <3> QED
      BY <2>1, <2>2, <2>3, <3>2, TypeParts
  <2> QED
    BY <2>4, <2>5
<1>4. CASE AfterDetach(q)
  <2>1. ConnOK' /\ MapOK' /\ ShutOK'
    BY <1>0, <1>4 DEF AfterDetach, ConnOK, MapOK, ShutOK
  <2>2. ReqOK'
    BY <1>0, <1>4, FinishType DEF AfterDetach
  <2>3. RtOK'
    BY <1>0, <1>4, <1>b, <1>d, StoreType DEF AfterDetach
  <2> QED
    BY <2>1, <2>2, <2>3, TypeParts
<1>5. CASE AfterOperation(q)
  <2>1. ConnOK' /\ MapOK' /\ ShutOK'
    BY <1>0, <1>5 DEF AfterOperation, ConnOK, MapOK, ShutOK
  <2>2. ReqOK'
    BY <1>0, <1>5, FinishType DEF AfterOperation
  <2>3. rt[i].ops - 1 \in Nat
    BY <1>5, OperatingCounts DEF AfterOperation
  <2>4. OperationOver(rt[i]) \in Session
    BY <1>c, <2>3, SessionUpdates DEF OperationOver
  <2>5. MaybeDispose(OperationOver(rt[i])) \in Session
    BY <2>4, SessionUpdates
  <2>6. RtOK'
    BY <1>0, <1>5, <1>b, <2>5, StoreType DEF AfterOperation
  <2> QED
    BY <2>1, <2>2, <2>6, TypeParts
<1> QED
  BY <1>1, <1>2, <1>3, <1>4, <1>5 DEF Resume

(* Runtimes and their events keep every variable in its type. *)
LEMMA RuntimeTypes ==
  ASSUME TypeOK, NEW i \in Runtimes, Service(i) \/ Event(i)
  PROVE  TypeOK'
<1>0. ConnOK /\ MapOK /\ RtOK /\ ReqOK /\ ShutOK
  BY TypeParts
<1>a. rt[i] \in Session /\ i \in 0..MaxRuntimes
  BY <1>0, ServerAssumption DEF RtOK, Runtimes
<1>b. MaybeDispose(rt[i]) \in Session
  BY <1>a, SessionUpdates
<1>c. {"failed", "aborting", "snapshot", "disposed", "broken"} \subseteq RuntimeStates
  BY DEF RuntimeStates
<1>d. ReqOK' /\ ShutOK'
  BY <1>0 DEF Service, Event, RuntimeAcquired, RuntimeReady, RuntimeRejected, AbortedRuntimeGone,
              RuntimeGone, RuntimeIdle, Terminated, RuntimeEvent, RuntimeError, ReqOK, ShutOK
<1>e. ConnOK'
  BY <1>0 DEF Service, Event, RuntimeAcquired, RuntimeReady, RuntimeRejected, AbortedRuntimeGone,
              RuntimeGone, RuntimeIdle, Terminated, RuntimeEvent, RuntimeError, ConnOK, Stages
<1>f. MapOK'
  <2>1. next' = next /\ opening' = opening /\ live' \in {live, i, 0}
    BY DEF Service, Event, RuntimeAcquired, RuntimeReady, RuntimeRejected, AbortedRuntimeGone,
           RuntimeGone, RuntimeIdle, Terminated, RuntimeEvent, RuntimeError
  <2> QED
    BY <1>0, <1>a, <2>1, ServerAssumption DEF MapOK
<1> SUFFICES RtOK'
  BY <1>d, <1>e, <1>f, TypeParts
<1>1. ASSUME NEW s \in RuntimeStates, rt' = [rt EXCEPT ![i].state = s] PROVE RtOK'
  <2>1. rt' = [rt EXCEPT ![i] = [rt[i] EXCEPT !.state = s]]
    BY <1>0, <1>1 DEF RtOK
  <2> QED
    BY <1>0, <1>a, <2>1, SessionUpdates, StoreType
<1>2. ASSUME NEW ok \in BOOLEAN, RuntimeAcquired(i, ok) PROVE RtOK'
  BY <1>1, <1>2, <1>c DEF RuntimeAcquired
<1>3. ASSUME NEW ok \in BOOLEAN, RuntimeGone(i, ok) PROVE RtOK'
  BY <1>0, <1>3, <1>c, DeadType, StoreType DEF RuntimeGone
<1>4. ASSUME NEW terminal \in BOOLEAN, RuntimeReady(i, terminal) PROVE RtOK'
  BY <1>0, <1>4, <1>a, SessionUpdates, StoreType DEF RuntimeReady
<1>5. ASSUME RuntimeRejected(i) \/ AbortedRuntimeGone(i) PROVE RtOK'
  BY <1>1, <1>5, <1>c DEF RuntimeRejected, AbortedRuntimeGone
<1>6. ASSUME RuntimeIdle(i) PROVE RtOK'
  <2> DEFINE l == [rt[i] EXCEPT !.busy = FALSE]
  <2>1. l \in Session
    BY <1>a, SessionUpdates
  <2>2. MaybeDispose(l) \in Session
    BY <2>1, SessionUpdates
  <2>3. rt' = [rt EXCEPT ![i] = IF l.subscribed THEN MaybeDispose(l) ELSE l]
    BY <1>6 DEF RuntimeIdle
  <2> QED
    BY <1>0, <2>1, <2>2, <2>3, StoreType
<1>7. ASSUME Terminated(i) PROVE RtOK'
  <2> DEFINE l == [rt[i] EXCEPT !.ending = FALSE]
  <2>1. l \in Session
    BY <1>a, SessionUpdates
  <2>2. MaybeDispose(l) \in Session
    BY <2>1, SessionUpdates
  <2> QED
    BY <1>0, <1>7, <2>2, StoreType DEF Terminated
<1>8. ASSUME RuntimeEvent(i) PROVE RtOK'
  BY <1>0, <1>8, <1>b, StoreType DEF RuntimeEvent
<1>9. ASSUME RuntimeError(i) PROVE RtOK'
  BY <1>0, <1>9, <1>a, SessionUpdates, StoreType DEF RuntimeError
<1> QED
  BY <1>2, <1>3, <1>4, <1>5, <1>6, <1>7, <1>8, <1>9 DEF Service, Event

(* close() keeps every variable in its type. *)
LEMMA CloseTypes ==
  ASSUME TypeOK, CloseServer \/ Closes
  PROVE  TypeOK'
<1>0. ConnOK /\ MapOK /\ RtOK /\ ReqOK /\ ShutOK
  BY TypeParts
<1>1. ReqOK'
  BY <1>0 DEF CloseServer, Closes, CloseConnections, CloseOpening, CloseLive, CloseReturns, ReqOK
<1>2. ConnOK'
  BY <1>0 DEF CloseServer, Closes, CloseConnections, CloseOpening, CloseLive, CloseReturns, ConnOK, Stages
<1>3. MapOK'
  BY <1>0, ServerAssumption
  DEF CloseServer, Closes, CloseConnections, CloseOpening, CloseLive, CloseReturns, MapOK
<1>4. ShutOK'
  BY <1>0, ServerAssumption
  DEF CloseServer, Closes, CloseConnections, CloseOpening, CloseLive, CloseReturns, ShutOK, MapOK, ClosePCs
<1>5. RtOK'
  <2>1. CASE CloseLive /\ live # 0 /\ rt[live].state = "live"
    <3>1. live \in Runtimes
      BY <2>1, MapRuntime
    <3>2. rt' = [rt EXCEPT ![live] = [rt[live] EXCEPT !.state = "disposing", !.subscribed = FALSE]]
      BY <1>0, <2>1, <3>1 DEF CloseLive, RtOK, Session
    <3> QED
      BY <1>0, <3>1, <3>2, SessionUpdates, StoreType DEF RtOK
  <2>2. CASE ~(CloseLive /\ live # 0 /\ rt[live].state = "live")
    BY <1>0, <2>2 DEF CloseServer, Closes, CloseConnections, CloseOpening, CloseLive, CloseReturns, RtOK
  <2> QED
    BY <2>1, <2>2
<1> QED
  BY <1>1, <1>2, <1>3, <1>4, <1>5, TypeParts

(* Every step keeps every variable in its type. *)
LEMMA TypeStep == TypeOK /\ OpsCounted /\ [Next]_vars => TypeOK'
<1> SUFFICES ASSUME TypeOK, OpsCounted, [Next]_vars PROVE TypeOK'
  OBVIOUS
<1>1. CASE UNCHANGED vars
  <2>1. ConnOK' /\ MapOK' /\ RtOK' /\ ReqOK' /\ ShutOK'
    BY <1>1, TypeParts DEF vars, ConnOK, MapOK, RtOK, ReqOK, ShutOK
  <2> QED
    BY <2>1, TypeParts
<1> QED
  BY <1>1, NetworkTypes, CommandTypes, ResumeTypes, RuntimeTypes, CloseTypes DEF Next

-----------------------------------------------------------------------------
(* Operation counts. *)

KeepsOps == \A i \in Runtimes : rt'[i].ops = rt[i].ops
KeepsOperating == \A i \in Runtimes : OpsOn(i)' = OpsOn(i)

(* Operations that run are counted. *)
OpsPositive == \A q \in Requests : req[q].pc = "operating" => rt[req[q].rt].ops # 0

(* Counting makes the counts positive, now... *)
LEMMA CountedPositive == TypeOK /\ OpsCounted => OpsPositive
BY OperatingCounts DEF OpsPositive

(* ...and after a step. *)
LEMMA CountedPositiveNext == TypeOK' /\ OpsCounted' => OpsPositive'
BY CountedPositive, PTL

(* A runtime that maybeDispose gives up. *)
GivenUp(i) == rt[i].state = "live" /\ rt'[i].state = "disposing" /\ rt'[i].ops = 0

KeepsStates == \A i \in Runtimes : rt'[i].state = rt[i].state \/ GivenUp(i)

(* Storing a LiveSession with another state or count touches no other. *)
LEMMA StoreEffect ==
  ASSUME RtOK, NEW i \in Runtimes, NEW l \in Session, l.state = rt[i].state,
         rt' = [rt EXCEPT ![i] = l] \/ rt' = [rt EXCEPT ![i] = MaybeDispose(l)]
  PROVE  /\ KeepsStates
         /\ rt'[i].ops = l.ops
         /\ \A j \in Runtimes \ {i} : rt'[j] = rt[j]
<1>1. /\ rt'[i] = l \/ rt'[i] = MaybeDispose(l)
      /\ \A j \in Runtimes \ {i} : rt'[j] = rt[j]
  BY DEF RtOK
<1>2. /\ MaybeDispose(l).ops = l.ops
      /\ \/ MaybeDispose(l).state = l.state
         \/ l.state = "live" /\ l.ops = 0 /\ MaybeDispose(l).state = "disposing"
  BY MaybeDisposeEffect
<1>3. rt'[i].ops = l.ops
  BY <1>1, <1>2
<1>4. rt'[i].state = rt[i].state \/ GivenUp(i)
  BY <1>1, <1>2 DEF GivenUp
<1> QED
  BY <1>1, <1>3, <1>4 DEF KeepsStates

(* So maybeDispose, or a change of other fields, keeps states and counts. *)
LEMMA StoreKeeps ==
  ASSUME RtOK, NEW i \in Runtimes, NEW l \in Session, l.state = rt[i].state, l.ops = rt[i].ops,
         rt' = [rt EXCEPT ![i] = l] \/ rt' = [rt EXCEPT ![i] = MaybeDispose(l)]
  PROVE  KeepsStates /\ KeepsOps
<1>1. /\ KeepsStates
      /\ rt'[i].ops = l.ops
      /\ \A j \in Runtimes \ {i} : rt'[j] = rt[j]
  BY StoreEffect
<1> QED
  BY <1>1 DEF KeepsOps

(* Leaving a session keeps states and counts. *)
LEMMA LeaveKeeps ==
  ASSUME TypeOK, NEW c \in Conns, Leave(c)
  PROVE  KeepsStates /\ KeepsOps
<1>1. RtOK
  BY TypeParts
<1>2. CASE c \in attached /\ live # 0
  <2> DEFINE l == Without(rt[live], c)
  <2>1. live \in Runtimes
    BY <1>2, MapRuntime
  <2>2. rt[live] \in Session /\ rt[live].conns \ {c} \in SUBSET Conns
    BY <1>1, <2>1 DEF RtOK, Session
  <2>3. l \in Session /\ l.state = rt[live].state /\ l.ops = rt[live].ops
    BY <2>2 DEF Without, Session
  <2>4. rt' = [rt EXCEPT ![live] = MaybeDispose(l)]
    BY <1>2 DEF Leave
  <2> QED
    BY <1>1, <2>1, <2>3, <2>4, StoreKeeps
<1>3. CASE ~(c \in attached /\ live # 0)
  BY <1>3 DEF Leave, KeepsStates, KeepsOps
<1> QED
  BY <1>2, <1>3

(* A request that neither was nor becomes an operation changes no count. *)
LEMMA SuspendKeeps ==
  ASSUME TypeOK, NEW q \in Requests, req[q].pc # "operating",
         NEW pc, NEW i, pc # "operating", Suspend(q, pc, i) \/ Finish(q)
  PROVE  KeepsOperating
<1>1. /\ req'[q].pc # "operating"
      /\ \A r \in Requests \ {q} : req'[r] = req[r]
  BY DEF TypeOK, Suspend, Finish, NoRequest
<1>2. ASSUME NEW j \in Runtimes PROVE OpsOn(j)' = OpsOn(j)
  BY <1>1 DEF OpsOn
<1> QED
  BY <1>2 DEF KeepsOperating

(* Counts that nothing changes stay right. *)
LEMMA SameCounts == OpsCounted /\ KeepsOps /\ KeepsOperating => OpsCounted'
BY DEF OpsCounted, KeepsOps, KeepsOperating

-----------------------------------------------------------------------------
(* The kinds of steps, by what they do to states and maps. *)

(* A request that waits for a disposal waited before, or found the runtime
   being disposed of; one that operates operated before, or found it live. *)
RequestsInOrder ==
  \A q \in Requests :
    /\ req'[q].pc = "awaitDisposing" => req'[q] = req[q] \/ rt[req'[q].rt].state = "disposing"
    /\ req'[q].pc = "operating" => req'[q] = req[q] \/ rt'[req'[q].rt].state = "live"

(* No runtime changes its state, unless maybeDispose gives it up. *)
Quiet ==
  /\ KeepsStates /\ RequestsInOrder
  /\ live' = live /\ next' = next
  /\ \A i \in Runtimes : Opening(i) => opening' = opening
  /\ shut'.pc \in {"disposing", "closed"} <=> shut.pc \in {"disposing", "closed"}

Moves(i, s) == rt'[i].state = s /\ \A j \in Runtimes \ {i} : rt'[j].state = rt[j].state

(* A runtime is asked of the service. *)
Creates ==
  /\ RequestsInOrder
  /\ live = 0 /\ opening = 0 /\ next \in Runtimes
  /\ \A i \in Runtimes : rt[i].state # "disposing"
  /\ Moves(next, "acquiring")
  /\ live' = live /\ opening' = next /\ next' = next + 1 /\ shut' = shut

(* Quiet steps keep the invariant. *)
LEMMA QuietKeeps ==
  ASSUME IInv, Quiet, TypeOK', OpsPositive'
  PROVE  Maps' /\ Fresh' /\ DisposingMapped' /\ UntoldFirst'
<1> USE DEF IInv, Maps, Order
<1>0. live' = live /\ next' = next
  BY DEF Quiet
<1>1. \A i \in Runtimes : /\ Opening(i)' <=> Opening(i)
                          /\ Alive(i)' <=> Alive(i)
                          /\ Disposed(i)' <=> Disposed(i)
                          /\ rt'[i].state = "live" => rt[i].state = "live"
                          /\ rt'[i].state = "disposing" => rt[i].state \in {"live", "disposing"}
                          /\ rt[i].state = "unused" => rt'[i].state = "unused"
                          /\ rt[i].state \in {"live", "disposing"} => rt'[i].state \in {"live", "disposing"}
                          /\ rt'[i].state \in {"snapshot", "aborting", "live", "disposing"} =>
                               rt[i].state \in {"snapshot", "aborting", "live", "disposing"}
  BY DEF Quiet, KeepsStates, GivenUp, Opening, Alive, Disposed
<1>a. (live # 0 => live \in Runtimes) /\ (\A q \in Requests : req'[q].pc # "free" => req'[q].rt \in Runtimes)
  BY MapRuntime, ServerAssumption DEF TypeOK, Runtimes
<1>2. ExclusiveRuntime'
  BY <1>1 DEF ExclusiveRuntime
<1>3. LiveMapExact'
  BY <1>0, <1>1, <1>a DEF LiveMapExact, Quiet
<1>4. OperationsRunLive'
  <2> SUFFICES ASSUME NEW q \in Requests, req'[q].pc = "operating"
               PROVE  rt'[req'[q].rt].state = "live" \/ shut'.pc \in {"disposing", "closed"}
    BY DEF OperationsRunLive
  <2>1. req'[q].rt \in Runtimes /\ rt'[req'[q].rt].ops # 0
    BY <1>a DEF OpsPositive
  <2>2. CASE rt'[req'[q].rt].state = "live"
    BY <2>2
  <2>3. CASE req'[q] = req[q]
    BY <2>1, <2>3 DEF OperationsRunLive, Quiet, KeepsStates, GivenUp
  <2> QED
    BY <2>2, <2>3 DEF Quiet, RequestsInOrder
<1>5. Fresh'
  BY <1>0, <1>1 DEF Fresh
<1>6. DisposingMapped'
  BY <1>0, <1>1 DEF DisposingMapped, Quiet, LiveMapExact
<1>7. UntoldFirst'
  <2> SUFFICES ASSUME NEW q \in Requests, req'[q].pc = "awaitDisposing", Disposed(req[q].rt)',
                      NEW i \in Runtimes
               PROVE  rt'[i].state \notin {"snapshot", "aborting", "live", "disposing"}
    BY DEF UntoldFirst, Disposed
  <2>1. Disposed(req'[q].rt)
    BY <1>1, <1>a DEF Disposed
  <2>2. req'[q] = req[q]
    BY <2>1 DEF Quiet, RequestsInOrder, Disposed
  <2> QED
    BY <1>1, <2>1, <2>2 DEF UntoldFirst
<1> QED
  BY <1>2, <1>3, <1>4, <1>5, <1>6, <1>7

(* Asking for a runtime keeps the invariant: none is alive. *)
LEMMA CreatesKeeps ==
  ASSUME IInv, Creates, TypeOK'
  PROVE  Maps' /\ Fresh' /\ DisposingMapped' /\ UntoldFirst'
<1> USE DEF IInv, Maps, Order
<1>0. /\ live' = 0 /\ opening' = next /\ next' = next + 1 /\ shut' = shut /\ next \in Runtimes
      /\ rt'[next].state = "acquiring" /\ \A j \in Runtimes \ {next} : rt'[j].state = rt[j].state
  BY DEF Creates, Moves
<1>a. \A q \in Requests : req'[q].pc # "free" => req'[q].rt \in Runtimes
  BY ServerAssumption DEF TypeOK, Runtimes
<1>b. next \in Nat /\ 0 \notin Runtimes /\ Runtimes \subseteq Nat
  BY <1>0 DEF Runtimes
<1>1. \A i \in Runtimes : ~Alive(i)
  BY <1>b DEF Creates, LiveMapExact, Alive
<1>2. \A i \in Runtimes : \/ rt'[i].state = rt[i].state /\ ~Alive(i)
                          \/ i = next /\ rt'[i].state = "acquiring"
  BY <1>0, <1>1
<1>3. \A i \in Runtimes : Alive(i)' => i = next
  BY <1>2 DEF Alive, Opening
<1>4. ExclusiveRuntime'
  BY <1>3 DEF ExclusiveRuntime
<1>5. LiveMapExact'
  BY <1>0, <1>1, <1>2 DEF LiveMapExact, Alive, Opening
<1>6. OperationsRunLive'
  <2> SUFFICES ASSUME NEW q \in Requests, req'[q].pc = "operating"
               PROVE  rt'[req'[q].rt].state = "live" \/ shut'.pc \in {"disposing", "closed"}
    BY DEF OperationsRunLive
  <2>1. CASE req'[q] = req[q]
    BY <1>0, <1>1, <1>a, <2>1 DEF OperationsRunLive, Alive
  <2> QED
    BY <2>1 DEF Creates, RequestsInOrder
<1>7. Fresh'
  BY <1>0, <1>b DEF Fresh
<1>8. DisposingMapped'
  BY <1>1, <1>2 DEF DisposingMapped, Alive
<1>9. UntoldFirst'
  BY <1>1, <1>2 DEF UntoldFirst, Alive, Opening
<1> QED
  BY <1>4, <1>5, <1>6, <1>7, <1>8, <1>9

-----------------------------------------------------------------------------
(* Which action is of which kind. *)

(* A request that neither waits for a disposal nor operates afterwards is in
   order. *)
LEMMA RequestOrder ==
  ASSUME TypeOK, NEW q \in Requests,
         \/ Finish(q)
         \/ \E pc \in {"creating", "awaitOpening", "acquired", "detaching"}, i \in Runtimes : Suspend(q, pc, i)
  PROVE  RequestsInOrder
<1>1. /\ req'[q].pc \notin {"awaitDisposing", "operating"}
      /\ \A r \in Requests \ {q} : req'[r] = req[r]
  BY DEF TypeOK, Finish, Suspend, NoRequest
<1> QED
  BY <1>1 DEF RequestsInOrder

(* One round of acquire() is quiet or asks for a runtime. *)
LEMMA AcquireStep ==
  ASSUME IInv, NEW q \in Requests, req[q].pc # "operating", Acquire(q),
         UNCHANGED <<conn, attached, live, shut>>,
         live = 0 => \A i \in Runtimes : rt[i].state # "disposing"
  PROVE  (Quiet \/ Creates) /\ KeepsOps /\ KeepsOperating
<1>0. TypeOK /\ (live # 0 => live \in Runtimes) /\ (opening # 0 => opening \in Runtimes)
  BY MapRuntime DEF IInv
<1>1. CASE /\ live # 0 /\ rt[live].terminal
           /\ Finish(q)
           /\ UNCHANGED <<opening, rt, next>>
  <2>1. KeepsOperating /\ RequestsInOrder
    BY <1>0, <1>1, SuspendKeeps, RequestOrder
  <2> QED
    BY <1>1, <2>1 DEF Quiet, KeepsStates, KeepsOps
<1>2. CASE /\ live # 0 /\ ~rt[live].terminal
           /\ Suspend(q, IF rt[live].state = "disposing" THEN "awaitDisposing" ELSE "acquired", live)
           /\ UNCHANGED <<opening, rt, next>>
  <2>1. KeepsOperating
    BY <1>0, <1>2, SuspendKeeps
  <2>2. /\ req'[q].pc = "awaitDisposing" => rt[req'[q].rt].state = "disposing"
        /\ req'[q].pc # "operating"
        /\ \A r \in Requests \ {q} : req'[r] = req[r]
    BY <1>0, <1>2 DEF TypeOK, Suspend
  <2>3. RequestsInOrder
    BY <2>2 DEF RequestsInOrder
  <2> QED
    BY <1>2, <2>1, <2>3 DEF Quiet, KeepsStates, KeepsOps
<1>3. CASE /\ live = 0 /\ opening # 0
           /\ Suspend(q, "awaitOpening", opening)
           /\ UNCHANGED <<opening, rt, next>>
  <2>1. KeepsOperating /\ RequestsInOrder
    BY <1>0, <1>3, SuspendKeeps, RequestOrder
  <2> QED
    BY <1>3, <2>1 DEF Quiet, KeepsStates, KeepsOps
<1>4. CASE /\ live = 0 /\ opening = 0 /\ next \in Runtimes
           /\ next' = next + 1
           /\ opening' = next
           /\ rt' = [rt EXCEPT ![next].state = "acquiring"]
           /\ Suspend(q, "creating", next)
  <2>1. KeepsOperating /\ RequestsInOrder
    BY <1>0, <1>4, SuspendKeeps, RequestOrder
  <2>2. Moves(next, "acquiring") /\ KeepsOps
    BY <1>0, <1>4 DEF TypeOK, Session, Moves, KeepsOps
  <2> QED
    BY <1>4, <2>1, <2>2 DEF Creates
<1> QED
  BY <1>1, <1>2, <1>3, <1>4 DEF Acquire

(* What connections do is quiet. *)
LEMMA NetworkStep ==
  ASSUME IInv, NEW c \in Conns, Network(c)
  PROVE  Quiet /\ OpsCounted'
<1>1. /\ UNCHANGED <<live, opening, next, req, shut>>
      /\ UNCHANGED rt \/ Leave(c)
  BY DEF Network, CloseSocket, Disconnect
<1>2. KeepsStates /\ KeepsOps
  BY <1>1, LeaveKeeps DEF IInv, KeepsStates, KeepsOps
<1>3. KeepsOperating /\ RequestsInOrder
  BY <1>1 DEF KeepsOperating, OpsOn, RequestsInOrder
<1> QED
  BY <1>1, <1>2, <1>3, SameCounts DEF IInv, Quiet

(* What commands do is quiet, or asks for a runtime that nothing excludes. *)
LEMMA CommandStep ==
  ASSUME IInv, NEW q \in Requests, Command(q)
  PROVE  (Quiet \/ Creates) /\ OpsCounted'
<1>0. TypeOK /\ OpsCounted /\ RtOK /\ Client(q) \in Conns /\ req[q].pc = "free"
  BY TypeParts DEF IInv, Requests, Client, Command, AttachCommand, DetachCommand, OperationCommand
<1>1. CASE AttachCommand(q)
  <2>1. \A i \in Runtimes : rt[i].state = "disposing" => live = i
    BY <1>0, <1>1 DEF AttachCommand, IInv, Order, DisposingMapped, ClosedFirst
  <2>2. live = 0 => \A i \in Runtimes : rt[i].state # "disposing"
    BY <2>1 DEF Runtimes
  <2>3. (Quiet \/ Creates) /\ KeepsOps /\ KeepsOperating
    BY <1>0, <1>1, <2>2, AcquireStep DEF AttachCommand
  <2> QED
    BY <1>0, <2>3, SameCounts
<1>2. CASE DetachCommand(q)
  <2> DEFINE c == Client(q)
             stays == live # 0 /\ rt[live].conns \ {c} # {} /\ ~rt[live].terminal /\ rt[live].state = "live"
  <2>0. UNCHANGED <<live, opening, next, shut>>
    BY <1>2 DEF DetachCommand
  <2>1. CASE stays
    <3>1. live \in Runtimes
      BY <1>0, <2>1, MapRuntime
    <3>2. rt[live] \in Session /\ rt[live].conns \ {c} \in SUBSET Conns
      BY <1>0, <3>1 DEF RtOK, Session
    <3>3. rt' = [rt EXCEPT ![live] = Without(rt[live], c)]
      BY <1>0, <1>2, <2>1, <3>1 DEF DetachCommand, RtOK, Without
    <3>4. /\ Without(rt[live], c) \in Session
          /\ Without(rt[live], c).state = rt[live].state /\ Without(rt[live], c).ops = rt[live].ops
      BY <3>2 DEF Without, Session
    <3>5. KeepsStates /\ KeepsOps
      BY <1>0, <3>1, <3>3, <3>4, StoreKeeps
    <3>6. Suspend(q, "detaching", live)
      BY <1>2, <2>1 DEF DetachCommand
    <3>7. KeepsOperating /\ RequestsInOrder
      BY <1>0, <3>1, <3>6, SuspendKeeps, RequestOrder
    <3> QED
      BY <1>0, <2>0, <3>5, <3>7, SameCounts DEF Quiet
  <2>2. CASE ~stays
    <3>1. Leave(c) /\ UNCHANGED req
      BY <1>2, <2>2 DEF DetachCommand
    <3>2. KeepsStates /\ KeepsOps
      BY <1>0, <3>1, LeaveKeeps
    <3>3. KeepsOperating /\ RequestsInOrder
      BY <3>1 DEF KeepsOperating, OpsOn, RequestsInOrder
    <3> QED
      BY <1>0, <2>0, <3>2, <3>3, SameCounts DEF Quiet
  <2> QED
    BY <2>1, <2>2
<1>3. ASSUME NEW works \in BOOLEAN, OperationCommand(q, works) PROVE Quiet /\ OpsCounted'
  <2> DEFINE l == [rt[live] EXCEPT !.ops = rt[live].ops + 1, !.busy = rt[live].busy \/ works]
  <2>1. live \in Runtimes /\ UNCHANGED <<live, opening, next, shut>> /\ rt[live].state = "live"
    BY <1>0, <1>3, MapRuntime DEF OperationCommand
  <2>2. rt[live] \in Session /\ rt[live].ops + 1 \in Nat /\ (rt[live].busy \/ works) \in BOOLEAN
    BY <1>0, <2>1 DEF RtOK, Session
  <2>3. rt' = [rt EXCEPT ![live] = l]
    BY <1>0, <1>3, <2>1, <2>2 DEF OperationCommand, RtOK, Session
  <2>4. l \in Session
    BY <2>2, SessionUpdates
  <2>5. l.state = rt[live].state /\ l.ops = rt[live].ops + 1
    BY <2>2 DEF Session
  <2>6. /\ KeepsStates
        /\ rt'[live].ops = rt[live].ops + 1
        /\ \A j \in Runtimes \ {live} : rt'[j] = rt[j]
    BY <1>0, <2>1, <2>3, <2>4, <2>5, StoreEffect
  <2>7. rt'[live].state = "live"
    BY <1>0, <2>1, <2>3, <2>5 DEF RtOK
  <2>8. /\ req'[q] = [pc |-> "operating", rt |-> live]
        /\ \A r \in Requests \ {q} : req'[r] = req[r]
    BY <1>0, <1>3 DEF OperationCommand, Suspend, TypeOK
  <2>9. RequestsInOrder
    BY <2>7, <2>8 DEF RequestsInOrder
  <2>10. /\ q \notin OpsOn(live)
         /\ OpsOn(live)' = OpsOn(live) \cup {q}
         /\ \A j \in Runtimes \ {live} : OpsOn(j)' = OpsOn(j)
    BY <1>0, <2>1, <2>8 DEF OpsOn
  <2>11. Cardinality(OpsOn(live)') = Cardinality(OpsOn(live)) + 1
    BY <2>10, FiniteOps, FS_AddElement
  <2>12. OpsCounted'
    BY <1>0, <2>1, <2>6, <2>10, <2>11 DEF OpsCounted
  <2> QED
    BY <2>1, <2>6, <2>9, <2>12 DEF Quiet
<1> QED
  BY <1>1, <1>2, <1>3 DEF Command

(* What continuations do is quiet, or asks for a runtime after the last one
   was disposed of. *)
LEMMA ResumeStep ==
  ASSUME IInv, NEW q \in Requests, Resume(q)
  PROVE  (Quiet \/ Creates) /\ OpsCounted'
<1> DEFINE i == req[q].rt
<1>0. TypeOK /\ OpsCounted /\ RtOK /\ Client(q) \in Conns
  BY TypeParts DEF IInv, Requests, Client
<1>a. i \in Runtimes
  BY <1>0, RequestRuntime DEF Resume, AfterDisposing, AfterOpening, Attach, AfterDetach, AfterOperation
<1>b. rt[i] \in Session
  BY <1>0, <1>a DEF RtOK
<1>1. CASE AfterDisposing(q)
  <2>1. CASE rt[i].state = "disposed"
    <3>1. \A j \in Runtimes : rt[j].state # "disposing"
      BY <1>1 DEF AfterDisposing, IInv, Order, UntoldFirst
    <3>2. (Quiet \/ Creates) /\ KeepsOps /\ KeepsOperating
      BY <1>1, <2>1, <3>1, AcquireStep DEF AfterDisposing
    <3> QED
      BY <1>0, <3>2, SameCounts
  <2>2. CASE rt[i].state # "disposed"
    <3>1. Finish(q) /\ UNCHANGED <<live, opening, rt, next, shut>>
      BY <1>1, <2>2 DEF AfterDisposing
    <3>2. KeepsOperating /\ RequestsInOrder
      BY <1>0, <1>1, <3>1, SuspendKeeps, RequestOrder DEF AfterDisposing
    <3>3. KeepsStates /\ KeepsOps
      BY <3>1 DEF KeepsStates, KeepsOps
    <3> QED
      BY <1>0, <3>1, <3>2, <3>3, SameCounts DEF Quiet
  <2> QED
    BY <2>1, <2>2
<1>2. CASE AfterOpening(q)
  <2>1. UNCHANGED <<live, rt, next, shut>> /\ (Finish(q) \/ Suspend(q, "acquired", i))
    BY <1>2 DEF AfterOpening
  <2>2. KeepsOperating /\ RequestsInOrder
    BY <1>0, <1>a, <1>2, <2>1, SuspendKeeps, RequestOrder DEF AfterOpening
  <2>3. KeepsStates /\ KeepsOps
    BY <2>1 DEF KeepsStates, KeepsOps
  <2>4. \A j \in Runtimes : Opening(j) => opening' = opening
    BY <1>2 DEF AfterOpening, IInv, Maps, LiveMapExact
  <2> QED
    BY <1>0, <2>1, <2>2, <2>3, <2>4, SameCounts DEF Quiet
<1>3. CASE Attach(q)
  <2>1. UNCHANGED <<live, opening, next, shut>> /\ Finish(q)
    BY <1>3 DEF Attach
  <2>2. KeepsOperating /\ RequestsInOrder
    BY <1>0, <1>3, <2>1, SuspendKeeps, RequestOrder DEF Attach
  <2>3. KeepsStates /\ KeepsOps
    <3> DEFINE l == [rt[i] EXCEPT !.conns = rt[i].conns \cup {Client(q)}]
    <3>1. l \in Session /\ l.state = rt[i].state /\ l.ops = rt[i].ops
      BY <1>0, <1>b DEF Session
    <3>2. rt' = [rt EXCEPT ![i] = l] \/ rt' = [rt EXCEPT ![i] = MaybeDispose(rt[i])]
      BY <1>0, <1>3, <1>a DEF Attach, RtOK
    <3> QED
      BY <1>0, <1>a, <1>b, <3>1, <3>2, StoreKeeps
  <2> QED
    BY <1>0, <2>1, <2>2, <2>3, SameCounts DEF Quiet
<1>4. CASE AfterDetach(q)
  <2>1. UNCHANGED <<live, opening, next, shut>> /\ Finish(q)
    BY <1>4 DEF AfterDetach
  <2>2. KeepsOperating /\ RequestsInOrder
    BY <1>0, <1>4, <2>1, SuspendKeeps, RequestOrder DEF AfterDetach
  <2>3. KeepsStates /\ KeepsOps
    BY <1>0, <1>a, <1>b, <1>4, StoreKeeps DEF AfterDetach
  <2> QED
    BY <1>0, <2>1, <2>2, <2>3, SameCounts DEF Quiet
<1>5. CASE AfterOperation(q)
  <2> DEFINE l == OperationOver(rt[i])
  <2>1. UNCHANGED <<live, opening, next, shut>> /\ Finish(q) /\ req[q].pc = "operating"
    BY <1>5 DEF AfterOperation
  <2>2. rt[i].ops - 1 \in Nat
    BY <1>0, <2>1, OperatingCounts
  <2>3. l \in Session /\ l.state = rt[i].state /\ l.ops = rt[i].ops - 1
    BY <1>b, <2>2 DEF OperationOver, Session
  <2>4. /\ KeepsStates
        /\ rt'[i].ops = rt[i].ops - 1
        /\ \A j \in Runtimes \ {i} : rt'[j] = rt[j]
    BY <1>0, <1>a, <1>5, <2>3, StoreEffect DEF AfterOperation
  <2>5. RequestsInOrder
    BY <1>0, <2>1, RequestOrder
  <2>6. /\ req'[q].pc # "operating"
        /\ \A r \in Requests \ {q} : req'[r] = req[r]
    BY <1>0, <2>1 DEF Finish, NoRequest, TypeOK
  <2>7. /\ q \in OpsOn(i)
        /\ \A j \in Runtimes : OpsOn(j)' = OpsOn(j) \ {q}
    BY <2>1, <2>6 DEF OpsOn
  <2>8. \A j \in Runtimes \ {i} : OpsOn(j) \ {q} = OpsOn(j)
    BY DEF OpsOn
  <2>9. Cardinality(OpsOn(i) \ {q}) = Cardinality(OpsOn(i)) - 1
    BY <2>7, FiniteOps, FS_RemoveElement
  <2>10. ASSUME NEW j \in Runtimes PROVE rt'[j].ops = Cardinality(OpsOn(j)')
    <3>1. CASE j = i
      BY <1>0, <2>4, <2>7, <2>9, <3>1 DEF OpsCounted
    <3>2. CASE j # i
      BY <1>0, <2>4, <2>7, <2>8, <3>2 DEF OpsCounted
    <3> QED
      BY <3>1, <3>2
  <2>11. OpsCounted'
    BY <2>10 DEF OpsCounted
  <2> QED
    BY <2>1, <2>4, <2>5, <2>11 DEF Quiet
<1> QED
  BY <1>1, <1>2, <1>3, <1>4, <1>5 DEF Resume

(* What changes no request and neither map is quiet. *)
LEMMA RuntimeQuiet ==
  ASSUME IInv, KeepsStates, KeepsOps, UNCHANGED <<live, opening, next, req>>,
         shut'.pc \in {"disposing", "closed"} <=> shut.pc \in {"disposing", "closed"}
  PROVE  Quiet /\ OpsCounted'
<1>1. KeepsOperating /\ RequestsInOrder
  BY DEF KeepsOperating, OpsOn, RequestsInOrder
<1> QED
  BY <1>1, SameCounts DEF IInv, Quiet

(* Events, idleness and the end of terminate() are quiet. *)
LEMMA EventStep ==
  ASSUME IInv, NEW i \in Runtimes, RuntimeIdle(i) \/ Terminated(i) \/ Event(i)
  PROVE  Quiet /\ OpsCounted'
<1>0. RtOK /\ rt[i] \in Session
  BY TypeParts DEF IInv, RtOK
<1> DEFINE idle  == [rt[i] EXCEPT !.busy = FALSE]
           ended == [rt[i] EXCEPT !.ending = FALSE]
           fails == [rt[i] EXCEPT !.terminal = TRUE, !.ending = TRUE, !.subscribed = FALSE]
<1>1. idle \in Session /\ ended \in Session /\ fails \in Session
  BY <1>0, SessionUpdates
<1>2. \A l \in {idle, ended, fails} : l.state = rt[i].state /\ l.ops = rt[i].ops
  BY <1>0 DEF Session
<1>3. \E l \in {rt[i], idle, ended, fails} :
        rt' = [rt EXCEPT ![i] = l] \/ rt' = [rt EXCEPT ![i] = MaybeDispose(l)]
  BY DEF RuntimeIdle, Terminated, Event, RuntimeEvent, RuntimeError
<1>4. KeepsStates /\ KeepsOps
  BY <1>0, <1>1, <1>2, <1>3, StoreKeeps
<1>5. UNCHANGED <<live, opening, next, req, shut>>
  BY DEF RuntimeIdle, Terminated, Event, RuntimeEvent, RuntimeError
<1> QED
  BY <1>4, <1>5, RuntimeQuiet

-----------------------------------------------------------------------------
(* The steps that move a runtime along. *)

(* While a runtime is being acquired it stays the only one, and stays so when
   it goes live or is gone: the service's answers keep the invariant. *)
LEMMA OpeningStep ==
  ASSUME IInv, NEW i \in Runtimes,
         \/ \E ok \in BOOLEAN : RuntimeAcquired(i, ok)
         \/ \E terminal \in BOOLEAN : RuntimeReady(i, terminal)
         \/ RuntimeRejected(i)
         \/ AbortedRuntimeGone(i)
  PROVE  Maps' /\ Fresh' /\ DisposingMapped' /\ UntoldFirst' /\ OpsCounted'
<1> USE DEF IInv, Maps, Order
<1>0. RtOK
  BY TypeParts
<1> DEFINE Others == \A j \in Runtimes \ {i} : rt'[j] = rt[j]
           Same == UNCHANGED <<opening, next, req, shut>> /\ rt'[i].ops = rt[i].ops
           Goes == /\ rt'[i].state \in {"snapshot", "aborting", "failed", "live"}
                   /\ live' = IF rt'[i].state = "live" THEN i ELSE live
                   /\ rt[i].state = "acquiring" => Told
           Effect == Opening(i) /\ Others /\ Same /\ Goes
<1>a. rt[i] \in Session /\ i \in DOMAIN rt
  BY <1>0 DEF RtOK
<1>b. ASSUME NEW s \in {"snapshot", "aborting", "failed"}, rt' = [rt EXCEPT ![i].state = s]
      PROVE  Others /\ rt'[i].ops = rt[i].ops /\ rt'[i].state = s
  BY <1>a, <1>b, <1>0 DEF RtOK, Session
<1>c. Effect
  <2>1. ASSUME NEW ok \in BOOLEAN, RuntimeAcquired(i, ok) PROVE Effect
    <3>1. PICK s \in {"snapshot", "aborting", "failed"} : rt' = [rt EXCEPT ![i].state = s]
      BY <2>1 DEF RuntimeAcquired
    <3> QED
      BY <1>b, <2>1, <3>1 DEF RuntimeAcquired, Opening
  <2>2. ASSUME NEW terminal \in BOOLEAN, RuntimeReady(i, terminal) PROVE Effect
    <3>1. Others /\ rt'[i].ops = rt[i].ops /\ rt'[i].state = "live"
      BY <1>0, <1>a, <2>2 DEF RuntimeReady, RtOK, Session
    <3> QED
      BY <2>2, <3>1 DEF RuntimeReady, Opening
  <2>3. ASSUME RuntimeRejected(i) PROVE Effect
    BY <1>b, <2>3 DEF RuntimeRejected, Opening
  <2>4. ASSUME AbortedRuntimeGone(i) PROVE Effect
    BY <1>b, <2>4 DEF AbortedRuntimeGone, Opening
  <2> QED
    BY <2>1, <2>2, <2>3, <2>4
<1>1. /\ Opening(i)
      /\ UNCHANGED <<opening, next, req, shut>>
      /\ \A j \in Runtimes \ {i} : rt'[j] = rt[j]
      /\ rt'[i].ops = rt[i].ops
  BY <1>c
<1>2. Goes
  BY <1>c
<1>3. live = 0 /\ opening = i
  BY <1>1 DEF LiveMapExact
<1>4. \A j \in Runtimes \ {i} : ~Alive(j)
  BY <1>1 DEF ExclusiveRuntime, Alive
<1>5. \A j \in Runtimes \ {i} : ~Alive(j)'
  BY <1>1, <1>4 DEF Alive, Opening
<1>6. ExclusiveRuntime'
  BY <1>5 DEF ExclusiveRuntime
<1>7. LiveMapExact'
  BY <1>1, <1>2, <1>3, <1>5 DEF LiveMapExact, Alive, Opening, Runtimes
<1>8. OperationsRunLive'
  <2> SUFFICES ASSUME NEW q \in Requests, req[q].pc = "operating"
               PROVE  rt'[req[q].rt].state = "live" \/ shut.pc \in {"disposing", "closed"}
    BY <1>1 DEF OperationsRunLive
  <2>1. req[q].rt \in Runtimes
    BY RequestRuntime
  <2> QED
    BY <1>1, <2>1 DEF OperationsRunLive, Opening
<1>9. Fresh'
  BY <1>1 DEF Fresh, Opening
<1>10. DisposingMapped'
  BY <1>1, <1>2, <1>5 DEF DisposingMapped, Alive
<1>11. UntoldFirst'
  <2> SUFFICES ASSUME NEW q \in Requests, req[q].pc = "awaitDisposing",
                      rt'[req[q].rt].state \in {"disposed", "broken"}
               PROVE  FALSE
    BY <1>1 DEF UntoldFirst, Disposed
  <2>1. req[q].rt \in Runtimes \ {i}
    BY <1>2, RequestRuntime
  <2>2. Disposed(req[q].rt)
    BY <1>1, <2>1 DEF Disposed
  <2>3. rt[i].state = "acquiring"
    BY <1>1, <2>2 DEF UntoldFirst, Opening
  <2> QED
    BY <1>2, <2>2, <2>3 DEF Told
<1>12. OpsCounted'
  <2>1. KeepsOps /\ KeepsOperating
    BY <1>1 DEF KeepsOps, KeepsOperating, OpsOn
  <2> QED
    BY <2>1, SameCounts
<1> QED
  BY <1>6, <1>7, <1>8, <1>9, <1>10, <1>11, <1>12

(* The end of a disposal keeps the invariant. *)
LEMMA GoneStep ==
  ASSUME IInv, NEW i \in Runtimes, NEW ok \in BOOLEAN, RuntimeGone(i, ok)
  PROVE  Maps' /\ Fresh' /\ DisposingMapped' /\ UntoldFirst' /\ OpsCounted'
<1> USE DEF IInv, Maps, Order
<1>0. RtOK
  BY TypeParts
<1>1. /\ rt[i].state = "disposing"
      /\ UNCHANGED <<opening, next, req, shut>>
      /\ live' = IF live = i THEN 0 ELSE live
      /\ \A j \in Runtimes \ {i} : rt'[j] = rt[j]
      /\ rt'[i].state \in {"disposed", "broken"} /\ rt'[i].ops = rt[i].ops
  BY <1>0 DEF RuntimeGone, Dead, NoRuntime, RtOK
<1>2. \A j \in Runtimes \ {i} : ~Alive(j)
  BY <1>1 DEF ExclusiveRuntime, Alive
<1>3. \A j \in Runtimes : ~Alive(j)'
  BY <1>1, <1>2 DEF Alive, Opening
<1>4. live' = 0
  BY <1>1, <1>2, MapRuntime DEF LiveMapExact, Alive
<1>5. OperationsRunLive'
  <2> SUFFICES ASSUME NEW q \in Requests, req[q].pc = "operating"
               PROVE  rt'[req[q].rt].state = "live" \/ shut.pc \in {"disposing", "closed"}
    BY <1>1 DEF OperationsRunLive
  <2>1. req[q].rt \in Runtimes
    BY RequestRuntime
  <2> QED
    BY <1>1, <2>1 DEF OperationsRunLive
<1>6. ExclusiveRuntime' /\ LiveMapExact'
  BY <1>3, <1>4 DEF ExclusiveRuntime, LiveMapExact, Alive
<1>7. Fresh'
  BY <1>1 DEF Fresh
<1>8. DisposingMapped' /\ UntoldFirst'
  BY <1>3 DEF DisposingMapped, UntoldFirst, Alive, Opening
<1>9. OpsCounted'
  <2>1. KeepsOps /\ KeepsOperating
    BY <1>1 DEF KeepsOps, KeepsOperating, OpsOn
  <2> QED
    BY <2>1, SameCounts
<1> QED
  BY <1>5, <1>6, <1>7, <1>8, <1>9

(* close() takes the live session out of the map and keeps the invariant. *)
LEMMA CloseLiveStep ==
  ASSUME IInv, CloseLive
  PROVE  Maps' /\ Fresh' /\ DisposingMapped' /\ UntoldFirst' /\ OpsCounted'
<1> USE DEF IInv, Maps, Order
<1>0. RtOK /\ (live # 0 => live \in Runtimes) /\ 0 \notin Runtimes
  BY TypeParts, MapRuntime DEF Runtimes
<1>1. /\ shut'.pc = "disposing" /\ live' = 0
      /\ UNCHANGED <<opening, next, req>>
  BY DEF CloseLive
<1>2. \A j \in Runtimes : /\ rt'[j].ops = rt[j].ops
                          /\ \/ rt'[j].state = rt[j].state
                             \/ rt[j].state = "live" /\ rt'[j].state = "disposing"
                          /\ rt'[j].state # "live"
  <2>1. CASE live # 0 /\ rt[live].state = "live"
    BY <1>0, <2>1 DEF CloseLive, RtOK, Session, LiveMapExact
  <2>2. CASE ~(live # 0 /\ rt[live].state = "live")
    BY <1>0, <2>2 DEF CloseLive, LiveMapExact
  <2> QED
    BY <2>1, <2>2
<1>3. \A j \in Runtimes : (Alive(j)' <=> Alive(j)) /\ (Opening(j)' <=> Opening(j)) /\ (Disposed(j)' <=> Disposed(j))
  BY <1>2 DEF Alive, Opening, Disposed
<1>4. ExclusiveRuntime' /\ LiveMapExact'
  BY <1>1, <1>2, <1>3 DEF ExclusiveRuntime, LiveMapExact
<1>5. OperationsRunLive' /\ DisposingMapped'
  BY <1>1 DEF OperationsRunLive, DisposingMapped
<1>6. Fresh'
  BY <1>1, <1>2 DEF Fresh
<1>7. UntoldFirst'
  <2> SUFFICES ASSUME NEW q \in Requests, req[q].pc = "awaitDisposing",
                      rt'[req[q].rt].state \in {"disposed", "broken"}, NEW j \in Runtimes
               PROVE  rt'[j].state \notin {"snapshot", "aborting", "live", "disposing"}
    BY <1>1 DEF UntoldFirst, Disposed
  <2>1. req[q].rt \in Runtimes
    BY RequestRuntime
  <2>2. Disposed(req[q].rt)
    BY <1>2, <2>1 DEF Disposed
  <2> QED
    BY <1>2, <2>2 DEF UntoldFirst
<1>8. OpsCounted'
  <2>1. KeepsOps /\ KeepsOperating
    BY <1>1, <1>2 DEF KeepsOps, KeepsOperating, OpsOn
  <2> QED
    BY <2>1, SameCounts
<1> QED
  BY <1>4, <1>5, <1>6, <1>7, <1>8

(* The rest of close() is quiet. *)
LEMMA CloseStep ==
  ASSUME IInv, CloseServer \/ CloseConnections \/ CloseOpening \/ CloseReturns
  PROVE  Quiet /\ OpsCounted'
<1>1. UNCHANGED <<live, opening, next, req, rt>>
  BY DEF CloseServer, CloseConnections, CloseOpening, CloseReturns
<1>2. shut'.pc \in {"disposing", "closed"} <=> shut.pc \in {"disposing", "closed"}
  BY DEF CloseServer, CloseConnections, CloseOpening, CloseReturns, IInv, TypeOK
<1>3. KeepsStates /\ KeepsOps
  BY <1>1 DEF KeepsStates, KeepsOps
<1> QED
  BY <1>1, <1>2, <1>3, RuntimeQuiet

(* Once close() looks at the sessions the connections stay closed. *)
LEMMA ClosedStep ==
  ASSUME IInv, Next
  PROVE  ClosedFirst'
<1>0. ClosedFirst /\ conn \in [Conns -> Stages] /\ ShutOK
  BY TypeParts DEF IInv, Order, TypeOK
<1>1. ASSUME NEW c \in Conns, Network(c) PROVE ClosedFirst'
  BY <1>0, <1>1 DEF ClosedFirst, Network, CloseSocket, Disconnect
<1>2. ASSUME NEW q \in Requests, Command(q) \/ Resume(q) PROVE ClosedFirst'
  <2>1. UNCHANGED <<conn, shut>>
    BY <1>2 DEF Command, Resume, AttachCommand, DetachCommand, OperationCommand,
                AfterDisposing, AfterOpening, Attach, AfterDetach, AfterOperation
  <2> QED
    BY <1>0, <2>1 DEF ClosedFirst
<1>3. ASSUME NEW i \in Runtimes, Service(i) \/ Event(i) PROVE ClosedFirst'
  <2>1. shut' = shut /\ \A c \in Conns : conn[c] = "closed" => conn'[c] = "closed"
    BY <1>0, <1>3 DEF Service, Event, RuntimeAcquired, RuntimeReady, RuntimeRejected, AbortedRuntimeGone,
                RuntimeGone, RuntimeIdle, Terminated, RuntimeEvent, RuntimeError
  <2> QED
    BY <1>0, <2>1 DEF ClosedFirst
<1>4. CASE CloseServer \/ Closes
  BY <1>0, <1>4 DEF ClosedFirst, CloseServer, Closes, CloseConnections, CloseOpening, CloseLive,
                    CloseReturns, ShutOK
<1> QED
  BY <1>1, <1>2, <1>3, <1>4 DEF Next

-----------------------------------------------------------------------------
(* The theorems. *)

(* A new server satisfies the invariant. *)
LEMMA InvInit == Init => IInv
<1> SUFFICES ASSUME Init PROVE IInv
  OBVIOUS
<1>1. /\ \A q \in Requests : req[q] = NoRequest
      /\ \A i \in Runtimes : rt[i] = NoRuntime
      /\ shut.pc = "open" /\ live = 0
  BY DEF Init
<1>2. NoRuntime \in Session
  BY DEF NoRuntime, Session, RuntimeStates
<1>3. TypeOK
  <2>1. ConnOK /\ ShutOK
    BY ServerAssumption DEF Init, ConnOK, ShutOK, Stages, ClosePCs
  <2>2. MapOK
    BY ServerAssumption DEF Init, MapOK
  <2>3. ReqOK /\ RtOK
    BY <1>2, ServerAssumption DEF Init, ReqOK, RtOK, NoRequest, RequestPCs
  <2> QED
    BY <2>1, <2>2, <2>3, TypeParts
<1>4. OpsCounted
  <2>1. ASSUME NEW i \in Runtimes PROVE rt[i].ops = Cardinality(OpsOn(i))
    <3>1. OpsOn(i) = {}
      BY <1>1 DEF OpsOn, NoRequest
    <3> QED
      BY <1>1, <3>1, FS_EmptySet DEF NoRuntime
  <2> QED
    BY <2>1 DEF OpsCounted
<1>5. Maps
  BY <1>1 DEF Maps, ExclusiveRuntime, LiveMapExact, OperationsRunLive, Alive, Opening, NoRuntime, NoRequest
<1>6. Order
  BY <1>1 DEF Order, Fresh, DisposingMapped, UntoldFirst, ClosedFirst, NoRuntime, NoRequest
<1> QED
  BY <1>3, <1>4, <1>5, <1>6 DEF IInv

(* Every step keeps the invariant. *)
LEMMA InvStep == IInv /\ [Next]_vars => IInv'
<1> SUFFICES ASSUME IInv, [Next]_vars PROVE IInv'
  OBVIOUS
<1>0. TypeOK'
  BY TypeStep DEF IInv
<1>1. CASE UNCHANGED vars
  <2>1. UNCHANGED <<live, opening, next, req, rt, shut, conn>>
    BY <1>1 DEF vars
  <2>2. KeepsStates /\ KeepsOps
    BY <2>1 DEF KeepsStates, KeepsOps
  <2>3. Quiet /\ OpsCounted'
    BY <2>1, <2>2, RuntimeQuiet
  <2>4. ClosedFirst'
    BY <2>1 DEF IInv, Order, ClosedFirst
  <2> QED
    BY <1>0, <2>3, <2>4, CountedPositiveNext, QuietKeeps DEF IInv, Order
<1>2. CASE Next
  <2>1. ASSUME Quiet \/ Creates, OpsCounted' PROVE Maps' /\ Fresh' /\ DisposingMapped' /\ UntoldFirst' /\ OpsCounted'
    BY <1>0, <2>1, CountedPositiveNext, QuietKeeps, CreatesKeeps
  <2>2. Maps' /\ Fresh' /\ DisposingMapped' /\ UntoldFirst' /\ OpsCounted'
    <3>1. ASSUME NEW c \in Conns, Network(c) PROVE Quiet /\ OpsCounted'
      BY <3>1, NetworkStep
    <3>2. ASSUME NEW q \in Requests, Command(q) \/ Resume(q) PROVE (Quiet \/ Creates) /\ OpsCounted'
      BY <3>2, CommandStep, ResumeStep
    <3>3. ASSUME NEW i \in Runtimes, Service(i) \/ Event(i)
          PROVE  Maps' /\ Fresh' /\ DisposingMapped' /\ UntoldFirst' /\ OpsCounted'
      <4>1. CASE RuntimeIdle(i) \/ Terminated(i) \/ Event(i)
        BY <2>1, <4>1, EventStep
      <4>2. CASE \E ok \in BOOLEAN : RuntimeGone(i, ok)
        BY <4>2, GoneStep
      <4>3. CASE \/ \E ok \in BOOLEAN : RuntimeAcquired(i, ok)
                 \/ \E terminal \in BOOLEAN : RuntimeReady(i, terminal)
                 \/ RuntimeRejected(i)
                 \/ AbortedRuntimeGone(i)
        BY <4>3, OpeningStep
      <4> QED
        BY <3>3, <4>1, <4>2, <4>3 DEF Service
    <3>4. CASE CloseLive
      BY <3>4, CloseLiveStep
    <3>5. CASE CloseServer \/ CloseConnections \/ CloseOpening \/ CloseReturns
      BY <2>1, <3>5, CloseStep
    <3> QED
      BY <1>2, <2>1, <3>1, <3>2, <3>3, <3>4, <3>5 DEF Next, Closes
  <2>3. ClosedFirst'
    BY <1>2, ClosedStep
  <2> QED
    BY <1>0, <2>2, <2>3 DEF IInv, Order
<1> QED
  BY <1>1, <1>2

(* The invariant holds in every state of the server. *)
THEOREM Invariance == Spec => []IInv
BY InvInit, InvStep, PTL DEF Spec

(* LiveSessionManager's state is of its type, and operationCount never drops
   below zero. *)
THEOREM TypeCorrect == Spec => []TypeOK
<1>1. IInv => TypeOK
  BY DEF IInv
<1> QED
  BY <1>1, Invariance, PTL

(* acquire() asks the service for a runtime only when no other runtime of the
   session is being acquired, in use or being disposed of. *)
THEOREM RuntimesExclusive == Spec => []ExclusiveRuntime
<1>1. IInv => ExclusiveRuntime
  BY DEF IInv, Maps
<1> QED
  BY <1>1, Invariance, PTL

(* liveSessions and openingSessions hold exactly what the runtimes are. *)
THEOREM MapsExact == Spec => []LiveMapExact
<1>1. IInv => LiveMapExact
  BY DEF IInv, Maps
<1> QED
  BY <1>1, Invariance, PTL

(* maybeDispose never takes the runtime from under an operation. *)
THEOREM OperationsKeepRuntime == Spec => []OperationsRunLive
<1>1. IInv => OperationsRunLive
  BY DEF IInv, Maps
<1> QED
  BY <1>1, Invariance, PTL
=============================================================================
