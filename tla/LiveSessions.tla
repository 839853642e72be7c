---------------------------- MODULE LiveSessions ----------------------------
(***************************************************************************)
(* The live sessions of PiServer (packages/server): LiveSessionManager     *)
(* (sessions.ts) with what server.ts does to connections, for one session  *)
(* id, several connections and a service that hands out runtimes.          *)
(*                                                                         *)
(* A connection's requests are not serialised: executeCommand runs them    *)
(* side by side, each suspended at its own await.  Every action is the     *)
(* code between two awaits.  Snapshots and progress that are sent change   *)
(* no state of the server; a send that fails is CloseSocket.  A runtime is *)
(* numbered when it is asked of the service; the numbers are not reused.   *)
(***************************************************************************)
EXTENDS Naturals, FiniteSets

CONSTANTS
  Conns,        \* connections
  MaxInFlight,  \* bound: requests of one connection at a time
  MaxRuntimes   \* bound: runtimes asked of the service

ASSUME ServerAssumption ==
  IsFiniteSet(Conns) /\ MaxInFlight \in Nat \ {0} /\ MaxRuntimes \in Nat \ {0}

VARIABLES
  conn,      \* stage of each connection
  attached,  \* the connections whose sessionIds holds the session
  live,      \* liveSessions.get(id); 0 when there is none
  opening,   \* openingSessions.get(id), as the runtime it is about; 0 when there is none
  rt,        \* the runtimes and their LiveSession
  next,      \* number of the next runtime
  req,       \* where each request is suspended
  shut       \* where close() is suspended, and on which runtime

vars == <<conn, attached, live, opening, rt, next, req, shut>>

Runtimes == 1..MaxRuntimes
Requests == Conns \X (1..MaxInFlight)
Client(q) == q[1]

NoRuntime == [state |-> "unused", conns |-> {}, ops |-> 0, busy |-> FALSE,
              terminal |-> FALSE, ending |-> FALSE, subscribed |-> FALSE]
NoRequest == [pc |-> "free", rt |-> 0]

Init ==
  /\ conn = [c \in Conns |-> "ready"] /\ attached = {}
  /\ live = 0 /\ opening = 0
  /\ rt = [i \in Runtimes |-> NoRuntime] /\ next = 1
  /\ req = [q \in Requests |-> NoRequest]
  /\ shut = [pc |-> "open", rt |-> 0]

closing == shut.pc # "open"

Opening(i) == rt[i].state \in {"acquiring", "snapshot", "aborting"}
Disposed(i) == rt[i].state \in {"disposed", "broken"}
Alive(i) == Opening(i) \/ rt[i].state \in {"live", "disposing"}

(* maybeDispose, as what becomes of the LiveSession. *)
IdleOnly(l) == l.state = "live" /\ l.conns = {} /\ (l.terminal \/ ~l.busy)
MayDisposeBusy(l) == ~closing /\ IdleOnly(l)
MayDispose(l) == ~closing /\ IdleOnly(l) /\ l.ops = 0

MaybeDispose(l) ==
  IF MayDispose(l) THEN [l EXCEPT !.state = "disposing", !.subscribed = FALSE] ELSE l

Suspend(q, pc, i) == req' = [req EXCEPT ![q] = [pc |-> pc, rt |-> i]]
Finish(q) == req' = [req EXCEPT ![q] = NoRequest]

-----------------------------------------------------------------------------
(* Connections (server.ts).  A connection is modelled from the end of its
   handshake; one that comes later is like one that was silent until then. *)

(* The server closes the socket: failProtocol, a failed send, a transport
   error.  disconnect() follows. *)
CloseSocket(c) ==
  /\ conn[c] = "ready"
  /\ conn' = [conn EXCEPT ![c] = "closing"]
  /\ UNCHANGED <<attached, live, opening, rt, next, req, shut>>

Without(l, c) == [l EXCEPT !.conns = @ \ {c}]

(* LiveSession.connections loses the connection; only what liveSessions holds
   is looked at. *)
Leave(c) ==
  /\ attached' = attached \ {c}
  /\ rt' = IF c \in attached /\ live # 0
           THEN [rt EXCEPT ![live] = MaybeDispose(Without(@, c))]
           ELSE rt

(* disconnect(), after the server closed the socket or because the peer did. *)
Disconnect(c) ==
  /\ conn[c] \in {"ready", "closing"}
  /\ conn' = [conn EXCEPT ![c] = "closed"]
  /\ Leave(c)
  /\ UNCHANGED <<live, opening, next, req, shut>>

-----------------------------------------------------------------------------
(* The commands "create" and "attach".  A created session has a fresh id, so
   its acquisition is the one that finds neither map filled. *)

(* One round of acquire(). *)
AcquireAtOnce(q) ==
  LET usable == live # 0 => rt[live].state # "disposing" IN
  \/ /\ live # 0 /\ usable
     /\ IF rt[live].terminal THEN Finish(q) ELSE Suspend(q, "acquired", live)
     /\ UNCHANGED <<opening, rt, next>>
  \/ /\ (live # 0 => ~usable) /\ opening # 0
     /\ Suspend(q, "awaitOpening", opening)
     /\ UNCHANGED <<opening, rt, next>>
  \/ /\ (live # 0 => ~usable) /\ opening = 0 /\ next \in Runtimes
     /\ next' = next + 1
     /\ opening' = next
     /\ rt' = [rt EXCEPT ![next].state = "acquiring"]
     /\ Suspend(q, "creating", next)

Acquire(q) ==
  \/ /\ live # 0 /\ rt[live].terminal
     /\ Finish(q)
     /\ UNCHANGED <<opening, rt, next>>
  \/ /\ live # 0 /\ ~rt[live].terminal
     /\ Suspend(q, IF rt[live].state = "disposing" THEN "awaitDisposing" ELSE "acquired", live)
     /\ UNCHANGED <<opening, rt, next>>
  \/ /\ live = 0 /\ opening # 0
     /\ Suspend(q, "awaitOpening", opening)
     /\ UNCHANGED <<opening, rt, next>>
  \/ /\ live = 0 /\ opening = 0 /\ next \in Runtimes
     /\ next' = next + 1
     /\ opening' = next
     /\ rt' = [rt EXCEPT ![next].state = "acquiring"]
     /\ Suspend(q, "creating", next)

(* Bound: a request that waits for a disposal may still ask for a runtime. *)
RuntimesLeft == next + Cardinality({q \in Requests : req[q].pc = "awaitDisposing"}) <= MaxRuntimes

AttachCommand(q) ==
  /\ conn[Client(q)] = "ready" /\ req[q].pc = "free" /\ RuntimesLeft
  /\ Acquire(q)
  /\ UNCHANGED <<conn, attached, live, shut>>

(* The runtime that was going away is gone: look again, or give up when its
   disposal failed. *)
AfterDisposing(q) ==
  /\ req[q].pc = "awaitDisposing" /\ Disposed(req[q].rt)
  /\ IF rt[req[q].rt].state = "disposed"
     THEN Acquire(q)
     ELSE Finish(q) /\ UNCHANGED <<opening, rt, next>>
  /\ UNCHANGED <<conn, attached, live, shut>>

AfterGoodOpening(q) ==
  /\ req[q].pc \in {"creating", "awaitOpening"} /\ rt[req[q].rt].state = "live"
  /\ opening' = IF req[q].pc = "creating" /\ opening = req[q].rt THEN 0 ELSE opening
  /\ Suspend(q, "acquired", req[q].rt)
  /\ UNCHANGED <<conn, attached, live, rt, next, shut>>

(* The promise of create() has settled; the request that made it clears
   openingSessions. *)
AfterOpening(q) ==
  /\ req[q].pc \in {"creating", "awaitOpening"} /\ ~Opening(req[q].rt)
  /\ opening' = IF req[q].pc = "creating" /\ opening = req[q].rt THEN 0 ELSE opening
  /\ IF rt[req[q].rt].state = "failed" THEN Finish(q) ELSE Suspend(q, "acquired", req[q].rt)
  /\ UNCHANGED <<conn, attached, live, rt, next, shut>>

(* attach(): the runtime is the one acquire() returned, whatever has become
   of it since. *)
Attach(q) ==
  /\ req[q].pc = "acquired"
  /\ LET c == Client(q)
         i == req[q].rt
     IN IF conn[c] = "ready"
        THEN /\ attached' = attached \cup {c}
             /\ rt' = [rt EXCEPT ![i].conns = @ \cup {c}]
        ELSE /\ rt' = [rt EXCEPT ![i] = MaybeDispose(@)]
             /\ UNCHANGED attached
  /\ Finish(q)
  /\ UNCHANGED <<conn, live, opening, next, shut>>

-----------------------------------------------------------------------------
(* "detach" *)

(* While others stay attached they are sent a snapshot before maybeDispose.
   The answer waits for a disposal that maybeDispose starts, which changes
   nothing more. *)
DetachCommand(q) ==
  LET c == Client(q) IN
  /\ conn[c] = "ready" /\ req[q].pc = "free" /\ c \in attached
  /\ IF live # 0 /\ rt[live].conns \ {c} # {} /\ ~rt[live].terminal /\ rt[live].state = "live"
     THEN /\ attached' = attached \ {c}
          /\ rt' = [rt EXCEPT ![live].conns = @ \ {c}]
          /\ Suspend(q, "detaching", live)
     ELSE Leave(c) /\ UNCHANGED req
  /\ UNCHANGED <<conn, live, opening, next, shut>>

AfterDetach(q) ==
  /\ req[q].pc = "detaching"
  /\ rt' = [rt EXCEPT ![req[q].rt] = MaybeDispose(@)]
  /\ Finish(q)
  /\ UNCHANGED <<conn, attached, live, opening, next, shut>>

-----------------------------------------------------------------------------
(* "prompt", "steer", "abort", "set_model", "set_thinking": requireAttached
   and runOperation.  The operation may set the runtime to work. *)

OperationUncounted(q, works) ==
  /\ conn[Client(q)] = "ready" /\ req[q].pc = "free"
  /\ Client(q) \in attached
  /\ live # 0 /\ ~rt[live].terminal /\ rt[live].state = "live"
  /\ rt' = [rt EXCEPT ![live].busy = @ \/ works]
  /\ Suspend(q, "operating", live)
  /\ UNCHANGED <<conn, attached, live, opening, next, shut>>

OperationCommand(q, works) ==
  /\ conn[Client(q)] = "ready" /\ req[q].pc = "free"
  /\ Client(q) \in attached
  /\ live # 0 /\ ~rt[live].terminal /\ rt[live].state = "live"
  /\ rt' = [rt EXCEPT ![live].ops = @ + 1, ![live].busy = @ \/ works]
  /\ Suspend(q, "operating", live)
  /\ UNCHANGED <<conn, attached, live, opening, next, shut>>

OperationWithoutDispose(q) ==
  /\ req[q].pc = "operating"
  /\ rt' = [rt EXCEPT ![req[q].rt].ops = @ - 1]
  /\ Finish(q)
  /\ UNCHANGED <<conn, attached, live, opening, next, shut>>

OperationOver(l) == [l EXCEPT !.ops = @ - 1]

(* The operation and the snapshot after it settle, well or badly: finally. *)
AfterOperation(q) ==
  /\ req[q].pc = "operating"
  /\ rt' = [rt EXCEPT ![req[q].rt] = MaybeDispose(OperationOver(@))]
  /\ Finish(q)
  /\ UNCHANGED <<conn, attached, live, opening, next, shut>>

-----------------------------------------------------------------------------
(* create() and the runtime, which is external. *)

(* The reactions to a promise run before anything that waits on the service
   anew: no request is still to be told that its runtime was disposed of. *)
Told == \A q \in Requests : req[q].pc = "awaitDisposing" => ~Disposed(req[q].rt)

AcquiredAnyway(i, ok) ==
  /\ rt[i].state = "acquiring" /\ Told
  /\ rt' = [rt EXCEPT ![i].state = IF ok THEN "snapshot" ELSE "failed"]
  /\ UNCHANGED <<conn, attached, live, opening, next, req, shut>>

(* openSession() or createSession() answers. *)
RuntimeAcquired(i, ok) ==
  /\ rt[i].state = "acquiring" /\ Told
  /\ rt' = [rt EXCEPT ![i].state = IF ~ok THEN "failed" ELSE IF closing THEN "aborting" ELSE "snapshot"]
  /\ UNCHANGED <<conn, attached, live, opening, next, req, shut>>

(* The first snapshot: the session goes live, unless it is of another session
   or fails.  subscribe() may report an error at once. *)
RuntimeReady(i, terminal) ==
  /\ rt[i].state = "snapshot"
  /\ rt' = [rt EXCEPT ![i] = [@ EXCEPT !.state = "live", !.subscribed = TRUE,
                                       !.terminal = terminal, !.ending = terminal]]
  /\ live' = i
  /\ UNCHANGED <<conn, attached, opening, next, req, shut>>

RuntimeRejected(i) ==
  /\ rt[i].state = "snapshot"
  /\ rt' = [rt EXCEPT ![i].state = "aborting"]
  /\ UNCHANGED <<conn, attached, live, opening, next, req, shut>>

(* dispose() in create() settles. *)
AbortedRuntimeGone(i) ==
  /\ rt[i].state = "aborting"
  /\ rt' = [rt EXCEPT ![i].state = "failed"]
  /\ UNCHANGED <<conn, attached, live, opening, next, req, shut>>

(* Of a LiveSession that left the map only the operations that still run on it
   matter. *)
Dead(i, state) == [NoRuntime EXCEPT !.state = state, !.ops = rt[i].ops]

(* dispose() settles; the entry goes whether or not it failed. *)
GoneIfDisposed(i, ok) ==
  /\ rt[i].state = "disposing"
  /\ rt' = [rt EXCEPT ![i] = Dead(i, IF ok THEN "disposed" ELSE "broken")]
  /\ live' = IF ok /\ live = i THEN 0 ELSE live
  /\ UNCHANGED <<conn, attached, opening, next, req, shut>>

RuntimeGone(i, ok) ==
  /\ rt[i].state = "disposing"
  /\ rt' = [rt EXCEPT ![i] = Dead(i, IF ok THEN "disposed" ELSE "broken")]
  /\ live' = IF live = i THEN 0 ELSE live
  /\ UNCHANGED <<conn, attached, opening, next, req, shut>>

(* handleRuntimeEvent, progress or snapshot. *)
RuntimeEvent(i) ==
  /\ rt[i].subscribed /\ MayDispose(rt[i])
  /\ rt' = [rt EXCEPT ![i] = MaybeDispose(@)]
  /\ UNCHANGED <<conn, attached, live, opening, next, req, shut>>

(* The runtime's work is over, which it reports with a snapshot. *)
RuntimeIdle(i) ==
  /\ rt[i].state = "live" /\ rt[i].busy
  /\ rt' = [rt EXCEPT ![i] = LET l == [@ EXCEPT !.busy = FALSE]
                             IN IF l.subscribed THEN MaybeDispose(l) ELSE l]
  /\ UNCHANGED <<conn, attached, live, opening, next, req, shut>>

(* handleRuntimeEvent, error: terminate() closes the sockets of the clients
   that are attached now. *)
RuntimeError(i) ==
  /\ rt[i].subscribed /\ ~rt[i].terminal
  /\ rt' = [rt EXCEPT ![i] = [@ EXCEPT !.terminal = TRUE, !.ending = TRUE, !.subscribed = FALSE]]
  /\ conn' = [c \in Conns |-> IF c \in rt[i].conns /\ conn[c] = "ready" THEN "closing" ELSE conn[c]]
  /\ UNCHANGED <<attached, live, opening, next, req, shut>>

(* The end of terminate(), once those are disconnected. *)
Terminated(i) ==
  /\ rt[i].ending
  /\ \A c \in rt[i].conns : conn[c] # "closing"
  /\ rt' = [rt EXCEPT ![i] = MaybeDispose([@ EXCEPT !.ending = FALSE])]
  /\ UNCHANGED <<conn, attached, live, opening, next, req, shut>>

-----------------------------------------------------------------------------
(* close() *)

CloseServer ==
  /\ shut.pc = "open"
  /\ shut' = [shut EXCEPT !.pc = "listeners"]
  /\ UNCHANGED <<conn, attached, live, opening, rt, next, req>>

(* closeServerState: every socket is closed; disconnect() follows. *)
CloseConnections ==
  /\ shut.pc = "listeners"
  /\ shut' = [shut EXCEPT !.pc = "connections"]
  /\ conn' = [c \in Conns |-> IF conn[c] = "ready" THEN "closing" ELSE conn[c]]
  /\ UNCHANGED <<attached, live, opening, rt, next, req>>

(* LiveSessionManager.close(): first the runtime that is being acquired... *)
CloseOpening ==
  /\ shut.pc = "connections"
  /\ \A c \in Conns : conn[c] = "closed"
  /\ shut' = [pc |-> "opening", rt |-> opening]
  /\ UNCHANGED <<conn, attached, live, opening, rt, next, req>>

(* ...then the one that is live. *)
CloseLive ==
  /\ shut.pc = "opening" /\ (shut.rt # 0 => ~Opening(shut.rt))
  /\ shut' = [pc |-> "disposing", rt |-> live]
  /\ live' = 0
  /\ rt' = IF live # 0 /\ rt[live].state = "live"
           THEN [rt EXCEPT ![live].state = "disposing", ![live].subscribed = FALSE]
           ELSE rt
  /\ UNCHANGED <<conn, attached, opening, next, req>>

CloseReturns ==
  /\ shut.pc = "disposing" /\ (shut.rt # 0 => Disposed(shut.rt))
  /\ shut' = [pc |-> "closed", rt |-> 0]
  /\ UNCHANGED <<conn, attached, live, opening, rt, next, req>>

-----------------------------------------------------------------------------
Network(c) == CloseSocket(c) \/ Disconnect(c)

Command(q) ==
  \/ AttachCommand(q) \/ DetachCommand(q)
  \/ \E works \in BOOLEAN : OperationCommand(q, works)

Resume(q) ==
  AfterDisposing(q) \/ AfterOpening(q) \/ Attach(q) \/ AfterDetach(q) \/ AfterOperation(q)

Service(i) ==
  \/ \E ok \in BOOLEAN : RuntimeAcquired(i, ok) \/ RuntimeGone(i, ok)
  \/ \E terminal \in BOOLEAN : RuntimeReady(i, terminal)
  \/ RuntimeRejected(i) \/ AbortedRuntimeGone(i) \/ RuntimeIdle(i) \/ Terminated(i)

Event(i) == RuntimeEvent(i) \/ RuntimeError(i)

Closes == CloseConnections \/ CloseOpening \/ CloseLive \/ CloseReturns

Next ==
  \/ \E c \in Conns : Network(c)
  \/ \E q \in Requests : Command(q) \/ Resume(q)
  \/ \E i \in Runtimes : Service(i) \/ Event(i)
  \/ CloseServer \/ Closes

Spec == Init /\ [][Next]_vars

(* Continuations run, the service answers, sockets that the server closes are
   disconnected and a close() that was begun goes on; clients owe nothing. *)
FairSpec ==
  /\ Spec
  /\ \A q \in Requests : WF_vars(Resume(q))
  /\ \A i \in Runtimes : WF_vars(Service(i))
  /\ \A c \in Conns : WF_vars(conn[c] = "closing" /\ Disconnect(c))
  /\ WF_vars(Closes)

-----------------------------------------------------------------------------
(* Properties. *)

Stages == {"ready", "closing", "closed"}
RuntimeStates == {"unused", "acquiring", "snapshot", "aborting", "failed",
                  "live", "disposing", "disposed", "broken"}
RequestPCs == {"free", "awaitDisposing", "creating", "awaitOpening", "acquired",
               "detaching", "operating"}
ClosePCs == {"open", "listeners", "connections", "opening", "disposing", "closed"}

Session == [state : RuntimeStates, conns : SUBSET Conns, ops : Nat, busy : BOOLEAN,
            terminal : BOOLEAN, ending : BOOLEAN, subscribed : BOOLEAN]

(* Connections, maps, runtimes and requests hold values of their kinds; a
   suspended request waits for a runtime, and no operationCount drops below
   zero. *)
TypeOK ==
  /\ conn \in [Conns -> Stages] /\ attached \subseteq Conns
  /\ live \in 0..MaxRuntimes /\ opening \in 0..MaxRuntimes
  /\ rt \in [Runtimes -> Session]
  /\ next \in 1..(MaxRuntimes + 1)
  /\ req \in [Requests -> [pc : RequestPCs, rt : 0..MaxRuntimes]]
  /\ shut \in [pc : ClosePCs, rt : 0..MaxRuntimes]
  /\ \A q \in Requests : req[q].pc = "free" <=> req[q].rt = 0

(* "Exclusively acquired runtimes": the service is never asked for a runtime
   of the session while an earlier one is being acquired, in use or being
   disposed of, whatever attaches, failures and shutdown race. *)
ExclusiveRuntime == \A i, j \in Runtimes : Alive(i) /\ Alive(j) => i = j

(* The maps are what the runtimes are: a runtime in use is found by the next
   attach, one that is gone is not, and one being acquired is waited for. *)
LiveMapExact ==
  /\ live # 0 => rt[live].state \in {"live", "disposing"}
  /\ \A i \in Runtimes : rt[i].state = "live" => live = i
  /\ \A i \in Runtimes : Opening(i) => opening = i /\ live = 0

(* An operation never runs on a runtime that is being disposed of, except by
   the server's own shutdown: detaches, disconnects and errors wait for it. *)
OperationsRunLive ==
  \A q \in Requests : req[q].pc = "operating" =>
    rt[req[q].rt].state = "live" \/ shut.pc \in {"disposing", "closed"}

Abandoned(i) ==
  /\ rt[i].state = "live" /\ rt[i].conns = {} /\ rt[i].ops = 0
  /\ ~rt[i].busy

(* A runtime that nobody is attached to and that does no work is disposed of:
   whatever ends last, client, operation or turn, gives it up. *)
AbandonedIsDisposed == \A i \in Runtimes : Abandoned(i) ~> ~Abandoned(i)

(* After close() every runtime is disposed of in the end, the ones that were
   being acquired when it was called included, and none comes alive again. *)
CloseReleases == closing ~> [](\A i \in Runtimes : ~Alive(i))

(* Every request is answered: no attach waits forever for a runtime that is
   being opened or disposed of. *)
RequestsAnswered == \A q \in Requests : req[q].pc # "free" ~> req[q].pc = "free"

(* "allows every attached client to control a singleton live runtime": what an
   attached client asks for finds a live runtime. *)
AttachedControlsLive ==
  \A c \in attached : conn[c] = "ready" /\ ~closing =>
    live # 0 /\ rt[live].state = "live"
=============================================================================
