----------------------------- MODULE ClientLeases -----------------------------
(***************************************************************************)
(* Session leases of the client: PiClient of packages/client/src/client.ts *)
(* with its Connection (connection.ts), ClientState (state.ts) and         *)
(* SessionHandle (session-handle.ts), against the server's commands of     *)
(* packages/server/src/sessions.ts over ordered byte streams.              *)
(*                                                                         *)
(* Many leases share one attachment of a connection to a session: the      *)
(* first acquisition attaches, the last release detaches, and whoever      *)
(* comes while a request is in flight waits for its promise.  A response,  *)
(* or the end of the connection, settles the promise in one step; those    *)
(* who await it go on in a later one, a microtask.  The messages of one    *)
(* chunk and the calls of listeners come in between.                       *)
(*                                                                         *)
(* Sessions share nothing but the connection: the model has one.  A        *)
(* snapshot is its revision, whether the connection is attached and, as    *)
(* history, the runtime it was taken from.                                 *)
(***************************************************************************)
EXTENDS Integers, Sequences, FiniteSets

CONSTANTS
  Leases,        \* callers; each has at most one lease or acquisition
  NoLease,       \* nobody
  MaxRequests,   \* bound: requests
  MaxConnects,   \* bound: connections
  MaxRevision,   \* bound: revisions of a runtime
  MaxRuntimes,   \* bound: runtimes opened
  MaxFaults      \* bound: commands the server fails, session_removed events

ASSUME BoundsAssumption ==
  /\ NoLease \notin Leases /\ IsFiniteSet(Leases)
  /\ {MaxRequests, MaxConnects, MaxRevision, MaxRuntimes, MaxFaults} \subseteq Nat

VARIABLES
  client,    \* PiClient
  wire,      \* messages of the server on their way, each with its connection
  server,    \* what the server has for this session and the connection
  crossed,   \* history: a lease was invalidated or cleaned up before it was taken
  undone,    \* history: the last attach or detach failed, and the connection is
             \* attached or detached all the same
  faults     \* commands failed and removals, so far

vars == <<client, wire, server, crossed, undone, faults>>

Modes == {"shared", "exclusive"}
NoSnapshot == [rev |-> -1, runtime |-> 0]
Idle == [at |-> "none", mode |-> "shared", gen |-> 0, conn |-> 0]

Init ==
  \E created \in BOOLEAN :
    /\ client = [state |-> "disconnected", id |-> 0, next |-> 1, pending |-> {}, answered |-> {},
                 out |-> <<>>, count |-> 0, exclusive |-> NoLease, generation |-> 0, cleanup |-> FALSE,
                 attached |-> FALSE, snapshot |-> NoSnapshot, lease |-> [l \in Leases |-> Idle]]
    /\ wire = <<>>
    /\ server = [created |-> created, attached |-> FALSE, open |-> FALSE, rev |-> 0, runtime |-> 0,
                 jobs |-> {}]
    /\ crossed = FALSE /\ undone = FALSE
    /\ faults = 0

-----------------------------------------------------------------------------
(* Requests and leases: what a piece of PiClient makes of its state c. *)

At(c, where) == {l \in Leases : c.lease[l].at = where}

(* The promises that someone may still join.  That of a detachment is gone
   as soon as its failure is caught. *)
InFlight(c, whys) ==
  {p \in c.pending : p.why \in whys} \cup {p \in c.answered : p.why \in whys /\ ~p.caught}

(* The promise of p is settled; who awaits it has not gone on yet. *)
Answered(c, p, ok) ==
  [id |-> p.id, why |-> p.why, by |-> p.by, previous |-> p.previous, ok |-> ok, conn |-> c.id,
   caught |-> FALSE]

(* #request: without a connection it is refused at once. *)
Request(c, why, by, previous) ==
  LET p == [id |-> IF c.state = "connected" THEN c.next ELSE 0, why |-> why, by |-> by,
            previous |-> previous]
  IN  IF c.state = "connected"
      THEN [c EXCEPT !.next = @ + 1, !.pending = @ \cup {p},
                     !.out = Append(@, [id |-> c.next,
                                        command |-> IF why = "reconcile" THEN "detach" ELSE why])]
      ELSE [c EXCEPT !.answered = @ \cup {Answered(c, p, FALSE)}]

Placed(c, ls, where) ==
  [c EXCEPT !.lease = [l \in Leases |-> IF l \in ls THEN [@[l] EXCEPT !.at = where] ELSE @[l]]]
Dropped(c, ls) ==
  [c EXCEPT !.lease = [l \in Leases |-> IF l \in ls THEN Idle ELSE @[l]]]

(* #reserveSessionLease. *)
MayReserve(c, mode) ==
  IF mode = "exclusive" THEN c.count = 0 ELSE c.exclusive = NoLease
Reserved(c, l, mode) ==
  [c EXCEPT !.count = @ + 1, !.exclusive = IF mode = "exclusive" THEN l ELSE @,
            !.lease = [c.lease EXCEPT ![l].mode = mode]]

(* #releaseSessionLease, for each of ls. *)
Released(c, ls) ==
  [c EXCEPT !.count = IF @ > Cardinality(ls) THEN @ - Cardinality(ls) ELSE 0,
            !.exclusive = IF @ \in ls THEN NoLease ELSE @]

(* Mutant: the disconnection leaves the generation as it is. *)
InvalidatedSameGeneration(c) ==
  [c EXCEPT !.count = 0, !.exclusive = NoLease, !.cleanup = FALSE]

(* #invalidateSessionLeases. *)
Invalidated(c) ==
  [c EXCEPT !.count = 0, !.exclusive = NoLease, !.cleanup = FALSE, !.generation = @ + 1]

(* #createSessionLease, for the acquisitions ls that connection conn answered;
   and the rejection of acquireSession. *)
Held(c, ls, conn) ==
  [c EXCEPT !.lease = [l \in Leases |->
     IF l \in ls THEN [@[l] EXCEPT !.at = "held", !.gen = c.generation, !.conn = conn] ELSE @[l]]]
Refused(c, ls) == Dropped(Released(c, ls), ls)

(* #attachSession, through the promise in #sessionAttachments. *)
Attaching(c, ls) ==
  IF InFlight(c, {"attach"}) # {} THEN Placed(c, ls, "attaching")
  ELSE Placed(Request([c EXCEPT !.snapshot = NoSnapshot], "attach", NoLease, c.snapshot),
              ls, "attaching")

(* acquireSession once no detachment is pending. *)
Acquiring(c, ls) ==
  IF ls = {} THEN c
  ELSE IF c.cleanup
       THEN Placed(IF InFlight(c, {"reconcile"}) # {} THEN c
                   ELSE Request(c, "reconcile", NoLease, NoSnapshot), ls, "reconciling")
  ELSE IF c.attached THEN Held(c, ls, c.id)
  ELSE Attaching(c, ls)

-----------------------------------------------------------------------------
(* What those who await the answered request p do when they go on. *)

Restored(c, p) == [c EXCEPT !.snapshot = IF @ = NoSnapshot THEN p.previous ELSE @]
AttachSettled(c, p) ==
  IF p.ok THEN Held(c, At(c, "attaching"), p.conn) ELSE Refused(Restored(c, p), At(c, "attaching"))

ReconcileSettled(c, p) ==
  IF p.ok THEN Attaching([c EXCEPT !.cleanup = FALSE], At(c, "reconciling"))
  ELSE Refused(c, At(c, "reconciling"))

(* Those of ls whose leases are of the present generation. *)
Current(c, ls) == {l \in ls : c.lease[l].gen = c.generation}

(* Mutant: a failed dispose() keeps its reservation. *)
ReservationsKept(c, ls) ==
  LET disposed == {l \in Current(c, ls) : c.lease[l].at = "disposing"}
      back     == Current(c, ls) \ disposed
  IN  Placed(Dropped([c EXCEPT !.cleanup = @ \/ disposed # {}], ls \ back), back, "held")

(* The end of releases ls whose detachments failed: a failed detach() gives
   the lease back, a failed dispose() gives it up and leaves the cleanup to
   the next; of an invalidated lease nothing is left. *)
ReleasesFailed(c, ls) ==
  LET disposed == {l \in Current(c, ls) : c.lease[l].at = "disposing"}
      back     == Current(c, ls) \ disposed
  IN  Placed(Dropped([Released(c, disposed) EXCEPT !.cleanup = @ \/ disposed # {}], ls \ back),
             back, "held")

ReleaseSettled(c, l, ok) ==
  IF ok THEN Dropped(Released(c, {l}), {l}) ELSE ReleasesFailed(c, {l})

(* Mutant: those who wait for the detachment are not woken by its failure. *)
WaitersForgotten(c, p) ==
  LET after == ReleaseSettled(c, p.by, p.ok)
  IN  IF p.ok THEN Acquiring(after, At(c, "waiting")) ELSE after

DetachSettled(c, p) ==
  Acquiring(ReleaseSettled(c, p.by, p.ok), At(c, "waiting"))

CreateSettled(c, p) ==
  IF p.ok /\ MayReserve(c, "exclusive")
  THEN Held(Reserved(c, p.by, "exclusive"), {p.by}, p.conn)
  ELSE Dropped(c, {p.by})

Settled(c, p) ==
  CASE p.why = "attach"    -> AttachSettled(c, p)
    [] p.why = "reconcile" -> ReconcileSettled(c, p)
    [] p.why = "detach"    -> DetachSettled(c, p)
    [] p.why = "create"    -> CreateSettled(c, p)

-----------------------------------------------------------------------------
(* ClientState. *)

(* #applySessionSnapshot: an older revision is ignored. *)
AppliedSnapshot(c, m) ==
  IF m.snapshot.rev < c.snapshot.rev THEN c
  ELSE [c EXCEPT !.snapshot = m.snapshot, !.attached = m.attached]

AppliedResult(c, p, m) ==
  IF p.why \in {"detach", "reconcile"} THEN [c EXCEPT !.attached = FALSE]
  ELSE AppliedSnapshot(c, m)

(* A response settles the promise of p. *)
Responded(c, p, ok) ==
  [c EXCEPT !.pending = @ \ {p},
            !.answered = IF p.why = "command" THEN @ ELSE @ \cup {Answered(c, p, ok)}]

(* handleConnectionStateChange("disconnected"): the attachments are gone, the
   leases invalidated and the promises of all pending requests rejected. *)
Disconnected(c, to) ==
  LET lost  == {p \in c.pending : p.why # "command"}
      ended == [c EXCEPT !.attached = FALSE, !.pending = {}, !.out = <<>>, !.state = to,
                         !.answered = @ \cup {Answered(c, p, FALSE) : p \in lost}]
  IN  IF c.count > 0 THEN Invalidated(ended) ELSE [ended EXCEPT !.cleanup = FALSE]

(* Acquisitions that succeeded and have not got their leases yet. *)
Granted(c) == \E p \in c.answered : p.ok /\ p.why \in {"attach", "create"}

(* The server forgets a connection that has ended, and its commands. *)
Forgotten(s) == [s EXCEPT !.attached = FALSE, !.jobs = {}]

-----------------------------------------------------------------------------
(* Calls of the client. *)

Connect ==
  /\ client.state = "disconnected" /\ client.id < MaxConnects
  /\ client' = [client EXCEPT !.state = "connecting", !.id = @ + 1,
                              !.snapshot = NoSnapshot, !.attached = FALSE]
  /\ UNCHANGED <<wire, server, crossed, undone, faults>>

(* The handshake, which ServerConnections has in full.  The hello is data of
   the transport, read when no microtask is left. *)
ReceiveHello ==
  /\ client.state = "connecting" /\ client.answered = {}
  /\ client' = [client EXCEPT !.state = "connected"]
  /\ UNCHANGED <<wire, server, crossed, undone, faults>>

EndConnection(to) ==
  /\ client' = Disconnected(client, to)
  /\ server' = Forgotten(server)
  /\ crossed' = (crossed \/ Granted(client))
  /\ undone' = FALSE

(* disconnect(), a transport that closes or fails, an invalid message; and
   dispose(), which is for good.  After it, or after the last connection of
   the bound, nothing is read any more. *)
Disconnect(to) ==
  /\ client.state \in {"connecting", "connected"} \/ (client.state = "disconnected" /\ to = "disposed")
  /\ EndConnection(to)
  /\ wire' = IF to = "disposed" \/ client.id = MaxConnects THEN <<>> ELSE wire
  /\ UNCHANGED faults

Within == client.next <= MaxRequests

(* An acquisition now would overtake the creation of the session, or the
   handler of a detachment that failed. *)
Unsafe(c) == InFlight(c, {"create"}) # {} \/ \E p \in c.answered : p.caught

(* Mutant: an acquisition does not wait for the detachment under way. *)
AcquireAtOnce(l, mode) ==
  /\ client.state # "disposed" /\ Within
  /\ client.lease[l].at = "none" /\ server.created
  /\ MayReserve(client, mode)
  /\ client' = Attaching(Reserved(client, l, mode), {l})
  /\ crossed' = (crossed \/ Unsafe(client))
  /\ UNCHANGED <<wire, server, undone, faults>>

AcquireSession(l, mode) ==
  /\ client.state # "disposed" /\ Within
  /\ client.lease[l].at = "none" /\ server.created
  /\ MayReserve(client, mode)
  /\ LET c == Reserved(client, l, mode)
     IN  client' = IF InFlight(c, {"detach"}) # {} THEN Placed(c, {l}, "waiting")
                   ELSE Acquiring(c, {l})
  /\ crossed' = (crossed \/ Unsafe(client))
  /\ UNCHANGED <<wire, server, undone, faults>>

CreateSession(l) ==
  /\ client.state = "connected" /\ Within
  /\ client.lease[l].at = "none" /\ ~server.created /\ InFlight(client, {"create"}) = {}
  /\ client' = Placed(Request(client, "create", l, NoSnapshot), {l}, "creating")
  /\ UNCHANGED <<wire, server, crossed, undone, faults>>

(* Mutant: every release detaches. *)
ReleaseAlwaysDetaches(l, how) ==
  /\ client.lease[l].at = "held" /\ client.lease[l].gen = client.generation
  /\ client.state = "connected" /\ client.attached /\ Within
  /\ client' = Placed(Request(client, "detach", l, NoSnapshot), {l}, how)
  /\ UNCHANGED <<wire, server, crossed, undone, faults>>

(* detach() and dispose() of an active lease. *)
Release(l, how) ==
  /\ client.lease[l].at = "held" /\ client.lease[l].gen = client.generation
  /\ client.state = "connected" /\ client.attached /\ Within
  /\ client' = IF client.count <= 1
               THEN Placed(Request(client, "detach", l, NoSnapshot), {l}, how)
               ELSE Dropped(Released(client, {l}), {l})
  /\ UNCHANGED <<wire, server, crossed, undone, faults>>

(* Either call on an invalidated lease does nothing. *)
ReleaseInvalid(l) ==
  /\ client.lease[l].at = "held" /\ client.lease[l].gen # client.generation
  /\ client' = Dropped(client, {l})
  /\ UNCHANGED <<wire, server, crossed, undone, faults>>

(* prompt(), steer(), abort(), setModel(), setThinking(). *)
Command(l) ==
  /\ client.lease[l].at = "held" /\ client.lease[l].gen = client.generation
  /\ client.state = "connected" /\ client.attached /\ Within
  /\ client' = Request(client, "command", l, NoSnapshot)
  /\ UNCHANGED <<wire, server, crossed, undone, faults>>

-----------------------------------------------------------------------------
(* Messages of the server. *)

(* Requests that attach or detach and that somebody awaits. *)
Unsettled(c) == \E p \in c.pending \cup c.answered : p.why \in {"attach", "detach", "reconcile"}

HandleEvent(m) ==
  IF m.type = "session_removed"
  THEN /\ client' = [Invalidated(client) EXCEPT !.attached = FALSE, !.snapshot = NoSnapshot]
       /\ crossed' = (crossed \/ Unsettled(client) \/ Granted(client))
  ELSE client' = AppliedSnapshot(client, m) /\ UNCHANGED crossed

(* A response without a request is an invalid message. *)
HandleResponse(m) ==
  LET ps == {p \in client.pending : p.id = m.id}
  IN  IF ps = {} THEN EndConnection("disconnected")
      ELSE LET p == CHOOSE q \in ps : TRUE
           IN  /\ client' = Responded(IF m.ok THEN AppliedResult(client, p, m) ELSE client, p, m.ok)
               /\ UNCHANGED <<server, crossed, undone>>

(* #handleData: data of an earlier connection is ignored. *)
IsCurrent(m) == client.state = "connected" /\ m.conn = client.id

HandleMessage ==
  /\ wire # <<>>
  /\ wire' = Tail(wire)
  /\ LET m == Head(wire)
     IN  IF ~IsCurrent(m) THEN UNCHANGED <<client, server, crossed, undone>>
         ELSE IF m.type = "response" THEN HandleResponse(m)
         ELSE HandleEvent(m) /\ UNCHANGED <<server, undone>>
  /\ UNCHANGED faults

-----------------------------------------------------------------------------
(* Microtasks of the client: those who await an answered request go on.  Of a
   failed detachment first the entry in #sessionDetachments goes, then the
   handler of the release runs, then those who waited. *)

Failing(p) == p.why = "detach" /\ ~p.ok /\ ~p.caught

CatchDetachment(p) ==
  /\ Failing(p)
  /\ client' = [client EXCEPT !.answered = (@ \ {p}) \cup {[p EXCEPT !.caught = TRUE]}]
  /\ UNCHANGED <<wire, server, crossed, undone, faults>>

Continue(p) ==
  /\ ~Failing(p)
  /\ client' = Settled([client EXCEPT !.answered = @ \ {p}], p)
  /\ UNCHANGED <<wire, server, crossed, undone, faults>>

GoOn(why) == \E p \in client.answered : p.why = why /\ (CatchDetachment(p) \/ Continue(p))

-----------------------------------------------------------------------------
(* The server's commands on this session. *)

Message(type, id, ok, attached) ==
  [type |-> type, conn |-> client.id, id |-> id, ok |-> ok, attached |-> attached,
   snapshot |-> [rev |-> server'.rev, runtime |-> server'.runtime]]
Snapshot == IF server'.attached THEN <<Message("session_snapshot", 0, TRUE, TRUE)>> ELSE <<>>
Job(id, command, at) == [id |-> id, command |-> command, at |-> at]

(* A request arrives: a command is checked, a detach takes effect at once. *)
ReceiveRequest ==
  /\ client.out # <<>>
  /\ client' = [client EXCEPT !.out = Tail(@)]
  /\ LET r == Head(client.out)
         refused == r.command = "command" /\ ~(server.attached /\ server.open)
     IN  /\ server' = [server EXCEPT
              !.attached = @ /\ r.command # "detach",
              !.jobs = IF refused THEN @ ELSE @ \cup {Job(r.id, r.command, "running")}]
         /\ wire' = IF refused THEN Append(wire, Message("response", r.id, FALSE, FALSE)) ELSE wire
  /\ UNCHANGED <<crossed, undone, faults>>

(* acquire() and attach(): the runtime is opened, with a revision of its own. *)
Attach(j) ==
  /\ j.command \in {"attach", "create"} /\ j.at = "running"
  /\ server' = [server EXCEPT
       !.created = TRUE, !.attached = TRUE, !.open = TRUE,
       !.rev = IF server.open THEN @ ELSE 0,
       !.runtime = IF server.open THEN @ ELSE @ + 1,
       !.jobs = (@ \ {j}) \cup {[j EXCEPT !.at = "attached"]}]
  /\ UNCHANGED <<client, wire, crossed, undone, faults>>

(* The command is answered, after a broadcast of the snapshot. *)
Answer(j) ==
  /\ j.command \in {"attach", "create"} => j.at = "attached"
  /\ server' = [server EXCEPT !.jobs = @ \ {j},
       !.rev = IF j.command = "command" /\ @ < MaxRevision THEN @ + 1 ELSE @]
  /\ wire' = wire \o (IF j.command = "detach" THEN <<>> ELSE Snapshot)
                  \o <<Message("response", j.id, TRUE, server.attached)>>
  /\ undone' = (undone /\ j.command = "command")
  /\ UNCHANGED <<client, crossed, faults>>

(* The runtime cannot be opened, or the snapshot that follows an attach, a
   detach or a command fails. *)
AnswerFails(j) ==
  /\ faults < MaxFaults /\ faults' = faults + 1
  /\ server' = [server EXCEPT !.jobs = @ \ {j}]
  /\ wire' = Append(wire, Message("response", j.id, FALSE, FALSE))
  /\ undone' = (undone \/ j.command = "detach" \/ (j.command # "command" /\ server.attached))
  /\ UNCHANGED <<client, crossed>>

(* The runtime changes by itself and tells its connections. *)
RuntimeEvent ==
  /\ server.open /\ server.attached /\ server.rev < MaxRevision
  /\ server' = [server EXCEPT !.rev = @ + 1]
  /\ wire' = wire \o Snapshot
  /\ UNCHANGED <<client, crossed, undone, faults>>

(* maybeDispose: nobody is attached and nothing runs. *)
DisposeRuntime ==
  /\ server.open /\ ~server.attached /\ server.runtime < MaxRuntimes
  /\ \A j \in server.jobs : j.command # "command" /\ j.at # "attached"
  /\ server' = [server EXCEPT !.open = FALSE]
  /\ UNCHANGED <<client, wire, crossed, undone, faults>>

(* session_removed, which the protocol has and this server does not send. *)
RemoveSession ==
  /\ client.state = "connected" /\ server.attached /\ server.runtime < MaxRuntimes
  /\ \A j \in server.jobs : j.command # "command" /\ j.at # "attached"
  /\ faults < MaxFaults /\ faults' = faults + 1
  /\ server' = [server EXCEPT !.attached = FALSE, !.open = FALSE]
  /\ wire' = Append(wire, Message("session_removed", 0, TRUE, FALSE))
  /\ UNCHANGED <<client, crossed, undone>>

-----------------------------------------------------------------------------
Calls(l) ==
  \/ \E mode \in Modes : AcquireSession(l, mode)
  \/ \E how \in {"detaching", "disposing"} : Release(l, how)
  \/ CreateSession(l) \/ ReleaseInvalid(l) \/ Command(l)
Tasks == {"attach", "reconcile", "detach", "create"}

(* The server is another process: its steps touch nothing that a microtask of
   the client reads, and are taken when none is left. *)
Apart == client.answered = {}
Server == Apart /\ (ReceiveRequest \/ \E j \in server.jobs : Attach(j) \/ Answer(j))
Troubles ==
  Apart /\ ((\E j \in server.jobs : AnswerFails(j)) \/ RuntimeEvent \/ DisposeRuntime \/ RemoveSession)

Next ==
  \/ \E l \in Leases : Calls(l)
  \/ Connect \/ ReceiveHello
  \/ \E to \in {"disconnected", "disposed"} : Disconnect(to)
  \/ HandleMessage \/ \E why \in Tasks : GoOn(why)
  \/ Server \/ Troubles

Spec == Init /\ [][Next]_vars

(* The server answers and its answers arrive, unless the connection ends;
   microtasks run in the order they were queued, so each runs. *)
FairSpec ==
  Spec /\ WF_vars(Server) /\ WF_vars(HandleMessage) /\ \A why \in Tasks : WF_vars(GoOn(why))

-----------------------------------------------------------------------------
States == {"disconnected", "connecting", "connected", "disposed"}
Wheres == {"none", "waiting", "reconciling", "attaching", "creating", "held", "detaching", "disposing"}
Commands == {"attach", "detach", "create", "command"}
Snapshots == [rev : Nat \cup {-1}, runtime : Nat]
Requests == [id : Nat, why : Commands \cup {"reconcile"}, by : Leases \cup {NoLease},
             previous : Snapshots]
Answers == [id : Nat, why : Tasks, by : Leases \cup {NoLease}, previous : Snapshots,
            ok : BOOLEAN, conn : 0..MaxConnects, caught : BOOLEAN]
LeaseRecords == [at : Wheres, mode : Modes, gen : Nat, conn : 0..MaxConnects]
Messages == [type : {"response", "session_snapshot", "session_removed"}, conn : Nat, id : Nat,
             ok : BOOLEAN, attached : BOOLEAN, snapshot : Snapshots]

(* Types of the client's and the server's state. *)
TypeOK ==
  /\ client.state \in States /\ client.id \in 0..MaxConnects /\ client.next \in Nat
  /\ client.pending \subseteq Requests /\ \A p \in client.pending : p.id < client.next
  /\ client.answered \subseteq Answers
  /\ client.out \in Seq([id : Nat, command : Commands])
  /\ client.count \in Nat /\ client.exclusive \in Leases \cup {NoLease}
  /\ client.generation \in Nat /\ client.cleanup \in BOOLEAN
  /\ client.attached \in BOOLEAN /\ client.snapshot \in Snapshots
  /\ client.lease \in [Leases -> LeaseRecords]
  /\ wire \in Seq(Messages)
  /\ server.created \in BOOLEAN /\ server.attached \in BOOLEAN /\ server.open \in BOOLEAN
  /\ server.rev \in 0..MaxRevision /\ server.runtime \in Nat
  /\ server.jobs \subseteq [id : Nat, command : Commands, at : {"running", "attached"}]
  /\ crossed \in BOOLEAN /\ undone \in BOOLEAN
  /\ faults \in 0..MaxFaults

(* The leases and acquisitions that own a reservation. *)
Owners ==
  {l \in Leases : \/ client.lease[l].at \in {"waiting", "reconciling", "attaching"}
                  \/ /\ client.lease[l].at \in {"held", "detaching", "disposing"}
                     /\ client.lease[l].gen = client.generation}

(* An exclusive lease or acquisition is the only one of its session, through
   releases, failures and reconnections, and the number of leases is exact:
   whoever is counted still has to release, and nobody is counted twice.
   While the end of a connection is passed on the number may lag behind.
   Excluded from here on is what the code gets wrong (crossed): a success that
   the client is told of, and whose acquisition goes on only after the
   connection ended or the session was removed; an acquisition between the
   failure of a detachment and its handler, or while the session is created. *)
ExclusiveAlone ==
  crossed \/ (client.state # "connected" /\ client.answered # {})
          \/ /\ client.count = Cardinality(Owners)
             /\ \A l \in Owners : client.lease[l].mode = "exclusive" => Owners = {l}

(* Attach and detach requests of a session never overlap: each waits for the
   other, whoever sends it, so the server cannot apply them out of order. *)
SerialControl ==
  crossed \/ Cardinality({p \in client.pending : p.why \in {"attach", "detach", "reconcile"}}) <= 1

(* When nothing is in flight the client and the server agree on whether the
   connection is attached, and it is as long as there are leases and no
   longer.  Excluded: an attach that failed and left the connection attached,
   a detach that failed after it took effect, and a snapshot of an earlier
   runtime that hides the current one. *)
Still == client.state = "connected" /\ client.pending = {} /\ client.answered = {} /\ wire = <<>>
AttachedWhileLeased ==
  Still /\ ~crossed /\ ~undone /\ client.snapshot.runtime \in {0, server.runtime}
    => /\ client.attached <=> server.attached
       /\ client.attached <=> Owners # {}

(* A lease taken on an earlier connection is never active again, whatever is
   attached on the present one and whatever data the old one still delivers,
   unless it was taken after that connection had ended (crossed). *)
Active(l) == /\ client.lease[l].at = "held" /\ client.lease[l].gen = client.generation
             /\ client.attached
LeaseOfConnection == \A l \in Leases : Active(l) => client.lease[l].conn = client.id \/ crossed

(* Every acquisition and every release is settled: those who share a promise
   are all woken, also when the request fails or the connection ends. *)
CallsSettle ==
  \A l \in Leases : client.lease[l].at \notin {"none", "held"} ~> client.lease[l].at \in {"none", "held"}
=============================================================================
