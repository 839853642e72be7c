-------------------------- MODULE ServerConnections --------------------------
(***************************************************************************)
(* Connections of the server: PiServer of packages/server/src/server.ts    *)
(* with its ServerSnapshotPublisher (snapshots.ts), over the ordered byte  *)
(* connections of transports/unix/listener.ts.                             *)
(*                                                                         *)
(* A connection is accepted with a handshake timer, says hello, gets the   *)
(* server's hello with a snapshot of the session list, and is then ready   *)
(* for requests and snapshot broadcasts.  Everything between two awaits    *)
(* interleaves: the timer fires while the hello is being written, a        *)
(* broadcast reads the list while another connection shakes hands, a send  *)
(* fails because the peer does not read, the socket closes at any moment.  *)
(*                                                                         *)
(* The session list is its version, content.  What a request does to live  *)
(* sessions is the subject of LiveSessions: here it may change the list.   *)
(***************************************************************************)
EXTENDS Integers, Sequences, SequencesExt

CONSTANTS
  Conns,        \* connections, each accepted once
  MaxPending,   \* frames a connection holds unwritten (maxPendingBytes)
  MaxChanges,   \* bound: changes of the session list
  MaxRequests   \* bound: requests

ASSUME LimitsAssumption ==
  MaxPending \in Nat \ {0} /\ MaxChanges \in Nat /\ MaxRequests \in Nat

VARIABLES
  stage,      \* ConnectionState.stage; "none" before it is accepted
  gone,       \* ConnectionState.disconnected
  complete,   \* ConnectionState.handshakeComplete
  shake,      \* where finishHandshake is, and the snapshot it holds
  request,    \* where the connection's request is
  wire,       \* frames handed to the connection and not yet written
  socket,     \* "open", "closing" or "closed"
  sent,       \* frames written to the peer
  view,       \* the snapshot the client has applied
  leaving,    \* disconnect() awaits the live sessions
  content,    \* version of the session list
  revision,   \* ServerSnapshotPublisher.revision
  queued,     \* broadcasts in broadcastQueue
  cast,       \* the broadcast that is under way
  lostRev,    \* revision of the last broadcast that failed
  basis,      \* history: the version of the list when each revision was taken
  closing,    \* PiServer.closing
  requests    \* requests so far

connVars == <<stage, gone, complete, shake, request, wire, socket, sent, view, leaving>>
castVars == <<content, revision, queued, cast, lostRev, basis>>
vars == <<connVars, castVars, closing, requests>>

Snapshot(r, v) == [rev |-> r, content |-> v]
Frame(type, by, s) == [type |-> type, by |-> by, snap |-> s]
Nowhere  == Snapshot(-1, 0)
NotShaking == [at |-> "none", snap |-> Nowhere]
NoCast   == [at |-> "none", snap |-> Nowhere, to |-> <<>>]

Init ==
  /\ stage = [c \in Conns |-> "none"] /\ gone = [c \in Conns |-> FALSE]
  /\ complete = [c \in Conns |-> FALSE] /\ shake = [c \in Conns |-> NotShaking]
  /\ request = [c \in Conns |-> "none"] /\ wire = [c \in Conns |-> <<>>]
  /\ socket = [c \in Conns |-> "open"] /\ sent = [c \in Conns |-> <<>>]
  /\ view = [c \in Conns |-> Nowhere] /\ leaving = [c \in Conns |-> FALSE]
  /\ content = 0 /\ revision = 0 /\ queued = 0 /\ cast = NoCast /\ lostRev = 0
  /\ basis = <<0>>
  /\ closing = FALSE /\ requests = 0

Terminal(c) == gone[c] \/ stage[c] \in {"closing", "closed"}

-----------------------------------------------------------------------------
(* UnixByteConnection. *)

(* close(): the write under way may end, those behind it are rejected, and
   the final frame follows. *)
Closed(c, final) ==
  IF socket[c] = "open"
  THEN /\ socket' = [socket EXCEPT ![c] = "closing"]
       /\ wire' = [wire EXCEPT ![c] = SubSeq(@, 1, IF @ = <<>> THEN 0 ELSE 1) \o final]
  ELSE UNCHANGED <<socket, wire>>

(* Mutant: no limit on what is pending. *)
SendUnbounded(c, frame) ==
  IF socket[c] = "open"
  THEN wire' = [wire EXCEPT ![c] = Append(@, frame)] /\ UNCHANGED socket
  ELSE Closed(c, <<>>)

(* sendMessage: a send that is refused closes the connection. *)
Send(c, frame) ==
  IF socket[c] = "open" /\ Len(wire[c]) < MaxPending
  THEN wire' = [wire EXCEPT ![c] = Append(@, frame)] /\ UNCHANGED socket
  ELSE Closed(c, <<>>)

(* failProtocol. *)
Fail(c) ==
  /\ stage' = [stage EXCEPT ![c] = "closing"]
  /\ Closed(c, <<Frame("hello_error", "server", Nowhere)>>)
  /\ UNCHANGED <<gone, complete, shake, request, sent, view, leaving, castVars, closing, requests>>

-----------------------------------------------------------------------------
(* accept, receive and dispatchMessage. *)

Accept(c) ==
  /\ stage[c] = "none" /\ ~closing
  /\ stage' = [stage EXCEPT ![c] = "awaitingHello"]
  /\ UNCHANGED <<gone, complete, shake, request, wire, socket, sent, view, leaving, castVars, closing,
                 requests>>

(* finishHandshake begins: get() takes the revision before it reads the list. *)
ReceiveHello(c) ==
  /\ stage[c] = "awaitingHello" /\ ~Terminal(c)
  /\ stage' = [stage EXCEPT ![c] = "handshaking"]
  /\ shake' = [shake EXCEPT ![c] = [at |-> "reading", snap |-> Snapshot(revision, 0)]]
  /\ UNCHANGED <<gone, complete, request, wire, socket, sent, view, leaving, castVars, closing, requests>>

(* No hello first, an unsupported version, a second hello, an invalid frame. *)
ReceiveInvalid(c) ==
  /\ stage[c] # "none" /\ ~Terminal(c)
  /\ Fail(c)

(* A request that comes during the handshake waits for its end. *)
ReceiveRequest(c) ==
  /\ stage[c] \in {"handshaking", "ready"} /\ ~Terminal(c)
  /\ request[c] = "none" /\ requests < MaxRequests
  /\ request' = [request EXCEPT ![c] = IF stage[c] = "ready" THEN "running" ELSE "deferred"]
  /\ requests' = requests + 1
  /\ UNCHANGED <<stage, gone, complete, shake, wire, socket, sent, view, leaving, castVars, closing>>

(* Mutant: the timer is cleared when the client's hello arrives. *)
TimeoutBeforeHello(c) ==
  /\ stage[c] = "awaitingHello"
  /\ Fail(c)

(* The handshake timer, armed until the connection is ready or closing. *)
HandshakeTimeout(c) ==
  /\ stage[c] \in {"awaitingHello", "handshaking"}
  /\ Fail(c)

-----------------------------------------------------------------------------
(* finishHandshake. *)

(* get(): the list is read.  The reads of the service may also fail. *)
ReadSnapshot(c) ==
  /\ shake[c].at \in {"reading", "catchReading"}
  /\ shake' = [shake EXCEPT ![c] = [at |-> IF @.at = "reading" THEN "read" ELSE "catchRead",
                                    snap |-> Snapshot(@.snap.rev, content)]]
  /\ UNCHANGED <<stage, gone, complete, request, wire, socket, sent, view, leaving, castVars, closing,
                 requests>>

ReadFails(c) ==
  /\ shake[c].at \in {"reading", "catchReading"}
  /\ shake' = [shake EXCEPT ![c] = [NotShaking EXCEPT !.at = "done"]]
  /\ IF Terminal(c) THEN UNCHANGED <<stage, socket, wire>>
     ELSE /\ stage' = [stage EXCEPT ![c] = "closing"]
          /\ Closed(c, <<Frame("hello_error", "server", Nowhere)>>)
  /\ UNCHANGED <<gone, complete, request, sent, view, leaving, castVars, closing, requests>>

(* Mutant: the revision is taken after the list is read. *)
SendHelloLateRevision(c) ==
  /\ shake[c].at = "read"
  /\ shake' = [shake EXCEPT ![c].at = "sending", ![c].snap.rev = revision]
  /\ Send(c, Frame("hello", "shake", Snapshot(revision, shake[c].snap.content)))
  /\ UNCHANGED <<stage, gone, complete, request, sent, view, leaving, castVars, closing, requests>>

SendHello(c) ==
  /\ shake[c].at = "read"
  /\ IF closing \/ gone[c] \/ stage[c] # "handshaking" \/ socket[c] = "closed"
     THEN /\ shake' = [shake EXCEPT ![c] = [NotShaking EXCEPT !.at = "done"]]
          /\ UNCHANGED <<wire, socket>>
     ELSE /\ shake' = [shake EXCEPT ![c].at = "sending"]
          /\ Send(c, Frame("hello", "shake", shake[c].snap))
  /\ UNCHANGED <<stage, gone, complete, request, sent, view, leaving, castVars, closing, requests>>

SendCatchUp(c) ==
  /\ shake[c].at = "catchRead"
  /\ IF gone[c]
     THEN /\ shake' = [shake EXCEPT ![c] = [NotShaking EXCEPT !.at = "done"]]
          /\ UNCHANGED <<wire, socket>>
     ELSE /\ shake' = [shake EXCEPT ![c].at = "catchSending"]
          /\ Send(c, Frame("event", "shake", shake[c].snap))
  /\ UNCHANGED <<stage, gone, complete, request, sent, view, leaving, castVars, closing, requests>>

(* The hello is written: the connection is ready unless the timer was first,
   and is caught up with a broadcast that missed it. *)
NeverBehind(c) == FALSE   \* mutant: no catch-up
Behind(c) == shake[c].snap.rev # revision
HelloSent(c) ==
  IF stage[c] = "handshaking" /\ ~gone[c]
  THEN /\ stage' = [stage EXCEPT ![c] = "ready"]
       /\ complete' = [complete EXCEPT ![c] = TRUE]
       /\ shake' = [shake EXCEPT ![c] = IF Behind(c)
                                        THEN [at |-> "catchReading", snap |-> Snapshot(revision, 0)]
                                        ELSE [NotShaking EXCEPT !.at = "done"]]
  ELSE /\ shake' = [shake EXCEPT ![c] = [NotShaking EXCEPT !.at = "done"]]
       /\ UNCHANGED <<stage, complete>>

-----------------------------------------------------------------------------
(* Requests. *)

DeferredRuns(c) ==
  /\ request[c] = "deferred" /\ shake[c].at = "done"
  /\ request' = [request EXCEPT ![c] = IF stage[c] = "ready" /\ ~gone[c] THEN "running" ELSE "none"]
  /\ UNCHANGED <<stage, gone, complete, shake, wire, socket, sent, view, leaving, castVars, closing,
                 requests>>

(* executeCommand changes the list, or answers at once. *)
RequestChanges(c) ==
  /\ request[c] = "running" /\ content < MaxChanges
  /\ content' = content + 1
  /\ request' = [request EXCEPT ![c] = "changed"]
  /\ UNCHANGED <<stage, gone, complete, shake, wire, socket, sent, view, leaving, revision, queued, cast,
                 lostRev, basis, closing, requests>>

RequestAnswers(c) ==
  /\ request[c] \in {"running", "changed"}
  /\ queued' = IF request[c] = "changed" THEN queued + 1 ELSE queued
  /\ request' = [request EXCEPT ![c] = "none"]
  /\ IF gone[c] THEN UNCHANGED <<wire, socket>> ELSE Send(c, Frame("response", "request", Nowhere))
  /\ UNCHANGED <<stage, gone, complete, shake, sent, view, leaving, content, revision, cast, lostRev,
                 basis, closing, requests>>

-----------------------------------------------------------------------------
(* ServerSnapshotPublisher: one broadcast at a time. *)

(* Mutant: connections that shake hands are told as well. *)
ReadyOrShaking == {c \in Conns : stage[c] \in {"handshaking", "ready"} /\ ~gone[c]}
Ready == {c \in Conns : stage[c] = "ready" /\ ~gone[c]}

(* performBroadcast: nobody to tell, or the next revision. *)
StartBroadcast ==
  /\ cast.at = "none" /\ queued > 0
  /\ queued' = queued - 1
  /\ IF Ready = {} \/ closing THEN UNCHANGED <<revision, cast, basis>>
     ELSE /\ revision' = revision + 1
          /\ basis' = Append(basis, content)
          /\ cast' = [at |-> "reading", snap |-> Snapshot(revision + 1, 0), to |-> SetToSeq(Ready)]
  /\ UNCHANGED <<connVars, content, lostRev, closing, requests>>

ReadBroadcast ==
  /\ cast.at = "reading"
  /\ cast' = [cast EXCEPT !.at = "sending", !.snap = Snapshot(@.rev, content)]
  /\ UNCHANGED <<connVars, content, revision, queued, lostRev, basis, closing, requests>>

BroadcastFails ==
  /\ cast.at = "reading"
  /\ cast' = NoCast
  /\ lostRev' = cast.snap.rev
  /\ UNCHANGED <<connVars, content, revision, queued, basis, closing, requests>>

(* The connections are served one after the other, each write awaited. *)
Served == IF Len(cast.to) = 1 THEN NoCast
          ELSE [cast EXCEPT !.at = "sending", !.to = Tail(@)]
SendBroadcast ==
  /\ cast.at = "sending"
  /\ LET c == Head(cast.to)
     IN  IF gone[c] THEN cast' = Served /\ UNCHANGED <<wire, socket>>
         ELSE /\ cast' = [cast EXCEPT !.at = "waiting"]
              /\ Send(c, Frame("event", "broadcast", cast.snap))
  /\ UNCHANGED <<stage, gone, complete, shake, request, sent, view, leaving, content, revision, queued,
                 lostRev, basis, closing, requests>>

-----------------------------------------------------------------------------
(* The wire and its end. *)

(* ClientState.applyServerSnapshot: an older revision is ignored. *)
Applied(old, new) == IF new.rev < old.rev THEN old ELSE new

(* A frame is written: its sender goes on, the client applies it. *)
Write(c) ==
  /\ socket[c] # "closed" /\ wire[c] # <<>>
  /\ LET frame == Head(wire[c])
     IN  /\ wire' = [wire EXCEPT ![c] = Tail(@)]
         /\ sent' = [sent EXCEPT ![c] = Append(@, frame)]
         /\ view' = [view EXCEPT ![c] = IF frame.type \in {"hello", "event"}
                                        THEN Applied(@, frame.snap) ELSE @]
         /\ IF frame.type = "hello" THEN HelloSent(c)
            ELSE /\ shake' = IF frame.by = "shake"
                             THEN [shake EXCEPT ![c] = [NotShaking EXCEPT !.at = "done"]] ELSE shake
                 /\ UNCHANGED <<stage, complete>>
         /\ cast' = IF frame.by = "broadcast" THEN Served ELSE cast
  /\ UNCHANGED <<gone, request, socket, leaving, content, revision, queued, lostRev, basis, closing, requests>>

(* Mutant: a write under way does not learn that the socket closed. *)
DisconnectedUnheard(c) ==
  /\ socket' = [socket EXCEPT ![c] = "closed"]
  /\ wire' = [wire EXCEPT ![c] = <<>>]
  /\ gone' = [gone EXCEPT ![c] = TRUE]
  /\ stage' = [stage EXCEPT ![c] = "closed"]
  /\ leaving' = [leaving EXCEPT ![c] = TRUE]
  /\ shake' = IF shake[c].at \in {"sending", "catchSending"}
              THEN [shake EXCEPT ![c] = [NotShaking EXCEPT !.at = "done"]] ELSE shake
  /\ UNCHANGED <<complete, request, sent, view, cast, content, revision, queued, lostRev, basis, closing, requests>>

(* The socket closes: transportClosed and the closeConnection() calls that
   waited for it go on to disconnect(); senders learn that they failed. *)
Disconnected(c) ==
  /\ socket' = [socket EXCEPT ![c] = "closed"]
  /\ wire' = [wire EXCEPT ![c] = <<>>]
  /\ gone' = [gone EXCEPT ![c] = TRUE]
  /\ stage' = [stage EXCEPT ![c] = "closed"]
  /\ leaving' = [leaving EXCEPT ![c] = TRUE]
  /\ shake' = IF shake[c].at \in {"sending", "catchSending"}
              THEN [shake EXCEPT ![c] = [NotShaking EXCEPT !.at = "done"]] ELSE shake
  /\ cast' = IF cast.at = "waiting" /\ Head(cast.to) = c THEN Served ELSE cast
  /\ UNCHANGED <<complete, request, sent, view, content, revision, queued, lostRev, basis, closing, requests>>

(* The peer closes or resets the connection. *)
PeerCloses(c) ==
  /\ stage[c] # "none" /\ socket[c] = "open"
  /\ Disconnected(c)

(* end() is through, or the graceful close timer destroys the socket. *)
CloseDone(c) ==
  /\ socket[c] = "closing"
  /\ Disconnected(c)

(* The live sessions have let go of the connection, which may change the
   list: a runtime is disposed of. *)
Left(c) ==
  /\ leaving[c]
  /\ leaving' = [leaving EXCEPT ![c] = FALSE]
  /\ IF ~closing /\ complete[c]
     THEN /\ content' \in {content, IF content < MaxChanges THEN content + 1 ELSE content}
          /\ queued' = queued + 1
     ELSE UNCHANGED <<content, queued>>
  /\ UNCHANGED <<stage, gone, complete, shake, request, wire, socket, sent, view, revision, cast, lostRev,
                 basis, closing, requests>>

(* close(): the listener closes its connections. *)
Close ==
  /\ ~closing
  /\ closing' = TRUE
  /\ socket' = [c \in Conns |-> IF stage[c] # "none" /\ socket[c] = "open" THEN "closing" ELSE socket[c]]
  /\ wire' = [c \in Conns |-> IF stage[c] # "none" /\ socket[c] = "open" /\ wire[c] # <<>>
                              THEN <<Head(wire[c])>> ELSE wire[c]]
  /\ UNCHANGED <<stage, gone, complete, shake, request, sent, view, leaving, castVars, requests>>

-----------------------------------------------------------------------------
Server(c) ==
  \/ ReadSnapshot(c) \/ SendHello(c) \/ SendCatchUp(c)
  \/ DeferredRuns(c) \/ RequestAnswers(c) \/ Left(c)
Environment(c) ==
  \/ Accept(c) \/ ReceiveHello(c) \/ ReceiveInvalid(c) \/ ReceiveRequest(c)
  \/ ReadFails(c) \/ RequestChanges(c) \/ PeerCloses(c)
Publisher == StartBroadcast \/ ReadBroadcast \/ SendBroadcast

Next ==
  \/ \E c \in Conns : \/ Server(c) \/ Environment(c)
                      \/ Write(c) \/ HandshakeTimeout(c) \/ CloseDone(c)
  \/ Publisher \/ BroadcastFails \/ Close

Spec == Init /\ [][Next]_vars

(* Timers fire and sockets that are being closed do close.  Nothing is
   assumed of the peer and of the service. *)
Fairness == \A c \in Conns : WF_vars(HandshakeTimeout(c)) /\ WF_vars(CloseDone(c))
FairSpec == Spec /\ Fairness

-----------------------------------------------------------------------------
Snapshots == [rev : Nat \cup {-1}, content : Nat]
Frames == [type : {"hello", "hello_error", "event", "response"},
           by : {"shake", "server", "broadcast", "request"}, snap : Snapshots]

(* Types of the connections, the publisher and the wire. *)
TypeOK ==
  /\ stage \in [Conns -> {"none", "awaitingHello", "handshaking", "ready", "closing", "closed"}]
  /\ gone \in [Conns -> BOOLEAN] /\ complete \in [Conns -> BOOLEAN] /\ leaving \in [Conns -> BOOLEAN]
  /\ shake \in [Conns -> [at : {"none", "reading", "read", "sending", "catchReading", "catchRead",
                                "catchSending", "done"}, snap : Snapshots]]
  /\ request \in [Conns -> {"none", "deferred", "running", "changed"}]
  /\ wire \in [Conns -> Seq(Frames)] /\ sent \in [Conns -> Seq(Frames)]
  /\ \A c \in Conns : Len(wire[c]) <= IF socket[c] = "open" THEN MaxPending ELSE 2
  /\ socket \in [Conns -> {"open", "closing", "closed"}] /\ view \in [Conns -> Snapshots]
  /\ content \in 0..MaxChanges /\ revision \in Nat /\ queued \in Nat /\ lostRev \in Nat
  /\ cast.at \in {"none", "reading", "sending", "waiting"} /\ cast.snap \in Snapshots
  /\ cast.to \in Seq(Conns)
  /\ basis \in Seq(Nat) /\ Len(basis) = revision + 1
  /\ closing \in BOOLEAN /\ requests \in 0..MaxRequests

(* What a client reads is a hello, then events and responses, and a
   hello_error only at the end: no broadcast, response or failure slips in
   before the hello or after the error, whatever races the handshake. *)
WireOrder ==
  \A c \in Conns : \A i \in DOMAIN sent[c] :
    /\ i = 1 => sent[c][i].type \in {"hello", "hello_error"}
    /\ i > 1 => sent[c][i].type # "hello"
    /\ sent[c][i].type = "hello_error" => i = Len(sent[c])

(* When nothing is under way, every ready client has applied the current
   revision, also one whose handshake overlapped broadcasts; only a
   broadcast that failed leaves the clients behind, until the next one. *)
Quiet ==
  /\ queued = 0 /\ cast.at = "none"
  /\ \A c \in Conns : shake[c].at \in {"none", "done"} /\ wire[c] = <<>>
RevisionReached ==
  Quiet => \A c \in Ready : socket[c] = "open" => view[c].rev = revision \/ revision = lostRev

(* A snapshot is never older than its revision: it has every change made
   before the revision it carries was taken, although the list is read
   later and the reads of handshakes and broadcasts overlap. *)
SnapshotsCoverRevision ==
  \A c \in Conns : \A i \in DOMAIN sent[c] :
    LET s == sent[c][i].snap IN s # Nowhere => s.content >= basis[s.rev + 1]

(* Nobody waits for a write that cannot end.  While the broadcast or a
   handshake awaits a write, its frame is on a wire that is open, or the socket
   is being closed and its close wakes the sender; and a frame on a wire has
   its sender waiting for it, so that the end of a write moves on the broadcast
   or handshake it belongs to and no other.  One write that never ended would
   hold up every later broadcast and close(). *)
WritesAwaited ==
  \A c \in Conns :
    LET onWire(by) == \E i \in DOMAIN wire[c] : wire[c][i].by = by
        canEnd(by) == socket[c] = "closing" \/ (socket[c] = "open" /\ onWire(by))
        casts  == cast.at = "waiting" /\ c = Head(cast.to)
        shakes == shake[c].at \in {"sending", "catchSending"}
    IN  /\ onWire("broadcast") => casts
        /\ onWire("shake") => shakes
        /\ casts => canEnd("broadcast")
        /\ shakes => canEnd("shake")

(* A handshake ends: the client is ready or its connection closed, even if
   the peer never reads and the service never answers. *)
HandshakeEnds ==
  \A c \in Conns : stage[c] \in {"awaitingHello", "handshaking"} ~> stage[c] \in {"ready", "closed"}
=============================================================================
