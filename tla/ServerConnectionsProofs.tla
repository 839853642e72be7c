----------------------- MODULE ServerConnectionsProofs -----------------------
(***************************************************************************)
(* Proofs about ServerConnections, for any number of connections, requests *)
(* and changes of the session list:                                        *)
(*                                                                         *)
(*   - a connection is disconnected exactly when its socket is closed;     *)
(*   - a snapshot a client reads has every change that was made before its *)
(*     revision was taken;                                                 *)
(*   - the types, with the bounds on what a connection holds unwritten;    *)
(*   - the frames a client reads are in the protocol's order;              *)
(*   - once nothing is under way, every ready client has the revision.     *)
(*                                                                         *)
(* The second needs to know of the snapshots under way: a revision is      *)
(* never ahead of the publisher's, the list never goes back, and whatever  *)
(* was read from the list already covers its revision wherever it is - in  *)
(* a handshake, in the broadcast, or on the wire.  The last two look at    *)
(* one connection at a time: FramesMove says in which ways a step may move *)
(* its frames, LineInv and ReachInv hold over each of them.                *)
(***************************************************************************)
EXTENDS ServerConnections, FiniteSetTheorems, TLAPS

Sockets == {"open", "closing", "closed"}

(* A snapshot of the list as it was at its revision or later. *)
Covers(s) == s = Nowhere \/ (s.rev \in 0..revision /\ s.content >= basis[s.rev + 1])
CoveringFrames == {f \in Frames : Covers(f.snap)}

(* The types these proofs need. *)
Shakes == [at : {"none", "reading", "read", "sending", "catchReading", "catchRead", "catchSending",
                 "done"}, snap : Snapshots]
Shape ==
  /\ gone \in [Conns -> BOOLEAN] /\ socket \in [Conns -> Sockets]
  /\ shake \in [Conns -> Shakes]
  /\ cast = [at |-> cast.at, snap |-> cast.snap, to |-> cast.to] /\ cast.snap \in Snapshots
  /\ content \in Nat /\ revision \in Nat
  /\ basis \in Seq(Nat) /\ Len(basis) = revision + 1

(* The list only grows. *)
ListGrows == \A i \in 1..Len(basis) : basis[i] <= content

(* The snapshots of handshakes and of the broadcast. *)
HeldWell(r) ==
  /\ r.at \in {"reading", "catchReading"} => r.snap.rev \in 0..revision
  /\ r.at \in {"read", "catchRead"} => Covers(r.snap)
ShakesCover == \A c \in Conns : HeldWell(shake[c])
CastCovers ==
  /\ cast.at = "reading" => cast.snap.rev \in 0..revision
  /\ cast.at \in {"sending", "waiting"} => Covers(cast.snap)

(* The frames on the wire and those the clients have read. *)
FramesCover ==
  wire \in [Conns -> Seq(CoveringFrames)] /\ sent \in [Conns -> Seq(CoveringFrames)]

(* At most one frame of a broadcast is on its way: the one it waits for. *)
Casts(s)     == {i \in 1..Len(s) : s[i].by = "broadcast"}
AtMostOne(s) == \A i, j \in Casts(s) : i = j
AwaitedFrame ==
  \A c \in Conns : /\ AtMostOne(wire[c])
                   /\ Casts(wire[c]) # {} => cast.at = "waiting" /\ c = Head(cast.to)

(* No frame of a broadcast is added to s when it becomes t. *)
NoneAdded(s, t) ==
  /\ Casts(s) = {} => Casts(t) = {}
  /\ AtMostOne(s) => AtMostOne(t)

(* A connection is disconnected when its socket closes. *)
Gone == \A c \in Conns : gone[c] <=> socket[c] = "closed"

IInv ==
  /\ Shape /\ ListGrows /\ ShakesCover /\ CastCovers /\ FramesCover
  /\ AwaitedFrame /\ Gone

-----------------------------------------------------------------------------
(* What connections do to their frames adds none of a broadcast. *)
LEMMA AppendAdds ==
  ASSUME NEW S, NEW s \in Seq(S), NEW f \in S, f.by # "broadcast"
  PROVE  NoneAdded(s, Append(s, f))
<1>1. Casts(Append(s, f)) = Casts(s)
  BY DEF Casts
<1> QED BY <1>1 DEF NoneAdded, AtMostOne

LEMMA TailAdds ==
  ASSUME NEW S, NEW s \in Seq(S), s # <<>>
  PROVE  /\ NoneAdded(s, Tail(s))
         /\ AtMostOne(s) /\ Head(s).by = "broadcast" => Casts(Tail(s)) = {}
<1>1. \A i \in Casts(Tail(s)) : i + 1 \in Casts(s) /\ i \in 1..Len(s)
  BY DEF Casts
<1>2. NoneAdded(s, Tail(s))
  BY <1>1 DEF NoneAdded, AtMostOne, Casts
<1>3. Head(s).by = "broadcast" => 1 \in Casts(s)
  BY DEF Casts
<1> QED BY <1>1, <1>2, <1>3 DEF AtMostOne, Casts

LEMMA EmptyAdds ==
  ASSUME NEW s
  PROVE  NoneAdded(s, <<>>)
BY DEF NoneAdded, Casts, AtMostOne

LEMMA HeadAdds ==
  ASSUME NEW S, NEW s \in Seq(S), s # <<>>
  PROVE  NoneAdded(s, <<Head(s)>>)
<1>1. Casts(<<Head(s)>>) \subseteq {1} /\ (1 \in Casts(<<Head(s)>>) => 1 \in Casts(s))
  BY DEF Casts
<1> QED BY <1>1 DEF NoneAdded, AtMostOne

(* What close() leaves of the frames, with the final one or none. *)
LEMMA CutAdds ==
  ASSUME NEW S, NEW s \in Seq(S), NEW final \in Seq(S), Casts(final) = {}
  PROVE  NoneAdded(s, SubSeq(s, 1, IF s = <<>> THEN 0 ELSE 1) \o final)
<1> DEFINE h == SubSeq(s, 1, IF s = <<>> THEN 0 ELSE 1)
           t == h \o final
<1>1. h \in Seq(S) /\ Len(h) \in {0, 1} /\ (Len(h) = 1 => s # <<>> /\ h[1] = s[1])
  OBVIOUS
<1>2. \A i \in 1..Len(t) : \/ i = 1 /\ Len(h) = 1 /\ t[i] = s[1]
                           \/ i - Len(h) \in 1..Len(final) /\ t[i] = final[i - Len(h)]
  BY <1>1
<1>3. \A i \in Casts(t) : i = 1 /\ 1 \in Casts(s)
  <2> SUFFICES ASSUME NEW i \in Casts(t) PROVE i = 1 /\ 1 \in Casts(s)
    OBVIOUS
  <2>1. i \in 1..Len(t) /\ t[i].by = "broadcast"
    BY DEF Casts
  <2>2. i = 1 /\ Len(h) = 1 /\ t[i] = s[1]
    BY <1>2, <2>1 DEF Casts
  <2>3. 1 \in 1..Len(s)
    BY <1>1, <2>2
  <2> QED BY <2>1, <2>2, <2>3 DEF Casts
<1> QED BY <1>3 DEF NoneAdded, AtMostOne

-----------------------------------------------------------------------------
(* close() of a connection keeps to the frames it is given, and only begins
   to close the socket. *)
LEMMA ClosedTypes ==
  ASSUME NEW S, NEW c, NEW final \in Seq(S), Casts(final) = {},
         wire \in [Conns -> Seq(S)], socket \in [Conns -> Sockets], Closed(c, final)
  PROVE  /\ wire' \in [Conns -> Seq(S)] /\ socket' \in [Conns -> Sockets]
         /\ \A d \in Conns : socket'[d] = "closed" <=> socket[d] = "closed"
         /\ \A d \in Conns : NoneAdded(wire[d], wire'[d])
<1>0. \A s : NoneAdded(s, s)
  BY DEF NoneAdded
<1>1. CASE socket[c] = "open"
  <2>1. \A s \in Seq(S) : SubSeq(s, 1, IF s = <<>> THEN 0 ELSE 1) \o final \in Seq(S)
    <3> SUFFICES ASSUME NEW s \in Seq(S)
                 PROVE  SubSeq(s, 1, IF s = <<>> THEN 0 ELSE 1) \o final \in Seq(S)
      OBVIOUS
    <3>1. SubSeq(s, 1, IF s = <<>> THEN 0 ELSE 1) \in Seq(S)
      OBVIOUS
    <3> QED BY <3>1
  <2>2. wire' \in [Conns -> Seq(S)]
    BY <1>1, <2>1 DEF Closed
  <2>3. \A d \in Conns : NoneAdded(wire[d], wire'[d])
    <3> SUFFICES ASSUME NEW d \in Conns PROVE NoneAdded(wire[d], wire'[d])
      OBVIOUS
    <3>1. CASE d = c
      <4>1. wire'[d] = SubSeq(wire[d], 1, IF wire[d] = <<>> THEN 0 ELSE 1) \o final
        BY <1>1, <3>1 DEF Closed
      <4>2. wire[d] \in Seq(S)
        OBVIOUS
      <4> QED BY <4>1, <4>2, CutAdds
    <3>2. CASE d # c
      BY <1>0, <1>1, <3>2 DEF Closed
    <3> QED BY <3>1, <3>2
  <2> QED BY <1>1, <2>2, <2>3 DEF Closed, Sockets
<1>2. CASE socket[c] # "open"
  BY <1>0, <1>2 DEF Closed
<1> QED BY <1>1, <1>2

(* The same of a send, refused or not, except for a frame of a broadcast. *)
LEMMA SendTypes ==
  ASSUME NEW S, NEW c, NEW frame \in S,
         wire \in [Conns -> Seq(S)], socket \in [Conns -> Sockets], Send(c, frame)
  PROVE  /\ wire' \in [Conns -> Seq(S)] /\ socket' \in [Conns -> Sockets]
         /\ \A d \in Conns : socket'[d] = "closed" <=> socket[d] = "closed"
         /\ \A d \in Conns : \/ NoneAdded(wire[d], wire'[d])
                             \/ d = c /\ wire'[d] = Append(wire[d], frame) /\ frame.by = "broadcast"
<1>0. \A s : NoneAdded(s, s)
  BY DEF NoneAdded
<1>1. CASE socket[c] = "open" /\ Len(wire[c]) < MaxPending
  <2>1. wire' = [wire EXCEPT ![c] = Append(@, frame)] /\ socket' = socket
    BY <1>1 DEF Send
  <2>2. \A s \in Seq(S) : Append(s, frame) \in Seq(S)
    OBVIOUS
  <2>3. \A d \in Conns : \/ NoneAdded(wire[d], wire'[d])
                         \/ d = c /\ wire'[d] = Append(wire[d], frame) /\ frame.by = "broadcast"
    BY <1>0, <2>1, AppendAdds
  <2> QED BY <2>1, <2>2, <2>3
<1>2. CASE ~(socket[c] = "open" /\ Len(wire[c]) < MaxPending)
  <2>1. <<>> \in Seq(S) /\ Casts(<<>>) = {} /\ Closed(c, <<>>)
    BY <1>2 DEF Send, Casts
  <2> QED BY <2>1, ClosedTypes
<1> QED BY <1>1, <1>2

(* Frames without a snapshot. *)
LEMMA PlainFrames ==
  /\ Nowhere \in Snapshots
  /\ Frame("hello_error", "server", Nowhere) \in CoveringFrames
  /\ Frame("response", "request", Nowhere) \in CoveringFrames
  /\ Frame("response", "request", Nowhere).by # "broadcast"
  /\ Casts(<<Frame("hello_error", "server", Nowhere)>>) = {}
BY DEF Casts, CoveringFrames, Frames, Frame, Nowhere, Snapshot, Snapshots, Covers

(* A covering snapshot makes a covering frame. *)
LEMMA SnapshotFrames ==
  ASSUME NEW s \in Snapshots, Covers(s)
  PROVE  /\ Frame("hello", "shake", s) \in CoveringFrames
         /\ Frame("event", "shake", s) \in CoveringFrames
         /\ Frame("event", "broadcast", s) \in CoveringFrames
         /\ Frame("hello", "shake", s).by # "broadcast" /\ Frame("event", "shake", s).by # "broadcast"
BY DEF CoveringFrames, Frames, Frame

(* Nothing of it changes while no revision is taken. *)
LEMMA CoveringKept ==
  ASSUME UNCHANGED <<revision, basis>>
  PROVE  /\ \A s : Covers(s)' <=> Covers(s)
         /\ CoveringFrames' = CoveringFrames
BY DEF Covers, CoveringFrames, Nowhere, Snapshot

-----------------------------------------------------------------------------
(* Initially nothing has been read or sent. *)
LEMMA InitIInv == Init => IInv
<1> SUFFICES ASSUME Init PROVE IInv
  OBVIOUS
<1>1. Shape
  <2>1. basis \in Seq(Nat) /\ Len(basis) = revision + 1
    BY DEF Init
  <2>2. cast = [at |-> cast.at, snap |-> cast.snap, to |-> cast.to] /\ cast.snap \in Snapshots
    BY PlainFrames DEF Init, NoCast
  <2>3. shake \in [Conns -> Shakes]
    BY PlainFrames DEF Init, NotShaking, Shakes
  <2> QED BY <2>1, <2>2, <2>3 DEF Init, Shape, Sockets
<1>2. ListGrows
  BY DEF Init, ListGrows
<1>3. ShakesCover /\ CastCovers
  BY DEF Init, ShakesCover, HeldWell, CastCovers, NotShaking, NoCast
<1>4. FramesCover
  <2>1. <<>> \in Seq(CoveringFrames)
    OBVIOUS
  <2> QED BY <2>1 DEF Init, FramesCover
<1>5. Gone
  BY DEF Init, Gone
<1>6. AwaitedFrame
  BY DEF Init, AwaitedFrame, Casts, AtMostOne
<1> QED BY <1>1, <1>2, <1>3, <1>4, <1>5, <1>6 DEF IInv

-----------------------------------------------------------------------------
(* What a step that takes no revision has to keep. *)

(* The frames, when only covering ones are handed to a connection. *)
LEMMA FramesKept ==
  ASSUME IInv, UNCHANGED <<revision, basis>>,
         wire' \in [Conns -> Seq(CoveringFrames)], sent' \in [Conns -> Seq(CoveringFrames)]
  PROVE  FramesCover'
BY CoveringKept DEF FramesCover

LEMMA ShakesKept ==
  ASSUME IInv, UNCHANGED <<revision, basis, shake>>
  PROVE  ShakesCover'
BY CoveringKept DEF IInv, ShakesCover, HeldWell

LEMMA CastKept ==
  ASSUME IInv, UNCHANGED <<revision, basis, cast>>
  PROVE  CastCovers'
BY CoveringKept DEF IInv, CastCovers

LEMMA AwaitedKept ==
  ASSUME IInv, UNCHANGED cast, \A d \in Conns : NoneAdded(wire[d], wire'[d])
  PROVE  AwaitedFrame'
BY DEF IInv, AwaitedFrame, NoneAdded, AtMostOne, Casts

LEMMA WireKept ==
  ASSUME UNCHANGED wire
  PROVE  \A d \in Conns : NoneAdded(wire[d], wire'[d])
BY DEF NoneAdded

(* One handshake goes on, holding r. *)
LEMMA ShakeSet ==
  ASSUME IInv, UNCHANGED <<revision, basis>>,
         NEW c, NEW r \in Shakes, HeldWell(r), shake' = [shake EXCEPT ![c] = r]
  PROVE  shake' \in [Conns -> Shakes] /\ ShakesCover'
<1>1. shake' \in [Conns -> Shakes]
  BY DEF IInv, Shape
<1>2. \A d \in Conns : HeldWell(shake'[d])
  BY DEF IInv, Shape, ShakesCover
<1>3. ShakesCover'
  BY <1>2, CoveringKept DEF ShakesCover, HeldWell
<1> QED BY <1>1, <1>3

(* A handshake that is over holds nothing. *)
LEMMA ShakeOver ==
  LET r == [NotShaking EXCEPT !.at = "done"] IN r \in Shakes /\ HeldWell(r)
BY PlainFrames DEF NotShaking, Shakes, HeldWell

(* The list stays or grows. *)
LEMMA ListKept ==
  ASSUME IInv, UNCHANGED <<basis>>, content' \in Nat, content' >= content
  PROVE  ListGrows'
BY DEF IInv, Shape, ListGrows

(* All of it, for a step that leaves the publisher as it is. *)
LEMMA Kept ==
  ASSUME IInv, UNCHANGED <<revision, basis, cast, content, gone, sent>>,
         shake' \in [Conns -> Shakes], ShakesCover', socket' \in [Conns -> Sockets],
         \A d \in Conns : socket'[d] = "closed" <=> socket[d] = "closed",
         wire' \in [Conns -> Seq(CoveringFrames)], \A d \in Conns : NoneAdded(wire[d], wire'[d])
  PROVE  IInv'
<1>1. Shape'
  BY DEF IInv, Shape
<1>2. ListGrows' /\ CastCovers'
  BY ListKept, CastKept DEF IInv, Shape
<1>3. FramesCover'
  BY FramesKept DEF IInv, FramesCover
<1>4. Gone'
  BY DEF IInv, Gone
<1>5. AwaitedFrame'
  BY AwaitedKept
<1> QED BY <1>1, <1>2, <1>3, <1>4, <1>5 DEF IInv

-----------------------------------------------------------------------------
(* The steps of a connection. *)

LEMMA Failing ==
  ASSUME IInv, NEW c \in Conns, Fail(c)
  PROVE  IInv'
<1>1. <<Frame("hello_error", "server", Nowhere)>> \in Seq(CoveringFrames)
  BY PlainFrames
<1>2. /\ wire' \in [Conns -> Seq(CoveringFrames)] /\ socket' \in [Conns -> Sockets]
      /\ \A d \in Conns : socket'[d] = "closed" <=> socket[d] = "closed"
      /\ \A d \in Conns : NoneAdded(wire[d], wire'[d])
  BY <1>1, PlainFrames, ClosedTypes DEF IInv, Shape, FramesCover, Fail
<1>3. UNCHANGED <<revision, basis, cast, content, gone, sent, shake>>
  BY DEF Fail, castVars
<1> QED BY <1>2, <1>3, ShakesKept, WireKept, Kept DEF IInv, Shape

(* accept(), requests, and hello. *)
LEMMA Receiving ==
  ASSUME IInv, NEW c \in Conns,
         \/ Accept(c) \/ ReceiveHello(c) \/ ReceiveInvalid(c) \/ ReceiveRequest(c)
         \/ HandshakeTimeout(c) \/ DeferredRuns(c)
  PROVE  IInv'
<1>1. CASE Accept(c) \/ ReceiveRequest(c) \/ DeferredRuns(c)
  <2>1. UNCHANGED <<revision, basis, cast, content, gone, sent, shake, socket, wire>>
    BY <1>1 DEF Accept, ReceiveRequest, DeferredRuns, castVars
  <2> QED BY <2>1, ShakesKept, WireKept, Kept DEF IInv, Shape, FramesCover
<1>2. CASE ReceiveHello(c)
  <2> DEFINE r == [at |-> "reading", snap |-> Snapshot(revision, 0)]
  <2>1. r \in Shakes /\ HeldWell(r)
    BY DEF IInv, Shape, Shakes, Snapshots, Snapshot, HeldWell
  <2>2. /\ UNCHANGED <<revision, basis, cast, content, gone, sent, socket, wire>>
        /\ shake' = [shake EXCEPT ![c] = r]
    BY <1>2 DEF ReceiveHello, castVars
  <2>3. shake' \in [Conns -> Shakes] /\ ShakesCover'
    BY <2>1, <2>2, ShakeSet
  <2> QED BY <2>2, <2>3, WireKept, Kept DEF IInv, Shape, FramesCover
<1>3. CASE ReceiveInvalid(c) \/ HandshakeTimeout(c)
  BY <1>3, Failing DEF ReceiveInvalid, HandshakeTimeout
<1> QED BY <1>1, <1>2, <1>3

(* The snapshot of a handshake is read, or cannot be. *)
LEMMA ReadingSnapshot ==
  ASSUME IInv, NEW c \in Conns, ReadSnapshot(c) \/ ReadFails(c)
  PROVE  IInv'
<1>1. CASE ReadSnapshot(c)
  <2> DEFINE r == [at |-> IF shake[c].at = "reading" THEN "read" ELSE "catchRead",
                   snap |-> Snapshot(shake[c].snap.rev, content)]
  <2>1. shake[c] \in Shakes /\ HeldWell(shake[c]) /\ shake[c].at \in {"reading", "catchReading"}
    BY <1>1 DEF IInv, Shape, ShakesCover, ReadSnapshot
  <2>2. shake[c].snap.rev \in 0..revision
    BY <2>1 DEF HeldWell
  <2>3. Covers(Snapshot(shake[c].snap.rev, content))
    BY <2>2 DEF IInv, Shape, ListGrows, Covers, Snapshot
  <2>4. r \in Shakes /\ HeldWell(r)
    BY <2>2, <2>3 DEF IInv, Shape, Shakes, Snapshots, Snapshot, HeldWell
  <2>5. UNCHANGED <<revision, basis, cast, content, gone, sent, socket, wire>>
    BY <1>1 DEF ReadSnapshot, castVars
  <2>6. shake' = [shake EXCEPT ![c] = r]
    BY <1>1 DEF ReadSnapshot
  <2>7. shake' \in [Conns -> Shakes] /\ ShakesCover'
    BY <2>4, <2>5, <2>6, ShakeSet
  <2> QED BY <2>5, <2>7, WireKept, Kept DEF IInv, Shape, FramesCover
<1>2. CASE ReadFails(c)
  <2>1. UNCHANGED <<revision, basis, cast, content, gone, sent>>
    BY <1>2 DEF ReadFails, castVars
  <2>2. shake' \in [Conns -> Shakes] /\ ShakesCover'
    BY <1>2, <2>1, ShakeSet, ShakeOver DEF ReadFails
  <2>3. /\ wire' \in [Conns -> Seq(CoveringFrames)] /\ socket' \in [Conns -> Sockets]
        /\ \A d \in Conns : socket'[d] = "closed" <=> socket[d] = "closed"
        /\ \A d \in Conns : NoneAdded(wire[d], wire'[d])
    <3>1. <<Frame("hello_error", "server", Nowhere)>> \in Seq(CoveringFrames)
      BY PlainFrames
    <3>2. wire \in [Conns -> Seq(CoveringFrames)] /\ socket \in [Conns -> Sockets]
      BY DEF IInv, Shape, FramesCover
    <3>3. CASE Terminal(c)
      BY <1>2, <3>2, <3>3, WireKept DEF ReadFails
    <3>4. CASE ~Terminal(c)
      BY <1>2, <3>1, <3>2, <3>4, PlainFrames, ClosedTypes DEF ReadFails
    <3> QED BY <3>3, <3>4
  <2> QED BY <2>1, <2>2, <2>3, Kept
<1> QED BY <1>1, <1>2

(* A snapshot goes out in a hello or in the event that catches up. *)
LEMMA SendingSnapshot ==
  ASSUME IInv, NEW c \in Conns, SendHello(c) \/ SendCatchUp(c)
  PROVE  IInv'
<1>1. UNCHANGED <<revision, basis, cast, content, gone, sent>>
  BY DEF SendHello, SendCatchUp, castVars
<1>2. /\ wire \in [Conns -> Seq(CoveringFrames)] /\ socket \in [Conns -> Sockets]
      /\ shake[c] \in Shakes /\ shake[c].snap \in Snapshots
  BY DEF IInv, Shape, FramesCover, Shakes
<1>3. Covers(shake[c].snap)
  BY DEF IInv, ShakesCover, HeldWell, SendHello, SendCatchUp
<1>4. CASE UNCHANGED <<wire, socket>> /\ shake' = [shake EXCEPT ![c] = [NotShaking EXCEPT !.at = "done"]]
  <2>1. shake' \in [Conns -> Shakes] /\ ShakesCover'
    BY <1>1, <1>4, ShakeSet, ShakeOver
  <2> QED BY <1>1, <1>2, <1>4, <2>1, WireKept, Kept
<1>5. CASE \/ /\ Send(c, Frame("hello", "shake", shake[c].snap))
               /\ shake' = [shake EXCEPT ![c].at = "sending"]
            \/ /\ Send(c, Frame("event", "shake", shake[c].snap))
               /\ shake' = [shake EXCEPT ![c].at = "catchSending"]
  <2>1. PICK a \in {"sending", "catchSending"} : shake' = [shake EXCEPT ![c].at = a]
    BY <1>5
  <2> DEFINE r == [shake[c] EXCEPT !.at = a]
  <2>2. r \in Shakes /\ HeldWell(r) /\ shake' = [shake EXCEPT ![c] = r]
    BY <1>2, <2>1 DEF Shakes, HeldWell
  <2>3. shake' \in [Conns -> Shakes] /\ ShakesCover'
    BY <1>1, <2>2, ShakeSet
  <2>4. /\ wire' \in [Conns -> Seq(CoveringFrames)] /\ socket' \in [Conns -> Sockets]
        /\ \A d \in Conns : socket'[d] = "closed" <=> socket[d] = "closed"
        /\ \A d \in Conns : NoneAdded(wire[d], wire'[d])
    BY <1>2, <1>3, <1>5, SnapshotFrames, SendTypes
  <2> QED BY <1>1, <2>3, <2>4, Kept
<1> QED BY <1>4, <1>5 DEF SendHello, SendCatchUp

(* A request changes the list, and is answered. *)
LEMMA Requesting ==
  ASSUME IInv, NEW c \in Conns, RequestChanges(c) \/ RequestAnswers(c) \/ Left(c)
  PROVE  IInv'
<1>1. CASE RequestChanges(c) \/ Left(c)
  <2>1. UNCHANGED <<revision, basis, cast, gone, sent, shake, socket, wire>>
    BY <1>1 DEF RequestChanges, Left
  <2>2. content' \in Nat /\ content' >= content
    BY <1>1 DEF RequestChanges, Left, IInv, Shape
  <2>3. Shape' /\ Gone'
    BY <2>1, <2>2 DEF IInv, Shape, Gone
  <2>4. ListGrows' /\ ShakesCover' /\ CastCovers'
    BY <2>1, <2>2, ListKept, ShakesKept, CastKept
  <2>5. FramesCover'
    BY <2>1, FramesKept DEF IInv, FramesCover
  <2>6. AwaitedFrame'
    BY <2>1, WireKept, AwaitedKept
  <2> QED BY <2>3, <2>4, <2>5, <2>6 DEF IInv
<1>2. CASE RequestAnswers(c)
  <2>1. UNCHANGED <<revision, basis, cast, content, gone, sent, shake>>
    BY <1>2 DEF RequestAnswers
  <2>2. wire \in [Conns -> Seq(CoveringFrames)] /\ socket \in [Conns -> Sockets]
    BY DEF IInv, Shape, FramesCover
  <2>3. UNCHANGED <<wire, socket>> \/ Send(c, Frame("response", "request", Nowhere))
    BY <1>2 DEF RequestAnswers
  <2>4. /\ wire' \in [Conns -> Seq(CoveringFrames)] /\ socket' \in [Conns -> Sockets]
        /\ \A d \in Conns : socket'[d] = "closed" <=> socket[d] = "closed"
        /\ \A d \in Conns : NoneAdded(wire[d], wire'[d])
    BY <2>2, <2>3, PlainFrames, SendTypes, WireKept
  <2> QED BY <2>1, <2>4, ShakesKept, WireKept, Kept DEF IInv, Shape
<1> QED BY <1>1, <1>2

-----------------------------------------------------------------------------
(* The broadcasts. *)

(* A revision is taken: what covered its revision still does. *)
LEMMA RevisionTaken ==
  ASSUME IInv, revision' = revision + 1, basis' = Append(basis, content)
  PROVE  /\ \A s \in Snapshots : Covers(s) => Covers(s)'
         /\ Seq(CoveringFrames) \subseteq Seq(CoveringFrames')
<1>1. basis \in Seq(Nat) /\ Len(basis) = revision + 1 /\ revision \in Nat /\ content \in Nat
  BY DEF IInv, Shape
<1>2. \A i \in 1..Len(basis) : basis'[i] = basis[i]
  BY <1>1
<1>3. ASSUME NEW s \in Snapshots, Covers(s) PROVE Covers(s)'
  <2>1. CASE s = Nowhere
    BY <2>1 DEF Covers, Nowhere, Snapshot
  <2>2. CASE s.rev \in 0..revision /\ s.content >= basis[s.rev + 1]
    <3>1. s.rev + 1 \in 1..Len(basis) /\ s.rev \in 0..revision'
      BY <1>1, <2>2
    <3>2. basis'[s.rev + 1] = basis[s.rev + 1]
      BY <1>2, <3>1
    <3> QED BY <2>2, <3>1, <3>2 DEF Covers
  <2> QED BY <1>3, <2>1, <2>2 DEF Covers
<1>4. CoveringFrames \subseteq CoveringFrames'
  BY <1>3 DEF CoveringFrames, Frames
<1>5. Seq(CoveringFrames) \subseteq Seq(CoveringFrames')
  BY <1>4
<1> QED BY <1>3, <1>5
(* No frame is on its way unless a broadcast waits for it. *)
LEMMA NoneAwaited ==
  ASSUME IInv, cast.at # "waiting", UNCHANGED wire
  PROVE  AwaitedFrame'
BY DEF IInv, AwaitedFrame, AtMostOne, Casts

LEMMA StartingBroadcast ==
  ASSUME IInv, StartBroadcast
  PROVE  IInv'
<1>1. UNCHANGED <<gone, sent, shake, socket, wire, content>>
  BY DEF StartBroadcast, connVars
<1>2. CASE UNCHANGED <<revision, cast, basis>>
  BY <1>1, <1>2, ShakesKept, WireKept, Kept DEF IInv, Shape, FramesCover
<1>3. CASE /\ revision' = revision + 1 /\ basis' = Append(basis, content)
           /\ cast' = [at |-> "reading", snap |-> Snapshot(revision + 1, 0), to |-> SetToSeq(Ready)]
  <2>1. /\ revision \in Nat /\ content \in Nat /\ basis \in Seq(Nat) /\ Len(basis) = revision + 1
        /\ shake \in [Conns -> Shakes]
    BY DEF IInv, Shape
  <2>2. /\ \A s \in Snapshots : Covers(s) => Covers(s)'
        /\ Seq(CoveringFrames) \subseteq Seq(CoveringFrames')
    BY <1>3, RevisionTaken
  <2>3. revision' \in Nat /\ basis' \in Seq(Nat) /\ Len(basis') = revision' + 1
    BY <1>3, <2>1
  <2>4. cast'.at = "reading" /\ cast'.snap = Snapshot(revision', 0) /\ cast'.snap \in Snapshots
    BY <1>3, <2>1 DEF Snapshot, Snapshots
  <2>5. cast' = [at |-> cast'.at, snap |-> cast'.snap, to |-> cast'.to]
    BY <1>3
  <2>6. Shape'
    BY <1>1, <2>3, <2>4, <2>5 DEF IInv, Shape
  <2>7. ListGrows'
    BY <1>1, <1>3, <2>1 DEF IInv, ListGrows
  <2>8. ShakesCover'
    <3> SUFFICES ASSUME NEW c \in Conns PROVE HeldWell(shake[c])'
      BY <1>1 DEF ShakesCover
    <3>1. HeldWell(shake[c]) /\ shake[c].snap \in Snapshots
      BY <2>1 DEF IInv, ShakesCover, Shakes
    <3> QED BY <1>1, <1>3, <2>1, <2>2, <3>1 DEF HeldWell
  <2>9. CastCovers'
    BY <2>3, <2>4 DEF CastCovers, Snapshot
  <2>10. FramesCover'
    <3>1. wire \in [Conns -> Seq(CoveringFrames)] /\ sent \in [Conns -> Seq(CoveringFrames)]
      BY DEF IInv, FramesCover
    <3>2. wire \in [Conns -> Seq(CoveringFrames')] /\ sent \in [Conns -> Seq(CoveringFrames')]
      BY <2>2, <3>1
    <3> QED BY <1>1, <3>2 DEF FramesCover
  <2>11. Gone'
    BY <1>1 DEF IInv, Gone
  <2>12. AwaitedFrame'
    BY <1>1, NoneAwaited DEF StartBroadcast
  <2> QED BY <2>6, <2>7, <2>8, <2>9, <2>10, <2>11, <2>12 DEF IInv
<1> QED BY <1>2, <1>3 DEF StartBroadcast

(* The broadcast goes on in a state x of its own. *)
LEMMA CastSet ==
  ASSUME IInv, UNCHANGED <<revision, basis, content>>,
         cast' = [at |-> cast'.at, snap |-> cast'.snap, to |-> cast'.to], cast'.snap \in Snapshots,
         cast'.at # "reading", cast'.at \in {"sending", "waiting"} => Covers(cast'.snap),
         shake' \in [Conns -> Shakes], ShakesCover', socket' \in [Conns -> Sockets],
         gone' \in [Conns -> BOOLEAN], Gone', AwaitedFrame',
         wire' \in [Conns -> Seq(CoveringFrames)], sent' \in [Conns -> Seq(CoveringFrames)]
  PROVE  IInv'
<1>1. Shape'
  BY DEF IInv, Shape
<1>2. ListGrows' /\ FramesCover'
  BY ListKept, FramesKept DEF IInv, Shape
<1>3. CastCovers'
  BY CoveringKept DEF CastCovers
<1> QED BY <1>1, <1>2, <1>3 DEF IInv

(* The next connection is served, or the broadcast is over. *)
LEMMA ServedCovers ==
  ASSUME IInv, cast.at \in {"sending", "waiting"}
  PROVE  /\ Served = [at |-> Served.at, snap |-> Served.snap, to |-> Served.to]
         /\ Served.snap \in Snapshots /\ Served.at # "reading"
         /\ Served.at \in {"sending", "waiting"} => Covers(Served.snap)
<1>1. CASE Len(cast.to) = 1
  BY <1>1, PlainFrames DEF Served, NoCast
<1>2. CASE Len(cast.to) # 1
  <2>1. Served = [at |-> "sending", snap |-> cast.snap, to |-> Tail(cast.to)]
    BY <1>2 DEF Served, IInv, Shape
  <2> QED BY <2>1 DEF IInv, Shape, CastCovers
<1> QED BY <1>1, <1>2

LEMMA Broadcasting ==
  ASSUME IInv, ReadBroadcast \/ BroadcastFails \/ SendBroadcast
  PROVE  IInv'
<1>1. /\ wire \in [Conns -> Seq(CoveringFrames)] /\ sent \in [Conns -> Seq(CoveringFrames)]
      /\ socket \in [Conns -> Sockets] /\ shake \in [Conns -> Shakes] /\ gone \in [Conns -> BOOLEAN]
      /\ cast = [at |-> cast.at, snap |-> cast.snap, to |-> cast.to] /\ cast.snap \in Snapshots
      /\ content \in Nat /\ revision \in Nat
  BY DEF IInv, Shape, FramesCover
<1>2. CASE ReadBroadcast
  <2>1. UNCHANGED <<revision, basis, content, gone, sent, shake, socket, wire>>
    BY <1>2 DEF ReadBroadcast, connVars
  <2>2. cast.snap.rev \in 0..revision
    BY <1>2 DEF IInv, CastCovers, ReadBroadcast
  <2>3. Snapshot(cast.snap.rev, content) \in Snapshots /\ Covers(Snapshot(cast.snap.rev, content))
    BY <1>1, <2>2 DEF IInv, Shape, ListGrows, Covers, Snapshot, Snapshots
  <2>4. cast' = [at |-> "sending", snap |-> Snapshot(cast.snap.rev, content), to |-> cast.to]
    BY <1>1, <1>2 DEF ReadBroadcast
  <2>5. ShakesCover' /\ Gone'
    BY <2>1, ShakesKept DEF IInv, Gone
  <2>6. AwaitedFrame'
    BY <1>2, <2>1, NoneAwaited DEF ReadBroadcast
  <2> QED BY <1>1, <2>1, <2>3, <2>4, <2>5, <2>6, CastSet
<1>3. CASE BroadcastFails
  <2>1. UNCHANGED <<revision, basis, content, gone, sent, shake, socket, wire>> /\ cast' = NoCast
    BY <1>3 DEF BroadcastFails, connVars
  <2>2. ShakesCover' /\ Gone'
    BY <2>1, ShakesKept DEF IInv, Gone
  <2>3. AwaitedFrame'
    BY <1>3, <2>1, NoneAwaited DEF BroadcastFails
  <2> QED BY <1>1, <2>1, <2>2, <2>3, CastSet, PlainFrames DEF NoCast
<1>4. CASE SendBroadcast
  <2>1. UNCHANGED <<revision, basis, content, gone, sent, shake>> /\ cast.at = "sending"
    BY <1>4 DEF SendBroadcast
  <2>2. ShakesCover'
    BY <2>1, ShakesKept
  <2>3. CASE cast' = Served /\ UNCHANGED <<wire, socket>>
    <3>1. Gone'
      BY <2>1, <2>3 DEF IInv, Gone
    <3>2. AwaitedFrame'
      BY <2>1, <2>3, NoneAwaited
    <3> QED BY <1>1, <2>1, <2>2, <2>3, <3>1, <3>2, ServedCovers, CastSet
  <2>4. CASE /\ cast' = [cast EXCEPT !.at = "waiting"]
             /\ Send(Head(cast.to), Frame("event", "broadcast", cast.snap))
    <3>1. Covers(cast.snap)
      BY <2>1 DEF IInv, CastCovers
    <3>2. /\ wire' \in [Conns -> Seq(CoveringFrames)] /\ socket' \in [Conns -> Sockets]
          /\ \A d \in Conns : socket'[d] = "closed" <=> socket[d] = "closed"
          /\ \A d \in Conns : \/ NoneAdded(wire[d], wire'[d])
                              \/ /\ d = Head(cast.to)
                                 /\ wire'[d] = Append(wire[d], Frame("event", "broadcast", cast.snap))
      <4>0. PICK e : e = Head(cast.to)
        OBVIOUS
      <4>1. PICK f \in CoveringFrames : f = Frame("event", "broadcast", cast.snap) /\ Send(e, f)
        BY <1>1, <2>4, <3>1, <4>0, SnapshotFrames
      <4>2. /\ wire' \in [Conns -> Seq(CoveringFrames)] /\ socket' \in [Conns -> Sockets]
            /\ \A d \in Conns : socket'[d] = "closed" <=> socket[d] = "closed"
            /\ \A d \in Conns : NoneAdded(wire[d], wire'[d]) \/ (d = e /\ wire'[d] = Append(wire[d], f))
        <5>1. wire \in [Conns -> Seq(CoveringFrames)] /\ socket \in [Conns -> Sockets] /\ Send(e, f)
          BY <1>1, <4>1
        <5> QED BY <5>1, SendTypes
      <4> QED BY <4>0, <4>1, <4>2
    <3>3. Gone'
      BY <2>1, <3>2 DEF IInv, Gone
    <3>4. cast' = [at |-> "waiting", snap |-> cast.snap, to |-> cast.to]
      BY <1>1, <2>4
    <3>5. AwaitedFrame'
      <4> SUFFICES ASSUME NEW d \in Conns
                   PROVE  /\ AtMostOne(wire'[d])
                          /\ Casts(wire'[d]) # {} => cast'.at = "waiting" /\ d = Head(cast'.to)
        BY DEF AwaitedFrame, AtMostOne, Casts
      <4>1. Casts(wire[d]) = {} /\ AtMostOne(wire[d]) /\ wire[d] \in Seq(CoveringFrames)
        BY <1>1, <2>1 DEF IInv, AwaitedFrame
      <4>2. CASE NoneAdded(wire[d], wire'[d])
        BY <4>1, <4>2 DEF NoneAdded
      <4>3. CASE d = Head(cast.to) /\ wire'[d] = Append(wire[d], Frame("event", "broadcast", cast.snap))
        <5>1. Casts(wire'[d]) \subseteq {Len(wire[d]) + 1}
          BY <4>1, <4>3 DEF Casts
        <5> QED BY <3>4, <4>3, <5>1 DEF AtMostOne
      <4> QED BY <3>2, <4>2, <4>3
    <3> QED BY <1>1, <2>1, <2>2, <3>1, <3>2, <3>3, <3>4, <3>5, CastSet
  <2> QED BY <1>4, <2>3, <2>4 DEF SendBroadcast
<1> QED BY <1>2, <1>3, <1>4

-----------------------------------------------------------------------------
(* The end of a connection. *)

(* The broadcast goes on without c, or is not concerned: every frame of it
   that is still on its way is one the broadcast waits for. *)
LEMMA CastGoesOn ==
  ASSUME IInv, \/ cast.at = "waiting" /\ cast' = Served
               \/ cast' = cast
  PROVE  /\ cast' = [at |-> cast'.at, snap |-> cast'.snap, to |-> cast'.to]
         /\ cast'.snap \in Snapshots
         /\ cast'.at = "reading" => cast'.snap.rev \in 0..revision
         /\ cast'.at \in {"sending", "waiting"} => Covers(cast'.snap)
<1>1. CASE cast' = cast
  BY <1>1 DEF IInv, Shape, CastCovers
<1>2. CASE cast.at = "waiting" /\ cast' = Served
  BY <1>2, ServedCovers
<1> QED BY <1>1, <1>2

(* IInv, put together for a step that takes no revision. *)
LEMMA Assembled ==
  ASSUME IInv, UNCHANGED <<revision, basis, content>>,
         (cast.at = "waiting" /\ cast' = Served) \/ cast' = cast,
         shake' \in [Conns -> Shakes], ShakesCover', socket' \in [Conns -> Sockets],
         gone' \in [Conns -> BOOLEAN], Gone', AwaitedFrame',
         wire' \in [Conns -> Seq(CoveringFrames)], sent' \in [Conns -> Seq(CoveringFrames)]
  PROVE  IInv'
<1>1. Shape'
  BY CastGoesOn DEF IInv, Shape
<1>2. ListGrows' /\ FramesCover'
  BY ListKept, FramesKept DEF IInv, Shape
<1>3. CastCovers'
  BY CastGoesOn, CoveringKept DEF CastCovers
<1> QED BY <1>1, <1>2, <1>3 DEF IInv

(* The broadcast waited for c, or had no frame on its way to c: nothing of
   it is on its way once c has none. *)
LEMMA AwaitedGone ==
  ASSUME IInv, NEW c \in Conns, Casts(wire'[c]) = {},
         \A d \in Conns \ {c} : wire'[d] = wire[d],
         \/ cast' = cast
         \/ cast.at = "waiting" /\ c = Head(cast.to)
  PROVE  AwaitedFrame'
<1> SUFFICES ASSUME NEW d \in Conns
             PROVE  /\ AtMostOne(wire'[d])
                    /\ Casts(wire'[d]) # {} => cast'.at = "waiting" /\ d = Head(cast'.to)
  BY DEF AwaitedFrame, AtMostOne, Casts
<1>1. CASE d = c
  BY <1>1 DEF AtMostOne
<1>2. CASE d # c
  <2>1. wire'[d] = wire[d]
    BY <1>2
  <2>2. AtMostOne(wire[d]) /\ (Casts(wire[d]) # {} => cast.at = "waiting" /\ d = Head(cast.to))
    BY DEF IInv, AwaitedFrame
  <2> QED BY <1>2, <2>1, <2>2
<1> QED BY <1>1, <1>2

LEMMA Disconnecting ==
  ASSUME IInv, NEW c \in Conns, PeerCloses(c) \/ CloseDone(c)
  PROVE  IInv'
<1>1. Disconnected(c)
  BY DEF PeerCloses, CloseDone
<1>2. /\ wire \in [Conns -> Seq(CoveringFrames)] /\ sent \in [Conns -> Seq(CoveringFrames)]
      /\ socket \in [Conns -> Sockets] /\ gone \in [Conns -> BOOLEAN] /\ shake \in [Conns -> Shakes]
  BY DEF IInv, Shape, FramesCover
<1>3. UNCHANGED <<revision, basis, content, sent>>
  BY <1>1 DEF Disconnected
<1>4. wire' = [wire EXCEPT ![c] = <<>>] /\ wire' \in [Conns -> Seq(CoveringFrames)]
  <2>1. <<>> \in Seq(CoveringFrames)
    OBVIOUS
  <2> QED BY <1>1, <1>2, <2>1 DEF Disconnected
<1>5. socket' \in [Conns -> Sockets] /\ gone' \in [Conns -> BOOLEAN] /\ Gone'
  BY <1>1, <1>2 DEF Disconnected, IInv, Gone, Sockets
<1>6. shake' \in [Conns -> Shakes] /\ ShakesCover'
  <2>1. CASE shake' = shake
    BY <1>2, <1>3, <2>1, ShakesKept
  <2>2. CASE shake' = [shake EXCEPT ![c] = [NotShaking EXCEPT !.at = "done"]]
    BY <1>3, <2>2, ShakeSet, ShakeOver
  <2> QED BY <1>1, <2>1, <2>2 DEF Disconnected
<1>7. \/ cast' = cast
      \/ cast.at = "waiting" /\ c = Head(cast.to) /\ cast' = Served
  BY <1>1 DEF Disconnected
<1>8. AwaitedFrame'
  <2>1. Casts(wire'[c]) = {} /\ \A d \in Conns \ {c} : wire'[d] = wire[d]
    BY <1>2, <1>4 DEF Casts
  <2> QED BY <1>7, <2>1, AwaitedGone
<1> QED BY <1>2, <1>3, <1>4, <1>5, <1>6, <1>7, <1>8, Assembled

(* A frame is written. *)
LEMMA Writing ==
  ASSUME IInv, NEW c \in Conns, Write(c)
  PROVE  IInv'
<1> DEFINE frame == Head(wire[c])
<1>1. /\ wire \in [Conns -> Seq(CoveringFrames)] /\ sent \in [Conns -> Seq(CoveringFrames)]
      /\ socket \in [Conns -> Sockets] /\ gone \in [Conns -> BOOLEAN] /\ shake \in [Conns -> Shakes]
      /\ revision \in Nat
  BY DEF IInv, Shape, FramesCover
<1>2. UNCHANGED <<revision, basis, content, gone, socket>>
  BY DEF Write
<1>3. wire[c] \in Seq(CoveringFrames) /\ wire[c] # <<>> /\ wire' = [wire EXCEPT ![c] = Tail(@)]
  BY <1>1 DEF Write
<1>4. Tail(wire[c]) \in Seq(CoveringFrames) /\ frame \in CoveringFrames
  BY <1>3
<1>5. wire' \in [Conns -> Seq(CoveringFrames)]
  BY <1>1, <1>3, <1>4
<1>6. sent' \in [Conns -> Seq(CoveringFrames)]
  <2>1. sent' = [sent EXCEPT ![c] = Append(@, frame)]
    BY DEF Write
  <2>2. \A s \in Seq(CoveringFrames) : Append(s, frame) \in Seq(CoveringFrames)
    BY <1>4
  <2> QED BY <1>1, <2>1, <2>2
<1>7. shake' \in [Conns -> Shakes] /\ ShakesCover'
  <2> DEFINE r == [at |-> "catchReading", snap |-> Snapshot(revision, 0)]
  <2>1. r \in Shakes /\ HeldWell(r)
    BY <1>1 DEF Shakes, Snapshots, Snapshot, HeldWell
  <2>2. CASE shake' = shake
    BY <1>1, <1>2, <2>2, ShakesKept
  <2>3. CASE shake' = [shake EXCEPT ![c] = [NotShaking EXCEPT !.at = "done"]]
    BY <1>2, <2>3, ShakeSet, ShakeOver
  <2>4. CASE shake' = [shake EXCEPT ![c] = r]
    BY <1>2, <2>1, <2>4, ShakeSet
  <2> QED BY <2>2, <2>3, <2>4 DEF Write, HelloSent
<1>8. Gone'
  BY <1>2 DEF IInv, Gone
<1>9. frame.by = "broadcast" => cast.at = "waiting" /\ c = Head(cast.to) /\ Casts(Tail(wire[c])) = {}
  <2>1. frame.by = "broadcast" => 1 \in Casts(wire[c])
    BY <1>3 DEF Casts
  <2>2. AtMostOne(wire[c]) /\ (Casts(wire[c]) # {} => cast.at = "waiting" /\ c = Head(cast.to))
    BY DEF IInv, AwaitedFrame
  <2> QED BY <1>3, <2>1, <2>2, TailAdds
<1>10. cast' = IF frame.by = "broadcast" THEN Served ELSE cast
  BY DEF Write
<1>11. AwaitedFrame'
  <2>1. wire'[c] = Tail(wire[c]) /\ \A d \in Conns \ {c} : wire'[d] = wire[d]
    BY <1>1, <1>3
  <2>2. CASE frame.by = "broadcast"
    BY <1>9, <2>1, <2>2, AwaitedGone
  <2>3. CASE frame.by # "broadcast"
    <3>1. \A d \in Conns : NoneAdded(wire[d], wire'[d])
      BY <1>3, <2>1, TailAdds DEF NoneAdded
    <3> QED BY <1>10, <2>3, <3>1, AwaitedKept
  <2> QED BY <2>2, <2>3
<1> QED BY <1>2, <1>5, <1>6, <1>7, <1>8, <1>9, <1>10, <1>11, <1>1, Assembled

(* close() of the server. *)
LEMMA ClosingServer ==
  ASSUME IInv, Close
  PROVE  IInv'
<1>1. UNCHANGED <<revision, basis, cast, content, gone, sent, shake>>
  BY DEF Close, castVars
<1>2. wire \in [Conns -> Seq(CoveringFrames)] /\ socket \in [Conns -> Sockets]
  BY DEF IInv, Shape, FramesCover
<1>3. socket' \in [Conns -> Sockets] /\ \A d \in Conns : socket'[d] = "closed" <=> socket[d] = "closed"
  BY <1>2 DEF Close, Sockets
<1>4. \A d \in Conns : \/ wire'[d] = wire[d]
                       \/ wire[d] # <<>> /\ wire'[d] = <<Head(wire[d])>>
  BY DEF Close
<1>5. \A d \in Conns : NoneAdded(wire[d], wire'[d]) /\ wire'[d] \in Seq(CoveringFrames)
  <2> SUFFICES ASSUME NEW d \in Conns
               PROVE  NoneAdded(wire[d], wire'[d]) /\ wire'[d] \in Seq(CoveringFrames)
    OBVIOUS
  <2>1. wire[d] \in Seq(CoveringFrames)
    BY <1>2
  <2>2. CASE wire'[d] = wire[d]
    BY <2>1, <2>2 DEF NoneAdded
  <2>3. CASE wire[d] # <<>> /\ wire'[d] = <<Head(wire[d])>>
    BY <2>1, <2>3, HeadAdds
  <2> QED BY <1>4, <2>2, <2>3
<1>6. wire' = [d \in Conns |-> wire'[d]]
  BY DEF Close
<1>7. wire' \in [Conns -> Seq(CoveringFrames)]
  BY <1>5, <1>6
<1> QED BY <1>1, <1>3, <1>5, <1>7, ShakesKept, Kept DEF IInv, Shape

-----------------------------------------------------------------------------
(* The invariant is inductive. *)
LEMMA NextIInv == IInv /\ [Next]_vars => IInv'
<1> SUFFICES ASSUME IInv, [Next]_vars PROVE IInv'
  OBVIOUS
<1>1. CASE UNCHANGED vars
  <2>1. UNCHANGED <<revision, basis, cast, content, gone, sent, shake, socket, wire>>
    BY <1>1 DEF vars, connVars, castVars
  <2> QED BY <2>1, ShakesKept, WireKept, Kept DEF IInv, Shape, FramesCover
<1>2. ASSUME NEW c \in Conns,
             Server(c) \/ Environment(c) \/ Write(c) \/ HandshakeTimeout(c) \/ CloseDone(c)
      PROVE  IInv'
  BY <1>2, Receiving, ReadingSnapshot, SendingSnapshot, Requesting, Writing, Disconnecting
     DEF Server, Environment
<1>3. CASE Publisher \/ BroadcastFails
  BY <1>3, StartingBroadcast, Broadcasting DEF Publisher
<1>4. CASE Close
  BY <1>4, ClosingServer
<1> QED BY <1>1, <1>2, <1>3, <1>4 DEF Next

(* The invariant holds in every reachable state. *)
THEOREM Invariance == Spec => []IInv
<1>1. Init => IInv
  BY InitIInv
<1>2. IInv /\ [Next]_vars => IInv'
  BY NextIInv
<1> QED BY <1>1, <1>2, PTL DEF Spec

(* What a client reads under a revision has every change made before that
   revision was taken, for any interleaving of handshakes, broadcasts and
   requests (snapshots.ts, get and performBroadcast take the revision before
   they read the list). *)
THEOREM SnapshotsUpToDate == Spec => []SnapshotsCoverRevision
<1>1. IInv => SnapshotsCoverRevision
  <2> SUFFICES ASSUME IInv, NEW c \in Conns, NEW i \in DOMAIN sent[c], sent[c][i].snap # Nowhere
               PROVE  sent[c][i].snap.content >= basis[sent[c][i].snap.rev + 1]
    BY DEF SnapshotsCoverRevision
  <2>1. sent[c] \in Seq(CoveringFrames)
    BY DEF IInv, FramesCover
  <2>2. sent[c][i] \in CoveringFrames
    BY <2>1
  <2> QED BY <2>2 DEF CoveringFrames, Covers
<1> QED BY <1>1, Invariance, PTL

-----------------------------------------------------------------------------
(* Types. *)

(* A list of all members of a finite set. *)
LEMMA ListOfSet ==
  ASSUME NEW S, IsFiniteSet(S)
  PROVE  /\ SetToSeq(S) \in Seq(S) /\ Range(SetToSeq(S)) = S
         /\ S # {} => SetToSeq(S) # <<>>
<1> DEFINE n == Cardinality(S)
           f == SetToSeq(S)
<1>1. n \in Nat /\ ExistsBijection(1..n, S)
  BY FS_CardinalityType
<1>2. \E g \in [1..n -> S] : IsInjective(g)
  BY <1>1 DEF ExistsBijection, Bijection, Injection
<1>3. f \in [1..n -> S] /\ IsInjective(f)
  BY <1>2 DEF SetToSeq
<1> HIDE DEF f
<1>4. f \in Injection(1..n, S)
  BY <1>3 DEF Injection
<1>5. IsFiniteSet(1..n) /\ Cardinality(1..n) = n
  BY <1>1, FS_Interval
<1>6. f \in Surjection(1..n, S)
  BY <1>4, <1>5, FS_Injection
<1>7. \A x \in S : \E i \in 1..n : f[i] = x
  BY <1>6 DEF Surjection
<1>8. Range(f) = S
  BY <1>3, <1>7 DEF Range
<1>9. f \in Seq(S)
  BY <1>1, <1>3
<1>10. ASSUME S # {} PROVE f # <<>>
  BY <1>8, <1>10 DEF Range
<1> QED BY <1>8, <1>9, <1>10 DEF f

(* What close() leaves of the frames w: the one being written, and the final
   frames. *)
Cut(w, final) == SubSeq(w, 1, IF w = <<>> THEN 0 ELSE 1) \o final

LEMMA CutFrames ==
  ASSUME NEW S, NEW w \in Seq(S), NEW final \in Seq(S), Len(final) <= 1
  PROVE  /\ Cut(w, final) \in Seq(S) /\ Len(Cut(w, final)) <= 2
         /\ w = <<>> => Cut(w, final) = final
         /\ w # <<>> => /\ Len(Cut(w, final)) = 1 + Len(final) /\ Cut(w, final)[1] = w[1]
                        /\ Len(final) = 1 => Cut(w, final)[2] = final[1]
<1> DEFINE h == SubSeq(w, 1, IF w = <<>> THEN 0 ELSE 1)
<1>1. /\ h \in Seq(S) /\ Len(h) = IF w = <<>> THEN 0 ELSE 1
      /\ w # <<>> => h[1] = w[1]
  OBVIOUS
<1>2. w = <<>> => h = <<>>
  BY <1>1
<1> HIDE DEF h
<1>3. h \o final \in Seq(S) /\ Len(h \o final) = Len(h) + Len(final)
  <2>1. h \in Seq(S) /\ final \in Seq(S)
    BY <1>1
  <2>2. h \o final \in Seq(S)
    BY <2>1
  <2>3. Len(h \o final) = Len(h) + Len(final)
    BY <2>1
  <2> QED BY <2>2, <2>3
<1>4. \A i \in 1..Len(h) + Len(final) :
        (h \o final)[i] = IF i <= Len(h) THEN h[i] ELSE final[i - Len(h)]
  BY <1>1
<1>5. Cut(w, final) = h \o final
  BY DEF Cut, h
<1>6. w = <<>> => h \o final = final
  BY <1>2
<1>7. Len(final) \in Nat
  OBVIOUS
<1> QED BY <1>1, <1>3, <1>4, <1>5, <1>6, <1>7

(* The connections that have been accepted, finitely many at any time. *)
Accepted == {c \in Conns : stage[c] # "none"}

StageNames == {"none", "awaitingHello", "handshaking", "ready", "closing", "closed"}
RequestNames == {"none", "deferred", "running", "changed"}
Bounded(w, o) == Len(w) <= IF o = "open" THEN MaxPending ELSE 2
TypeInv ==
  /\ stage \in [Conns -> StageNames] /\ IsFiniteSet(Accepted)
  /\ complete \in [Conns -> BOOLEAN] /\ leaving \in [Conns -> BOOLEAN]
  /\ request \in [Conns -> RequestNames]
  /\ \A c \in Conns : Bounded(wire[c], socket[c])
  /\ view \in [Conns -> Snapshots]
  /\ content <= MaxChanges /\ queued \in Nat /\ lostRev \in Nat
  /\ cast.at \in {"none", "reading", "sending", "waiting"} /\ cast.to \in Seq(Conns)
  /\ cast.at # "none" => cast.to # <<>> /\ cast.snap.rev = revision
  /\ cast.at = "none" => cast.to = <<>>
  /\ closing \in BOOLEAN /\ requests \in 0..MaxRequests

(* Initially nothing is accepted. *)
LEMMA InitTypeInv == Init => TypeInv
<1> SUFFICES ASSUME Init PROVE TypeInv
  OBVIOUS
<1>1. Accepted = {}
  BY DEF Init, Accepted
<1>2. IsFiniteSet(Accepted)
  BY <1>1, FS_EmptySet
<1>3. \A c \in Conns : Bounded(wire[c], socket[c])
  BY LimitsAssumption DEF Init, Bounded
<1>4. view \in [Conns -> Snapshots]
  BY PlainFrames DEF Init
<1>5. stage \in [Conns -> StageNames] /\ request \in [Conns -> RequestNames]
  BY DEF Init, StageNames, RequestNames
<1>6. cast.at = "none" /\ cast.to = <<>> /\ cast.to \in Seq(Conns)
  BY DEF Init, NoCast
<1>7. /\ content <= MaxChanges /\ queued \in Nat /\ lostRev \in Nat
      /\ closing \in BOOLEAN /\ requests \in 0..MaxRequests
  <2>1. content <= MaxChanges /\ requests \in 0..MaxRequests /\ queued \in Nat /\ lostRev \in Nat
    BY LimitsAssumption DEF Init
  <2>2. closing \in BOOLEAN
    BY DEF Init
  <2> QED BY <2>1, <2>2
<1>8. complete \in [Conns -> BOOLEAN] /\ leaving \in [Conns -> BOOLEAN]
  BY DEF Init
<1> QED BY <1>2, <1>3, <1>4, <1>5, <1>6, <1>7, <1>8 DEF TypeInv

(* The stages a step may give a connection. *)
LEMMA StageStep ==
  ASSUME TypeInv, [Next]_vars
  PROVE  stage' \in [Conns -> StageNames] /\ IsFiniteSet(Accepted')
<1>1. stage' = stage \/ \E c \in Conns, x \in StageNames : stage' = [stage EXCEPT ![c] = x]
  <2>1. CASE UNCHANGED vars \/ Publisher \/ BroadcastFails \/ Close
    BY <2>1 DEF vars, connVars, Publisher, StartBroadcast, ReadBroadcast, SendBroadcast,
                BroadcastFails, Close
  <2>2. ASSUME NEW c \in Conns,
               Server(c) \/ Environment(c) \/ Write(c) \/ HandshakeTimeout(c) \/ CloseDone(c)
        PROVE  stage' = stage \/ \E x \in StageNames : stage' = [stage EXCEPT ![c] = x]
    <3>1. CASE Server(c)
      BY <3>1 DEF Server, ReadSnapshot, SendHello, SendCatchUp, DeferredRuns, RequestAnswers, Left
    <3>2. CASE Environment(c) \/ HandshakeTimeout(c)
      BY <3>2 DEF Environment, Accept, ReceiveHello, ReceiveInvalid, ReceiveRequest, ReadFails,
                  RequestChanges, PeerCloses, Disconnected, Fail, HandshakeTimeout, StageNames
    <3>3. CASE Write(c) \/ CloseDone(c)
      BY <3>3 DEF Write, HelloSent, CloseDone, Disconnected, StageNames
    <3> QED BY <2>2, <3>1, <3>2, <3>3
  <2> QED BY <2>1, <2>2 DEF Next
<1>2. stage \in [Conns -> StageNames] /\ IsFiniteSet(Accepted)
  BY DEF TypeInv
<1>3. CASE stage' = stage
  BY <1>2, <1>3 DEF Accepted
<1>4. ASSUME NEW c \in Conns, NEW x \in StageNames, stage' = [stage EXCEPT ![c] = x]
      PROVE  stage' \in [Conns -> StageNames] /\ IsFiniteSet(Accepted')
  <2>1. stage' \in [Conns -> StageNames]
    BY <1>2, <1>4
  <2>2. Accepted' \subseteq Accepted \cup {c}
    BY <1>2, <1>4 DEF Accepted
  <2>3. IsFiniteSet(Accepted \cup {c})
    BY <1>2, FS_AddElement
  <2> QED BY <2>1, <2>2, <2>3, FS_Subset
<1> QED BY <1>1, <1>3, <1>4

(* The other flags, and the counters. *)
LEMMA FlagStep ==
  ASSUME IInv, TypeInv, [Next]_vars
  PROVE  /\ complete' \in [Conns -> BOOLEAN] /\ leaving' \in [Conns -> BOOLEAN]
         /\ request' \in [Conns -> RequestNames] /\ closing' \in BOOLEAN
<1>1. /\ complete \in [Conns -> BOOLEAN] /\ leaving \in [Conns -> BOOLEAN]
      /\ request \in [Conns -> RequestNames] /\ closing \in BOOLEAN
  BY DEF TypeInv
<1>2. complete' = complete \/ \E c \in Conns : complete' = [complete EXCEPT ![c] = TRUE]
  BY DEF Next, vars, connVars, Server, Environment, Publisher, StartBroadcast, ReadBroadcast,
         SendBroadcast, BroadcastFails, Close, ReadSnapshot, SendHello, SendCatchUp, DeferredRuns,
         RequestAnswers, Left, Accept, ReceiveHello, ReceiveInvalid, ReceiveRequest, ReadFails,
         RequestChanges, PeerCloses, CloseDone, Disconnected, Fail, HandshakeTimeout, Write, HelloSent
<1>3. leaving' = leaving \/ \E c \in Conns, x \in BOOLEAN : leaving' = [leaving EXCEPT ![c] = x]
  BY DEF Next, vars, connVars, Server, Environment, Publisher, StartBroadcast, ReadBroadcast,
         SendBroadcast, BroadcastFails, Close, ReadSnapshot, SendHello, SendCatchUp, DeferredRuns,
         RequestAnswers, Left, Accept, ReceiveHello, ReceiveInvalid, ReceiveRequest, ReadFails,
         RequestChanges, PeerCloses, CloseDone, Disconnected, Fail, HandshakeTimeout, Write
<1>4. request' = request \/ \E c \in Conns, x \in RequestNames : request' = [request EXCEPT ![c] = x]
  BY DEF Next, vars, connVars, Server, Environment, Publisher, StartBroadcast, ReadBroadcast,
         SendBroadcast, BroadcastFails, Close, ReadSnapshot, SendHello, SendCatchUp, DeferredRuns,
         RequestAnswers, Left, Accept, ReceiveHello, ReceiveInvalid, ReceiveRequest, ReadFails,
         RequestChanges, PeerCloses, CloseDone, Disconnected, Fail, HandshakeTimeout, Write, RequestNames
<1>5. closing' = closing \/ closing' = TRUE
  BY DEF Next, vars, Server, Environment, Publisher, StartBroadcast, ReadBroadcast,
         SendBroadcast, BroadcastFails, Close, ReadSnapshot, SendHello, SendCatchUp, DeferredRuns,
         RequestAnswers, Left, Accept, ReceiveHello, ReceiveInvalid, ReceiveRequest, ReadFails,
         RequestChanges, PeerCloses, CloseDone, Disconnected, Fail, HandshakeTimeout, Write
<1> QED BY <1>1, <1>2, <1>3, <1>4, <1>5

LEMMA CountStep ==
  ASSUME IInv, TypeInv, [Next]_vars
  PROVE  /\ content' <= MaxChanges /\ queued' \in Nat /\ lostRev' \in Nat
         /\ requests' \in 0..MaxRequests
<1>1. /\ content \in Nat /\ content <= MaxChanges /\ queued \in Nat /\ lostRev \in Nat
      /\ requests \in 0..MaxRequests /\ (cast.at = "reading" => cast.snap.rev \in Nat)
      /\ MaxChanges \in Nat /\ MaxRequests \in Nat
  BY LimitsAssumption DEF TypeInv, IInv, Shape, CastCovers
<1>2. content' = content \/ (content < MaxChanges /\ content' = content + 1)
  BY DEF Next, vars, connVars, castVars, Server, Environment, Publisher, StartBroadcast, ReadBroadcast,
         SendBroadcast, BroadcastFails, Close, ReadSnapshot, SendHello, SendCatchUp, DeferredRuns,
         RequestAnswers, Left, Accept, ReceiveHello, ReceiveInvalid, ReceiveRequest, ReadFails,
         RequestChanges, PeerCloses, CloseDone, Disconnected, Fail, HandshakeTimeout, Write
<1>3. queued' \in {queued, queued + 1} \/ (queued > 0 /\ queued' = queued - 1)
  BY DEF Next, vars, connVars, castVars, Server, Environment, Publisher, StartBroadcast, ReadBroadcast,
         SendBroadcast, BroadcastFails, Close, ReadSnapshot, SendHello, SendCatchUp, DeferredRuns,
         RequestAnswers, Left, Accept, ReceiveHello, ReceiveInvalid, ReceiveRequest, ReadFails,
         RequestChanges, PeerCloses, CloseDone, Disconnected, Fail, HandshakeTimeout, Write
<1>4. lostRev' = lostRev \/ (cast.at = "reading" /\ lostRev' = cast.snap.rev)
  BY DEF Next, vars, connVars, castVars, Server, Environment, Publisher, StartBroadcast, ReadBroadcast,
         SendBroadcast, BroadcastFails, Close, ReadSnapshot, SendHello, SendCatchUp, DeferredRuns,
         RequestAnswers, Left, Accept, ReceiveHello, ReceiveInvalid, ReceiveRequest, ReadFails,
         RequestChanges, PeerCloses, CloseDone, Disconnected, Fail, HandshakeTimeout, Write
<1>5. requests' = requests \/ (requests < MaxRequests /\ requests' = requests + 1)
  BY DEF Next, vars, connVars, castVars, Server, Environment, Publisher, StartBroadcast, ReadBroadcast,
         SendBroadcast, BroadcastFails, Close, ReadSnapshot, SendHello, SendCatchUp, DeferredRuns,
         RequestAnswers, Left, Accept, ReceiveHello, ReceiveInvalid, ReceiveRequest, ReadFails,
         RequestChanges, PeerCloses, CloseDone, Disconnected, Fail, HandshakeTimeout, Write
<1>6. content' <= MaxChanges
  BY <1>1, <1>2
<1>7. queued' \in Nat
  BY <1>1, <1>3
<1>8. lostRev' \in Nat
  BY <1>1, <1>4
<1>9. requests' \in 0..MaxRequests
  BY <1>1, <1>5
<1> QED BY <1>6, <1>7, <1>8, <1>9

(* The broadcast: it begins with the next revision, and ends when all the
   connections it began with have been served. *)
Casting ==
  \/ cast' = cast /\ revision' = revision
  \/ /\ cast.at = "none" /\ revision' = revision + 1
     /\ cast' = [at |-> "reading", snap |-> Snapshot(revision + 1, 0), to |-> SetToSeq(Ready)]
     /\ Ready # {} /\ UNCHANGED connVars
  \/ /\ cast.at = "reading" /\ revision' = revision /\ UNCHANGED connVars
     /\ \/ cast' = NoCast
        \/ cast' = [cast EXCEPT !.at = "sending", !.snap = Snapshot(@.rev, content)]
  \/ cast.at = "sending" /\ revision' = revision /\ cast' = [cast EXCEPT !.at = "waiting"]
  \/ cast.at \in {"sending", "waiting"} /\ revision' = revision /\ cast' = Served

LEMMA CastStep ==
  ASSUME IInv, TypeInv, [Next]_vars
  PROVE  Casting
<1>1. CASE UNCHANGED vars
  BY <1>1 DEF vars, castVars, Casting
<1>2. ASSUME NEW c \in Conns, Server(c) PROVE Casting
  BY <1>2 DEF Server, ReadSnapshot, SendHello, SendCatchUp, DeferredRuns, RequestAnswers, Left, castVars,
         Casting
<1>3. ASSUME NEW c \in Conns, Environment(c) \/ HandshakeTimeout(c) \/ CloseDone(c) PROVE Casting
  BY <1>3 DEF Environment, Accept, ReceiveHello, ReceiveInvalid, ReceiveRequest, ReadFails,
         RequestChanges, PeerCloses, CloseDone, Disconnected, Fail, HandshakeTimeout, castVars, Casting
<1>4. ASSUME NEW c \in Conns, Write(c) PROVE Casting
  <2>1. Head(wire[c]).by = "broadcast" => cast.at = "waiting"
    <3>1. wire[c] \in Seq(CoveringFrames) /\ wire[c] # <<>>
      BY <1>4 DEF IInv, FramesCover, Write
    <3>2. Head(wire[c]).by = "broadcast" => 1 \in Casts(wire[c])
      BY <3>1 DEF Casts
    <3> QED BY <3>2 DEF IInv, AwaitedFrame
  <2> QED BY <1>4, <2>1 DEF Write, Casting
<1>5. CASE Publisher \/ BroadcastFails \/ Close
  BY <1>5 DEF Publisher, StartBroadcast, ReadBroadcast, SendBroadcast, BroadcastFails, Close, castVars,
         Casting
<1> QED BY <1>1, <1>2, <1>3, <1>4, <1>5 DEF Next

LEMMA CastTypes ==
  ASSUME IInv, TypeInv, [Next]_vars
  PROVE  /\ cast'.at \in {"none", "reading", "sending", "waiting"} /\ cast'.to \in Seq(Conns)
         /\ cast'.at # "none" => cast'.to # <<>> /\ cast'.snap.rev = revision'
         /\ cast'.at = "none" => cast'.to = <<>>
<1>1. /\ cast = [at |-> cast.at, snap |-> cast.snap, to |-> cast.to]
      /\ cast.at \in {"none", "reading", "sending", "waiting"} /\ cast.to \in Seq(Conns)
      /\ cast.at # "none" => cast.to # <<>> /\ cast.snap.rev = revision
      /\ cast.at = "none" => cast.to = <<>>
  BY DEF IInv, Shape, TypeInv
<1>2. Casting
  BY CastStep
<1>3. CASE cast' = cast /\ revision' = revision
  BY <1>1, <1>3
<1>4. CASE /\ cast.at = "none" /\ revision' = revision + 1 /\ Ready # {}
           /\ cast' = [at |-> "reading", snap |-> Snapshot(revision + 1, 0), to |-> SetToSeq(Ready)]
  <2>1. IsFiniteSet(Ready)
    <3>1. Ready \subseteq Accepted
      BY DEF Ready, Accepted
    <3> QED BY <3>1, FS_Subset DEF TypeInv
  <2>2. SetToSeq(Ready) \in Seq(Ready) /\ SetToSeq(Ready) # <<>>
    BY <1>4, <2>1, ListOfSet
  <2>3. SetToSeq(Ready) \in Seq(Conns)
    BY <2>2 DEF Ready
  <2> QED BY <1>4, <2>2, <2>3 DEF Snapshot
<1>5. CASE cast' = NoCast
  BY <1>5 DEF NoCast
<1>6. CASE /\ cast.at = "reading" /\ revision' = revision
           /\ cast' = [cast EXCEPT !.at = "sending", !.snap = Snapshot(@.rev, content)]
  BY <1>1, <1>6 DEF Snapshot
<1>7. CASE cast.at = "sending" /\ revision' = revision /\ cast' = [cast EXCEPT !.at = "waiting"]
  BY <1>1, <1>7
<1>8. CASE cast.at \in {"sending", "waiting"} /\ revision' = revision /\ cast' = Served
  <2>1. CASE Len(cast.to) = 1
    BY <1>8, <2>1, <1>5 DEF Served
  <2>2. CASE Len(cast.to) # 1
    <3>1. Tail(cast.to) \in Seq(Conns) /\ Tail(cast.to) # <<>>
      <4>1. \A q \in Seq(Conns) : q # <<>> /\ Len(q) # 1 => Tail(q) \in Seq(Conns) /\ Tail(q) # <<>>
        <5> TAKE q \in Seq(Conns)
        <5> HAVE q # <<>> /\ Len(q) # 1
        <5>1. Tail(q) \in Seq(Conns) /\ Len(Tail(q)) = Len(q) - 1
          OBVIOUS
        <5>2. Len(q) # 0
          OBVIOUS
        <5>3. Len(Tail(q)) # 0
          BY <5>1, <5>2
        <5>4. \A t : t = <<>> => Len(t) = 0
          OBVIOUS
        <5>5. Tail(q) # <<>>
          BY <5>3, <5>4, Zenon
        <5> QED BY <5>1, <5>5
      <4> QED BY <1>1, <1>8, <2>2, <4>1
    <3>2. cast' = [at |-> "sending", snap |-> cast.snap, to |-> Tail(cast.to)]
      BY <1>1, <1>8, <2>2 DEF Served
    <3> QED BY <1>1, <1>8, <3>1, <3>2
  <2> QED BY <2>1, <2>2
<1> QED BY <1>2, <1>3, <1>4, <1>5, <1>6, <1>7, <1>8 DEF Casting

-----------------------------------------------------------------------------
(* What a step may do to the frames of a connection. *)

FinalFrame == Frame("hello_error", "server", Nowhere)

(* The frame the server hands to d, and who then waits for it. *)
Handed(d, f) ==
  \/ /\ shake[d].at = "read" /\ shake'[d].at = "sending" /\ shake'[d].snap = shake[d].snap
     /\ f = Frame("hello", "shake", shake[d].snap)
  \/ /\ shake[d].at = "catchRead" /\ shake'[d].at = "catchSending"
     /\ f = Frame("event", "shake", shake[d].snap)
  \/ /\ request[d] \in {"running", "changed"} /\ UNCHANGED <<shake, cast>>
     /\ f = Frame("response", "request", Nowhere)
  \/ /\ cast.at = "sending" /\ d = Head(cast.to) /\ UNCHANGED shake /\ cast'.at = "waiting"
     /\ f = Frame("event", "broadcast", cast.snap)

Stays(d)  == wire'[d] = wire[d] /\ socket'[d] = socket[d] /\ sent'[d] = sent[d]
Adds(d)   == /\ socket[d] = "open" /\ Len(wire[d]) < MaxPending
             /\ \E f \in Frames : Handed(d, f) /\ wire'[d] = Append(wire[d], f)
             /\ socket'[d] = socket[d] /\ sent'[d] = sent[d]
Cuts(d)   == /\ socket[d] = "open" /\ socket'[d] = "closing"
             /\ wire'[d] = Cut(wire[d], <<>>) \/ wire'[d] = Cut(wire[d], <<FinalFrame>>)
             /\ sent'[d] = sent[d]
Writes(d) == /\ wire[d] # <<>> /\ wire'[d] = Tail(wire[d])
             /\ sent'[d] = Append(sent[d], Head(wire[d])) /\ socket'[d] = socket[d]
Drops(d)  == wire'[d] = <<>> /\ socket'[d] = "closed" /\ sent'[d] = sent[d]
Moves(d)  == Stays(d) \/ Adds(d) \/ Cuts(d) \/ Writes(d) \/ Drops(d)

FrameTypes ==
  /\ wire \in [Conns -> Seq(Frames)] /\ sent \in [Conns -> Seq(Frames)]
  /\ socket \in [Conns -> Sockets]

LEMMA FrameTypesHold == IInv => FrameTypes
<1> SUFFICES ASSUME IInv PROVE FrameTypes
  OBVIOUS
<1>1. CoveringFrames \subseteq Frames
  BY DEF CoveringFrames
<1>2. \A s \in Seq(CoveringFrames) : s \in Seq(Frames)
  BY <1>1
<1> QED BY <1>2 DEF IInv, Shape, FramesCover, FrameTypes

(* close() cuts the frames of one connection, or does nothing. *)
LEMMA ClosedMoves ==
  ASSUME FrameTypes, NEW c \in Conns, UNCHANGED sent,
         Closed(c, <<>>) \/ Closed(c, <<FinalFrame>>)
  PROVE  \A d \in Conns : Moves(d)
<1> SUFFICES ASSUME NEW d \in Conns PROVE Stays(d) \/ Cuts(d)
  BY DEF Moves
<1>1. CASE socket[c] = "open" /\ d = c
  BY <1>1 DEF Closed, Cut, Cuts, FrameTypes
<1>2. CASE socket[c] # "open" \/ d # c
  BY <1>2 DEF Closed, Stays, FrameTypes
<1> QED BY <1>1, <1>2

(* A send adds the frame, or closes. *)
LEMMA SendMoves ==
  ASSUME FrameTypes, NEW c \in Conns, NEW f \in Frames, Handed(c, f), UNCHANGED sent, Send(c, f)
  PROVE  \A d \in Conns : Moves(d)
<1>1. CASE socket[c] = "open" /\ Len(wire[c]) < MaxPending
  <2> SUFFICES ASSUME NEW d \in Conns PROVE Stays(d) \/ Adds(d)
    BY DEF Moves
  <2>1. wire' = [wire EXCEPT ![c] = Append(@, f)] /\ socket' = socket
    BY <1>1 DEF Send
  <2>2. CASE d = c
    BY <1>1, <2>1, <2>2 DEF Adds, FrameTypes
  <2>3. CASE d # c
    BY <2>1, <2>3 DEF Stays, FrameTypes
  <2> QED BY <2>2, <2>3
<1>2. CASE ~(socket[c] = "open" /\ Len(wire[c]) < MaxPending)
  <2>1. Closed(c, <<>>)
    BY <1>2 DEF Send
  <2> QED BY <2>1, ClosedMoves
<1> QED BY <1>1, <1>2

LEMMA StillMoves ==
  ASSUME UNCHANGED <<wire, socket, sent>>
  PROVE  \A d \in Conns : Moves(d)
BY DEF Moves, Stays

(* The frames that are handed over. *)
LEMMA HandedFrames ==
  ASSUME IInv, NEW c \in Conns
  PROVE  /\ Frame("hello", "shake", shake[c].snap) \in Frames
         /\ Frame("event", "shake", shake[c].snap) \in Frames
         /\ Frame("event", "broadcast", cast.snap) \in Frames
         /\ Frame("response", "request", Nowhere) \in Frames
<1>1. shake[c] \in Shakes /\ cast.snap \in Snapshots
  BY DEF IInv, Shape
<1>2. shake[c].snap \in Snapshots
  BY <1>1 DEF Shakes
<1> QED BY <1>1, <1>2, PlainFrames DEF Frames, Frame

(* Every step moves the frames of each connection in one of these ways. *)
LEMMA FramesMove ==
  ASSUME IInv, TypeInv, [Next]_vars
  PROVE  \A d \in Conns : Moves(d)
<1>0. FrameTypes
  BY FrameTypesHold
<1>1. CASE UNCHANGED vars
  BY <1>1, StillMoves DEF vars, connVars
<1>2. ASSUME NEW c \in Conns, ReadSnapshot(c) \/ DeferredRuns(c) \/ Left(c) \/ Accept(c)
                              \/ ReceiveHello(c) \/ ReceiveRequest(c) \/ RequestChanges(c)
      PROVE  \A d \in Conns : Moves(d)
  BY <1>2, StillMoves DEF ReadSnapshot, DeferredRuns, Left, Accept, ReceiveHello, ReceiveRequest,
                          RequestChanges
<1>3. ASSUME NEW c \in Conns, ReceiveInvalid(c) \/ HandshakeTimeout(c) \/ ReadFails(c)
      PROVE  \A d \in Conns : Moves(d)
  BY <1>0, <1>3, StillMoves, ClosedMoves DEF ReceiveInvalid, HandshakeTimeout, Fail, ReadFails, FinalFrame
<1>4. ASSUME NEW c \in Conns, SendHello(c)
      PROVE  \A d \in Conns : Moves(d)
  <2>1. \/ UNCHANGED <<wire, socket, sent>>
        \/ /\ Send(c, Frame("hello", "shake", shake[c].snap)) /\ UNCHANGED sent
           /\ shake' = [shake EXCEPT ![c].at = "sending"]
    BY <1>4 DEF SendHello
  <2>2. CASE UNCHANGED <<wire, socket, sent>>
    BY <2>2, StillMoves
  <2>3. CASE /\ Send(c, Frame("hello", "shake", shake[c].snap)) /\ UNCHANGED sent
             /\ shake' = [shake EXCEPT ![c].at = "sending"]
    <3>1. shake[c] \in Shakes /\ shake[c].at = "read" /\ shake'[c] = [shake[c] EXCEPT !.at = "sending"]
      BY <1>4, <2>3 DEF SendHello, IInv, Shape
    <3>2. shake'[c].at = "sending" /\ shake'[c].snap = shake[c].snap
      BY <3>1 DEF Shakes
    <3>3. Handed(c, Frame("hello", "shake", shake[c].snap))
      BY <3>1, <3>2 DEF Handed
    <3> QED BY <1>0, <2>3, <3>3, SendMoves, HandedFrames
  <2> QED BY <2>1, <2>2, <2>3
<1>5. ASSUME NEW c \in Conns, SendCatchUp(c)
      PROVE  \A d \in Conns : Moves(d)
  <2>1. \/ UNCHANGED <<wire, socket, sent>>
        \/ /\ Send(c, Frame("event", "shake", shake[c].snap)) /\ UNCHANGED sent
           /\ shake' = [shake EXCEPT ![c].at = "catchSending"]
    BY <1>5 DEF SendCatchUp
  <2>2. CASE UNCHANGED <<wire, socket, sent>>
    BY <2>2, StillMoves
  <2>3. CASE /\ Send(c, Frame("event", "shake", shake[c].snap)) /\ UNCHANGED sent
             /\ shake' = [shake EXCEPT ![c].at = "catchSending"]
    <3>1. /\ shake[c] \in Shakes /\ shake[c].at = "catchRead"
          /\ shake'[c] = [shake[c] EXCEPT !.at = "catchSending"]
      BY <1>5, <2>3 DEF SendCatchUp, IInv, Shape
    <3>2. shake'[c].at = "catchSending"
      BY <3>1 DEF Shakes
    <3>3. Handed(c, Frame("event", "shake", shake[c].snap))
      BY <3>1, <3>2 DEF Handed
    <3> QED BY <1>0, <2>3, <3>3, SendMoves, HandedFrames
  <2> QED BY <2>1, <2>2, <2>3
<1>6. ASSUME NEW c \in Conns, RequestAnswers(c)
      PROVE  \A d \in Conns : Moves(d)
  <2>1. \/ UNCHANGED <<wire, socket, sent>>
        \/ Send(c, Frame("response", "request", Nowhere)) /\ UNCHANGED sent
    BY <1>6 DEF RequestAnswers
  <2>2. Handed(c, Frame("response", "request", Nowhere))
    BY <1>6 DEF RequestAnswers, Handed
  <2> QED BY <1>0, <2>1, <2>2, StillMoves, SendMoves, HandedFrames
<1>7. CASE SendBroadcast
  <2>1. \/ UNCHANGED <<wire, socket, sent>>
        \/ /\ Send(Head(cast.to), Frame("event", "broadcast", cast.snap)) /\ UNCHANGED sent
           /\ Handed(Head(cast.to), Frame("event", "broadcast", cast.snap))
    <3>1. cast = [at |-> cast.at, snap |-> cast.snap, to |-> cast.to]
      BY DEF IInv, Shape
    <3>2. cast' = [cast EXCEPT !.at = "waiting"] => cast'.at = "waiting"
      BY <3>1
    <3> QED BY <1>7, <3>2 DEF SendBroadcast, Handed
  <2>3. Head(cast.to) \in Conns
    BY <1>7 DEF TypeInv, SendBroadcast
  <2>4. Frame("event", "broadcast", cast.snap) \in Frames
    BY <2>3, HandedFrames
  <2> QED BY <1>0, <2>1, <2>3, <2>4, StillMoves, SendMoves
<1>8. CASE StartBroadcast \/ ReadBroadcast \/ BroadcastFails
  BY <1>8, StillMoves DEF StartBroadcast, ReadBroadcast, BroadcastFails, connVars
<1>9. ASSUME NEW c \in Conns, Write(c)
      PROVE  \A d \in Conns : Moves(d)
  <2> SUFFICES ASSUME NEW d \in Conns PROVE Stays(d) \/ Writes(d)
    BY DEF Moves
  <2>1. CASE d = c
    BY <1>0, <1>9, <2>1 DEF Write, Writes, FrameTypes
  <2>2. CASE d # c
    BY <1>0, <1>9, <2>2 DEF Write, Stays, FrameTypes
  <2> QED BY <2>1, <2>2
<1>10. ASSUME NEW c \in Conns, PeerCloses(c) \/ CloseDone(c)
       PROVE  \A d \in Conns : Moves(d)
  <2> SUFFICES ASSUME NEW d \in Conns PROVE Stays(d) \/ Drops(d)
    BY DEF Moves
  <2>1. CASE d = c
    BY <1>0, <1>10, <2>1 DEF PeerCloses, CloseDone, Disconnected, Drops, FrameTypes
  <2>2. CASE d # c
    BY <1>0, <1>10, <2>2 DEF PeerCloses, CloseDone, Disconnected, Stays, FrameTypes
  <2> QED BY <2>1, <2>2
<1>11. CASE Close
  <2> SUFFICES ASSUME NEW d \in Conns PROVE Stays(d) \/ Cuts(d)
    BY DEF Moves
  <2>1. CASE stage[d] # "none" /\ socket[d] = "open"
    <3>1. socket'[d] = "closing" /\ sent'[d] = sent[d]
          /\ wire'[d] = IF wire[d] # <<>> THEN <<Head(wire[d])>> ELSE wire[d]
      BY <1>11, <2>1 DEF Close
    <3>2. \A w \in Seq(Frames) : Cut(w, <<>>) = IF w # <<>> THEN <<Head(w)>> ELSE w
      <4> TAKE w \in Seq(Frames)
      <4>0. <<>> \in Seq(Frames) /\ Len(<<>>) = 0 /\ Len(<<>>) <= 1
        OBVIOUS
      <4>1. PICK e \in Seq(Frames) : e = <<>> /\ Len(e) = 0 /\ Len(e) <= 1
        BY <4>0
      <4>2. Cut(w, <<>>) \in Seq(Frames) /\ (w = <<>> => Cut(w, <<>>) = <<>>)
        BY <4>1, CutFrames
      <4>3. w # <<>> => Len(Cut(w, <<>>)) = 1 /\ Cut(w, <<>>)[1] = w[1]
        <5>1. w # <<>> => Len(Cut(w, e)) = 1 + Len(e) /\ Cut(w, e)[1] = w[1]
          BY <4>1, CutFrames
        <5> QED BY <4>1, <5>1
      <4>4. \A t \in Seq(Frames) : w # <<>> /\ Len(t) = 1 /\ t[1] = w[1] => t = <<Head(w)>>
        OBVIOUS
      <4> QED BY <4>2, <4>3, <4>4
    <3> QED BY <1>0, <2>1, <3>1, <3>2 DEF Cuts, FrameTypes
  <2>2. CASE ~(stage[d] # "none" /\ socket[d] = "open")
    BY <1>11, <2>2 DEF Close, Stays
  <2> QED BY <2>1, <2>2
<1> QED
  BY <1>1, <1>2, <1>3, <1>4, <1>5, <1>6, <1>7, <1>8, <1>9, <1>10, <1>11
     DEF Next, Server, Environment, Publisher

(* The frames of a connection stay bounded. *)
LEMMA BoundedStep ==
  ASSUME FrameTypes, NEW d \in Conns, Bounded(wire[d], socket[d]), Moves(d)
  PROVE  Bounded(wire'[d], socket'[d])
<1>0. MaxPending \in Nat
  BY LimitsAssumption
<1>1. wire[d] \in Seq(Frames) /\ Len(wire[d]) \in Nat
  BY DEF FrameTypes
<1>2. CASE Stays(d)
  BY <1>2 DEF Stays, Bounded
<1>3. CASE Adds(d)
  <2>1. PICK f \in Frames : wire'[d] = Append(wire[d], f)
    BY <1>3 DEF Adds
  <2>2. Len(wire'[d]) = Len(wire[d]) + 1
    BY <1>1, <2>1
  <2>3. socket'[d] = "open" /\ Len(wire[d]) < MaxPending
    BY <1>3 DEF Adds
  <2> QED BY <1>0, <1>1, <2>2, <2>3 DEF Bounded
<1>4. CASE Cuts(d)
  <2>1. <<>> \in Seq(Frames) /\ Len(<<>>) <= 1
    OBVIOUS
  <2>2. <<FinalFrame>> \in Seq(Frames) /\ Len(<<FinalFrame>>) <= 1
    <3>1. FinalFrame \in Frames
      BY PlainFrames DEF FinalFrame, CoveringFrames
    <3> QED BY <3>1
  <2>3. \A e \in Seq(Frames) : Len(e) <= 1 => Len(Cut(wire[d], e)) <= 2
    BY <1>1, CutFrames
  <2>4. Len(wire'[d]) <= 2 /\ socket'[d] = "closing"
    BY <1>4, <2>1, <2>2, <2>3 DEF Cuts
  <2> QED BY <2>4 DEF Bounded
<1>5. CASE Writes(d)
  <2>1. Len(wire'[d]) = Len(wire[d]) - 1 /\ socket'[d] = socket[d]
    BY <1>1, <1>5 DEF Writes
  <2> QED BY <1>0, <1>1, <2>1 DEF Bounded
<1>6. CASE Drops(d)
  <2>1. Len(wire'[d]) = 0 /\ socket'[d] = "closed"
    BY <1>6 DEF Drops
  <2> QED BY <2>1 DEF Bounded
<1> QED BY <1>2, <1>3, <1>4, <1>5, <1>6 DEF Moves

(* A client applies the snapshots it reads. *)
LEMMA ViewStep ==
  ASSUME IInv, TypeInv, [Next]_vars
  PROVE  view' \in [Conns -> Snapshots]
<1>1. view \in [Conns -> Snapshots] /\ FrameTypes
  BY FrameTypesHold DEF TypeInv
<1>2. CASE UNCHANGED view
  BY <1>1, <1>2
<1>3. ASSUME NEW c \in Conns, Write(c)
      PROVE  view' \in [Conns -> Snapshots]
  <2>1. Head(wire[c]) \in Frames
    BY <1>1, <1>3 DEF FrameTypes, Write
  <2>2. Head(wire[c]).snap \in Snapshots
    BY <2>1 DEF Frames
  <2>3. \A v, u \in Snapshots : Applied(v, u) \in Snapshots
    BY DEF Applied
  <2> QED BY <1>1, <1>3, <2>2, <2>3 DEF Write
<1>4. UNCHANGED view \/ \E c \in Conns : Write(c)
  BY DEF Next, vars, connVars, castVars, Server, Environment, Publisher, StartBroadcast, ReadBroadcast,
         SendBroadcast, BroadcastFails, Close, ReadSnapshot, SendHello, SendCatchUp, DeferredRuns,
         RequestAnswers, Left, Accept, ReceiveHello, ReceiveInvalid, ReceiveRequest, ReadFails,
         RequestChanges, PeerCloses, CloseDone, Disconnected, Fail, HandshakeTimeout
<1> QED BY <1>2, <1>3, <1>4

LEMMA NextTypeInv == IInv /\ TypeInv /\ [Next]_vars => TypeInv'
<1> SUFFICES ASSUME IInv, TypeInv, [Next]_vars PROVE TypeInv'
  OBVIOUS
<1>1. \A c \in Conns : Bounded(wire'[c], socket'[c])
  BY FramesMove, FrameTypesHold, BoundedStep DEF TypeInv
<1>2. \A c \in Conns : Bounded(wire[c], socket[c])'
  BY <1>1 DEF Bounded
<1> QED BY <1>2, StageStep, FlagStep, CountStep, CastTypes, ViewStep DEF TypeInv

LEMMA TypeInvariance == Spec => []TypeInv
<1> QED BY InitTypeInv, NextTypeInv, Invariance, PTL DEF Spec

(* The types of the connections, the publisher and the wire, with what the
   code bounds: no connection holds more than MaxPending frames unwritten,
   and at most two once it is being closed (listener.ts, send and close). *)
THEOREM TypesHold == Spec => []TypeOK
<1>1. IInv /\ TypeInv => TypeOK
  <2> SUFFICES ASSUME IInv, TypeInv PROVE TypeOK
    OBVIOUS
  <2>1. wire \in [Conns -> Seq(Frames)] /\ sent \in [Conns -> Seq(Frames)]
    BY FrameTypesHold DEF FrameTypes
  <2>2. content \in 0..MaxChanges
    BY LimitsAssumption DEF IInv, Shape, TypeInv
  <2>3. \A c \in Conns : Len(wire[c]) <= IF socket[c] = "open" THEN MaxPending ELSE 2
    BY DEF TypeInv, Bounded
  <2>4. stage \in [Conns -> {"none", "awaitingHello", "handshaking", "ready", "closing", "closed"}]
        /\ request \in [Conns -> {"none", "deferred", "running", "changed"}]
    BY DEF TypeInv, StageNames, RequestNames
  <2>5. /\ shake \in [Conns -> [at : {"none", "reading", "read", "sending", "catchReading", "catchRead",
                                      "catchSending", "done"}, snap : Snapshots]]
        /\ socket \in [Conns -> {"open", "closing", "closed"}] /\ gone \in [Conns -> BOOLEAN]
    BY DEF IInv, Shape, Shakes, Sockets
  <2>6. /\ cast.snap \in Snapshots /\ revision \in Nat /\ basis \in Seq(Nat) /\ Len(basis) = revision + 1
    BY DEF IInv, Shape
  <2> QED BY <2>1, <2>2, <2>3, <2>4, <2>5, <2>6 DEF TypeInv, TypeOK
<1> QED BY <1>1, Invariance, TypeInvariance, PTL

-----------------------------------------------------------------------------
(* The order of the frames. *)

(* The frames s that were written and those of w that follow: a hello or the
   error first, no second hello, and the error last, once the connection is
   being closed. *)
FirstTypes == {"hello", "hello_error"}
InLine(s, w, o) ==
  /\ \A i \in 1..Len(s) : /\ i = 1 => s[i].type \in FirstTypes
                          /\ i > 1 => s[i].type # "hello"
                          /\ s[i].type = "hello_error" => i = Len(s) /\ w = <<>> /\ o # "open"
  /\ \A i \in 1..Len(w) : /\ s = <<>> /\ i = 1 => w[i].type \in FirstTypes
                          /\ s # <<>> \/ i > 1 => w[i].type # "hello"
                          /\ w[i].type = "hello_error" => i = Len(w) /\ o # "open"

(* A hello on an empty line, or another frame behind a hello. *)
LEMMA AddedInLine ==
  ASSUME NEW S, NEW s \in Seq(S), NEW w \in Seq(S), NEW f \in S, InLine(s, w, "open"),
         f.type # "hello_error",
         (s # <<>> /\ f.type # "hello") \/ (s = <<>> /\ w = <<>> /\ f.type = "hello")
  PROVE  InLine(s, Append(w, f), "open")
<1>1. /\ Append(w, f) \in Seq(S) /\ Len(Append(w, f)) = Len(w) + 1 /\ Append(w, f)[Len(w) + 1] = f
      /\ \A i \in 1..Len(w) : Append(w, f)[i] = w[i]
  OBVIOUS
<1>2. Len(w) \in Nat /\ (w = <<>> => Len(w) = 0)
  OBVIOUS
<1> QED BY <1>1, <1>2 DEF InLine, FirstTypes

LEMMA CutInLine ==
  ASSUME NEW S, NEW s \in Seq(S), NEW w \in Seq(S), NEW e \in Seq(S), InLine(s, w, "open"),
         Len(e) <= 1, Len(e) = 1 => e[1].type = "hello_error"
  PROVE  InLine(s, Cut(w, e), "closing")
<1> DEFINE v == Cut(w, e)
<1>1. /\ v \in Seq(S) /\ (w = <<>> => v = e)
      /\ w # <<>> => /\ Len(v) = 1 + Len(e) /\ v[1] = w[1]
                     /\ Len(e) = 1 => v[2] = e[1]
  BY CutFrames
<1>2. Len(e) \in Nat /\ Len(w) \in Nat /\ (w # <<>> => Len(w) > 0)
  OBVIOUS
<1>3. \A i \in 1..Len(s) : s[i].type # "hello_error"
  BY DEF InLine
<1> HIDE DEF v
<1>4. \A i \in 1..Len(v) : /\ s = <<>> /\ i = 1 => v[i].type \in FirstTypes
                           /\ s # <<>> \/ i > 1 => v[i].type # "hello"
                           /\ v[i].type = "hello_error" => i = Len(v)
  <2>0. Len(e) = 0 \/ (Len(e) = 1 /\ e[1].type = "hello_error")
    <3>1. Len(e) = 0 \/ Len(e) = 1
      <4>1. \A n \in Nat : n <= 1 => n = 0 \/ n = 1
        OBVIOUS
      <4> QED BY <1>2, <4>1, Zenon
    <3> QED BY <3>1, Zenon
  <2>1. CASE w = <<>>
    <3>1. \A i \in 1..Len(e) : i = 1 /\ Len(e) = 1
      BY <2>0
    <3>2. v = e
      BY <1>1, <2>1
    <3> QED BY <2>0, <3>1, <3>2 DEF FirstTypes
  <2>2. CASE w # <<>>
    <3>1. /\ s = <<>> => w[1].type \in FirstTypes
          /\ s # <<>> => w[1].type # "hello"
          /\ w[1].type # "hello_error"
      <4>1. 1 \in 1..Len(w)
        BY <1>2, <2>2
      <4> QED BY <4>1 DEF InLine
    <3>2. v[1] = w[1] /\ Len(v) = 1 + Len(e) /\ (Len(e) = 1 => v[2] = e[1])
      BY <1>1, <2>2
    <3>3. \A i \in 1..Len(v) : i = 1 \/ (i = 2 /\ Len(e) = 1)
      BY <2>0, <3>2
    <3> QED BY <2>0, <3>1, <3>2, <3>3 DEF FirstTypes
  <2> QED BY <2>1, <2>2
<1>5. InLine(s, v, "closing")
  <2>1. \A i \in 1..Len(s) : (i = 1 => s[i].type \in FirstTypes) /\ (i > 1 => s[i].type # "hello")
    BY DEF InLine
  <2> QED BY <1>3, <1>4, <2>1 DEF InLine
<1> QED BY <1>5 DEF v

LEMMA WrittenInLine ==
  ASSUME NEW S, NEW s \in Seq(S), NEW w \in Seq(S), NEW o, InLine(s, w, o), w # <<>>
  PROVE  InLine(Append(s, Head(w)), Tail(w), o)
<1> DEFINE t == Append(s, Head(w))
           v == Tail(w)
<1>1. /\ t \in Seq(S) /\ Len(t) = Len(s) + 1 /\ t[Len(s) + 1] = w[1] /\ t # <<>>
      /\ \A i \in 1..Len(s) : t[i] = s[i]
  OBVIOUS
<1>2. v \in Seq(S) /\ Len(v) = Len(w) - 1 /\ \A i \in 1..Len(v) : v[i] = w[i + 1]
  OBVIOUS
<1>3. Len(s) \in Nat /\ Len(w) \in Nat /\ Len(w) > 0 /\ (Len(s) = 0 <=> s = <<>>)
  OBVIOUS
<1> HIDE DEF t, v
<1>4. Len(v) = 0 => v = <<>>
  BY <1>2
<1>5. \A i \in 1..Len(s) : s[i].type # "hello_error"
  BY DEF InLine
<1>6. /\ s = <<>> => w[1].type \in FirstTypes
      /\ s # <<>> => w[1].type # "hello"
      /\ w[1].type = "hello_error" => Len(w) = 1 /\ o # "open"
  <2>1. 1 \in 1..Len(w)
    BY <1>3
  <2> QED BY <2>1 DEF InLine
<1>7. \A i \in 1..Len(t) : /\ i = 1 => t[i].type \in FirstTypes
                           /\ i > 1 => t[i].type # "hello"
                           /\ t[i].type = "hello_error" => i = Len(t) /\ v = <<>> /\ o # "open"
  <2> SUFFICES ASSUME NEW i \in 1..Len(t)
               PROVE  /\ i = 1 => t[i].type \in FirstTypes
                      /\ i > 1 => t[i].type # "hello"
                      /\ t[i].type = "hello_error" => i = Len(t) /\ v = <<>> /\ o # "open"
    OBVIOUS
  <2>1. CASE i \in 1..Len(s)
    BY <1>1, <1>5, <2>1 DEF InLine
  <2>2. CASE i = Len(s) + 1
    BY <1>1, <1>2, <1>3, <1>4, <1>6, <2>2
  <2> QED BY <1>1, <1>3, <2>1, <2>2
<1>8. \A i \in 1..Len(v) : /\ v[i].type # "hello"
                           /\ v[i].type = "hello_error" => i = Len(v) /\ o # "open"
  <2> SUFFICES ASSUME NEW i \in 1..Len(v)
               PROVE  v[i].type # "hello" /\ (v[i].type = "hello_error" => i = Len(v) /\ o # "open")
    OBVIOUS
  <2>1. i + 1 \in 1..Len(w) /\ i + 1 > 1 /\ v[i] = w[i + 1]
    BY <1>2, <1>3
  <2>2. /\ w[i + 1].type # "hello"
        /\ w[i + 1].type = "hello_error" => i + 1 = Len(w) /\ o # "open"
    BY <2>1 DEF InLine
  <2> QED BY <1>2, <1>3, <2>1, <2>2
<1>9. InLine(t, v, o)
  BY <1>1, <1>7, <1>8 DEF InLine
<1> QED BY <1>9 DEF t, v

LEMMA DroppedInLine ==
  ASSUME NEW S, NEW s \in Seq(S), NEW w \in Seq(S), NEW o, InLine(s, w, o)
  PROVE  InLine(s, <<>>, "closed")
BY DEF InLine

(* How far a connection is, against what was sent on it: what is only sent
   to a ready client waits for the hello to be written, and while a hello is
   still to be handed over the line is empty. *)
Early  == {"none", "awaitingHello"}
Before == {"none", "reading", "read"}
Catching == {"catchReading", "catchRead", "catchSending"}
Serving  == {"running", "changed"}
Progress(c) ==
  /\ complete[c] => sent[c] # <<>>
  /\ stage[c] = "ready" => complete[c]
  /\ request[c] \in Serving => complete[c]
  /\ shake[c].at \in Catching => complete[c]
  /\ c \in Range(cast.to) => complete[c]
  /\ stage[c] \in Early /\ socket[c] = "open" => shake[c].at = "none"
  /\ shake[c].at \in Before /\ socket[c] = "open" => sent[c] = <<>> /\ wire[c] = <<>>

LineInv == \A c \in Conns : InLine(sent[c], wire[c], socket[c]) /\ Progress(c)

(* What a step may do to these. *)
Proceeds(d) ==
  /\ complete[d] => complete'[d]
  /\ complete'[d] => complete[d] \/ sent'[d] # <<>>
  /\ stage'[d] = "ready" => stage[d] = "ready" \/ complete'[d]
  /\ request'[d] \in Serving => request[d] \in Serving \/ stage[d] = "ready"
  /\ shake'[d].at \in Catching => shake[d].at \in Catching \/ complete'[d]
  /\ stage'[d] \in Early => stage[d] \in Early
  /\ stage'[d] \in Early /\ shake'[d].at # "none" =>
       shake[d].at # "none" \/ wire[d] # <<>> \/ socket'[d] # "open"
  /\ shake'[d].at \in Before => shake[d].at \in Before \/ stage[d] = "awaitingHello"

LEMMA StillProceeds ==
  ASSUME NEW d \in Conns, stage'[d] = stage[d], complete'[d] = complete[d], request'[d] = request[d],
         shake'[d] = shake[d]
  PROVE  Proceeds(d)
BY DEF Proceeds

LEMMA AllProceed ==
  ASSUME IInv, TypeInv, [Next]_vars
  PROVE  \A d \in Conns : Proceeds(d)
<1>0. /\ stage \in [Conns -> StageNames] /\ complete \in [Conns -> BOOLEAN]
      /\ request \in [Conns -> RequestNames] /\ shake \in [Conns -> Shakes] /\ FrameTypes
  BY FrameTypesHold DEF IInv, Shape, TypeInv
<1>1. CASE UNCHANGED vars \/ Publisher \/ BroadcastFails \/ Close
  <2>1. UNCHANGED <<stage, complete, request, shake>>
    BY <1>1 DEF vars, connVars, Publisher, StartBroadcast, ReadBroadcast, SendBroadcast, BroadcastFails,
                Close
  <2> QED BY <2>1, StillProceeds
<1>2. ASSUME NEW c \in Conns, Server(c)
      PROVE  \A d \in Conns : Proceeds(d)
  <2> SUFFICES ASSUME NEW d \in Conns PROVE Proceeds(d)
    OBVIOUS
  <2>1. UNCHANGED <<stage, complete>>
    BY <1>2 DEF Server, ReadSnapshot, SendHello, SendCatchUp, DeferredRuns, RequestAnswers, Left
  <2>2. request'[d] = request[d] \/ request'[d] = "none" \/ stage[d] = "ready"
    BY <1>0, <1>2 DEF Server, ReadSnapshot, SendHello, SendCatchUp, DeferredRuns, RequestAnswers, Left
  <2>3. \/ shake'[d] = shake[d]
        \/ shake[d].at = "reading" /\ shake'[d].at = "read"
        \/ shake[d].at = "catchReading" /\ shake'[d].at = "catchRead"
        \/ shake[d].at \in {"read", "catchRead"} /\ shake'[d].at = "done"
        \/ shake[d].at = "read" /\ shake'[d].at = "sending"
        \/ shake[d].at = "catchRead" /\ shake'[d].at = "catchSending"
    <3>1. CASE ReadSnapshot(c)
      BY <1>0, <3>1 DEF ReadSnapshot
    <3>2. CASE SendHello(c) \/ SendCatchUp(c)
      <4>1. CASE shake' = [shake EXCEPT ![c] = [NotShaking EXCEPT !.at = "done"]]
        BY <1>0, <3>2, <4>1 DEF SendHello, SendCatchUp, NotShaking
      <4>2. CASE shake' = [shake EXCEPT ![c].at = "sending"] /\ shake[c].at = "read"
        BY <1>0, <4>2 DEF Shakes
      <4>3. CASE shake' = [shake EXCEPT ![c].at = "catchSending"] /\ shake[c].at = "catchRead"
        BY <1>0, <4>3 DEF Shakes
      <4> QED BY <3>2, <4>1, <4>2, <4>3 DEF SendHello, SendCatchUp
    <3>3. CASE DeferredRuns(c) \/ RequestAnswers(c) \/ Left(c)
      BY <3>3 DEF DeferredRuns, RequestAnswers, Left
    <3> QED BY <1>2, <3>1, <3>2, <3>3 DEF Server
  <2> QED BY <2>1, <2>2, <2>3 DEF Proceeds, Serving, Catching, Before, Early
<1>3. ASSUME NEW c \in Conns,
             \/ Accept(c) \/ ReceiveHello(c) \/ ReceiveInvalid(c) \/ ReceiveRequest(c)
             \/ RequestChanges(c) \/ HandshakeTimeout(c)
      PROVE  \A d \in Conns : Proceeds(d)
  <2> SUFFICES ASSUME NEW d \in Conns PROVE Proceeds(d)
    OBVIOUS
  <2>1. UNCHANGED complete
    BY <1>3 DEF Accept, ReceiveHello, ReceiveInvalid, ReceiveRequest, RequestChanges, HandshakeTimeout, Fail
  <2>2. \/ stage'[d] = stage[d] \/ stage'[d] = "closing"
        \/ stage[d] = "none" /\ stage'[d] = "awaitingHello" /\ UNCHANGED shake
        \/ stage[d] = "awaitingHello" /\ stage'[d] = "handshaking" /\ shake'[d].at = "reading"
    BY <1>0, <1>3 DEF Accept, ReceiveHello, ReceiveInvalid, ReceiveRequest, RequestChanges,
                      HandshakeTimeout, Fail
  <2>3. \/ shake'[d] = shake[d]
        \/ stage[d] = "awaitingHello" /\ stage'[d] = "handshaking" /\ shake'[d].at = "reading"
    BY <1>0, <1>3 DEF Accept, ReceiveHello, ReceiveInvalid, ReceiveRequest, RequestChanges,
                      HandshakeTimeout, Fail
  <2>4. \/ request'[d] = request[d] \/ stage[d] = "ready" \/ request'[d] = "deferred"
        \/ request[d] = "running" /\ request'[d] = "changed"
    BY <1>0, <1>3 DEF Accept, ReceiveHello, ReceiveInvalid, ReceiveRequest, RequestChanges,
                      HandshakeTimeout, Fail
  <2> QED BY <2>1, <2>2, <2>3, <2>4 DEF Proceeds, Serving, Catching, Before, Early
<1>4. ASSUME NEW c \in Conns, ReadFails(c) \/ PeerCloses(c) \/ CloseDone(c)
      PROVE  \A d \in Conns : Proceeds(d)
  <2> SUFFICES ASSUME NEW d \in Conns PROVE Proceeds(d)
    OBVIOUS
  <2>1. UNCHANGED <<complete, request>>
    BY <1>4 DEF ReadFails, PeerCloses, CloseDone, Disconnected
  <2>2. stage'[d] = stage[d] \/ stage'[d] \in {"closing", "closed"}
    BY <1>0, <1>4 DEF ReadFails, PeerCloses, CloseDone, Disconnected
  <2>3. \/ shake'[d] = shake[d]
        \/ shake[d].at # "none" /\ shake'[d].at = "done"
    BY <1>0, <1>4 DEF ReadFails, PeerCloses, CloseDone, Disconnected, NotShaking
  <2> QED BY <2>1, <2>2, <2>3 DEF Proceeds, Serving, Catching, Before, Early
<1>5. ASSUME NEW c \in Conns, Write(c)
      PROVE  \A d \in Conns : Proceeds(d)
  <2> SUFFICES ASSUME NEW d \in Conns PROVE Proceeds(d)
    OBVIOUS
  <2>1. CASE d # c
    <3>1. stage'[d] = stage[d] /\ complete'[d] = complete[d] /\ request'[d] = request[d]
          /\ shake'[d] = shake[d]
      BY <1>0, <1>5, <2>1 DEF Write, HelloSent
    <3> QED BY <3>1, StillProceeds
  <2>2. CASE d = c
    <3>1. wire[d] # <<>> /\ sent'[d] # <<>> /\ request'[d] = request[d]
      BY <1>0, <1>5, <2>2 DEF Write, FrameTypes
    <3>2. \/ stage'[d] = stage[d] /\ complete'[d] = complete[d]
             /\ (shake'[d] = shake[d] \/ shake'[d].at = "done")
          \/ stage'[d] = "ready" /\ complete'[d] /\ shake'[d].at \in {"catchReading", "done"}
      <4>1. CASE HelloSent(c)
        BY <1>0, <2>2, <4>1 DEF HelloSent, NotShaking
      <4>2. CASE UNCHANGED <<stage, complete>>
        BY <1>0, <1>5, <2>2, <4>2 DEF Write, HelloSent, NotShaking
      <4> QED BY <1>5, <4>1, <4>2 DEF Write
    <3> QED BY <3>1, <3>2 DEF Proceeds, Serving, Catching, Before, Early
  <2> QED BY <2>1, <2>2
<1> QED BY <1>1, <1>2, <1>3, <1>4, <1>5 DEF Next, Environment

(* The connections still to be served were ready when the broadcast began. *)
LEMMA CastRange ==
  ASSUME IInv, TypeInv, [Next]_vars
  PROVE  \A d \in Conns : d \in Range(cast'.to) => d \in Range(cast.to) \/ d \in Ready
<1> SUFFICES ASSUME NEW d \in Conns, d \in Range(cast'.to)
             PROVE  d \in Range(cast.to) \/ d \in Ready
  OBVIOUS
<1>1. /\ cast = [at |-> cast.at, snap |-> cast.snap, to |-> cast.to] /\ cast.to \in Seq(Conns)
      /\ cast.at # "none" => cast.to # <<>>
  BY DEF IInv, Shape, TypeInv
<1>2. CASE cast'.to = cast.to
  BY <1>2
<1>3. CASE cast' = NoCast
  BY <1>3 DEF NoCast, Range
<1>4. CASE cast'.to = SetToSeq(Ready)
  <2>1. Ready \subseteq Accepted
    BY DEF Ready, Accepted
  <2>2. IsFiniteSet(Ready)
    BY <2>1, FS_Subset DEF TypeInv
  <2> QED BY <1>4, <2>2, ListOfSet
<1>5. CASE cast'.to = Tail(cast.to) /\ cast.to # <<>>
  <2>1. \A q \in Seq(Conns) : q # <<>> => \A x \in Range(Tail(q)) : x \in Range(q)
    <3> SUFFICES ASSUME NEW q \in Seq(Conns), q # <<>>, NEW i \in DOMAIN Tail(q)
                 PROVE  Tail(q)[i] \in Range(q)
      BY DEF Range
    <3>1. i + 1 \in DOMAIN q /\ Tail(q)[i] = q[i + 1]
      OBVIOUS
    <3> QED BY <3>1 DEF Range
  <2> QED BY <1>1, <1>5, <2>1
<1>6. CASE cast' = Served /\ cast.at \in {"sending", "waiting"}
  BY <1>1, <1>3, <1>5, <1>6 DEF Served
<1>7. Casting
  BY CastStep
<1>8. CASE cast.at = "reading" /\ cast' = [cast EXCEPT !.at = "sending", !.snap = Snapshot(@.rev, content)]
  BY <1>1, <1>2, <1>8
<1>9. CASE cast' = [cast EXCEPT !.at = "waiting"]
  BY <1>1, <1>2, <1>9
<1>10. CASE cast' = [at |-> "reading", snap |-> Snapshot(revision + 1, 0), to |-> SetToSeq(Ready)]
  BY <1>4, <1>10
<1> QED BY <1>2, <1>3, <1>6, <1>7, <1>8, <1>9, <1>10 DEF Casting

(* The connection that is served is one of them. *)
LEMMA ServedOfCast ==
  ASSUME TypeInv, cast.at # "none"
  PROVE  Head(cast.to) \in Conns /\ Head(cast.to) \in Range(cast.to)
<1>1. \A q \in Seq(Conns) : q # <<>> => Head(q) \in Conns /\ Head(q) \in Range(q)
  <2> SUFFICES ASSUME NEW q \in Seq(Conns), q # <<>> PROVE Head(q) \in Conns /\ Head(q) \in Range(q)
    OBVIOUS
  <2>1. 1 \in DOMAIN q /\ Head(q) = q[1]
    OBVIOUS
  <2> QED BY <2>1 DEF Range
<1> QED BY <1>1 DEF TypeInv

LEMMA ProgressStep ==
  ASSUME IInv, TypeInv, LineInv, [Next]_vars, NEW d \in Conns
  PROVE  Progress(d)'
<1>1. Proceeds(d) /\ Moves(d) /\ Progress(d) /\ FrameTypes
  BY AllProceed, FramesMove, FrameTypesHold DEF LineInv
<1>2. d \in Range(cast'.to) => complete[d]
  BY <1>1, CastRange DEF Progress, Ready
<1>3. sent[d] # <<>> => sent'[d] # <<>>
  BY <1>1 DEF Moves, Stays, Adds, Cuts, Writes, Drops, FrameTypes
<1>4. socket'[d] = "open" => socket[d] = "open"
  BY <1>1 DEF Moves, Stays, Adds, Cuts, Writes, Drops
<1>5. /\ complete'[d] => sent'[d] # <<>>
      /\ stage'[d] = "ready" => complete'[d]
      /\ request'[d] \in Serving => complete'[d]
      /\ shake'[d].at \in Catching => complete'[d]
      /\ d \in Range(cast'.to) => complete'[d]
  BY <1>1, <1>2, <1>3 DEF Progress, Proceeds
<1>6. ASSUME stage'[d] \in Early, socket'[d] = "open" PROVE shake'[d].at = "none"
  <2>1. stage[d] \in Early /\ socket[d] = "open"
    BY <1>1, <1>4, <1>6 DEF Proceeds
  <2>2. shake[d].at = "none" /\ wire[d] = <<>>
    BY <1>1, <2>1 DEF Progress, Before
  <2> QED BY <1>1, <1>6, <2>2 DEF Proceeds
<1>7. ASSUME shake'[d].at \in Before, socket'[d] = "open" PROVE sent'[d] = <<>> /\ wire'[d] = <<>>
  <2>1. sent[d] = <<>> /\ wire[d] = <<>>
    BY <1>1, <1>4, <1>7 DEF Proceeds, Progress, Before, Early
  <2>2. ~complete[d]
    BY <1>1, <2>1 DEF Progress
  <2>3. ~Adds(d)
    <3> SUFFICES ASSUME NEW f \in Frames, Handed(d, f) PROVE FALSE
      BY DEF Adds
    <3>1. d \notin Range(cast.to) /\ request[d] \notin Serving /\ shake[d].at \notin Catching
      BY <1>1, <2>2 DEF Progress
    <3>2. cast.at = "sending" => Head(cast.to) \in Range(cast.to)
      BY ServedOfCast
    <3> QED BY <1>7, <3>1, <3>2 DEF Handed, Serving, Catching, Before
  <2>4. Stays(d)
    BY <1>1, <1>7, <2>1, <2>3 DEF Moves, Cuts, Writes, Drops
  <2> QED BY <2>1, <2>4 DEF Stays
<1> QED BY <1>5, <1>6, <1>7 DEF Progress, Range

(* What a connection that is closed says last: the error, or nothing. *)
LEMMA CutsWith ==
  ASSUME NEW d \in Conns, Cuts(d)
  PROVE  \E e \in Seq(Frames) : /\ wire'[d] = Cut(wire[d], e) /\ Len(e) <= 1
                                /\ Len(e) = 1 => e[1].type = "hello_error" /\ e[1].by = "server"
<1>1. <<>> \in Seq(Frames) /\ Len(<<>>) = 0
  OBVIOUS
<1>2. FinalFrame \in Frames /\ FinalFrame.type = "hello_error" /\ FinalFrame.by = "server"
  BY PlainFrames DEF FinalFrame, CoveringFrames, Frame
<1>3. <<FinalFrame>> \in Seq(Frames) /\ Len(<<FinalFrame>>) = 1 /\ <<FinalFrame>>[1] = FinalFrame
  BY <1>2
<1>4. Len(<<>>) <= 1 /\ ~(Len(<<>>) = 1) /\ Len(<<FinalFrame>>) <= 1
  BY <1>1, <1>3
<1>5. CASE wire'[d] = Cut(wire[d], <<>>)
  BY <1>1, <1>4, <1>5, Zenon
<1>6. CASE wire'[d] = Cut(wire[d], <<FinalFrame>>)
  <2>1. <<FinalFrame>>[1].type = "hello_error" /\ <<FinalFrame>>[1].by = "server"
    BY <1>2, <1>3, Zenon
  <2> QED BY <1>3, <1>4, <1>6, <2>1, Zenon
<1> QED BY <1>5, <1>6 DEF Cuts

LEMMA InLineStep ==
  ASSUME IInv, TypeInv, LineInv, [Next]_vars, NEW d \in Conns
  PROVE  InLine(sent'[d], wire'[d], socket'[d])
<1>1. Moves(d) /\ Progress(d) /\ InLine(sent[d], wire[d], socket[d])
  BY FramesMove DEF LineInv
<1>2. sent[d] \in Seq(Frames) /\ wire[d] \in Seq(Frames)
  BY FrameTypesHold DEF FrameTypes
<1>3. CASE Stays(d)
  BY <1>1, <1>3 DEF Stays
<1>4. CASE Adds(d)
  <2>1. PICK f \in Frames : Handed(d, f) /\ wire'[d] = Append(wire[d], f)
    BY <1>4 DEF Adds
  <2>2. socket[d] = "open" /\ socket'[d] = "open" /\ sent'[d] = sent[d]
    BY <1>4 DEF Adds
  <2>3. cast.at = "sending" => Head(cast.to) \in Range(cast.to)
    BY ServedOfCast
  <2>4. \/ f.type = "hello" /\ shake[d].at = "read"
        \/ f.type \in {"event", "response"} /\ complete[d]
    BY <1>1, <2>1, <2>3 DEF Handed, Progress, Serving, Catching, Frame
  <2>5. \/ f.type = "hello" /\ sent[d] = <<>> /\ wire[d] = <<>>
        \/ f.type \in {"event", "response"} /\ sent[d] # <<>>
    BY <1>1, <2>2, <2>4 DEF Progress, Before
  <2>6. /\ InLine(sent[d], wire[d], "open") /\ f.type # "hello_error"
        /\ (sent[d] # <<>> /\ f.type # "hello") \/ (sent[d] = <<>> /\ wire[d] = <<>> /\ f.type = "hello")
    BY <1>1, <2>2, <2>5
  <2>7. InLine(sent[d], Append(wire[d], f), "open")
    BY <1>2, <2>6, AddedInLine
  <2> QED BY <2>1, <2>2, <2>7
<1>5. CASE Cuts(d)
  <2>1. InLine(sent[d], wire[d], "open") /\ sent'[d] = sent[d] /\ socket'[d] = "closing"
    BY <1>1, <1>5 DEF Cuts
  <2>2. PICK e \in Seq(Frames) : wire'[d] = Cut(wire[d], e) /\ Len(e) <= 1
                                 /\ (Len(e) = 1 => e[1].type = "hello_error")
    BY <1>5, CutsWith
  <2> QED BY <1>2, <2>1, <2>2, CutInLine
<1>6. CASE Writes(d)
  BY <1>1, <1>2, <1>6, WrittenInLine DEF Writes
<1>7. CASE Drops(d)
  BY <1>1, <1>2, <1>7, DroppedInLine DEF Drops
<1> QED BY <1>1, <1>3, <1>4, <1>5, <1>6, <1>7 DEF Moves

LEMMA InitLineInv == Init => LineInv
<1> SUFFICES ASSUME Init, NEW c \in Conns PROVE InLine(sent[c], wire[c], socket[c]) /\ Progress(c)
  BY DEF LineInv
<1>1. InLine(<<>>, <<>>, "open")
  BY DEF InLine
<1>2. sent[c] = <<>> /\ wire[c] = <<>> /\ socket[c] = "open"
  BY DEF Init
<1>3. c \notin Range(cast.to)
  BY DEF Init, NoCast, Range
<1>4. Progress(c)
  BY <1>2, <1>3 DEF Init, Progress, Serving, Catching, NotShaking
<1> QED BY <1>1, <1>2, <1>4

LEMMA NextLineInv == IInv /\ TypeInv /\ LineInv /\ [Next]_vars => LineInv'
<1> SUFFICES ASSUME IInv, TypeInv, LineInv, [Next]_vars PROVE LineInv'
  OBVIOUS
<1>1. \A d \in Conns : InLine(sent'[d], wire'[d], socket'[d])
  BY InLineStep
<1>2. \A d \in Conns : Progress(d)'
  BY ProgressStep
<1>3. \A d \in Conns : InLine(sent[d], wire[d], socket[d])'
  BY <1>1 DEF InLine
<1> QED BY <1>2, <1>3 DEF LineInv

LEMMA LineInvariance == Spec => []LineInv
<1> QED BY InitLineInv, NextLineInv, Invariance, TypeInvariance, PTL DEF Spec

(* What a client reads is a hello, then events and responses, and a
   hello_error only at the end, whatever races the handshake (server.ts,
   finishHandshake and failProtocol; listener.ts, close). *)
THEOREM FramesInOrder == Spec => []WireOrder
<1>1. IInv /\ LineInv => WireOrder
  <2> SUFFICES ASSUME IInv, LineInv, NEW c \in Conns, NEW i \in DOMAIN sent[c]
               PROVE  /\ i = 1 => sent[c][i].type \in {"hello", "hello_error"}
                      /\ i > 1 => sent[c][i].type # "hello"
                      /\ sent[c][i].type = "hello_error" => i = Len(sent[c])
    BY DEF WireOrder
  <2>1. i \in 1..Len(sent[c])
    BY FrameTypesHold DEF FrameTypes
  <2> QED BY <2>1 DEF LineInv, InLine, FirstTypes
<1> QED BY <1>1, Invariance, LineInvariance, PTL

-----------------------------------------------------------------------------
(* Who is told of the current revision. *)

(* At most one frame of a handshake is on its way: the hello, or the event
   that catches up, whichever it waits for. *)
ShakeLine(w, r) ==
  /\ \A i \in 1..Len(w) :
       /\ w[i].type = "hello" => w[i].by = "shake"
       /\ w[i].by = "broadcast" => w[i].type = "event"
       /\ w[i].by = "shake" => \/ w[i].type = "hello" /\ r.at = "sending" /\ w[i].snap = r.snap
                               \/ w[i].type = "event" /\ r.at = "catchSending"
  /\ \A i, j \in 1..Len(w) : w[i].by = "shake" /\ w[j].by = "shake" => i = j

(* A client has applied revision rev, or a frame with it is on its way, or
   the handshake is about to send one. *)
Brings(f, rev) == f.type \in {"hello", "event"} /\ f.snap.rev = rev
Reached(v, w, r, rev) ==
  \/ v.rev = rev
  \/ \E i \in 1..Len(w) : Brings(w[i], rev)
  \/ r.at \in {"catchReading", "catchRead"} /\ r.snap.rev = rev

(* The connections the broadcast has still to send to. *)
StillTold == IF cast.at = "waiting" THEN Range(Tail(cast.to)) ELSE Range(cast.to)
Told(c) == revision = lostRev \/ Reached(view[c], wire[c], shake[c], revision) \/ c \in StillTold

(* Every ready client is told, or the last broadcast has failed. *)
Informed(c) ==
  /\ view[c].rev <= revision
  /\ ShakeLine(wire[c], shake[c])
  /\ stage[c] \in {"closing", "closed"} => socket[c] # "open"
  /\ stage[c] \in Early => shake[c].at = "none"
  /\ c \in Ready /\ socket[c] = "open" => Told(c)
ReachInv == \A c \in Conns : Informed(c)

Awaiting == {"sending", "catchSending"}

(* A handshake that waits for no frame has none on its way. *)
LEMMA NoneOfShake ==
  ASSUME NEW w, NEW r, ShakeLine(w, r), r.at \notin Awaiting, NEW q
  PROVE  ShakeLine(w, q) /\ \A i \in 1..Len(w) : w[i].by # "shake"
BY DEF ShakeLine, Awaiting

(* The frames that are handed over, behind what is there. *)
LEMMA AddedShakeLine ==
  ASSUME NEW S, NEW w \in Seq(S), NEW f \in S, NEW r, NEW q, ShakeLine(w, r),
         \/ /\ f.by \in {"broadcast", "request"} /\ f.type # "hello"
            /\ (f.by = "broadcast" => f.type = "event") /\ q = r
         \/ /\ r.at \notin Awaiting /\ f.by = "shake"
            /\ \/ f.type = "hello" /\ q.at = "sending" /\ f.snap = q.snap
               \/ f.type = "event" /\ q.at = "catchSending"
  PROVE  ShakeLine(Append(w, f), q)
<1> DEFINE v == Append(w, f)
<1>1. /\ Len(v) = Len(w) + 1 /\ v[Len(w) + 1] = f /\ \A i \in 1..Len(w) : v[i] = w[i]
      /\ Len(w) \in Nat
  OBVIOUS
<1> HIDE DEF v
<1>2. CASE f.by \in {"broadcast", "request"} /\ f.type # "hello"
           /\ (f.by = "broadcast" => f.type = "event") /\ q = r
  BY <1>1, <1>2 DEF ShakeLine, v
<1>3. CASE /\ r.at \notin Awaiting /\ f.by = "shake"
           /\ \/ f.type = "hello" /\ q.at = "sending" /\ f.snap = q.snap
              \/ f.type = "event" /\ q.at = "catchSending"
  <2>1. \A i \in 1..Len(w) : w[i].by # "shake"
    BY <1>3, NoneOfShake
  <2> QED BY <1>1, <1>3, <2>1 DEF ShakeLine, v
<1> QED BY <1>2, <1>3

LEMMA CutShakeLine ==
  ASSUME NEW S, NEW w \in Seq(S), NEW e \in Seq(S), NEW r, ShakeLine(w, r),
         Len(e) <= 1, Len(e) = 1 => e[1].type = "hello_error" /\ e[1].by = "server"
  PROVE  ShakeLine(Cut(w, e), r)
<1> DEFINE v == Cut(w, e)
<1>0. Len(e) \in Nat
  OBVIOUS
<1>1. /\ v \in Seq(S) /\ (w = <<>> => v = e)
      /\ w # <<>> => /\ Len(v) = 1 + Len(e) /\ v[1] = w[1]
                     /\ Len(e) = 1 => v[2] = e[1]
  BY <1>0, CutFrames
<1> HIDE DEF v
<1>2. Len(e) = 0 \/ (Len(e) = 1 /\ e[1].type = "hello_error" /\ e[1].by = "server")
  <2>1. \A n \in Nat : n <= 1 => n = 0 \/ n = 1
    OBVIOUS
  <2>2. Len(e) = 0 \/ Len(e) = 1
    BY <1>0, <2>1, Zenon
  <2> QED BY <2>2, Zenon
<1>3. \A i \in 1..Len(v) : \/ i = 1 /\ 1 \in 1..Len(w) /\ v[i] = w[1]
                           \/ v[i].type = "hello_error" /\ v[i].by = "server"
  <2>1. CASE w = <<>>
    <3>1. v = e
      BY <1>1, <2>1
    <3>2. \A i \in 1..Len(e) : i = 1 /\ Len(e) = 1
      BY <1>2
    <3> QED BY <1>2, <3>1, <3>2
  <2>2. CASE w # <<>>
    <3>1. v[1] = w[1] /\ Len(v) = 1 + Len(e) /\ (Len(e) = 1 => v[2] = e[1])
      BY <1>1, <2>2
    <3>2. \A i \in 1..Len(v) : i = 1 \/ (i = 2 /\ Len(e) = 1)
      BY <1>2, <3>1
    <3>3. 1 \in 1..Len(w)
      BY <2>2
    <3> QED BY <1>2, <3>1, <3>2, <3>3
  <2> QED BY <2>1, <2>2
<1>4. ShakeLine(v, r)
  BY <1>3 DEF ShakeLine
<1> QED BY <1>4 DEF v

(* The first frame is written: the one of the handshake, which goes on, or
   another one. *)
LEMMA WrittenShakeLine ==
  ASSUME NEW S, NEW w \in Seq(S), w # <<>>, NEW r, NEW q, ShakeLine(w, r),
         q = r \/ Head(w).by = "shake"
  PROVE  ShakeLine(Tail(w), q)
<1> DEFINE v == Tail(w)
<1>1. Len(v) = Len(w) - 1 /\ Len(w) \in Nat /\ Len(w) > 0 /\ Head(w) = w[1]
  OBVIOUS
<1>2. \A i \in 1..Len(v) : i + 1 \in 1..Len(w) /\ v[i] = w[i + 1]
  OBVIOUS
<1> HIDE DEF v
<1>3. Head(w).by = "shake" => \A i \in 1..Len(v) : v[i].by # "shake"
  <2> SUFFICES ASSUME Head(w).by = "shake", NEW i \in 1..Len(v), v[i].by = "shake" PROVE FALSE
    OBVIOUS
  <2>1. 1 \in 1..Len(w) /\ i + 1 \in 1..Len(w) /\ w[1].by = "shake" /\ w[i + 1].by = "shake"
    BY <1>1, <1>2
  <2>2. 1 = i + 1
    BY <2>1 DEF ShakeLine
  <2> QED BY <2>2
<1>4. \A i \in 1..Len(v) :
        /\ v[i].type = "hello" => v[i].by = "shake"
        /\ v[i].by = "broadcast" => v[i].type = "event"
        /\ v[i].by = "shake" => \/ v[i].type = "hello" /\ r.at = "sending" /\ v[i].snap = r.snap
                                \/ v[i].type = "event" /\ r.at = "catchSending"
  BY <1>2 DEF ShakeLine
<1>5. \A i, j \in 1..Len(v) : v[i].by = "shake" /\ v[j].by = "shake" => i = j
  <2> SUFFICES ASSUME NEW i \in 1..Len(v), NEW j \in 1..Len(v), v[i].by = "shake", v[j].by = "shake"
               PROVE  i = j
    OBVIOUS
  <2>1. /\ i + 1 \in 1..Len(w) /\ j + 1 \in 1..Len(w)
        /\ w[i + 1].by = "shake" /\ w[j + 1].by = "shake"
    BY <1>2
  <2>2. i + 1 = j + 1
    BY <2>1 DEF ShakeLine
  <2> QED BY <2>2
<1>6. ShakeLine(v, q)
  BY <1>3, <1>4, <1>5 DEF ShakeLine
<1> QED BY <1>6 DEF v

LEMMA EmptyShakeLine ==
  ASSUME NEW r
  PROVE  ShakeLine(<<>>, r)
BY DEF ShakeLine

(* A frame behind those there takes nothing away, and may bring the revision. *)
LEMMA AddedReached ==
  ASSUME NEW S, NEW w \in Seq(S), NEW f \in S, NEW v, NEW r, NEW q, NEW rev,
         \/ Brings(f, rev)
         \/ /\ Reached(v, w, r, rev)
            /\ q = r \/ r.at \notin {"catchReading", "catchRead"} \/ r.snap.rev # rev
  PROVE  Reached(v, Append(w, f), q, rev)
<1>1. /\ Len(Append(w, f)) = Len(w) + 1 /\ Append(w, f)[Len(w) + 1] = f
      /\ \A i \in 1..Len(w) : Append(w, f)[i] = w[i]
      /\ Len(w) \in Nat
  OBVIOUS
<1>2. CASE Brings(f, rev)
  <2>1. Len(w) + 1 \in 1..Len(Append(w, f))
    BY <1>1
  <2> QED BY <1>1, <1>2, <2>1 DEF Reached
<1>3. ASSUME NEW i \in 1..Len(w), Brings(w[i], rev) PROVE Reached(v, Append(w, f), q, rev)
  <2>1. i \in 1..Len(Append(w, f)) /\ Append(w, f)[i] = w[i]
    BY <1>1
  <2> QED BY <1>3, <2>1 DEF Reached
<1> QED BY <1>2, <1>3 DEF Reached

(* The client applies the frame that is written. *)
LEMMA WrittenReached ==
  ASSUME NEW w \in Seq(Frames), w # <<>>, NEW v \in Snapshots, NEW r, NEW q, NEW rev \in Nat,
         v.rev <= rev, Head(w).snap.rev <= rev, Reached(v, w, r, rev),
         q = r \/ r.at \notin {"catchReading", "catchRead"},
         NEW u, u = IF Head(w).type \in {"hello", "event"} THEN Applied(v, Head(w).snap) ELSE v
  PROVE  Reached(u, Tail(w), q, rev)
<1>0. Head(w) \in Frames
  OBVIOUS
<1>1. Head(w).snap \in Snapshots /\ Head(w).snap.rev \in Int /\ v.rev \in Int
  BY <1>0 DEF Frames, Snapshots
<1>2. CASE v.rev = rev
  BY <1>1, <1>2 DEF Applied, Reached
<1>3. ASSUME NEW i \in 1..Len(w), Brings(w[i], rev) PROVE Reached(u, Tail(w), q, rev)
  <2>1. CASE i = 1
    <3>1. Brings(Head(w), rev)
      BY <1>3, <2>1
    <3> QED BY <1>1, <3>1 DEF Brings, Applied, Reached
  <2>2. CASE i # 1
    <3>1. i - 1 \in 1..Len(Tail(w)) /\ Tail(w)[i - 1] = w[i]
      BY <2>2
    <3> QED BY <1>3, <3>1 DEF Reached
  <2> QED BY <2>1, <2>2
<1>4. CASE r.at \in {"catchReading", "catchRead"} /\ r.snap.rev = rev
  BY <1>4 DEF Reached
<1> QED BY <1>2, <1>3, <1>4 DEF Reached

-----------------------------------------------------------------------------
(* The steps of a handshake, seen from its frames. *)

ShakeMoves(d) ==
  \/ shake'[d] = shake[d]
  \/ stage[d] = "awaitingHello" /\ stage'[d] = "handshaking"
  \/ shake[d].at \in {"reading", "read", "catchReading", "catchRead"}
  \/ Writes(d) /\ Head(wire[d]).type = "hello"
  \/ Writes(d) /\ Head(wire[d]).by = "shake"
  \/ Drops(d) /\ shake[d].at \in Awaiting

LEMMA ShakeStep ==
  ASSUME IInv, TypeInv, [Next]_vars
  PROVE  \A d \in Conns : ShakeMoves(d)
<1>0. stage \in [Conns -> StageNames] /\ shake \in [Conns -> Shakes] /\ FrameTypes
  BY FrameTypesHold DEF IInv, Shape, TypeInv
<1> SUFFICES ASSUME NEW d \in Conns PROVE ShakeMoves(d)
  OBVIOUS
<1>1. CASE UNCHANGED vars \/ Publisher \/ BroadcastFails \/ Close
  BY <1>1 DEF vars, connVars, Publisher, StartBroadcast, ReadBroadcast, SendBroadcast, BroadcastFails,
              Close, ShakeMoves
<1>2. ASSUME NEW c \in Conns, Server(c) PROVE ShakeMoves(d)
  BY <1>0, <1>2 DEF Server, ReadSnapshot, SendHello, SendCatchUp, DeferredRuns, RequestAnswers, Left,
                    ShakeMoves
<1>3. ASSUME NEW c \in Conns,
             \/ Accept(c) \/ ReceiveHello(c) \/ ReceiveInvalid(c) \/ ReceiveRequest(c)
             \/ ReadFails(c) \/ RequestChanges(c) \/ HandshakeTimeout(c)
      PROVE  ShakeMoves(d)
  BY <1>0, <1>3 DEF Accept, ReceiveHello, ReceiveInvalid, ReceiveRequest, ReadFails, RequestChanges,
                    HandshakeTimeout, Fail, ShakeMoves
<1>4. ASSUME NEW c \in Conns, PeerCloses(c) \/ CloseDone(c) PROVE ShakeMoves(d)
  <2>1. CASE d = c
    BY <1>0, <1>4, <2>1 DEF PeerCloses, CloseDone, Disconnected, Drops, ShakeMoves, FrameTypes, Awaiting
  <2>2. CASE d # c
    BY <1>0, <1>4, <2>2 DEF PeerCloses, CloseDone, Disconnected, ShakeMoves
  <2> QED BY <2>1, <2>2
<1>5. ASSUME NEW c \in Conns, Write(c) PROVE ShakeMoves(d)
  <2>1. CASE d = c
    <3>1. Writes(d)
      BY <1>0, <1>5, <2>1 DEF Write, Writes, FrameTypes
    <3> QED BY <1>5, <2>1, <3>1 DEF Write, ShakeMoves
  <2>2. CASE d # c
    BY <1>0, <1>5, <2>2 DEF Write, HelloSent, ShakeMoves
  <2> QED BY <2>1, <2>2
<1> QED BY <1>1, <1>2, <1>3, <1>4, <1>5 DEF Next, Environment

(* The frame of a handshake stays alone, and is the one it waits for. *)
LEMMA ShakeLineStep ==
  ASSUME IInv, TypeInv, ReachInv, [Next]_vars, NEW d \in Conns
  PROVE  ShakeLine(wire'[d], shake'[d])
<1>1. Moves(d) /\ ShakeMoves(d) /\ Informed(d)
  BY FramesMove, ShakeStep DEF ReachInv
<1>2. wire[d] \in Seq(Frames) /\ ShakeLine(wire[d], shake[d])
  BY <1>1, FrameTypesHold DEF FrameTypes, Informed
<1>3. \/ ShakeLine(wire[d], shake'[d])
      \/ Writes(d) /\ Head(wire[d]).by = "shake"
      \/ Drops(d)
  <2>1. CASE shake'[d] = shake[d]
    BY <1>2, <2>1
  <2>2. CASE shake[d].at \notin Awaiting
    BY <1>2, <2>2, NoneOfShake
  <2>3. CASE Writes(d) /\ Head(wire[d]).type = "hello"
    <3>1. 1 \in 1..Len(wire[d]) /\ Head(wire[d]) = wire[d][1]
      BY <1>2, <2>3 DEF Writes
    <3>2. Head(wire[d]).by = "shake"
      BY <1>2, <2>3, <3>1 DEF ShakeLine
    <3> QED BY <2>3, <3>2
  <2>4. stage[d] = "awaitingHello" => shake[d].at \notin Awaiting
    BY <1>1 DEF Informed, Early, Awaiting
  <2>5. shake[d].at \in {"reading", "read", "catchReading", "catchRead"} => shake[d].at \notin Awaiting
    BY DEF Awaiting
  <2> QED BY <1>1, <2>1, <2>2, <2>3, <2>4, <2>5 DEF ShakeMoves
<1>4. CASE Writes(d)
  <2>1. CASE ShakeLine(wire[d], shake'[d])
    BY <1>2, <1>4, <2>1, WrittenShakeLine DEF Writes
  <2>2. CASE Head(wire[d]).by = "shake"
    BY <1>2, <1>4, <2>2, WrittenShakeLine DEF Writes
  <2>3. CASE Drops(d)
    BY <2>3, EmptyShakeLine DEF Drops
  <2> QED BY <1>3, <2>1, <2>2, <2>3
<1>5. CASE Drops(d)
  BY <1>5, EmptyShakeLine DEF Drops
<1>6. CASE Stays(d)
  BY <1>3, <1>4, <1>5, <1>6 DEF Stays
<1>7. CASE Adds(d)
  <2>1. PICK f \in Frames : Handed(d, f) /\ wire'[d] = Append(wire[d], f)
    BY <1>7 DEF Adds
  <2>2. \/ /\ f.by \in {"broadcast", "request"} /\ f.type # "hello"
           /\ (f.by = "broadcast" => f.type = "event") /\ shake'[d] = shake[d]
        \/ /\ shake[d].at \notin Awaiting /\ f.by = "shake"
           /\ \/ f.type = "hello" /\ shake'[d].at = "sending" /\ f.snap = shake'[d].snap
              \/ f.type = "event" /\ shake'[d].at = "catchSending"
    BY <2>1 DEF Handed, Frame, Awaiting
  <2>3. ShakeLine(Append(wire[d], f), shake'[d])
    BY <1>2, <2>2, AddedShakeLine
  <2> QED BY <2>1, <2>3
<1>8. CASE Cuts(d)
  <2>1. PICK e \in Seq(Frames) : wire'[d] = Cut(wire[d], e) /\ Len(e) <= 1
                                 /\ (Len(e) = 1 => e[1].type = "hello_error" /\ e[1].by = "server")
    BY <1>8, CutsWith
  <2>2. CASE ShakeLine(wire[d], shake'[d])
    BY <1>2, <2>1, <2>2, CutShakeLine
  <2> QED BY <1>3, <1>4, <1>5, <2>2
<1> QED BY <1>1, <1>4, <1>5, <1>6, <1>7, <1>8 DEF Moves

(* A connection that closes has a socket that closes, and one that waits for
   the hello has begun no handshake. *)
LEMMA EndsStep ==
  ASSUME IInv, TypeInv, ReachInv, [Next]_vars, NEW d \in Conns
  PROVE  /\ stage'[d] \in {"closing", "closed"} => socket'[d] # "open"
         /\ stage'[d] \in Early => shake'[d].at = "none"
<1>1. Moves(d) /\ ShakeMoves(d) /\ Informed(d) /\ Proceeds(d)
  BY FramesMove, ShakeStep, AllProceed DEF ReachInv
<1>2. socket'[d] = "open" => socket[d] = "open"
  BY <1>1 DEF Moves, Stays, Adds, Cuts, Writes, Drops
<1>3. stage \in [Conns -> StageNames] /\ FrameTypes /\ shake \in [Conns -> Shakes]
  BY FrameTypesHold DEF IInv, Shape, TypeInv
<1>4. stage'[d] = stage[d] \/ stage'[d] \notin {"closing", "closed"} \/ socket'[d] # "open"
  <2>1. CASE UNCHANGED vars \/ Publisher \/ BroadcastFails \/ Close
    BY <2>1 DEF vars, connVars, Publisher, StartBroadcast, ReadBroadcast, SendBroadcast, BroadcastFails,
                Close
  <2>2. ASSUME NEW c \in Conns, Server(c) PROVE stage'[d] = stage[d]
    BY <2>2 DEF Server, ReadSnapshot, SendHello, SendCatchUp, DeferredRuns, RequestAnswers, Left
  <2>3. ASSUME NEW c \in Conns, Environment(c) \/ HandshakeTimeout(c)
        PROVE  stage'[d] = stage[d] \/ stage'[d] \notin {"closing", "closed"} \/ socket'[d] # "open"
    BY <1>3, <2>3 DEF Environment, Accept, ReceiveHello, ReceiveInvalid, ReceiveRequest, ReadFails,
         RequestChanges, PeerCloses, Disconnected, Fail, Closed, HandshakeTimeout, FrameTypes
  <2>4. ASSUME NEW c \in Conns, Write(c) \/ CloseDone(c)
        PROVE  stage'[d] = stage[d] \/ stage'[d] \notin {"closing", "closed"} \/ socket'[d] # "open"
    BY <1>3, <2>4 DEF Write, HelloSent, CloseDone, Disconnected, FrameTypes
  <2> QED BY <2>1, <2>2, <2>3, <2>4 DEF Next
<1>5. ASSUME stage'[d] \in Early PROVE shake'[d].at = "none"
  <2>1. stage[d] \in Early /\ shake[d].at = "none"
    BY <1>1, <1>5 DEF Proceeds, Informed
  <2>2. ~(Writes(d) /\ (Head(wire[d]).type = "hello" \/ Head(wire[d]).by = "shake"))
    <3> SUFFICES ASSUME Writes(d), Head(wire[d]).type = "hello" \/ Head(wire[d]).by = "shake" PROVE FALSE
      OBVIOUS
    <3>1. 1 \in 1..Len(wire[d]) /\ Head(wire[d]) = wire[d][1]
      BY <1>3 DEF Writes, FrameTypes
    <3> QED BY <1>1, <2>1, <3>1 DEF Informed, ShakeLine
  <2> QED BY <1>1, <1>5, <2>1, <2>2 DEF ShakeMoves, Early, Awaiting
<1> QED BY <1>1, <1>2, <1>4, <1>5 DEF Informed

-----------------------------------------------------------------------------
(* What the clients have applied, and who is still told. *)

(* No frame is ahead of the publisher. *)
LEMMA FrameRevision ==
  ASSUME IInv, NEW c \in Conns, wire[c] # <<>>
  PROVE  Head(wire[c]) \in Frames /\ Head(wire[c]).snap.rev <= revision
<1>1. Head(wire[c]) \in CoveringFrames /\ revision \in Nat
  BY DEF IInv, Shape, FramesCover
<1> QED BY <1>1 DEF CoveringFrames, Covers, Nowhere, Snapshot

(* Only a frame that is written reaches a client. *)
LEMMA WriteOrNot ==
  ASSUME [Next]_vars
  PROVE  UNCHANGED <<sent, view>> \/ \E c \in Conns : Write(c)
BY DEF Next, vars, connVars, castVars, Server, Environment, Publisher, StartBroadcast, ReadBroadcast,
       SendBroadcast, BroadcastFails, Close, ReadSnapshot, SendHello, SendCatchUp, DeferredRuns,
       RequestAnswers, Left, Accept, ReceiveHello, ReceiveInvalid, ReceiveRequest, ReadFails,
       RequestChanges, PeerCloses, CloseDone, Disconnected, Fail, HandshakeTimeout

LEMMA ViewBehind ==
  ASSUME IInv, TypeInv, ReachInv, [Next]_vars, NEW d \in Conns
  PROVE  view'[d].rev <= revision'
<1>1. view \in [Conns -> Snapshots] /\ view[d].rev <= revision /\ revision \in Nat
  BY DEF IInv, Shape, TypeInv, ReachInv, Informed
<1>2. view[d].rev \in Int
  BY <1>1 DEF Snapshots
<1>3. revision' = revision \/ revision' = revision + 1
  BY CastStep DEF Casting
<1>4. CASE UNCHANGED view
  BY <1>1, <1>2, <1>3, <1>4
<1>5. ASSUME NEW c \in Conns, Write(c) PROVE view'[d].rev <= revision'
  <2>1. CASE d = c
    <3>1. Head(wire[d]) \in Frames /\ Head(wire[d]).snap.rev <= revision
      BY <1>5, <2>1, FrameRevision DEF Write
    <3>2. view'[d] = view[d] \/ view'[d] = Head(wire[d]).snap
      BY <1>1, <1>5, <2>1 DEF Write, Applied
    <3>3. Head(wire[d]).snap.rev \in Int
      BY <3>1 DEF Frames, Snapshots
    <3> QED BY <1>1, <1>2, <1>3, <3>1, <3>2, <3>3
  <2>2. CASE d # c
    <3>1. view'[d] = view[d]
      BY <1>1, <1>5, <2>2 DEF Write
    <3> QED BY <1>1, <1>2, <1>3, <3>1
  <2> QED BY <2>1, <2>2
<1> QED BY <1>4, <1>5, WriteOrNot

LEMMA HeadAndRest ==
  ASSUME NEW S, NEW q \in Seq(S), q # <<>>
  PROVE  /\ \A x \in Range(q) : x = Head(q) \/ x \in Range(Tail(q))
         /\ Len(q) = 1 => Range(Tail(q)) = {}
<1>1. Len(q) \in Nat /\ Len(q) > 0 /\ Head(q) = q[1] /\ DOMAIN q = 1..Len(q)
  OBVIOUS
<1>2. Tail(q) \in Seq(S) /\ Len(Tail(q)) = Len(q) - 1 /\ DOMAIN Tail(q) = 1..Len(Tail(q))
  OBVIOUS
<1>3. \A i \in 1..Len(q) : i # 1 => i - 1 \in 1..Len(Tail(q)) /\ Tail(q)[i - 1] = q[i]
  OBVIOUS
<1>4. ASSUME NEW x \in Range(q) PROVE x = Head(q) \/ x \in Range(Tail(q))
  <2>1. PICK i \in 1..Len(q) : x = q[i]
    BY <1>1, <1>4 DEF Range
  <2> QED BY <1>1, <1>2, <1>3, <2>1 DEF Range
<1>5. Len(q) = 1 => DOMAIN Tail(q) = {}
  <2> SUFFICES ASSUME Len(q) = 1 PROVE DOMAIN Tail(q) = {}
    OBVIOUS
  <2>1. Len(Tail(q)) = 0
    BY <1>2
  <2>2. 1..0 = {}
    OBVIOUS
  <2> QED BY <1>2, <2>1, <2>2, Zenon
<1> QED BY <1>4, <1>5 DEF Range

(* A connection that is served leaves the others to be told. *)
LEMMA ServedTold ==
  ASSUME IInv, TypeInv, cast.at \in {"sending", "waiting"}, cast' = Served
  PROVE  \A d \in StillTold : d \in StillTold' \/ (cast.at = "sending" /\ d = Head(cast.to))
<1>1. /\ cast = [at |-> cast.at, snap |-> cast.snap, to |-> cast.to]
      /\ cast.to \in Seq(Conns) /\ cast.to # <<>>
  BY DEF IInv, Shape, TypeInv
<1>2. \A d \in StillTold : d \in Range(Tail(cast.to)) \/ (cast.at = "sending" /\ d = Head(cast.to))
  BY <1>1, HeadAndRest DEF StillTold
<1>3. CASE Len(cast.to) = 1
  <2>1. Range(Tail(cast.to)) = {}
    BY <1>1, <1>3, HeadAndRest
  <2> QED BY <1>2, <2>1
<1>4. CASE Len(cast.to) # 1
  <2>1. cast'.at = "sending" /\ cast'.to = Tail(cast.to)
    BY <1>1, <1>4 DEF Served
  <2>2. StillTold' = Range(Tail(cast.to))
    BY <2>1 DEF StillTold, Range
  <2> QED BY <1>2, <2>2
<1> QED BY <1>3, <1>4

(* The broadcast with the next revision has every ready client to tell. *)
LEMMA AllTold ==
  ASSUME TypeInv, cast'.at = "reading", cast'.to = SetToSeq(Ready)
  PROVE  Ready \subseteq StillTold'
<1>1. Ready \subseteq Accepted
  BY DEF Ready, Accepted
<1>2. IsFiniteSet(Ready)
  BY <1>1, FS_Subset DEF TypeInv
<1>3. Range(SetToSeq(Ready)) = Ready
  BY <1>2, ListOfSet
<1>4. StillTold' = Range(SetToSeq(Ready))
  BY DEF StillTold, Range
<1> QED BY <1>3, <1>4

(* A connection that a step leaves as it was. *)
Untouched(d) ==
  /\ stage'[d] = stage[d] /\ gone'[d] = gone[d] /\ wire'[d] = wire[d] /\ socket'[d] = socket[d]
  /\ shake'[d] = shake[d] /\ view'[d] = view[d]
LEMMA UntouchedTold ==
  ASSUME NEW d \in Conns, Informed(d), Untouched(d), UNCHANGED <<revision, lostRev>>,
         d \in StillTold => d \in StillTold', d \in Ready', socket'[d] = "open"
  PROVE  Told(d)'
<1>1. d \in Ready /\ socket[d] = "open"
  BY DEF Untouched, Ready
<1>2. Told(d)
  BY <1>1 DEF Informed
<1>3. \/ revision' = lostRev' \/ d \in StillTold'
      \/ Reached(view'[d], wire'[d], shake'[d], revision')
  BY <1>2 DEF Told, Untouched
<1> QED BY <1>3 DEF Told, Reached, Brings

(* A frame is written: the client applies it, and if it is the hello the
   connection is ready and catches up with what it missed. *)
LEMMA WriteTold ==
  ASSUME IInv, TypeInv, ReachInv, NEW c \in Conns, Write(c), NEW d \in Conns,
         d \in Ready', socket'[d] = "open"
  PROVE  Told(d)'
<1>0. /\ FrameTypes /\ shake \in [Conns -> Shakes] /\ stage \in [Conns -> StageNames]
      /\ view \in [Conns -> Snapshots] /\ revision \in Nat /\ Informed(d)
  BY FrameTypesHold DEF IInv, Shape, TypeInv, ReachInv
<1>1. UNCHANGED <<revision, lostRev, gone>>
  BY DEF Write
<1>2. \A x \in Conns : x \in StillTold => x \in StillTold'
  <2>1. CASE Head(wire[c]).by # "broadcast"
    <3>1. cast' = cast
      BY <2>1 DEF Write
    <3> QED BY <3>1 DEF StillTold, Range
  <2>2. CASE Head(wire[c]).by = "broadcast"
    <3>1. wire[c] \in Seq(CoveringFrames) /\ wire[c] # <<>>
      BY DEF IInv, FramesCover, Write
    <3>2. 1 \in Casts(wire[c])
      BY <2>2, <3>1 DEF Casts
    <3>3. cast.at = "waiting"
      BY <3>2 DEF IInv, AwaitedFrame
    <3>4. cast' = Served
      BY <2>2 DEF Write
    <3> QED BY <3>3, <3>4, ServedTold
  <2> QED BY <2>1, <2>2
<1>3. CASE d # c
  <2>1. Untouched(d)
    BY <1>0, <1>1, <1>3 DEF Write, HelloSent, Untouched, FrameTypes
  <2> QED BY <1>0, <1>1, <1>2, <2>1, UntouchedTold
<1>4. CASE d = c
  <2>1. /\ wire[d] \in Seq(Frames) /\ wire[d] # <<>> /\ wire'[d] = Tail(wire[d])
        /\ socket'[d] = socket[d] /\ ShakeLine(wire[d], shake[d])
    BY <1>0, <1>4 DEF Write, FrameTypes, Informed
  <2>2. Head(wire[d]) \in Frames /\ Head(wire[d]).snap.rev <= revision
    BY <2>1, FrameRevision
  <2>3. view'[d] = IF Head(wire[d]).type \in {"hello", "event"}
                   THEN Applied(view[d], Head(wire[d]).snap) ELSE view[d]
    BY <1>0, <1>4 DEF Write
  <2>4. 1 \in 1..Len(wire[d]) /\ Head(wire[d]) = wire[d][1]
    BY <2>1
  <2>5. view[d] \in Snapshots /\ view[d].rev <= revision
    BY <1>0 DEF Informed
  <2>6. CASE stage[d] = "ready"
    <3>1. d \in Ready /\ socket[d] = "open"
      BY <1>1, <2>1, <2>6 DEF Ready
    <3>2. Told(d)
      BY <1>0, <3>1 DEF Informed
    <3>3. shake'[d] = shake[d] \/ shake[d].at \notin {"catchReading", "catchRead"}
      <4>1. Head(wire[d]).type = "hello" \/ Head(wire[d]).by = "shake"
              => shake[d].at \notin {"catchReading", "catchRead"}
        BY <2>1, <2>4 DEF ShakeLine
      <4> QED BY <1>0, <1>4, <4>1 DEF Write
    <3>4. CASE Reached(view[d], wire[d], shake[d], revision)
      <4>1. Reached(view'[d], Tail(wire[d]), shake'[d], revision)
        BY <1>0, <2>1, <2>2, <2>3, <2>5, <3>3, <3>4, WrittenReached
      <4>2. Reached(view'[d], wire'[d], shake'[d], revision')
        BY <1>1, <2>1, <4>1
      <4> QED BY <4>2 DEF Told, Reached, Brings
    <3>5. CASE revision = lostRev
      BY <1>1, <3>5 DEF Told
    <3>6. CASE d \in StillTold
      BY <1>2, <3>6 DEF Told
    <3> QED BY <3>2, <3>4, <3>5, <3>6 DEF Told
  <2>7. CASE stage[d] # "ready"
    <3>1. stage'[d] = "ready"
      BY DEF Ready
    <3>2. HelloSent(d) /\ Head(wire[d]).type = "hello"
      BY <1>4, <2>7, <3>1 DEF Write
    <3>3. Head(wire[d]).snap = shake[d].snap /\ shake[d] \in Shakes
      BY <1>0, <2>1, <2>4, <3>2 DEF ShakeLine
    <3>4. shake' = [shake EXCEPT ![d] = IF Behind(d)
                                        THEN [at |-> "catchReading", snap |-> Snapshot(revision, 0)]
                                        ELSE [NotShaking EXCEPT !.at = "done"]]
      BY <1>0, <2>7, <3>1, <3>2 DEF HelloSent
    <3>5. CASE Behind(d)
      <4>1. shake'[d].at = "catchReading" /\ shake'[d].snap.rev = revision
        BY <1>0, <3>4, <3>5 DEF Snapshot
      <4>2. Reached(view'[d], wire'[d], shake'[d], revision')
        BY <1>1, <4>1 DEF Reached
      <4> QED BY <4>2 DEF Told, Reached, Brings
    <3>6. CASE ~Behind(d)
      <4>1. Head(wire[d]).snap.rev = revision
        BY <3>3, <3>6 DEF Behind
      <4>2. view[d].rev \in Int
        BY <2>5 DEF Snapshots
      <4>3. view'[d].rev = revision
        BY <1>0, <2>3, <2>5, <3>2, <4>1, <4>2 DEF Applied
      <4>4. Reached(view'[d], wire'[d], shake'[d], revision')
        BY <1>1, <4>3 DEF Reached
      <4> QED BY <4>4 DEF Told, Reached, Brings
    <3> QED BY <3>5, <3>6
  <2> QED BY <2>6, <2>7
<1> QED BY <1>3, <1>4

(* The socket closes. *)
LEMMA DisconnectTold ==
  ASSUME IInv, TypeInv, ReachInv, NEW c \in Conns, PeerCloses(c) \/ CloseDone(c), NEW d \in Conns,
         d \in Ready', socket'[d] = "open"
  PROVE  Told(d)'
<1>0. FrameTypes /\ shake \in [Conns -> Shakes] /\ stage \in [Conns -> StageNames] /\ Informed(d)
      /\ gone \in [Conns -> BOOLEAN]
  BY FrameTypesHold DEF IInv, Shape, TypeInv, ReachInv
<1>1. Disconnected(c)
  BY DEF PeerCloses, CloseDone
<1>2. d # c
  BY <1>0, <1>1 DEF Disconnected, FrameTypes
<1>3. Untouched(d) /\ UNCHANGED <<revision, lostRev>>
  BY <1>0, <1>1, <1>2 DEF Disconnected, Untouched, FrameTypes
<1>4. d \in StillTold => d \in StillTold'
  <2>1. CASE cast' = cast
    BY <2>1 DEF StillTold, Range
  <2>2. CASE cast.at = "waiting" /\ cast' = Served
    BY <2>2, ServedTold
  <2> QED BY <1>1, <2>1, <2>2 DEF Disconnected
<1> QED BY <1>0, <1>3, <1>4, UntouchedTold

(* The other steps of a connection, and close() of the server. *)
Calm ==
  \/ \E c \in Conns : \/ Server(c) \/ Accept(c) \/ ReceiveHello(c) \/ ReceiveInvalid(c)
                      \/ ReceiveRequest(c) \/ ReadFails(c) \/ RequestChanges(c) \/ HandshakeTimeout(c)
  \/ Close \/ UNCHANGED vars

(* They make no connection ready, and a handshake that catches up goes on or
   hands over its snapshot, unless the connection ends. *)
CatchesUp(d) ==
  \/ shake'[d] = shake[d]
  \/ shake[d].at \notin {"catchReading", "catchRead"}
  \/ shake'[d].at = "catchRead" /\ shake'[d].snap.rev = shake[d].snap.rev
  \/ wire'[d] = Append(wire[d], Frame("event", "shake", shake[d].snap))

LEMMA CalmStep ==
  ASSUME IInv, TypeInv, ReachInv, Calm, NEW d \in Conns, d \in Ready', socket'[d] = "open"
  PROVE  /\ UNCHANGED <<cast, revision, lostRev, view, sent>>
         /\ stage[d] = "ready" /\ ~gone[d] /\ CatchesUp(d)
<1>0. FrameTypes /\ shake \in [Conns -> Shakes] /\ stage \in [Conns -> StageNames] /\ Informed(d)
  BY FrameTypesHold DEF IInv, Shape, TypeInv, ReachInv
<1>1. UNCHANGED <<cast, revision, lostRev, view, sent, gone>>
  BY DEF Calm, Server, Accept, ReceiveHello, ReceiveInvalid, ReceiveRequest, ReadFails, RequestChanges,
         HandshakeTimeout, Close, vars, connVars, castVars, ReadSnapshot, SendHello, SendCatchUp,
         DeferredRuns, RequestAnswers, Left, Fail
<1>2. stage'[d] = "ready" /\ ~gone[d]
  BY <1>1 DEF Ready
<1>3. stage[d] = "ready"
  BY <1>0, <1>2 DEF Calm, Server, Accept, ReceiveHello, ReceiveInvalid, ReceiveRequest, ReadFails,
         RequestChanges, HandshakeTimeout, Close, vars, connVars, ReadSnapshot, SendHello, SendCatchUp,
         DeferredRuns, RequestAnswers, Left, Fail
<1>4. CatchesUp(d)
  <2>1. CASE Close \/ UNCHANGED vars
    BY <2>1 DEF Close, vars, connVars, CatchesUp
  <2>2. ASSUME NEW c \in Conns,
               \/ Accept(c) \/ ReceiveInvalid(c) \/ ReceiveRequest(c) \/ RequestChanges(c)
               \/ HandshakeTimeout(c) \/ DeferredRuns(c) \/ RequestAnswers(c) \/ Left(c)
        PROVE  CatchesUp(d)
    BY <2>2 DEF Accept, ReceiveInvalid, ReceiveRequest, RequestChanges, HandshakeTimeout, DeferredRuns,
                RequestAnswers, Left, Fail, CatchesUp
  <2>3. ASSUME NEW c \in Conns, ReceiveHello(c) PROVE CatchesUp(d)
    BY <1>0, <1>3, <2>3 DEF ReceiveHello, CatchesUp
  <2>4. ASSUME NEW c \in Conns, ReadSnapshot(c) PROVE CatchesUp(d)
    BY <1>0, <2>4 DEF ReadSnapshot, CatchesUp, Snapshot
  <2>5. ASSUME NEW c \in Conns, ReadFails(c) PROVE CatchesUp(d)
    <3>1. CASE d # c
      BY <1>0, <2>5, <3>1 DEF ReadFails, CatchesUp
    <3>2. CASE d = c
      <4>1. ~Terminal(c)
        BY <1>2, <1>3, <3>2 DEF Terminal
      <4>2. stage'[c] = "closing"
        BY <1>0, <2>5, <4>1 DEF ReadFails
      <4> QED BY <1>2, <3>2, <4>2
    <3> QED BY <3>1, <3>2
  <2>6. ASSUME NEW c \in Conns, SendHello(c) PROVE CatchesUp(d)
    BY <1>0, <2>6 DEF SendHello, CatchesUp
  <2>7. ASSUME NEW c \in Conns, SendCatchUp(c) PROVE CatchesUp(d)
    <3>1. CASE d # c
      BY <1>0, <2>7, <3>1 DEF SendCatchUp, CatchesUp
    <3>2. CASE d = c
      <4>1. Send(d, Frame("event", "shake", shake[d].snap))
        BY <1>2, <2>7, <3>2 DEF SendCatchUp
      <4>2. ~Closed(d, <<>>)
        BY <1>0 DEF Closed, FrameTypes
      <4> QED BY <1>0, <4>1, <4>2 DEF Send, CatchesUp, FrameTypes
    <3> QED BY <3>1, <3>2
  <2> QED BY <2>1, <2>2, <2>3, <2>4, <2>5, <2>6, <2>7 DEF Calm, Server
<1> QED BY <1>1, <1>2, <1>3, <1>4

LEMMA AppendGrows ==
  ASSUME NEW S, NEW s \in Seq(S), NEW x
  PROVE  Append(s, x) # s
<1>1. Len(Append(s, x)) = Len(s) + 1 /\ Len(s) \in Nat
  OBVIOUS
<1> QED BY <1>1

(* Who is told stays told over these steps. *)
LEMMA CalmTold ==
  ASSUME IInv, TypeInv, ReachInv, [Next]_vars, Calm, NEW d \in Conns, d \in Ready', socket'[d] = "open"
  PROVE  Told(d)'
<1>1. /\ UNCHANGED <<cast, revision, lostRev, view, sent>>
      /\ stage[d] = "ready" /\ ~gone[d] /\ CatchesUp(d)
  BY CalmStep
<1>2. Moves(d) /\ Informed(d) /\ wire[d] \in Seq(Frames) /\ sent[d] \in Seq(Frames)
  BY FramesMove, FrameTypesHold DEF ReachInv, FrameTypes
<1>3. Stays(d) \/ Adds(d)
  <2>1. ~Writes(d)
    BY <1>1, <1>2, AppendGrows DEF Writes
  <2> QED BY <1>2, <2>1 DEF Moves, Cuts, Drops
<1>4. socket[d] = "open"
  BY <1>3 DEF Stays, Adds
<1>5. Told(d)
  BY <1>1, <1>2, <1>4 DEF Informed, Ready
<1>6. CASE revision = lostRev
  BY <1>1, <1>6 DEF Told
<1>7. CASE d \in StillTold
  <2>1. d \in StillTold'
    BY <1>1, <1>7 DEF StillTold, Range
  <2> QED BY <2>1 DEF Told
<1>8. CASE Reached(view[d], wire[d], shake[d], revision)
  <2>1. Reached(view[d], wire'[d], shake'[d], revision)
    <3>1. CASE Stays(d)
      <4>1. wire'[d] = wire[d]
        BY <3>1 DEF Stays
      <4>2. wire'[d] # Append(wire[d], Frame("event", "shake", shake[d].snap))
        BY <1>2, <4>1, AppendGrows
      <4> QED BY <1>1, <1>8, <4>1, <4>2 DEF CatchesUp, Reached
    <3>2. CASE Adds(d)
      <4>1. PICK f \in Frames : Handed(d, f) /\ wire'[d] = Append(wire[d], f)
        BY <3>2 DEF Adds
      <4>2. \/ Brings(f, revision) \/ shake'[d] = shake[d]
            \/ shake[d].at \notin {"catchReading", "catchRead"} \/ shake[d].snap.rev # revision
        BY <4>1 DEF Handed, Frame, Brings
      <4>3. Reached(view[d], Append(wire[d], f), shake'[d], revision)
        BY <1>2, <1>8, <4>2, AddedReached
      <4> QED BY <4>1, <4>3
    <3> QED BY <1>3, <3>1, <3>2
  <2>2. Reached(view'[d], wire'[d], shake'[d], revision')
    BY <1>1, <2>1
  <2> QED BY <2>2 DEF Told, Reached, Brings
<1> QED BY <1>5, <1>6, <1>7, <1>8 DEF Told

(* The publisher: a new revision is for every ready client, the one served
   is sent it, and a broadcast that fails is recorded as lost. *)
LEMMA PublisherTold ==
  ASSUME IInv, TypeInv, ReachInv, [Next]_vars, Publisher \/ BroadcastFails,
         NEW d \in Conns, d \in Ready', socket'[d] = "open"
  PROVE  Told(d)'
<1>0. /\ FrameTypes /\ Informed(d) /\ cast.to \in Seq(Conns)
      /\ cast = [at |-> cast.at, snap |-> cast.snap, to |-> cast.to]
      /\ cast.at # "none" => cast.to # <<>> /\ cast.snap.rev = revision
  BY FrameTypesHold DEF IInv, Shape, TypeInv, ReachInv
<1>1. CASE StartBroadcast
  <2>1. UNCHANGED <<connVars, lostRev>>
    BY <1>1 DEF StartBroadcast
  <2>2. d \in Ready /\ Untouched(d)
    BY <2>1 DEF connVars, Ready, Untouched
  <2>3. CASE UNCHANGED <<revision, cast>>
    <3>1. d \in StillTold => d \in StillTold'
      BY <2>3 DEF StillTold, Range
    <3> QED BY <1>0, <2>1, <2>2, <2>3, <3>1, UntouchedTold
  <2>4. CASE cast' = [at |-> "reading", snap |-> Snapshot(revision + 1, 0), to |-> SetToSeq(Ready)]
    <3>1. cast'.at = "reading" /\ cast'.to = SetToSeq(Ready)
      BY <2>4
    <3>2. d \in StillTold'
      BY <2>2, <3>1, AllTold
    <3> QED BY <3>2 DEF Told
  <2> QED BY <1>1, <2>3, <2>4 DEF StartBroadcast
<1>2. CASE ReadBroadcast
  <2>1. UNCHANGED <<connVars, lostRev, revision>>
    BY <1>2 DEF ReadBroadcast
  <2>2. Untouched(d)
    BY <2>1 DEF connVars, Untouched
  <2>3. cast'.at = "sending" /\ cast'.to = cast.to /\ cast.at = "reading"
    BY <1>0, <1>2 DEF ReadBroadcast
  <2>4. d \in StillTold => d \in StillTold'
    BY <2>3 DEF StillTold, Range
  <2> QED BY <1>0, <2>1, <2>2, <2>4, UntouchedTold
<1>3. CASE BroadcastFails
  <2>1. lostRev' = revision /\ revision' = revision
    BY <1>0, <1>3 DEF BroadcastFails
  <2> QED BY <2>1 DEF Told
<1>4. CASE SendBroadcast
  <2> DEFINE e == Head(cast.to)
             f == Frame("event", "broadcast", cast.snap)
  <2>1. UNCHANGED <<stage, gone, shake, sent, view, revision, lostRev>> /\ cast.at = "sending"
    BY <1>4 DEF SendBroadcast
  <2>2. CASE gone[e] /\ cast' = Served /\ UNCHANGED <<wire, socket>>
    <3>1. Untouched(d) /\ d # e
      BY <2>1, <2>2 DEF Untouched, Ready
    <3>2. d \in StillTold => d \in StillTold'
      BY <2>1, <2>2, <3>1, ServedTold
    <3> QED BY <1>0, <2>1, <3>1, <3>2, UntouchedTold
  <2>3. CASE cast' = [cast EXCEPT !.at = "waiting"] /\ Send(e, f)
    <3>1. cast'.at = "waiting" /\ cast'.to = cast.to
      BY <1>0, <2>3
    <3>2. CASE d # e
      <4>1. wire'[d] = wire[d] /\ socket'[d] = socket[d]
        BY <1>0, <2>3, <3>2 DEF Send, Closed, FrameTypes
      <4>2. Untouched(d)
        BY <2>1, <4>1 DEF Untouched
      <4>3. d \in StillTold => d \in StillTold'
        <5>1. d \in StillTold => d \in Range(Tail(cast.to))
          BY <1>0, <2>1, <3>2, HeadAndRest DEF StillTold
        <5>2. StillTold' = Range(Tail(cast.to))
          BY <3>1 DEF StillTold, Range
        <5> QED BY <5>1, <5>2
      <4> QED BY <1>0, <2>1, <4>2, <4>3, UntouchedTold
    <3>3. CASE d = e
      <4>1. ~Closed(e, <<>>)
        BY <1>0, <3>3 DEF Closed, FrameTypes
      <4>2. wire'[d] = Append(wire[d], f) /\ wire[d] \in Seq(Frames)
        BY <1>0, <2>3, <3>3, <4>1 DEF Send, FrameTypes
      <4>3. Brings(f, revision) /\ f \in Frames
        <5>1. f \in Frames
          BY HandedFrames
        <5> QED BY <1>0, <2>1, <5>1 DEF Brings, Frame
      <4>4. Reached(view'[d], Append(wire[d], f), shake'[d], revision)
        BY <4>2, <4>3, AddedReached
      <4>5. Reached(view'[d], wire'[d], shake'[d], revision')
        BY <2>1, <4>2, <4>4
      <4> QED BY <4>5 DEF Told, Reached, Brings
    <3> QED BY <3>2, <3>3
  <2> QED BY <1>4, <2>2, <2>3 DEF SendBroadcast
<1> QED BY <1>1, <1>2, <1>3, <1>4 DEF Publisher

LEMMA InitReachInv == Init => ReachInv
<1> SUFFICES ASSUME Init, NEW c \in Conns PROVE Informed(c)
  BY DEF ReachInv
<1>1. wire[c] = <<>> /\ ShakeLine(wire[c], shake[c])
  BY EmptyShakeLine DEF Init
<1>2. stage[c] = "none" /\ shake[c].at = "none" /\ view[c].rev = -1 /\ revision = 0
  BY DEF Init, NotShaking, Nowhere, Snapshot
<1>3. c \notin Ready
  BY <1>2 DEF Ready
<1>4. view[c].rev <= revision
  BY <1>2
<1> QED BY <1>1, <1>2, <1>3, <1>4 DEF Informed

LEMMA NextReachInv == IInv /\ TypeInv /\ ReachInv /\ [Next]_vars => ReachInv'
<1> SUFFICES ASSUME IInv, TypeInv, ReachInv, [Next]_vars, NEW d \in Conns PROVE Informed(d)'
  BY DEF ReachInv
<1>1. ShakeLine(wire'[d], shake'[d])
  BY ShakeLineStep
<1>2. ShakeLine(wire[d], shake[d])'
  BY <1>1 DEF ShakeLine
<1>3. /\ stage'[d] \in {"closing", "closed"} => socket'[d] # "open"
      /\ stage'[d] \in Early => shake'[d].at = "none"
  BY EndsStep
<1>4. view'[d].rev <= revision'
  BY ViewBehind
<1>5. ASSUME d \in Ready', socket'[d] = "open" PROVE Told(d)'
  <2>1. CASE Publisher \/ BroadcastFails
    BY <1>5, <2>1, PublisherTold
  <2>2. CASE Calm
    BY <1>5, <2>2, CalmTold
  <2>3. ASSUME NEW c \in Conns, Write(c) PROVE Told(d)'
    BY <1>5, <2>3, WriteTold
  <2>4. ASSUME NEW c \in Conns, PeerCloses(c) \/ CloseDone(c) PROVE Told(d)'
    BY <1>5, <2>4, DisconnectTold
  <2> QED BY <2>1, <2>2, <2>3, <2>4 DEF Next, Environment, Calm
<1> QED BY <1>2, <1>3, <1>4, <1>5 DEF Informed

LEMMA ReachInvariance == Spec => []ReachInv
<1> QED BY InitReachInv, NextReachInv, Invariance, TypeInvariance, PTL DEF Spec

(* Once nothing is under way every ready client has the current revision,
   also one whose handshake overlapped broadcasts, unless the last broadcast
   failed (server.ts, finishHandshake catches up; snapshots.ts,
   performBroadcast serves every ready connection). *)
THEOREM ClientsUpToDate == Spec => []RevisionReached
<1>1. IInv /\ TypeInv /\ ReachInv => RevisionReached
  <2> SUFFICES ASSUME IInv, TypeInv, ReachInv, Quiet, NEW c \in Ready, socket[c] = "open"
               PROVE  view[c].rev = revision \/ revision = lostRev
    BY DEF RevisionReached
  <2>1. c \in Conns /\ Told(c)
    BY DEF Ready, ReachInv, Informed
  <2>2. wire[c] = <<>> /\ shake[c].at \in {"none", "done"} /\ cast.at = "none" /\ cast.to = <<>>
    BY <2>1 DEF Quiet, TypeInv
  <2>3. c \notin StillTold
    BY <2>2 DEF StillTold, Range
  <2> QED BY <2>1, <2>2, <2>3 DEF Told, Reached
<1> QED BY <1>1, Invariance, TypeInvariance, ReachInvariance, PTL

-----------------------------------------------------------------------------
(* Who waits for a write. *)

OnWire(w, by) == \E i \in 1..Len(w) : w[i].by = by
CanEnd(d, by) == socket[d] = "closing" \/ (socket[d] = "open" /\ OnWire(wire[d], by))
CastWaits(d)  == cast.at = "waiting" /\ d = Head(cast.to)
ShakeWaits(d) == shake[d].at \in Awaiting
WaitInv ==
  \A d \in Conns : (CastWaits(d) => CanEnd(d, "broadcast")) /\ (ShakeWaits(d) => CanEnd(d, "shake"))

(* A frame stays on its wire until it is written, or the wire closes. *)
LEMMA EndKept ==
  ASSUME FrameTypes, NEW d \in Conns, NEW by, CanEnd(d, by), Moves(d), socket'[d] # "closed",
         ~(Writes(d) /\ Head(wire[d]).by = by)
  PROVE  CanEnd(d, by)'
<1>1. wire[d] \in Seq(Frames) /\ Len(wire[d]) \in Nat
  BY DEF FrameTypes
<1>2. CASE Stays(d)
  BY <1>2 DEF Stays, CanEnd, OnWire
<1>3. CASE Adds(d)
  <2>1. PICK f \in Frames : wire'[d] = Append(wire[d], f)
    BY <1>3 DEF Adds
  <2>2. PICK i \in 1..Len(wire[d]) : wire[d][i].by = by
    BY <1>3 DEF CanEnd, OnWire, Adds
  <2>3. i \in 1..Len(wire'[d]) /\ wire'[d][i] = wire[d][i]
    BY <1>1, <2>1
  <2> QED BY <1>3, <2>2, <2>3 DEF Adds, CanEnd, OnWire
<1>4. CASE Cuts(d)
  BY <1>4 DEF Cuts, CanEnd
<1>5. CASE Writes(d)
  <2>1. CASE socket[d] = "closing"
    BY <1>5, <2>1 DEF Writes, CanEnd
  <2>2. CASE socket[d] # "closing"
    <3>1. socket[d] = "open" /\ OnWire(wire[d], by)
      BY <2>2 DEF CanEnd
    <3>2. PICK i \in 1..Len(wire[d]) : wire[d][i].by = by
      BY <3>1 DEF OnWire
    <3>3. i # 1
      BY <1>1, <1>5, <3>2 DEF Writes
    <3>4. i - 1 \in 1..Len(wire'[d]) /\ wire'[d][i - 1] = wire[d][i]
      BY <1>1, <1>5, <3>3 DEF Writes
    <3> QED BY <1>5, <3>1, <3>2, <3>4 DEF Writes, CanEnd, OnWire
  <2> QED BY <2>1, <2>2
<1>6. CASE Drops(d)
  BY <1>6 DEF Drops
<1> QED BY <1>2, <1>3, <1>4, <1>5, <1>6 DEF Moves

(* A frame is handed over, or its connection closes. *)
LEMMA SendCanEnd ==
  ASSUME FrameTypes, NEW c \in Conns, NEW f \in Frames, Send(c, f), socket[c] # "closed"
  PROVE  CanEnd(c, f.by)'
<1>1. wire[c] \in Seq(Frames) /\ socket[c] \in {"open", "closing"}
  BY DEF FrameTypes, Sockets
<1>2. CASE socket[c] = "open" /\ Len(wire[c]) < MaxPending
  <2>1. wire'[c] = Append(wire[c], f) /\ socket'[c] = "open"
    BY <1>2 DEF Send, FrameTypes
  <2>2. Len(wire[c]) + 1 \in 1..Len(wire'[c]) /\ wire'[c][Len(wire[c]) + 1] = f
    BY <1>1, <2>1
  <2> QED BY <2>1, <2>2 DEF CanEnd, OnWire
<1>3. CASE ~(socket[c] = "open" /\ Len(wire[c]) < MaxPending)
  <2>1. socket'[c] = "closing"
    BY <1>1, <1>3 DEF Send, Closed, FrameTypes
  <2> QED BY <2>1 DEF CanEnd
<1> QED BY <1>2, <1>3

(* A handshake that begins to wait has its frame on the wire, or its socket is
   being closed. *)
LEMMA ShakeWaitBegins ==
  ASSUME IInv, TypeInv, [Next]_vars, NEW d \in Conns, ShakeWaits(d)', ~ShakeWaits(d)
  PROVE  CanEnd(d, "shake")'
<1>0. shake \in [Conns -> Shakes] /\ FrameTypes /\ NotShaking.at = "none"
  BY FrameTypesHold DEF IInv, Shape, NotShaking
<1>1. CASE UNCHANGED vars \/ Publisher \/ BroadcastFails \/ Close
  BY <1>1 DEF vars, connVars, Publisher, StartBroadcast, ReadBroadcast, SendBroadcast, BroadcastFails,
              Close, ShakeWaits
<1>2. ASSUME NEW c \in Conns, ReadSnapshot(c) \/ DeferredRuns(c) \/ RequestAnswers(c) \/ Left(c)
      PROVE  FALSE
  BY <1>0, <1>2 DEF ReadSnapshot, DeferredRuns, RequestAnswers, Left, ShakeWaits, Awaiting
<1>3. ASSUME NEW c \in Conns,
             \/ Accept(c) \/ ReceiveHello(c) \/ ReceiveInvalid(c) \/ ReceiveRequest(c)
             \/ ReadFails(c) \/ RequestChanges(c) \/ HandshakeTimeout(c)
      PROVE  FALSE
  BY <1>0, <1>3 DEF Accept, ReceiveHello, ReceiveInvalid, ReceiveRequest, ReadFails, RequestChanges,
                    HandshakeTimeout, Fail, ShakeWaits, Awaiting, NotShaking
<1>4. ASSUME NEW c \in Conns, PeerCloses(c) \/ CloseDone(c) PROVE FALSE
  BY <1>0, <1>4 DEF PeerCloses, CloseDone, Disconnected, ShakeWaits, Awaiting, NotShaking
<1>5. ASSUME NEW c \in Conns, Write(c) PROVE FALSE
  BY <1>0, <1>5 DEF Write, HelloSent, ShakeWaits, Awaiting, NotShaking
<1>6. ASSUME NEW c \in Conns, SendHello(c) \/ SendCatchUp(c) PROVE CanEnd(d, "shake")'
  <2>1. c = d
    BY <1>0, <1>6 DEF SendHello, SendCatchUp, ShakeWaits
  <2>2. shake' # [shake EXCEPT ![c] = [NotShaking EXCEPT !.at = "done"]]
    BY <1>0, <2>1 DEF ShakeWaits, Awaiting, NotShaking
  <2>3. socket[c] # "closed"
    BY <1>6, <2>2 DEF SendHello, SendCatchUp, IInv, Gone
  <2>4. Send(c, Frame("hello", "shake", shake[c].snap)) \/ Send(c, Frame("event", "shake", shake[c].snap))
    BY <1>6, <2>2 DEF SendHello, SendCatchUp
  <2>5. Frame("hello", "shake", shake[c].snap).by = "shake" /\ Frame("event", "shake", shake[c].snap).by = "shake"
    BY DEF Frame
  <2>6. Frame("hello", "shake", shake[c].snap) \in Frames /\ Frame("event", "shake", shake[c].snap) \in Frames
    BY HandedFrames
  <2> QED BY <1>0, <2>1, <2>3, <2>4, <2>5, <2>6, SendCanEnd
<1> QED BY <1>1, <1>2, <1>3, <1>4, <1>5, <1>6 DEF Next, Server, Environment

(* So does the broadcast. *)
LEMMA CastWaitBegins ==
  ASSUME IInv, TypeInv, [Next]_vars, NEW d \in Conns, CastWaits(d)', ~CastWaits(d)
  PROVE  CanEnd(d, "broadcast")'
<1>0. FrameTypes
  BY FrameTypesHold
<1>1. cast' # cast /\ cast' # Served /\ cast'.at = "waiting" /\ d = Head(cast'.to)
  <2>1. cast'.at = "waiting" /\ d = Head(cast'.to) /\ cast' # cast
    BY DEF CastWaits
  <2>2. Served.at # "waiting"
    BY DEF Served, NoCast, IInv, Shape
  <2> QED BY <2>1, <2>2
<1>2. SendBroadcast
  <2>1. CASE UNCHANGED vars
    BY <1>1, <2>1 DEF vars, castVars
  <2>2. ASSUME NEW c \in Conns, Server(c) PROVE FALSE
    BY <1>1, <2>2 DEF Server, ReadSnapshot, SendHello, SendCatchUp, DeferredRuns, RequestAnswers, Left, castVars
  <2>3. ASSUME NEW c \in Conns, Environment(c) \/ HandshakeTimeout(c) \/ CloseDone(c) PROVE FALSE
    BY <1>1, <2>3 DEF Environment, Accept, ReceiveHello, ReceiveInvalid, ReceiveRequest, ReadFails,
           RequestChanges, PeerCloses, CloseDone, Disconnected, Fail, HandshakeTimeout, castVars
  <2>4. ASSUME NEW c \in Conns, Write(c) PROVE FALSE
    BY <1>1, <2>4 DEF Write
  <2>5. ASSUME StartBroadcast PROVE FALSE
    BY <1>1, <2>5 DEF StartBroadcast
  <2>6. ASSUME ReadBroadcast PROVE FALSE
    <3>1. cast'.at = "sending"
      BY <2>6 DEF ReadBroadcast, IInv, Shape
    <3> QED BY <1>1, <3>1
  <2>7. ASSUME BroadcastFails \/ Close PROVE FALSE
    BY <1>1, <2>7 DEF BroadcastFails, Close, castVars, NoCast
  <2> QED BY <2>1, <2>2, <2>3, <2>4, <2>5, <2>6, <2>7 DEF Next, Publisher
<1> DEFINE c == Head(cast.to)
<1>3. cast' = [cast EXCEPT !.at = "waiting"] /\ ~gone[c] /\ Send(c, Frame("event", "broadcast", cast.snap))
  BY <1>1, <1>2 DEF SendBroadcast
<1>4. c = d
  BY <1>1, <1>3 DEF IInv, Shape
<1>5. Frame("event", "broadcast", cast.snap) \in Frames /\ Frame("event", "broadcast", cast.snap).by = "broadcast"
  BY HandedFrames DEF Frame
<1>6. socket[d] # "closed"
  BY <1>3, <1>4 DEF IInv, Gone
<1> QED BY <1>0, <1>3, <1>4, <1>5, <1>6, SendCanEnd

(* A write that ends, and a socket that closes, wake who waits for them. *)
LEMMA Woken ==
  ASSUME IInv, TypeInv, ReachInv, [Next]_vars, NEW d \in Conns
  PROVE  /\ Writes(d) /\ Head(wire[d]).by = "shake" => ~ShakeWaits(d)'
         /\ Writes(d) /\ Head(wire[d]).by = "broadcast" => ~CastWaits(d)'
         /\ socket'[d] = "closed" /\ socket[d] # "closed" => ~ShakeWaits(d)' /\ ~CastWaits(d)'
<1>0. shake \in [Conns -> Shakes] /\ FrameTypes /\ NotShaking.at = "none"
  BY FrameTypesHold DEF IInv, Shape, NotShaking
<1>1. Served.at # "waiting"
  BY DEF Served, NoCast, IInv, Shape
<1>2. ASSUME Writes(d) PROVE Write(d)
  <2>1. sent'[d] # sent[d]
    <3>1. sent[d] \in Seq(Frames) /\ Head(wire[d]) \in Frames
      BY <1>0, <1>2 DEF Writes, FrameTypes
    <3>2. Len(sent'[d]) = Len(sent[d]) + 1 /\ Len(sent[d]) \in Nat
      BY <1>2, <3>1 DEF Writes
    <3> QED BY <3>2
  <2>2. PICK c \in Conns : Write(c)
    BY <2>1, WriteOrNot
  <2>3. c = d
    BY <1>0, <2>1, <2>2 DEF Write, FrameTypes
  <2> QED BY <2>2, <2>3
<1>3. ASSUME Write(d), Head(wire[d]).by = "shake" PROVE ~ShakeWaits(d)'
  BY <1>0, <1>3 DEF Write, HelloSent, ShakeWaits, Awaiting, NotShaking
<1>4. ASSUME Write(d), Head(wire[d]).by = "broadcast" PROVE ~CastWaits(d)'
  BY <1>1, <1>4 DEF Write, CastWaits
<1>5. ASSUME socket'[d] = "closed", socket[d] # "closed" PROVE Disconnected(d)
  <2>1. CASE UNCHANGED vars \/ Publisher \/ BroadcastFails \/ Close
    BY <1>0, <1>5, <2>1 DEF vars, connVars, Publisher, StartBroadcast, ReadBroadcast, SendBroadcast, BroadcastFails,
         Close, Send, Closed, FrameTypes
  <2>2. ASSUME NEW c \in Conns, Server(c) PROVE FALSE
    BY <1>0, <1>5, <2>2 DEF Server, ReadSnapshot, SendHello, SendCatchUp, DeferredRuns, RequestAnswers, Left,
         Send, Closed, FrameTypes
  <2>3. ASSUME NEW c \in Conns,
               \/ Accept(c) \/ ReceiveHello(c) \/ ReceiveInvalid(c) \/ ReceiveRequest(c)
               \/ ReadFails(c) \/ RequestChanges(c) \/ HandshakeTimeout(c) \/ Write(c)
        PROVE  FALSE
    BY <1>0, <1>5, <2>3 DEF Accept, ReceiveHello, ReceiveInvalid, ReceiveRequest, ReadFails, RequestChanges,
         HandshakeTimeout, Fail, Closed, Write, FrameTypes
  <2>4. ASSUME NEW c \in Conns, PeerCloses(c) \/ CloseDone(c) PROVE Disconnected(d)
    <3>1. Disconnected(c)
      BY <2>4 DEF PeerCloses, CloseDone
    <3>2. c = d
      BY <1>0, <1>5, <3>1 DEF Disconnected, FrameTypes
    <3> QED BY <3>1, <3>2
  <2> QED BY <2>1, <2>2, <2>3, <2>4 DEF Next, Environment
<1>6. ASSUME Disconnected(d) PROVE ~ShakeWaits(d)' /\ ~CastWaits(d)'
  <2>1. ~ShakeWaits(d)'
    BY <1>0, <1>6 DEF Disconnected, ShakeWaits, Awaiting, NotShaking
  <2>2. ~CastWaits(d)'
    BY <1>1, <1>6 DEF Disconnected, CastWaits
  <2> QED BY <2>1, <2>2
<1> QED BY <1>2, <1>3, <1>4, <1>5, <1>6

LEMMA NextWaitInv == IInv /\ TypeInv /\ ReachInv /\ WaitInv /\ [Next]_vars => WaitInv'
<1> SUFFICES ASSUME IInv, TypeInv, ReachInv, WaitInv, [Next]_vars, NEW d \in Conns
             PROVE  /\ CastWaits(d)' => CanEnd(d, "broadcast")'
                    /\ ShakeWaits(d)' => CanEnd(d, "shake")'
  BY DEF WaitInv
<1>1. Moves(d) /\ FrameTypes
  BY FramesMove, FrameTypesHold
<1>2. ASSUME ShakeWaits(d)' PROVE CanEnd(d, "shake")'
  <2>1. CASE ~ShakeWaits(d)
    BY <1>2, <2>1, ShakeWaitBegins
  <2>2. CASE ShakeWaits(d)
    <3>1. CanEnd(d, "shake") /\ socket[d] # "closed"
      BY <2>2 DEF WaitInv, CanEnd
    <3>2. socket'[d] # "closed" /\ ~(Writes(d) /\ Head(wire[d]).by = "shake")
      BY <1>2, <3>1, Woken
    <3> QED BY <1>1, <3>1, <3>2, EndKept
  <2> QED BY <2>1, <2>2
<1>3. ASSUME CastWaits(d)' PROVE CanEnd(d, "broadcast")'
  <2>1. CASE ~CastWaits(d)
    BY <1>3, <2>1, CastWaitBegins
  <2>2. CASE CastWaits(d)
    <3>1. CanEnd(d, "broadcast") /\ socket[d] # "closed"
      BY <2>2 DEF WaitInv, CanEnd
    <3>2. socket'[d] # "closed" /\ ~(Writes(d) /\ Head(wire[d]).by = "broadcast")
      BY <1>3, <3>1, Woken
    <3> QED BY <1>1, <3>1, <3>2, EndKept
  <2> QED BY <2>1, <2>2
<1> QED BY <1>2, <1>3

LEMMA WaitInvariance == Spec => []WaitInv
<1>1. Init => WaitInv
  BY DEF Init, WaitInv, CastWaits, ShakeWaits, NoCast, NotShaking, Awaiting
<1> QED BY <1>1, NextWaitInv, Invariance, TypeInvariance, ReachInvariance, PTL DEF Spec

(* No sender waits for a write that cannot end, and the end of a write wakes
   the sender it belongs to (listener.ts, UnixByteConnection.write settles when
   the bytes are written or the socket closes; server.ts, sendMessage). *)
THEOREM NoWriteIsLost == Spec => []WritesAwaited
<1>1. IInv /\ TypeInv /\ ReachInv /\ WaitInv => WritesAwaited
  <2> SUFFICES ASSUME IInv, TypeInv, ReachInv, WaitInv, NEW c \in Conns
               PROVE  LET on(by) == \E i \in DOMAIN wire[c] : wire[c][i].by = by
                          end(by) == socket[c] = "closing" \/ (socket[c] = "open" /\ on(by))
                          casts  == cast.at = "waiting" /\ c = Head(cast.to)
                          shakes == shake[c].at \in {"sending", "catchSending"}
                      IN  /\ on("broadcast") => casts
                          /\ on("shake") => shakes
                          /\ casts => end("broadcast")
                          /\ shakes => end("shake")
    BY DEF WritesAwaited
  <2>1. DOMAIN wire[c] = 1..Len(wire[c])
    BY FrameTypesHold DEF FrameTypes
  <2>2. OnWire(wire[c], "broadcast") => CastWaits(c)
    BY DEF IInv, AwaitedFrame, Casts, OnWire, CastWaits
  <2>3. OnWire(wire[c], "shake") => ShakeWaits(c)
    BY DEF ReachInv, Informed, ShakeLine, OnWire, ShakeWaits, Awaiting
  <2>4. (CastWaits(c) => CanEnd(c, "broadcast")) /\ (ShakeWaits(c) => CanEnd(c, "shake"))
    BY DEF WaitInv
  <2> QED BY <2>1, <2>2, <2>3, <2>4 DEF OnWire, CanEnd, CastWaits, ShakeWaits, Awaiting
<1> QED BY <1>1, Invariance, TypeInvariance, ReachInvariance, WaitInvariance, PTL
=============================================================================
