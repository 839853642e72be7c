-------------------------- MODULE ClientLeasesProofs --------------------------
(***************************************************************************)
(* Proofs about ClientLeases, for any finite set of callers and any        *)
(* bounds: as long as no lease was taken too late, attach and detach       *)
(* requests never overlap, an exclusive lease is alone and the count of    *)
(* leases is exact, and a lease of an earlier connection is never active.  *)
(*                                                                         *)
(* Each answer is one step and what follows it a later one, so the         *)
(* invariant speaks of requests that are open: sent, or answered and still *)
(* awaited.  While there is a connection the client's state is Good: every *)
(* waiter has an open request to wait for, and the count is that of those  *)
(* who own a reservation.  After the connection it is Loose: the count     *)
(* was reset, and those who still await rejected promises fall away one by *)
(* one.  Each operator of the model keeps one or the other, first by       *)
(* itself and then in the steps it is part of.                             *)
(***************************************************************************)
EXTENDS ClientLeases, FiniteSetTheorems, TLAPS

-----------------------------------------------------------------------------
(* The operators on the client's state: what each one keeps. *)

Fields == {"state", "id", "next", "pending", "answered", "out", "count", "exclusive", "generation", "cleanup",
           "attached", "snapshot", "lease"}
Whys == Commands \cup {"reconcile"}
Callers == Leases \cup {NoLease}
NewRequest(c, why, by, previous) == [id |-> c.next, why |-> why, by |-> by, previous |-> previous]
Refusal(c, why, by, previous) ==
  [id |-> 0, why |-> why, by |-> by, previous |-> previous, ok |-> FALSE, conn |-> c.id, caught |-> FALSE]
Outs == [id : Nat, command : Commands]

IsClient(c) ==
  /\ DOMAIN c = Fields
  /\ c.state \in States /\ c.id \in 0..MaxConnects /\ c.next \in Nat
  /\ c.pending \subseteq Requests /\ \A p \in c.pending : p.id < c.next
  /\ c.answered \subseteq Answers
  /\ c.out \in Seq(Outs) /\ c.count \in Nat /\ c.exclusive \in Leases \cup {NoLease}
  /\ c.generation \in Nat /\ c.cleanup \in BOOLEAN /\ c.attached \in BOOLEAN
  /\ c.snapshot \in Snapshots
  /\ c.lease \in [Leases -> LeaseRecords]

SameLink(c, d) == d.state = c.state /\ d.id = c.id /\ d.generation = c.generation
SameCount(c, d) == d.count = c.count /\ d.exclusive = c.exclusive
SameRequests(c, d) ==
  d.pending = c.pending /\ d.answered = c.answered /\ d.next = c.next /\ d.out = c.out
SameView(c, d) == d.attached = c.attached /\ d.snapshot = c.snapshot

(* The finite sets of leases that the operators take. *)
LEMMA LeaseSets ==
  ASSUME NEW ls, ls \subseteq Leases
  PROVE  IsFiniteSet(ls) /\ Cardinality(ls) \in Nat
BY BoundsAssumption, FS_Subset, FS_CardinalityType

LEMMA RequestFields ==
  ASSUME NEW c, IsClient(c), NEW why \in Whys, NEW by \in Callers,
         NEW previous \in Snapshots, why \in Tasks \/ c.state = "connected"
  PROVE  LET d == Request(c, why, by, previous)
         IN  /\ IsClient(d) /\ SameLink(c, d) /\ SameCount(c, d) /\ SameView(c, d)
             /\ d.cleanup = c.cleanup /\ d.lease = c.lease
             /\ c.state = "connected" =>
                  /\ d.pending = c.pending \cup {NewRequest(c, why, by, previous)}
                  /\ d.next = c.next + 1 /\ d.answered = c.answered
             /\ c.state # "connected" =>
                  /\ d.answered = c.answered \cup {Refusal(c, why, by, previous)}
                  /\ d.pending = c.pending /\ d.next = c.next /\ d.out = c.out
<1> DEFINE d == Request(c, why, by, previous)
<1>1. CASE c.state = "connected"
  <2>1. d = [c EXCEPT !.next = c.next + 1, !.pending = c.pending \cup {NewRequest(c, why, by, previous)},
                      !.out = Append(c.out, [id |-> c.next,
                                             command |-> IF why = "reconcile" THEN "detach" ELSE why])]
    BY <1>1 DEF Request, NewRequest
  <2> HIDE DEF d
  <2>2. /\ IsClient(d) /\ SameLink(c, d) /\ SameCount(c, d) /\ SameView(c, d)
        /\ d.cleanup = c.cleanup /\ d.lease = c.lease
        /\ d.pending = c.pending \cup {NewRequest(c, why, by, previous)}
        /\ d.next = c.next + 1 /\ d.answered = c.answered
    BY <1>1, <2>1 DEF IsClient, Fields, NewRequest, Callers, Requests, Outs, Whys, Commands, SameLink, SameCount, SameView
  <2> QED BY <1>1, <2>2 DEF d
<1>2. CASE c.state # "connected"
  <2>1. d = [c EXCEPT !.answered = c.answered \cup {Refusal(c, why, by, previous)}]
    BY <1>2 DEF Request, Refusal, Answered
  <2>2. Refusal(c, why, by, previous) \in Answers
    BY <1>2 DEF Refusal, Answers, Callers, IsClient
  <2> HIDE DEF d
  <2>3. /\ IsClient(d) /\ SameLink(c, d) /\ SameCount(c, d) /\ SameView(c, d)
        /\ d.cleanup = c.cleanup /\ d.lease = c.lease
        /\ d.answered = c.answered \cup {Refusal(c, why, by, previous)}
        /\ d.pending = c.pending /\ d.next = c.next /\ d.out = c.out
    BY <1>2, <2>1, <2>2 DEF IsClient, Fields, SameLink, SameCount, SameView
  <2> QED BY <1>2, <2>3 DEF d
<1> QED BY <1>1, <1>2

LEMMA PlacedFields ==
  ASSUME NEW c, IsClient(c), NEW ls, NEW where \in Wheres
  PROVE  LET d == Placed(c, ls, where)
         IN  /\ IsClient(d) /\ SameLink(c, d) /\ SameCount(c, d) /\ SameRequests(c, d) /\ SameView(c, d)
             /\ d.cleanup = c.cleanup
             /\ \A l \in Leases : IF l \in ls
                                  THEN /\ d.lease[l].at = where /\ d.lease[l].mode = c.lease[l].mode
                                       /\ d.lease[l].gen = c.lease[l].gen
                                       /\ d.lease[l].conn = c.lease[l].conn
                                  ELSE d.lease[l] = c.lease[l]
BY DEF IsClient, Fields, Placed, LeaseRecords, SameLink, SameCount, SameRequests, SameView

LEMMA DroppedFields ==
  ASSUME NEW c, IsClient(c), NEW ls
  PROVE  LET d == Dropped(c, ls)
         IN  /\ IsClient(d) /\ SameLink(c, d) /\ SameCount(c, d) /\ SameRequests(c, d) /\ SameView(c, d)
             /\ d.cleanup = c.cleanup
             /\ \A l \in Leases : d.lease[l] = IF l \in ls THEN Idle ELSE c.lease[l]
<1>1. Idle \in LeaseRecords
  BY BoundsAssumption DEF Idle, LeaseRecords, Wheres, Modes
<1> QED
  BY <1>1 DEF IsClient, Fields, Dropped, SameLink, SameCount, SameRequests, SameView

LEMMA HeldFields ==
  ASSUME NEW c, IsClient(c), NEW ls, NEW conn \in 0..MaxConnects
  PROVE  LET d == Held(c, ls, conn)
         IN  /\ IsClient(d) /\ SameLink(c, d) /\ SameCount(c, d) /\ SameRequests(c, d) /\ SameView(c, d)
             /\ d.cleanup = c.cleanup
             /\ \A l \in Leases : IF l \in ls
                                  THEN /\ d.lease[l].at = "held" /\ d.lease[l].mode = c.lease[l].mode
                                       /\ d.lease[l].gen = c.generation /\ d.lease[l].conn = conn
                                  ELSE d.lease[l] = c.lease[l]
<1> DEFINE d  == Held(c, ls, conn)
           ll == [l \in Leases |-> IF l \in ls THEN [c.lease[l] EXCEPT !.at = "held", !.gen = c.generation, !.conn = conn]
                                               ELSE c.lease[l]]
<1>1. /\ ll \in [Leases -> LeaseRecords]
      /\ \A l \in Leases : IF l \in ls
                           THEN /\ ll[l].at = "held" /\ ll[l].mode = c.lease[l].mode
                                /\ ll[l].gen = c.generation /\ ll[l].conn = conn
                           ELSE ll[l] = c.lease[l]
  BY DEF IsClient, LeaseRecords, Wheres
<1>2. d = [c EXCEPT !.lease = ll]
  BY DEF Held, IsClient, Fields
<1> HIDE DEF ll
<1>3. /\ IsClient(d) /\ SameLink(c, d) /\ SameCount(c, d) /\ SameRequests(c, d) /\ SameView(c, d)
      /\ d.cleanup = c.cleanup /\ d.lease = ll
  BY <1>1, <1>2 DEF IsClient, Fields, SameLink, SameCount, SameRequests, SameView
<1> QED BY <1>1, <1>3

LEMMA ReservedFields ==
  ASSUME NEW c, IsClient(c), NEW l \in Leases, NEW mode \in Modes
  PROVE  LET d == Reserved(c, l, mode)
         IN  /\ IsClient(d) /\ SameLink(c, d) /\ SameRequests(c, d) /\ SameView(c, d)
             /\ d.cleanup = c.cleanup
             /\ d.count = c.count + 1
             /\ d.exclusive = IF mode = "exclusive" THEN l ELSE c.exclusive
             /\ d.lease[l].mode = mode /\ d.lease[l].at = c.lease[l].at
             /\ d.lease[l].gen = c.lease[l].gen /\ d.lease[l].conn = c.lease[l].conn
             /\ \A k \in Leases \ {l} : d.lease[k] = c.lease[k]
<1> DEFINE d == Reserved(c, l, mode)
           ll == [c.lease EXCEPT ![l].mode = mode]
<1>1. /\ ll \in [Leases -> LeaseRecords]
      /\ ll[l].mode = mode /\ ll[l].at = c.lease[l].at
      /\ ll[l].gen = c.lease[l].gen /\ ll[l].conn = c.lease[l].conn
      /\ \A k \in Leases \ {l} : ll[k] = c.lease[k]
  BY DEF IsClient, LeaseRecords
<1>2. d = [c EXCEPT !.count = c.count + 1, !.exclusive = IF mode = "exclusive" THEN l ELSE c.exclusive,
                    !.lease = ll]
  BY DEF Reserved, IsClient, Fields
<1> HIDE DEF ll
<1>3. IsClient(d) /\ SameLink(c, d) /\ SameRequests(c, d) /\ SameView(c, d) /\ d.cleanup = c.cleanup
      /\ d.count = c.count + 1 /\ d.exclusive = (IF mode = "exclusive" THEN l ELSE c.exclusive)
      /\ d.lease = ll
  BY <1>1, <1>2 DEF IsClient, Fields, SameLink, SameRequests, SameView
<1> QED
  BY <1>1, <1>3

LEMMA ReleasedFields ==
  ASSUME NEW c, IsClient(c), NEW ls, ls \subseteq Leases
  PROVE  LET d == Released(c, ls)
         IN  /\ IsClient(d) /\ SameLink(c, d) /\ SameRequests(c, d) /\ SameView(c, d)
             /\ d.cleanup = c.cleanup /\ d.lease = c.lease
             /\ d.count = IF c.count > Cardinality(ls) THEN c.count - Cardinality(ls) ELSE 0
             /\ d.exclusive = IF c.exclusive \in ls THEN NoLease ELSE c.exclusive
BY LeaseSets DEF IsClient, Fields, Released, SameLink, SameRequests, SameView

LEMMA RefusedFields ==
  ASSUME NEW c, IsClient(c), NEW ls, ls \subseteq Leases
  PROVE  LET d == Refused(c, ls)
         IN  /\ IsClient(d) /\ SameLink(c, d) /\ SameRequests(c, d) /\ SameView(c, d)
             /\ d.cleanup = c.cleanup
             /\ \A l \in Leases : d.lease[l] = IF l \in ls THEN Idle ELSE c.lease[l]
             /\ d.count = IF c.count > Cardinality(ls) THEN c.count - Cardinality(ls) ELSE 0
             /\ d.exclusive = IF c.exclusive \in ls THEN NoLease ELSE c.exclusive
<1> DEFINE r == Released(c, ls)
<1>1. /\ IsClient(r) /\ SameLink(c, r) /\ SameRequests(c, r) /\ SameView(c, r)
      /\ r.cleanup = c.cleanup /\ r.lease = c.lease
      /\ r.count = IF c.count > Cardinality(ls) THEN c.count - Cardinality(ls) ELSE 0
      /\ r.exclusive = IF c.exclusive \in ls THEN NoLease ELSE c.exclusive
  BY ReleasedFields
<1> HIDE DEF r
<1>2. LET d == Dropped(r, ls)
      IN  /\ IsClient(d) /\ SameLink(r, d) /\ SameCount(r, d) /\ SameRequests(r, d) /\ SameView(r, d)
          /\ d.cleanup = r.cleanup
          /\ \A l \in Leases : d.lease[l] = IF l \in ls THEN Idle ELSE r.lease[l]
  BY <1>1, DroppedFields
<1>3. Refused(c, ls) = Dropped(r, ls)
  BY DEF Refused, r
<1> QED
  BY <1>1, <1>2, <1>3 DEF SameLink, SameCount, SameRequests, SameView

LEMMA InvalidatedFields ==
  ASSUME NEW c, IsClient(c)
  PROVE  LET d == Invalidated(c)
         IN  /\ IsClient(d) /\ SameRequests(c, d) /\ SameView(c, d)
             /\ d.state = c.state /\ d.id = c.id /\ d.generation = c.generation + 1
             /\ d.cleanup = FALSE /\ d.lease = c.lease /\ d.count = 0 /\ d.exclusive = NoLease
BY DEF IsClient, Fields, Invalidated, SameRequests, SameView

-----------------------------------------------------------------------------
(* Types: they hold whatever has crossed. *)

Gens(c) == \A l \in Leases : c.lease[l].gen <= c.generation
Open(c) == c.pending \cup c.answered
Asked(c) == \A p \in Open(c) : p.why \in {"detach", "create"} => p.by \in Leases
Sound(c) == IsClient(c) /\ Gens(c) /\ Asked(c)

LEMMA BasicSound ==
  ASSUME NEW c, Sound(c), NEW ls, ls \subseteq Leases
  PROVE  /\ \A where \in Wheres : Sound(Placed(c, ls, where))
         /\ \A conn \in 0..MaxConnects : Sound(Held(c, ls, conn))
         /\ Sound(Dropped(c, ls)) /\ Sound(Refused(c, ls)) /\ Sound(Released(c, ls))
         /\ Sound(Invalidated(c))
         /\ \A l \in Leases, mode \in Modes : Sound(Reserved(c, l, mode))
         /\ \A why \in Whys, by \in Callers, previous \in Snapshots :
              /\ why \in {"detach", "create"} => by \in Leases
              /\ why \in Tasks \/ c.state = "connected"
              => Sound(Request(c, why, by, previous))
<1>0. IsClient(c) /\ Gens(c) /\ Asked(c)
  BY DEF Sound
<1>a. \A l \in Leases : c.lease[l].gen \in Nat /\ c.generation \in Nat
  BY <1>0 DEF IsClient, LeaseRecords
<1>1. ASSUME NEW where \in Wheres PROVE Sound(Placed(c, ls, where))
  <2> HIDE DEF Placed
  <2>1. Gens(Placed(c, ls, where))
    BY <1>0, PlacedFields DEF Gens, SameLink
  <2>2. Open(Placed(c, ls, where)) = Open(c)
    BY <1>0, PlacedFields DEF SameRequests, Open
  <2>3. Asked(Placed(c, ls, where))
    BY <1>0, <2>2 DEF Asked
  <2> QED BY <1>0, <2>1, <2>3, PlacedFields DEF Sound
<1>2. Sound(Dropped(c, ls))
  <2>1. Gens(Dropped(c, ls))
    BY <1>0, <1>a, DroppedFields DEF Gens, SameLink, Idle
  <2>2. Open(Dropped(c, ls)) = Open(c)
    BY <1>0, DroppedFields DEF SameRequests, Open
  <2>3. Asked(Dropped(c, ls))
    BY <1>0, <2>2 DEF Asked
  <2> QED BY <1>0, <2>1, <2>3, DroppedFields DEF Sound
<1>3. ASSUME NEW conn \in 0..MaxConnects PROVE Sound(Held(c, ls, conn))
  <2>1. Gens(Held(c, ls, conn))
    BY <1>0, <1>a, HeldFields DEF Gens, SameLink
  <2>2. Open(Held(c, ls, conn)) = Open(c)
    BY <1>0, HeldFields DEF SameRequests, Open
  <2>3. Asked(Held(c, ls, conn))
    BY <1>0, <2>2 DEF Asked
  <2> QED BY <1>0, <2>1, <2>3, HeldFields DEF Sound
<1>4. Sound(Refused(c, ls))
  <2>1. Gens(Refused(c, ls))
    BY <1>0, <1>a, RefusedFields DEF Gens, SameLink, Idle
  <2>2. Open(Refused(c, ls)) = Open(c)
    BY <1>0, RefusedFields DEF SameRequests, Open
  <2>3. Asked(Refused(c, ls))
    BY <1>0, <2>2 DEF Asked
  <2> QED BY <1>0, <2>1, <2>3, RefusedFields DEF Sound
<1>5. Sound(Released(c, ls))
  <2>1. Gens(Released(c, ls))
    BY <1>0, <1>a, ReleasedFields DEF Gens, SameLink
  <2>2. Open(Released(c, ls)) = Open(c)
    BY <1>0, ReleasedFields DEF SameRequests, Open
  <2>3. Asked(Released(c, ls))
    BY <1>0, <2>2 DEF Asked
  <2> QED BY <1>0, <2>1, <2>3, ReleasedFields DEF Sound
<1>6. Sound(Invalidated(c))
  <2>0. Invalidated(c).lease = c.lease /\ Invalidated(c).generation = c.generation + 1
    BY <1>0, InvalidatedFields
  <2>1. Gens(Invalidated(c))
    BY <1>0, <1>a, <2>0 DEF Gens
  <2>2. Open(Invalidated(c)) = Open(c)
    BY <1>0, InvalidatedFields DEF SameRequests, Open
  <2>3. Asked(Invalidated(c))
    BY <1>0, <2>2 DEF Asked
  <2> QED BY <1>0, <2>1, <2>3, InvalidatedFields DEF Sound
<1>7. ASSUME NEW l \in Leases, NEW mode \in Modes PROVE Sound(Reserved(c, l, mode))
  <2>1. Gens(Reserved(c, l, mode))
    BY <1>0, <1>a, ReservedFields DEF Gens, SameLink
  <2>2. Open(Reserved(c, l, mode)) = Open(c)
    BY <1>0, ReservedFields DEF SameRequests, Open
  <2>3. Asked(Reserved(c, l, mode))
    BY <1>0, <2>2 DEF Asked
  <2> QED BY <1>0, <2>1, <2>3, ReservedFields DEF Sound
<1>8. ASSUME NEW why \in Whys, NEW by \in Callers, NEW previous \in Snapshots,
             why \in {"detach", "create"} => by \in Leases, why \in Tasks \/ c.state = "connected"
      PROVE  Sound(Request(c, why, by, previous))
  <2> DEFINE d == Request(c, why, by, previous)
             p == NewRequest(c, why, by, previous)
             q == Refusal(c, why, by, previous)
  <2>0. d.lease = c.lease /\ d.generation = c.generation /\ IsClient(d)
        /\ (Open(d) = Open(c) \cup {p} \/ Open(d) = Open(c) \cup {q})
    <3>1. /\ IsClient(d) /\ SameLink(c, d) /\ d.lease = c.lease
          /\ c.state = "connected" => d.pending = c.pending \cup {p} /\ d.answered = c.answered
          /\ c.state # "connected" => d.answered = c.answered \cup {q} /\ d.pending = c.pending
      BY <1>0, <1>8, RequestFields
    <3> HIDE DEF d, p, q
    <3> QED BY <3>1 DEF SameLink, Open
  <2>1. Gens(d)
    BY <1>0, <2>0 DEF Gens
  <2>2. Asked(d)
    BY <1>0, <1>8, <2>0 DEF Asked, NewRequest, Refusal
  <2> QED BY <2>0, <2>1, <2>2 DEF Sound
<1> QED
  BY <1>1, <1>2, <1>3, <1>4, <1>5, <1>6, <1>7, <1>8

(* Steps that are of no concern to the leases. *)
Unseen(c, d) ==
  SameLink(c, d) /\ SameCount(c, d) /\ d.pending = c.pending /\ d.answered = c.answered /\ d.cleanup = c.cleanup /\ d.lease = c.lease

LEMMA SetSnapshot ==
  ASSUME NEW c, Sound(c), NEW s \in Snapshots, NEW d, d = [c EXCEPT !.snapshot = s]
  PROVE  Sound(d) /\ Unseen(c, d)
BY DEF Sound, IsClient, Fields, Gens, Asked, Open, Unseen, SameLink, SameCount

LEMMA SetView ==
  ASSUME NEW c, Sound(c), NEW s \in Snapshots, NEW a \in BOOLEAN, NEW d,
         d = [c EXCEPT !.snapshot = s, !.attached = a]
  PROVE  Sound(d) /\ Unseen(c, d)
BY DEF Sound, IsClient, Fields, Gens, Asked, Open, Unseen, SameLink, SameCount

LEMMA SetAttached ==
  ASSUME NEW c, Sound(c), NEW a \in BOOLEAN, NEW d, d = [c EXCEPT !.attached = a]
  PROVE  Sound(d) /\ Unseen(c, d)
BY DEF Sound, IsClient, Fields, Gens, Asked, Open, Unseen, SameLink, SameCount

LEMMA SetOut ==
  ASSUME NEW c, Sound(c), NEW o \in Seq(Outs), NEW d, d = [c EXCEPT !.out = o]
  PROVE  Sound(d) /\ Unseen(c, d)
BY DEF Sound, IsClient, Fields, Gens, Asked, Open, Unseen, SameLink, SameCount

LEMMA SetCleanup ==
  ASSUME NEW c, Sound(c), NEW b \in BOOLEAN, NEW d, d = [c EXCEPT !.cleanup = b]
  PROVE  /\ Sound(d) /\ SameLink(c, d) /\ SameCount(c, d) /\ SameRequests(c, d) /\ SameView(c, d)
         /\ d.cleanup = b /\ d.lease = c.lease
BY DEF Sound, IsClient, Fields, Gens, Asked, Open, SameLink, SameCount, SameRequests, SameView

(* A promise is settled, and one of those settled is passed on. *)
LEMMA RespondedSound ==
  ASSUME NEW c, Sound(c), NEW p \in c.pending, NEW ok \in BOOLEAN
  PROVE  LET d == Responded(c, p, ok)
         IN  /\ Sound(d) /\ SameLink(c, d) /\ SameCount(c, d) /\ SameView(c, d)
             /\ d.cleanup = c.cleanup /\ d.lease = c.lease /\ d.next = c.next /\ d.out = c.out
             /\ d.pending = c.pending \ {p}
             /\ d.answered = IF p.why = "command" THEN c.answered ELSE c.answered \cup {Answered(c, p, ok)}
<1> DEFINE d == Responded(c, p, ok)
           as == IF p.why = "command" THEN c.answered ELSE c.answered \cup {Answered(c, p, ok)}
<1>1. p.why # "command" => Answered(c, p, ok) \in Answers
  BY DEF Sound, IsClient, Answered, Answers, Requests, Commands, Tasks
<1>2. as \subseteq Answers
  BY <1>1 DEF Sound, IsClient
<1>3. d = [c EXCEPT !.pending = c.pending \ {p}, !.answered = as]
  BY DEF Responded
<1>4. \A a \in as : a \in c.answered \/ (a.why = p.why /\ a.by = p.by)
  BY DEF Answered
<1> HIDE DEF d, as
<1>5. IsClient(d) /\ d.pending = c.pending \ {p} /\ d.answered = as /\ d.lease = c.lease /\ d.generation = c.generation
  BY <1>2, <1>3 DEF Sound, IsClient, Fields
<1>6. Asked(d)
  BY <1>4, <1>5 DEF Asked, Open, Sound
<1>7. Gens(d)
  BY <1>5 DEF Sound, Gens
<1>8. d.answered = IF p.why = "command" THEN c.answered ELSE c.answered \cup {Answered(c, p, ok)}
  BY <1>5 DEF as
<1> QED
  BY <1>3, <1>5, <1>6, <1>7, <1>8 DEF Sound, IsClient, Fields, SameLink, SameCount, SameView, d

LEMMA SetAnswered ==
  ASSUME NEW c, Sound(c), NEW as, as \subseteq Answers,
         \A a \in as : a.why \in {"detach", "create"} => a.by \in Leases,
         NEW d, d = [c EXCEPT !.answered = as]
  PROVE  /\ Sound(d) /\ SameLink(c, d) /\ SameCount(c, d) /\ SameView(c, d)
         /\ d.answered = as /\ d.pending = c.pending /\ d.next = c.next /\ d.out = c.out
         /\ d.cleanup = c.cleanup /\ d.lease = c.lease
BY DEF Sound, IsClient, Fields, Gens, Asked, Open, SameLink, SameCount, SameView

(* The requests that the client sends carry a snapshot it has. *)
LEMMA NoSnapshotType == NoSnapshot \in Snapshots /\ NoLease \in Callers
BY DEF Callers, NoSnapshot, Snapshots

LEMMA AttachingSound ==
  ASSUME NEW c, Sound(c), NEW ls, ls \subseteq Leases
  PROVE  Sound(Attaching(c, ls))
<1>1. CASE InFlight(c, {"attach"}) # {}
  <2>1. Attaching(c, ls) = Placed(c, ls, "attaching") /\ "attaching" \in Wheres
    BY <1>1 DEF Attaching, Wheres
  <2> QED BY <2>1, BasicSound
<1>2. CASE InFlight(c, {"attach"}) = {}
  <2> DEFINE s == [c EXCEPT !.snapshot = NoSnapshot]
             r == Request(s, "attach", NoLease, c.snapshot)
  <2>1. Sound(s)
    BY SetSnapshot, NoSnapshotType
  <2>2. c.snapshot \in Snapshots /\ "attach" \in Whys /\ "attaching" \in Wheres /\ "attach" \in Tasks
    BY DEF Sound, IsClient, Whys, Commands, Wheres, Tasks
  <2> HIDE DEF s
  <2>3. Sound(r)
    BY <2>1, <2>2, BasicSound, NoSnapshotType
  <2>4. Attaching(c, ls) = Placed(r, ls, "attaching")
    BY <1>2 DEF Attaching, s
  <2> HIDE DEF r
  <2> QED BY <2>2, <2>3, <2>4, BasicSound
<1> QED BY <1>1, <1>2

LEMMA AcquiringSound ==
  ASSUME NEW c, Sound(c), NEW ls, ls \subseteq Leases
  PROVE  Sound(Acquiring(c, ls))
<1>1. CASE ls = {}
  BY <1>1 DEF Acquiring
<1>2. CASE ls # {} /\ c.cleanup
  <2> DEFINE r == IF InFlight(c, {"reconcile"}) # {} THEN c ELSE Request(c, "reconcile", NoLease, NoSnapshot)
  <2>1. Sound(r)
    BY BasicSound, NoSnapshotType DEF Whys, Tasks
  <2>2. Acquiring(c, ls) = Placed(r, ls, "reconciling") /\ "reconciling" \in Wheres
    BY <1>2 DEF Acquiring, Wheres
  <2> HIDE DEF r
  <2> QED BY <2>1, <2>2, BasicSound
<1>3. CASE ls # {} /\ ~c.cleanup
  <2>1. c.id \in 0..MaxConnects
    BY DEF Sound, IsClient
  <2> QED BY <1>3, <2>1, BasicSound, AttachingSound DEF Acquiring
<1>4. c.cleanup \in BOOLEAN
  BY DEF Sound, IsClient
<1> QED BY <1>1, <1>2, <1>3, <1>4

LEMMA AtLeases == ASSUME NEW c, NEW where PROVE At(c, where) \subseteq Leases
BY DEF At

LEMMA AttachSettledSound ==
  ASSUME NEW c, Sound(c), NEW p \in Answers
  PROVE  Sound(Restored(c, p)) /\ Sound(AttachSettled(c, p))
<1>1. Sound(Restored(c, p))
  <2>1. (IF c.snapshot = NoSnapshot THEN p.previous ELSE c.snapshot) \in Snapshots
    BY DEF Sound, IsClient, Answers
  <2> QED BY <2>1, SetSnapshot DEF Restored
<1>2. AttachSettled(c, p) = IF p.ok THEN Held(c, At(c, "attaching"), p.conn)
                            ELSE Refused(Restored(c, p), At(c, "attaching"))
  BY DEF AttachSettled
<1>3. p.conn \in 0..MaxConnects /\ p.ok \in BOOLEAN
  BY DEF Answers
<1> HIDE DEF Restored
<1> QED BY <1>1, <1>2, <1>3, AtLeases, BasicSound

LEMMA ReconcileSettledSound ==
  ASSUME NEW c, Sound(c), NEW p \in Answers
  PROVE  Sound(ReconcileSettled(c, p))
<1>1. Sound([c EXCEPT !.cleanup = FALSE])
  BY SetCleanup
<1> DEFINE d == [c EXCEPT !.cleanup = FALSE]
<1>2. ReconcileSettled(c, p) = IF p.ok THEN Attaching(d, At(c, "reconciling")) ELSE Refused(c, At(c, "reconciling"))
  BY DEF ReconcileSettled
<1> HIDE DEF d
<1>3. Sound(d)
  BY <1>1 DEF d
<1> QED BY <1>2, <1>3, AtLeases, BasicSound, AttachingSound

LEMMA ReleasesFailedSound ==
  ASSUME NEW c, Sound(c), NEW ls, ls \subseteq Leases
  PROVE  Sound(ReleasesFailed(c, ls))
<1> DEFINE disposed == {l \in Current(c, ls) : c.lease[l].at = "disposing"}
           back     == Current(c, ls) \ disposed
           r        == Released(c, disposed)
           k        == [r EXCEPT !.cleanup = r.cleanup \/ disposed # {}]
           d        == Dropped(k, ls \ back)
<1>1. disposed \subseteq Leases /\ back \subseteq Leases /\ ls \ back \subseteq Leases
  BY DEF Current
<1>2. ReleasesFailed(c, ls) = Placed(d, back, "held")
  BY DEF ReleasesFailed
<1> HIDE DEF disposed, back
<1>3. Sound(r)
  BY <1>1, BasicSound
<1> HIDE DEF r
<1>4. Sound(k)
  <2>1. (r.cleanup \/ disposed # {}) \in BOOLEAN
    OBVIOUS
  <2> QED BY <1>3, <2>1, SetCleanup
<1> HIDE DEF k
<1>5. Sound(d)
  BY <1>1, <1>4, BasicSound
<1> HIDE DEF d
<1> QED BY <1>1, <1>2, <1>5, BasicSound DEF Wheres

LEMMA ReleaseSettledSound ==
  ASSUME NEW c, Sound(c), NEW l \in Leases, NEW ok \in BOOLEAN
  PROVE  Sound(ReleaseSettled(c, l, ok))
<1>1. ReleaseSettled(c, l, ok) = IF ok THEN Refused(c, {l}) ELSE ReleasesFailed(c, {l})
  BY DEF ReleaseSettled, Refused
<1> QED BY <1>1, BasicSound, ReleasesFailedSound

LEMMA CreateSettledSound ==
  ASSUME NEW c, Sound(c), NEW p \in Answers, p.by \in Leases
  PROVE  Sound(CreateSettled(c, p))
<1> DEFINE r == Reserved(c, p.by, "exclusive")
<1>1. Sound(r) /\ {p.by} \subseteq Leases /\ p.conn \in 0..MaxConnects
  BY BasicSound DEF Modes, Answers
<1>2. CreateSettled(c, p) = IF p.ok /\ MayReserve(c, "exclusive") THEN Held(r, {p.by}, p.conn) ELSE Dropped(c, {p.by})
  BY DEF CreateSettled
<1> HIDE DEF r
<1> QED BY <1>1, <1>2, BasicSound

LEMMA SettledSound ==
  ASSUME NEW c, Sound(c), NEW p \in Answers, p.why \in {"detach", "create"} => p.by \in Leases
  PROVE  Sound(Settled(c, p))
<1>1. CASE p.why = "attach"
  BY <1>1, AttachSettledSound DEF Settled
<1>2. CASE p.why = "reconcile"
  BY <1>2, ReconcileSettledSound DEF Settled
<1>3. CASE p.why = "detach"
  <2>1. Sound(ReleaseSettled(c, p.by, p.ok))
    BY <1>3, ReleaseSettledSound DEF Answers
  <2>2. Settled(c, p) = Acquiring(ReleaseSettled(c, p.by, p.ok), At(c, "waiting"))
    BY <1>3 DEF Settled, DetachSettled
  <2> QED BY <2>1, <2>2, AtLeases, AcquiringSound
<1>4. CASE p.why = "create"
  BY <1>4, CreateSettledSound DEF Settled
<1>5. p.why \in Tasks
  BY DEF Answers
<1> QED BY <1>1, <1>2, <1>3, <1>4, <1>5 DEF Tasks

(* The microtasks. *)
Passed(c, p) == [c EXCEPT !.answered = c.answered \ {p}]
Caught(c, p) == [c EXCEPT !.answered = (c.answered \ {p}) \cup {[p EXCEPT !.caught = TRUE]}]

LEMMA GoOnSound ==
  ASSUME NEW c, Sound(c), NEW p \in c.answered
  PROVE  p \in Answers /\ Sound(Passed(c, p)) /\ Sound(Settled(Passed(c, p), p)) /\ Sound(Caught(c, p))
<1>1. /\ p \in Answers /\ p.why \in {"detach", "create"} => p.by \in Leases
      /\ \A a \in c.answered : a \in Answers /\ (a.why \in {"detach", "create"} => a.by \in Leases)
  BY DEF Sound, IsClient, Asked, Open
<1>2. /\ [p EXCEPT !.caught = TRUE] \in Answers
      /\ [p EXCEPT !.caught = TRUE].why = p.why /\ [p EXCEPT !.caught = TRUE].by = p.by
  BY <1>1 DEF Answers
<1> DEFINE q == [p EXCEPT !.caught = TRUE]
           d == Passed(c, p)
<1>3. Sound(d)
  <2>1. c.answered \ {p} \subseteq Answers
    BY <1>1
  <2> QED BY <1>1, <2>1, SetAnswered DEF Passed
<1>4. Sound([c EXCEPT !.answered = (c.answered \ {p}) \cup {q}])
  <2> HIDE DEF q
  <2>1. q \in Answers /\ q.why = p.why /\ q.by = p.by
    BY <1>2 DEF q
  <2>2. (c.answered \ {p}) \cup {q} \subseteq Answers
    BY <1>1, <2>1
  <2>3. \A a \in (c.answered \ {p}) \cup {q} : a.why \in {"detach", "create"} => a.by \in Leases
    BY <1>1, <2>1
  <2> QED BY <2>2, <2>3, SetAnswered
<1> HIDE DEF d
<1>5. Sound(Settled(d, p))
  BY <1>1, <1>3, SettledSound
<1> QED BY <1>1, <1>3, <1>4, <1>5 DEF d, Caught

(* What a message brings. *)
LEMMA AppliedFields ==
  ASSUME NEW c, Sound(c), NEW p, NEW m, m.snapshot \in Snapshots, m.attached \in BOOLEAN,
         NEW d, d = AppliedSnapshot(c, m) \/ d = AppliedResult(c, p, m)
  PROVE  Sound(d) /\ Unseen(c, d)
<1>1. \/ d = c \/ d = [c EXCEPT !.snapshot = m.snapshot, !.attached = m.attached]
      \/ d = [c EXCEPT !.attached = FALSE]
  BY DEF AppliedSnapshot, AppliedResult
<1>2. CASE d = c
  BY <1>2 DEF Unseen, SameLink, SameCount
<1>3. CASE d = [c EXCEPT !.snapshot = m.snapshot, !.attached = m.attached]
  BY <1>3, SetView
<1>4. CASE d = [c EXCEPT !.attached = FALSE]
  BY <1>4, SetAttached
<1> QED
  BY <1>1, <1>2, <1>3, <1>4

(* The end of the connection. *)
Lost(c) == {Answered(c, p, FALSE) : p \in {p \in c.pending : p.why # "command"}}

LEMMA LostAnswers ==
  ASSUME NEW c, Sound(c)
  PROVE  /\ Lost(c) \subseteq Answers
         /\ \A a \in Lost(c) : /\ ~a.ok /\ ~a.caught /\ a.conn = c.id
                              /\ \E p \in c.pending : a.why = p.why /\ a.by = p.by /\ a.id = p.id
         /\ \A p \in c.pending : p.why # "command" =>
              \E a \in Lost(c) : a.why = p.why /\ a.by = p.by /\ a.previous = p.previous
<1>1. ASSUME NEW p \in c.pending, p.why # "command"
      PROVE  LET a == Answered(c, p, FALSE)
             IN  /\ a \in Answers /\ ~a.ok /\ ~a.caught /\ a.conn = c.id
                 /\ a.why = p.why /\ a.by = p.by /\ a.id = p.id /\ a.previous = p.previous
  BY <1>1 DEF Sound, IsClient, Answered, Answers, Requests, Commands, Tasks
<1>2. \A a \in Lost(c) : \E p \in c.pending : p.why # "command" /\ a = Answered(c, p, FALSE)
  BY DEF Lost
<1>3. \A p \in c.pending : p.why # "command" => Answered(c, p, FALSE) \in Lost(c)
  BY DEF Lost
<1>4. \A a \in Lost(c) : /\ a \in Answers /\ ~a.ok /\ ~a.caught /\ a.conn = c.id
                        /\ \E p \in c.pending : a.why = p.why /\ a.by = p.by /\ a.id = p.id
  BY <1>1, <1>2
<1>5. \A p \in c.pending : p.why # "command" =>
        \E a \in Lost(c) : a.why = p.why /\ a.by = p.by /\ a.previous = p.previous
  BY <1>1, <1>3
<1> QED BY <1>4, <1>5

LEMMA DisconnectedFields ==
  ASSUME NEW c, Sound(c), NEW to \in States
  PROVE  LET d == Disconnected(c, to)
         IN  /\ Sound(d) /\ d.state = to /\ d.id = c.id /\ d.pending = {} /\ d.lease = c.lease
             /\ d.answered = c.answered \cup Lost(c) /\ ~d.cleanup /\ ~d.attached /\ d.next = c.next
             /\ d.out = <<>> /\ d.snapshot = c.snapshot
             /\ c.count > 0 => d.generation = c.generation + 1 /\ d.count = 0 /\ d.exclusive = NoLease
             /\ c.count = 0 => d.generation = c.generation /\ d.count = 0 /\ d.exclusive = c.exclusive
<1> DEFINE k == [c EXCEPT !.attached = FALSE, !.pending = {}, !.out = <<>>, !.state = to,
                          !.answered = c.answered \cup Lost(c)]
           d == Disconnected(c, to)
<1>0. c.count \in Nat
  BY DEF Sound, IsClient
<1>1. d = IF c.count > 0 THEN Invalidated(k) ELSE [k EXCEPT !.cleanup = FALSE]
  BY DEF Disconnected, Lost
<1>2. /\ IsClient(k) /\ k.state = to /\ k.id = c.id /\ k.pending = {} /\ k.lease = c.lease
      /\ k.answered = c.answered \cup Lost(c) /\ ~k.attached /\ k.next = c.next /\ k.out = <<>>
      /\ k.snapshot = c.snapshot /\ k.generation = c.generation /\ k.count = c.count
      /\ k.exclusive = c.exclusive
  <2>1. Lost(c) \subseteq Answers
    BY LostAnswers
  <2> QED BY <2>1 DEF Sound, IsClient, Fields
<1> HIDE DEF k, d
<1>3. Sound(k)
  <2>1. Gens(k)
    BY <1>2 DEF Sound, Gens
  <2>2. Asked(k)
    BY <1>2, LostAnswers DEF Sound, Asked, Open
  <2> QED BY <1>2, <2>1, <2>2 DEF Sound
<1>4. CASE c.count > 0
  <2> DEFINE i == Invalidated(k)
  <2>1. Sound(i)
    BY <1>3, BasicSound
  <2>2. /\ SameRequests(k, i) /\ SameView(k, i) /\ i.state = k.state /\ i.id = k.id
        /\ i.generation = k.generation + 1 /\ i.cleanup = FALSE /\ i.lease = k.lease
        /\ i.count = 0 /\ i.exclusive = NoLease
    BY <1>2, InvalidatedFields
  <2>3. d = i
    BY <1>1, <1>4
  <2> HIDE DEF i
  <2> QED BY <1>2, <1>4, <2>1, <2>2, <2>3 DEF SameRequests, SameView, d
<1>5. CASE c.count = 0
  <2>1. d = [k EXCEPT !.cleanup = FALSE]
    BY <1>1, <1>5
  <2>2. /\ Sound(d) /\ SameLink(k, d) /\ SameCount(k, d) /\ SameRequests(k, d) /\ SameView(k, d)
        /\ d.cleanup = FALSE /\ d.lease = k.lease
    BY <1>3, <2>1, SetCleanup
  <2> QED BY <1>2, <1>5, <2>2 DEF SameLink, SameCount, SameRequests, SameView, d
<1> QED BY <1>0, <1>4, <1>5

-----------------------------------------------------------------------------
(* Type correctness of the specification. *)

Jobs == [id : Nat, command : Commands, at : {"running", "attached"}]
IsServer(s) ==
  /\ DOMAIN s = {"created", "attached", "open", "rev", "runtime", "jobs"}
  /\ s.created \in BOOLEAN /\ s.attached \in BOOLEAN /\ s.open \in BOOLEAN
  /\ s.rev \in 0..MaxRevision /\ s.runtime \in Nat /\ s.jobs \subseteq Jobs
IsFaults(f) == f \in 0..MaxFaults

TypeInv ==
  /\ Sound(client) /\ IsServer(server) /\ wire \in Seq(Messages)
  /\ crossed \in BOOLEAN /\ undone \in BOOLEAN /\ IsFaults(faults)

LEMMA InitSound == Init => Sound(client)
<1> SUFFICES ASSUME Init PROVE Sound(client)
  OBVIOUS
<1>1. client = [state |-> "disconnected", id |-> 0, next |-> 1, pending |-> {},
                answered |-> {}, out |-> <<>>, count |-> 0, exclusive |-> NoLease, generation |-> 0, cleanup |-> FALSE,
                attached |-> FALSE, snapshot |-> NoSnapshot, lease |-> [l \in Leases |-> Idle]]
  BY DEF Init
<1>2. Idle \in LeaseRecords /\ Idle.gen = 0
  BY BoundsAssumption DEF Idle, LeaseRecords, Wheres, Modes
<1>3. NoSnapshot \in Snapshots
  BY NoSnapshotType
<1>4. IsClient(client)
  BY <1>1, <1>2, <1>3, BoundsAssumption DEF IsClient, Fields, States
<1>5. Gens(client) /\ Asked(client)
  BY <1>1, <1>2 DEF Gens, Asked, Open
<1> QED BY <1>4, <1>5 DEF Sound

LEMMA InitTypes == Init => TypeInv
<1> SUFFICES ASSUME Init PROVE TypeInv
  OBVIOUS
<1>1. PICK created \in BOOLEAN :
        server = [created |-> created, attached |-> FALSE, open |-> FALSE, rev |-> 0, runtime |-> 0, jobs |-> {}]
  BY DEF Init
<1>2. IsServer(server)
  BY <1>1, BoundsAssumption DEF IsServer
<1>3. IsFaults(faults)
  BY BoundsAssumption DEF Init, IsFaults
<1>4. wire = <<>> /\ crossed = FALSE /\ undone = FALSE
  BY DEF Init
<1>5. wire \in Seq(Messages)
  BY <1>4
<1> QED BY <1>2, <1>3, <1>4, <1>5, InitSound DEF TypeInv

(* The steps of the server leave the client alone, but for what it has sent. *)
ServerSteps ==
  /\ Apart
  /\ \/ ReceiveRequest \/ \E j \in server.jobs : Attach(j) \/ Answer(j) \/ AnswerFails(j)
     \/ RuntimeEvent \/ DisposeRuntime \/ RemoveSession

LEMMA ServerStepClient ==
  ASSUME TypeInv, ServerSteps
  PROVE  Sound(client') /\ Unseen(client, client') /\ SameView(client, client') /\ UNCHANGED crossed
<1>1. CASE ReceiveRequest
  <2>1. client.out \in Seq(Outs) /\ client.out # <<>>
    BY <1>1 DEF TypeInv, Sound, IsClient, ReceiveRequest
  <2>2. Tail(client.out) \in Seq(Outs)
    BY <2>1
  <2>3. client' = [client EXCEPT !.out = Tail(client.out)] /\ UNCHANGED crossed
    BY <1>1 DEF ReceiveRequest
  <2>4. Sound(client') /\ Unseen(client, client')
    BY <2>2, <2>3, SetOut DEF TypeInv
  <2>5. SameView(client, client')
    BY <2>3 DEF SameView, TypeInv, Sound, IsClient, Fields
  <2> QED BY <2>3, <2>4, <2>5
<1>2. CASE UNCHANGED <<client, crossed>>
  BY <1>2 DEF TypeInv, Unseen, SameLink, SameCount, SameView
<1> QED
  BY <1>1, <1>2 DEF ServerSteps, Attach, Answer, AnswerFails, RuntimeEvent, DisposeRuntime, RemoveSession

(* The calls of the client, the connection and the messages it reads. *)
LEMMA ClientStepSound == TypeInv /\ [Next]_vars => Sound(client')
<1> SUFFICES ASSUME TypeInv, [Next]_vars PROVE Sound(client')
  OBVIOUS
<1>0. Sound(client) /\ client.state \in States /\ client.snapshot \in Snapshots
  BY DEF TypeInv, Sound, IsClient
<1> HIDE DEF Sound
<1>1. ASSUME NEW l \in Leases, NEW mode \in Modes, AcquireSession(l, mode) PROVE Sound(client')
  <2> DEFINE c == Reserved(client, l, mode)
  <2>1. Sound(c) /\ {l} \subseteq Leases /\ "waiting" \in Wheres
    BY <1>0, BasicSound DEF Wheres
  <2>2. client' = IF InFlight(c, {"detach"}) # {} THEN Placed(c, {l}, "waiting") ELSE Acquiring(c, {l})
    BY <1>1 DEF AcquireSession
  <2> HIDE DEF c
  <2> QED BY <2>1, <2>2, BasicSound, AcquiringSound
<1>2. ASSUME NEW l \in Leases, NEW how \in {"detaching", "disposing"}, Release(l, how) PROVE Sound(client')
  <2> DEFINE r == Request(client, "detach", l, NoSnapshot)
  <2>1. Sound(r) /\ {l} \subseteq Leases /\ how \in Wheres
    BY <1>0, BasicSound, NoSnapshotType DEF Whys, Commands, Wheres, Callers, Tasks
  <2>2. client' = IF client.count <= 1 THEN Placed(r, {l}, how) ELSE Refused(client, {l})
    BY <1>2 DEF Release, Refused
  <2> HIDE DEF r
  <2> QED BY <1>0, <2>1, <2>2, BasicSound
<1>3. ASSUME NEW l \in Leases, CreateSession(l) PROVE Sound(client')
  <2> DEFINE r == Request(client, "create", l, NoSnapshot)
  <2>1. Sound(r) /\ {l} \subseteq Leases /\ "creating" \in Wheres
    BY <1>0, BasicSound, NoSnapshotType DEF Whys, Commands, Wheres, Callers, Tasks
  <2>2. client' = Placed(r, {l}, "creating")
    BY <1>3 DEF CreateSession
  <2> HIDE DEF r
  <2> QED BY <2>1, <2>2, BasicSound
<1>4. ASSUME NEW l \in Leases, ReleaseInvalid(l) PROVE Sound(client')
  <2>1. client' = Dropped(client, {l}) /\ {l} \subseteq Leases
    BY <1>4 DEF ReleaseInvalid
  <2> QED BY <1>0, <2>1, BasicSound
<1>5. ASSUME NEW l \in Leases, Command(l) PROVE Sound(client')
  <2>1. client' = Request(client, "command", l, NoSnapshot) /\ "command" \in Whys /\ l \in Callers
        /\ client.state = "connected"
    BY <1>5 DEF Command, Whys, Commands, Callers
  <2> QED BY <1>0, <2>1, BasicSound, NoSnapshotType
<1>6. CASE Connect
  <2>1. client' = [client EXCEPT !.state = "connecting", !.id = client.id + 1,
                                 !.snapshot = NoSnapshot, !.attached = FALSE]
        /\ client.id < MaxConnects
    BY <1>6 DEF Connect
  <2> QED BY <1>0, <2>1, NoSnapshotType, BoundsAssumption DEF Sound, IsClient, Fields, Gens, Asked, Open, States
<1>7. CASE ReceiveHello
  <2>1. client' = [client EXCEPT !.state = "connected"]
    BY <1>7 DEF ReceiveHello
  <2> QED BY <1>0, <2>1 DEF Sound, IsClient, Fields, Gens, Asked, Open, States
<1>8. ASSUME NEW to \in {"disconnected", "disposed"}, Disconnect(to) PROVE Sound(client')
  <2>1. client' = Disconnected(client, to) /\ to \in States
    BY <1>8 DEF Disconnect, EndConnection, States
  <2> QED BY <1>0, <2>1, DisconnectedFields
<1>9. CASE HandleMessage
  <2> DEFINE m == Head(wire)
  <2>1. m \in Messages
    BY <1>9 DEF HandleMessage, TypeInv
  <2>2. m.snapshot \in Snapshots /\ m.attached \in BOOLEAN /\ m.ok \in BOOLEAN
    BY <2>1 DEF Messages
  <2>3. UNCHANGED client \/ (m.type = "response" /\ HandleResponse(m)) \/ HandleEvent(m)
    BY <1>9 DEF HandleMessage
  <2> HIDE DEF m
  <2>4. CASE HandleEvent(m)
    <3>1. CASE m.type = "session_removed"
      <4> DEFINE i == Invalidated(client)
      <4>1. Sound(i)
        BY <1>0, BasicSound
      <4>2. client' = [i EXCEPT !.attached = FALSE, !.snapshot = NoSnapshot]
        BY <2>4, <3>1 DEF HandleEvent
      <4> HIDE DEF i
      <4> QED BY <4>1, <4>2, NoSnapshotType DEF Sound, IsClient, Fields, Gens, Asked, Open
    <3>2. CASE m.type # "session_removed"
      <4>1. client' = AppliedSnapshot(client, m)
        BY <2>4, <3>2 DEF HandleEvent
      <4> QED BY <1>0, <2>2, <4>1, AppliedFields
    <3> QED BY <3>1, <3>2
  <2>5. CASE HandleResponse(m)
    <3> DEFINE ps == {p \in client.pending : p.id = m.id}
    <3>1. CASE ps = {}
      <4>1. client' = Disconnected(client, "disconnected")
        BY <2>5, <3>1 DEF HandleResponse, EndConnection
      <4> QED BY <1>0, <4>1, DisconnectedFields DEF States
    <3>2. CASE ps # {}
      <4> DEFINE p == CHOOSE q \in ps : TRUE
                 d == IF m.ok THEN AppliedResult(client, p, m) ELSE client
      <4>1. p \in client.pending
        BY <3>2
      <4>2. client' = Responded(d, p, m.ok)
        BY <2>5, <3>2 DEF HandleResponse
      <4> HIDE DEF p
      <4>5. m.ok \in BOOLEAN /\ \A e : Unseen(client, e) => e.pending = client.pending
        BY <2>2 DEF Unseen
      <4>3. Sound(d) /\ d.pending = client.pending
        <5>1. CASE m.ok
          BY <1>0, <2>2, <5>1, AppliedFields DEF Unseen
        <5>2. CASE ~m.ok
          BY <1>0, <5>2
        <5> QED BY <5>1, <5>2
      <4> HIDE DEF d
      <4> QED BY <2>2, <4>1, <4>2, <4>3, RespondedSound
    <3> QED BY <3>1, <3>2
  <2>6. CASE UNCHANGED client
    BY <1>0, <2>6
  <2> QED BY <2>3, <2>4, <2>5, <2>6
<1>10. CASE ServerSteps
  BY <1>10, ServerStepClient
<1>11. CASE UNCHANGED vars
  BY <1>0, <1>11 DEF vars
<1>12. ASSUME NEW why \in Tasks, GoOn(why) PROVE Sound(client')
  <2>1. PICK p \in client.answered : CatchDetachment(p) \/ Continue(p)
    BY <1>12 DEF GoOn
  <2>2. client' = Caught(client, p) \/ client' = Settled(Passed(client, p), p)
    BY <2>1 DEF CatchDetachment, Continue, Caught, Passed
  <2> QED BY <1>0, <2>2, GoOnSound
<1>13. ASSUME NEW l \in Leases, Calls(l) PROVE Sound(client')
  <2>1. CASE \E mode \in Modes : AcquireSession(l, mode)
    BY <1>1, <2>1
  <2>2. CASE \E how \in {"detaching", "disposing"} : Release(l, how)
    BY <1>2, <2>2
  <2> QED BY <1>3, <1>4, <1>5, <1>13, <2>1, <2>2 DEF Calls
<1>14. ASSUME Server \/ Troubles PROVE ServerSteps
  BY <1>14 DEF Server, Troubles, ServerSteps
<1> QED
  BY <1>6, <1>7, <1>8, <1>9, <1>10, <1>11, <1>12, <1>13, <1>14 DEF Next

LEMMA MessageType ==
  ASSUME TypeInv, IsServer(server)',
         NEW type \in {"response", "session_snapshot", "session_removed"}, NEW id \in Nat,
         NEW ok \in BOOLEAN, NEW attached \in BOOLEAN
  PROVE  Message(type, id, ok, attached) \in Messages
<1>1. client.id \in Nat
  BY BoundsAssumption DEF TypeInv, Sound, IsClient
<1>2. server'.rev \in Nat /\ server'.runtime \in Nat
  BY BoundsAssumption DEF IsServer
<1>3. [rev |-> server'.rev, runtime |-> server'.runtime] \in Snapshots
  BY <1>2 DEF Snapshots
<1> QED
  BY <1>1, <1>3 DEF Message, Messages

(* Sequences of messages. *)
LEMMA Appending ==
  ASSUME NEW S, NEW s \in Seq(S), NEW e \in S
  PROVE  Append(s, e) \in Seq(S) /\ <<e>> \in Seq(S)
OBVIOUS

LEMMA Joining ==
  ASSUME NEW S, NEW s \in Seq(S), NEW t \in Seq(S)
  PROVE  s \o t \in Seq(S) /\ <<>> \in Seq(S)
OBVIOUS

LEMMA Taking ==
  ASSUME NEW S, NEW s \in Seq(S), s # <<>>
  PROVE  Head(s) \in S /\ Tail(s) \in Seq(S)
OBVIOUS

LEMMA SnapshotType == ASSUME TypeInv, IsServer(server)' PROVE Snapshot \in Seq(Messages)
<1>1. Message("session_snapshot", 0, TRUE, TRUE) \in Messages
  BY MessageType
<1> DEFINE m == Message("session_snapshot", 0, TRUE, TRUE)
<1> HIDE DEF m
<1>2. m \in Messages
  BY <1>1 DEF m
<1>3. <<m>> \in Seq(Messages) /\ <<>> \in Seq(Messages)
  BY <1>2
<1> QED BY <1>3 DEF Snapshot, m

(* The server's side. *)
LEMMA ServerTypes ==
  ASSUME TypeInv, [Next]_vars
  PROVE  IsServer(server)' /\ (wire \in Seq(Messages))' /\ (crossed \in BOOLEAN)' /\ (undone \in BOOLEAN)' /\ IsFaults(faults)'
<1>0. /\ IsServer(server) /\ wire \in Seq(Messages) /\ crossed \in BOOLEAN /\ undone \in BOOLEAN
      /\ IsFaults(faults) /\ client.out \in Seq(Outs)
  BY DEF TypeInv, Sound, IsClient
<1>f. IsServer(Forgotten(server))
  BY <1>0 DEF IsServer, Forgotten
<1>1. CASE ReceiveRequest
  <2> DEFINE r == Head(client.out)
             refused == r.command = "command" /\ ~(server.attached /\ server.open)
  <2>1. r \in Outs /\ r.id \in Nat /\ r.command \in Commands
    <3>1. r \in Outs
      BY <1>0, <1>1, Taking, Zenon DEF ReceiveRequest
    <3> QED BY <3>1 DEF Outs
  <2>2. /\ server' = [server EXCEPT
              !.attached = server.attached /\ r.command # "detach",
              !.jobs = IF refused THEN server.jobs ELSE server.jobs \cup {Job(r.id, r.command, "running")}]
        /\ wire' = IF refused THEN Append(wire, Message("response", r.id, FALSE, FALSE)) ELSE wire
        /\ UNCHANGED <<crossed, undone, faults>>
    BY <1>1 DEF ReceiveRequest
  <2> HIDE DEF r, refused
  <2>3. Job(r.id, r.command, "running") \in Jobs
    BY <2>1 DEF Job, Jobs
  <2>4. IsServer(server)'
    BY <1>0, <2>2, <2>3 DEF IsServer
  <2>5. Message("response", r.id, FALSE, FALSE) \in Messages
    BY <2>1, <2>4, MessageType
  <2>6. wire' \in Seq(Messages)
    <3>1. Append(wire, Message("response", r.id, FALSE, FALSE)) \in Seq(Messages)
      BY <1>0, <2>5, Appending, Zenon
    <3> QED BY <1>0, <2>2, <3>1
  <2> QED BY <1>0, <2>2, <2>4, <2>6
<1>2. ASSUME NEW j \in server.jobs, Attach(j)
      PROVE  IsServer(server)' /\ (wire \in Seq(Messages))' /\ UNCHANGED <<crossed, undone, faults>>
  <2>1. [j EXCEPT !.at = "attached"] \in Jobs
    BY <1>0 DEF IsServer, Jobs
  <2>2. /\ server' = [server EXCEPT
             !.created = TRUE, !.attached = TRUE, !.open = TRUE,
             !.rev = IF server.open THEN server.rev ELSE 0,
             !.runtime = IF server.open THEN server.runtime ELSE server.runtime + 1,
             !.jobs = (server.jobs \ {j}) \cup {[j EXCEPT !.at = "attached"]}]
        /\ UNCHANGED <<wire, crossed, undone, faults>>
    BY <1>2 DEF Attach
  <2>3. 0 \in 0..MaxRevision
    BY BoundsAssumption
  <2> QED BY <1>0, <2>1, <2>2, <2>3 DEF IsServer
<1>3. ASSUME NEW j \in server.jobs, Answer(j)
      PROVE  IsServer(server)' /\ (wire \in Seq(Messages))' /\ (undone \in BOOLEAN)' /\ UNCHANGED <<crossed, faults>>
  <2>1. j \in Jobs /\ j.id \in Nat
    BY <1>0 DEF IsServer, Jobs
  <2>2. server' = [server EXCEPT !.jobs = server.jobs \ {j},
           !.rev = IF j.command = "command" /\ server.rev < MaxRevision THEN server.rev + 1 ELSE server.rev]
    BY <1>3 DEF Answer
  <2>3. IsServer(server)'
    BY <1>0, <2>2, BoundsAssumption DEF IsServer
  <2>4. Message("response", j.id, TRUE, server.attached) \in Messages /\ Snapshot \in Seq(Messages)
    BY <1>0, <2>1, <2>3, MessageType, SnapshotType DEF IsServer
  <2>5. wire' = wire \o (IF j.command = "detach" THEN <<>> ELSE Snapshot)
                  \o <<Message("response", j.id, TRUE, server.attached)>>
    BY <1>3 DEF Answer
  <2>6. wire' \in Seq(Messages)
    <3> DEFINE one == <<Message("response", j.id, TRUE, server.attached)>>
               more == IF j.command = "detach" THEN <<>> ELSE Snapshot
    <3>1. one \in Seq(Messages)
      BY <2>4, Appending, Joining, Zenon
    <3>2. more \in Seq(Messages)
      BY <2>4, Joining
    <3>3. wire' = wire \o more \o one
      BY <2>5
    <3> HIDE DEF one, more
    <3>4. wire \o more \in Seq(Messages)
      BY <1>0, <3>2, Joining, Zenon
    <3>5. wire \o more \o one \in Seq(Messages)
      BY <3>1, <3>4, Joining, Zenon
    <3> QED BY <3>3, <3>5
  <2> QED BY <1>3, <2>3, <2>6 DEF Answer
<1>4. ASSUME NEW j \in server.jobs, AnswerFails(j)
      PROVE  IsServer(server)' /\ (wire \in Seq(Messages))' /\ (undone \in BOOLEAN)' /\ IsFaults(faults)'
             /\ UNCHANGED crossed
  <2>1. j \in Jobs /\ j.id \in Nat
    BY <1>0 DEF IsServer, Jobs
  <2>2. server' = [server EXCEPT !.jobs = server.jobs \ {j}] /\ wire' = Append(wire, Message("response", j.id, FALSE, FALSE))
        /\ faults' = faults + 1 /\ faults < MaxFaults
    BY <1>4 DEF AnswerFails
  <2>3. IsServer(server)'
    BY <1>0, <2>2 DEF IsServer
  <2>4. Message("response", j.id, FALSE, FALSE) \in Messages
    BY <2>1, <2>3, MessageType
  <2>5. wire' \in Seq(Messages)
    BY <1>0, <2>2, <2>4, Appending, Zenon
  <2>6. IsFaults(faults)'
    BY <1>0, <2>2, BoundsAssumption DEF IsFaults
  <2> QED BY <1>4, <2>3, <2>5, <2>6 DEF AnswerFails
<1>5. CASE RuntimeEvent
  <2>1. server' = [server EXCEPT !.rev = server.rev + 1] /\ server.rev < MaxRevision /\ wire' = wire \o Snapshot
    BY <1>5 DEF RuntimeEvent
  <2>2. IsServer(server)'
    BY <1>0, <2>1, BoundsAssumption DEF IsServer
  <2>3. Snapshot \in Seq(Messages)
    BY <2>2, SnapshotType
  <2>4. wire' \in Seq(Messages)
    BY <1>0, <2>1, <2>3
  <2> QED BY <1>0, <1>5, <2>2, <2>4 DEF RuntimeEvent
<1>6. CASE DisposeRuntime
  <2>1. server' = [server EXCEPT !.open = FALSE]
    BY <1>6 DEF DisposeRuntime
  <2>2. IsServer(server)'
    BY <1>0, <2>1 DEF IsServer
  <2> QED BY <1>0, <1>6, <2>2 DEF DisposeRuntime
<1>7. CASE RemoveSession
  <2>1. server' = [server EXCEPT !.attached = FALSE, !.open = FALSE]
        /\ wire' = Append(wire, Message("session_removed", 0, TRUE, FALSE))
        /\ faults' = faults + 1 /\ faults < MaxFaults
    BY <1>7 DEF RemoveSession
  <2>2. IsServer(server)'
    BY <1>0, <2>1 DEF IsServer
  <2>3. Message("session_removed", 0, TRUE, FALSE) \in Messages
    BY <2>2, MessageType
  <2>4. wire' \in Seq(Messages)
    BY <1>0, <2>1, <2>3, Appending, Zenon
  <2>5. IsFaults(faults)'
    BY <1>0, <2>1, BoundsAssumption DEF IsFaults
  <2> QED BY <1>0, <1>7, <2>2, <2>4, <2>5 DEF RemoveSession
<1>8. CASE HandleMessage
  <2>1. wire' = Tail(wire) /\ wire # <<>> /\ UNCHANGED faults
    BY <1>8 DEF HandleMessage
  <2>2. wire' \in Seq(Messages)
    BY <1>0, <2>1
  <2>3. /\ server' = server \/ server' = Forgotten(server)
        /\ undone' = undone \/ undone' = FALSE
        /\ crossed' \in BOOLEAN
    BY <1>0, <1>8 DEF HandleMessage, HandleResponse, HandleEvent, EndConnection
  <2>4. IsServer(server)'
    BY <1>0, <1>f, <2>3
  <2> QED BY <1>0, <2>1, <2>2, <2>3, <2>4
<1>9. CASE \E l \in Leases : Calls(l)
  <2>1. UNCHANGED <<wire, server, undone, faults>> /\ (crossed' = crossed \/ crossed' = (crossed \/ Unsafe(client)))
    BY <1>9 DEF Calls, AcquireSession, Release, CreateSession, ReleaseInvalid, Command
  <2> QED BY <1>0, <2>1
<1>10. CASE Connect \/ ReceiveHello \/ UNCHANGED vars
  BY <1>0, <1>10 DEF Connect, ReceiveHello, vars
<1>11. ASSUME NEW to \in {"disconnected", "disposed"}, Disconnect(to)
       PROVE  /\ (wire \in Seq(Messages))' /\ (crossed \in BOOLEAN)' /\ UNCHANGED faults
              /\ undone' = FALSE /\ IsServer(server)'
  BY <1>0, <1>f, <1>11 DEF Disconnect, EndConnection
<1>12. ASSUME NEW why \in Tasks, GoOn(why) PROVE UNCHANGED <<wire, server, crossed, undone, faults>>
  BY <1>12 DEF GoOn, CatchDetachment, Continue
<1> QED
  <2>1. CASE ReceiveRequest \/ RuntimeEvent \/ DisposeRuntime \/ RemoveSession \/ HandleMessage
             \/ (\E l \in Leases : Calls(l)) \/ Connect \/ ReceiveHello \/ UNCHANGED vars
             \/ \E why \in Tasks : GoOn(why)
    BY <1>0, <1>1, <1>5, <1>6, <1>7, <1>8, <1>9, <1>10, <1>12, <2>1
  <2>2. CASE \E j \in server.jobs : Attach(j) \/ Answer(j) \/ AnswerFails(j)
    BY <1>0, <1>2, <1>3, <1>4, <2>2
  <2>3. CASE \E to \in {"disconnected", "disposed"} : Disconnect(to)
    BY <1>0, <1>11, <2>3
  <2> QED BY <2>1, <2>2, <2>3 DEF Next, Server, Troubles

(* The variables of the client, the server and the wire keep their types,
   for any number of callers, requests, connections and failures: also after
   a lease was taken too late. *)
THEOREM TypesHold == Spec => []TypeInv
<1>1. TypeInv /\ [Next]_vars => TypeInv'
  BY ClientStepSound, ServerTypes DEF TypeInv
<1> QED
  BY <1>1, InitTypes, PTL DEF Spec

(* TypeOK of ClientLeases holds in every reachable state. *)
THEOREM TypeCorrect == Spec => []TypeOK
<1>1. TypeInv => TypeOK
  BY DEF TypeInv, TypeOK, Sound, IsClient, IsServer, IsFaults, Outs, Jobs
<1> QED
  BY <1>1, TypesHold, PTL

-----------------------------------------------------------------------------
(* What holds of the client's leases and requests, as long as no lease
   was taken too late and there is a connection.  S are the leases in the middle of a call: they own a
   reservation, whatever they wait for is over or not yet begun. *)

Waits == {"waiting", "reconciling", "attaching"}
Keeps == {"held", "detaching", "disposing"}
Control == {"attach", "detach", "reconcile"}

Holding(c, l) == c.lease[l].at \in Keeps /\ c.lease[l].gen = c.generation
Own(c, S) == {l \in Leases : c.lease[l].at \in Waits \/ Holding(c, l) \/ l \in S}

(* The count is exact, and an exclusive owner is the only one. *)
Counted(c, S) == c.count = Cardinality(Own(c, S))
Alone(c, S) ==
  /\ c.exclusive # NoLease => Own(c, S) = {c.exclusive}
  /\ c.exclusive = NoLease => \A l \in Own(c, S) : c.lease[l].mode = "shared"

(* At most one request that attaches or detaches, at most one that creates. *)
Serial(c) ==
  /\ \A p, q \in Open(c) : p.why \in Control /\ q.why \in Control => p = q
  /\ \A p, q \in Open(c) : p.why = "create" /\ q.why = "create" => p = q

(* Whoever waits has a request to wait for, *)
Pending(c, why) == \E p \in Open(c) : p.why = why
Promised(c, S) ==
  \A l \in Leases \ S :
    /\ c.lease[l].at = "attaching" => Pending(c, "attach")
    /\ c.lease[l].at = "reconciling" => Pending(c, "reconcile")
    /\ c.lease[l].at = "waiting" => Pending(c, "detach")

(* and every request has someone who waits for it. *)
Wanted(c, S) ==
  \A p \in Open(c) :
    /\ p.why = "attach" => ~c.cleanup /\ \E l \in Leases \ S : c.lease[l].at = "attaching"
    /\ p.why = "reconcile" => c.cleanup /\ \E l \in Leases \ S : c.lease[l].at = "reconciling"
    /\ p.why = "detach" => /\ p.by \in Leases \ S /\ c.lease[p.by].at \in {"detaching", "disposing"}
                           /\ c.lease[p.by].gen = c.generation
    /\ p.why = "create" => p.by \in Leases \ S /\ c.lease[p.by].at = "creating"

(* There is a connection; what has been answered was answered on it, and an
   owner's lease is of it too. *)
Online(c) ==
  /\ c.state = "connected"
  /\ \A a \in c.answered : a.conn = c.id /\ (a.caught => a.why = "detach" /\ ~a.ok)
Linked(c, S) == \A l \in Leases \ S : Holding(c, l) => c.lease[l].conn = c.id

Good(c, S) ==
  /\ S \subseteq Leases
  /\ Counted(c, S) /\ Alone(c, S) /\ Serial(c) /\ Promised(c, S) /\ Wanted(c, S)
  /\ Online(c) /\ Linked(c, S)

(* Good depends on the leases and requests only. *)
LEMMA UnseenGood ==
  ASSUME NEW c, NEW d, NEW S, Unseen(c, d), Good(c, S)
  PROVE  Good(d, S)
<1>1. Own(d, S) = Own(c, S)
  BY DEF Unseen, SameLink, Own, Holding, Open
<1>2. Counted(d, S) /\ Alone(d, S) /\ Online(d)
  BY <1>1 DEF Good, Unseen, SameLink, SameCount, Counted, Alone, Online, Open
<1>3. Serial(d) /\ Promised(d, S) /\ Wanted(d, S) /\ Linked(d, S)
  BY DEF Good, Unseen, SameLink, Serial, Promised, Wanted, Linked, Holding, Pending, Open
<1> QED
  BY <1>2, <1>3 DEF Good

(* The leases S get what they asked for. *)
LEMMA HeldGood ==
  ASSUME NEW c, Sound(c), NEW S, Good(c, S)
  PROVE  Good(Held(c, S, c.id), {})
<1> DEFINE d == Held(c, S, c.id)
<1>0. IsClient(c) /\ S \subseteq Leases /\ c.id \in 0..MaxConnects
  BY DEF Sound, IsClient, Good
<1>1. /\ SameLink(c, d) /\ SameCount(c, d) /\ SameRequests(c, d)
      /\ d.cleanup = c.cleanup
      /\ \A l \in Leases : IF l \in S
                           THEN /\ d.lease[l].at = "held" /\ d.lease[l].mode = c.lease[l].mode
                                /\ d.lease[l].gen = c.generation /\ d.lease[l].conn = c.id
                           ELSE d.lease[l] = c.lease[l]
  BY <1>0, HeldFields
<1> HIDE DEF d
<1>2. Own(d, {}) = Own(c, S)
  BY <1>1 DEF Own, Holding, SameLink, Keeps
<1>3. Counted(d, {}) /\ Alone(d, {})
  <2>1. \A l \in Leases : d.lease[l].mode = c.lease[l].mode
    BY <1>1
  <2>2. Own(c, S) \subseteq Leases
    BY DEF Own
  <2> QED BY <1>1, <1>2, <2>1, <2>2 DEF Good, Counted, Alone, SameCount
<1>4. Serial(d)
  BY <1>1 DEF Good, Serial, SameRequests, Open
<1>5. Promised(d, {})
  BY <1>1 DEF Good, Promised, SameRequests, Pending, Open
<1>6. Wanted(d, {})
  BY <1>1 DEF Good, Wanted, SameRequests, SameLink, Open
<1>7. Online(d) /\ Linked(d, {})
  BY <1>1 DEF Good, Online, Linked, SameLink, SameRequests, Holding
<1> QED
  BY <1>3, <1>4, <1>5, <1>6, <1>7 DEF Good, d

(* Cardinalities of what is left. *)
LEMMA Without ==
  ASSUME NEW A, NEW B, A \subseteq Leases, B \subseteq A
  PROVE  /\ Cardinality(A \ B) = Cardinality(A) - Cardinality(B)
         /\ Cardinality(B) <= Cardinality(A)
         /\ Cardinality(A) \in Nat /\ Cardinality(B) \in Nat /\ Cardinality(A \ B) \in Nat
<1>1. IsFiniteSet(A) /\ IsFiniteSet(B) /\ Cardinality(A) \in Nat /\ Cardinality(B) \in Nat
  BY LeaseSets
<1>2. A \cap B = B
  OBVIOUS
<1>3. Cardinality(A \ B) = Cardinality(A) - Cardinality(A \cap B)
  BY <1>1, FS_Difference
<1>4. Cardinality(B) <= Cardinality(A)
  BY <1>1, FS_Subset
<1> QED
  BY <1>1, <1>2, <1>3, <1>4

(* Some of the leases S are refused, or released. *)
LEMMA RefusedPart ==
  ASSUME NEW c, Sound(c), NEW S, Good(c, S), NEW R, R \subseteq S
  PROVE  Good(Refused(c, R), S \ R)
<1> DEFINE d == Refused(c, R)
           T == S \ R
<1>0. IsClient(c) /\ S \subseteq Leases /\ R \subseteq Leases /\ c.count \in Nat /\ T \subseteq Leases
  BY DEF Sound, Good, IsClient
<1>1. /\ SameLink(c, d) /\ SameRequests(c, d) /\ d.cleanup = c.cleanup
      /\ \A l \in Leases : d.lease[l] = IF l \in R THEN Idle ELSE c.lease[l]
      /\ d.count = IF c.count > Cardinality(R) THEN c.count - Cardinality(R) ELSE 0
      /\ d.exclusive = IF c.exclusive \in R THEN NoLease ELSE c.exclusive
  BY <1>0, RefusedFields
<1> HIDE DEF d
<1>i. Idle.at = "none" /\ Idle.mode = "shared"
  BY DEF Idle
<1>2. Own(d, T) = Own(c, S) \ R
  BY <1>1, <1>i DEF Own, Holding, SameLink, Keeps, Waits
<1>3. R \subseteq Own(c, S) /\ Own(c, S) \subseteq Leases
  BY <1>0 DEF Own
<1>4. Counted(d, T)
  <2>1. c.count = Cardinality(Own(c, S))
    BY DEF Good, Counted
  <2> DEFINE o == Own(c, S)
  <2>2. o \subseteq Leases /\ R \subseteq o
    BY <1>3
  <2>3. /\ Cardinality(o \ R) = Cardinality(o) - Cardinality(R) /\ Cardinality(R) <= Cardinality(o)
        /\ Cardinality(o) \in Nat /\ Cardinality(R) \in Nat /\ Cardinality(o \ R) \in Nat
    BY <2>2, Without, Zenon
  <2>4. Cardinality(Own(d, T)) = Cardinality(o) - Cardinality(R) /\ c.count = Cardinality(o)
    BY <1>2, <2>1, <2>3
  <2> HIDE DEF o
  <2> QED BY <1>1, <2>3, <2>4 DEF Counted
<1>5. Alone(d, T)
  <2>1. CASE c.exclusive = NoLease
    <3>1. d.exclusive = NoLease
      BY <1>1, <2>1
    <3>2. \A l \in Own(c, S) : c.lease[l].mode = "shared"
      BY <2>1 DEF Good, Alone
    <3> QED BY <1>1, <1>2, <1>3, <3>1, <3>2 DEF Alone
  <2>2. CASE c.exclusive # NoLease
    <3>1. Own(c, S) = {c.exclusive}
      BY <2>2 DEF Good, Alone
    <3>2. CASE c.exclusive \in R
      BY <1>1, <1>2, <3>1, <3>2 DEF Alone
    <3>3. CASE c.exclusive \notin R
      <4>1. R = {}
        BY <1>3, <3>1, <3>3
      <4> QED BY <1>1, <1>2, <2>2, <3>1, <4>1 DEF Alone
    <3> QED BY <3>2, <3>3
  <2> QED BY <2>1, <2>2
<1>6. Serial(d)
  BY <1>1 DEF Good, Serial, SameRequests, Open
<1>7. Promised(d, T)
  BY <1>1, <1>i DEF Good, Promised, SameRequests, Pending, Open
<1>8. Wanted(d, T)
  BY <1>1 DEF Good, Wanted, SameRequests, SameLink, Open
<1>9. Online(d)
  <2>1. Own(c, S) = Own(c, {}) \cup S /\ Own(d, T) = Own(d, {}) \cup T
    BY <1>0 DEF Own
  <2> QED BY <1>1, <1>2, <2>1 DEF Good, Online, SameLink, SameRequests, Open
<1>10. Linked(d, T)
  BY <1>1, <1>i DEF Good, Linked, SameLink, Holding, Keeps
<1> QED
  BY <1>0, <1>4, <1>5, <1>6, <1>7, <1>8, <1>9, <1>10 DEF Good, d

LEMMA RefusedGood ==
  ASSUME NEW c, Sound(c), NEW S, Good(c, S)
  PROVE  Good(Refused(c, S), {})
<1>1. S \ S = {}
  OBVIOUS
<1>2. Good(Refused(c, S), S \ S)
  BY RefusedPart
<1> QED BY <1>1, <1>2

(* The leases S join those who wait for a request. *)
LEMMA PlacedGood ==
  ASSUME NEW c, Sound(c), NEW S, Good(c, S), NEW why, NEW where \in Wheres, Pending(c, why),
         \/ why = "attach" /\ where = "attaching"
         \/ why = "reconcile" /\ where = "reconciling"
         \/ why = "detach" /\ where = "waiting"
  PROVE  Good(Placed(c, S, where), {})
<1> DEFINE d == Placed(c, S, where)
<1>0. IsClient(c) /\ S \subseteq Leases /\ where \in Waits /\ c.state = "connected"
  BY DEF Sound, Good, Waits, Online, Pending, Open
<1>1. /\ SameLink(c, d) /\ SameCount(c, d) /\ SameRequests(c, d) /\ d.cleanup = c.cleanup
      /\ \A l \in Leases : IF l \in S
                           THEN /\ d.lease[l].at = where /\ d.lease[l].mode = c.lease[l].mode
                                /\ d.lease[l].gen = c.lease[l].gen /\ d.lease[l].conn = c.lease[l].conn
                           ELSE d.lease[l] = c.lease[l]
  BY <1>0, PlacedFields
<1> HIDE DEF d
<1>2. Own(d, {}) = Own(c, S)
  BY <1>0, <1>1 DEF Own, Holding, SameLink
<1>3. Counted(d, {}) /\ Alone(d, {})
  <2>1. \A l \in Leases : d.lease[l].mode = c.lease[l].mode
    BY <1>1
  <2>2. Own(c, S) \subseteq Leases
    BY DEF Own
  <2> QED BY <1>1, <1>2, <2>1, <2>2 DEF Good, Counted, Alone, SameCount
<1>4. Serial(d)
  BY <1>1 DEF Good, Serial, SameRequests, Open
<1>5. Promised(d, {})
  BY <1>1 DEF Good, Promised, SameRequests, Pending, Open
<1>6. Wanted(d, {})
  BY <1>1 DEF Good, Wanted, SameRequests, SameLink, Open
<1>7. Online(d) /\ Linked(d, {})
  BY <1>0, <1>1 DEF Good, Online, Linked, SameLink, SameRequests, Holding, Keeps, Waits
<1> QED
  BY <1>3, <1>4, <1>5, <1>6, <1>7 DEF Good, d

(* The leases S send the request they wait for. *)
LEMMA RequestedGood ==
  ASSUME NEW c, Sound(c), NEW S, Good(c, S), S # {},
         NEW why \in Whys, NEW where \in Wheres, NEW previous \in Snapshots,
         \A w \in Control : ~Pending(c, w),
         \/ why = "attach" /\ where = "attaching" /\ ~c.cleanup
         \/ why = "reconcile" /\ where = "reconciling" /\ c.cleanup
  PROVE  Good(Placed(Request(c, why, NoLease, previous), S, where), {})
<1> DEFINE r == Request(c, why, NoLease, previous)
           d == Placed(r, S, where)
           p == NewRequest(c, why, NoLease, previous)
<1>0. IsClient(c) /\ S \subseteq Leases /\ where \in Waits /\ why \in Control
  BY DEF Sound, Good, Waits, Control
<1>1. /\ IsClient(r) /\ SameLink(c, r) /\ SameCount(c, r) /\ Open(r) = Open(c) \cup {p} /\ r.answered = c.answered
      /\ r.cleanup = c.cleanup /\ r.lease = c.lease
  BY <1>0, RequestFields, NoSnapshotType DEF Open, Good, Online, Tasks
<1>p. p.why = why
  BY DEF NewRequest
<1> HIDE DEF r, p
<1>2. /\ SameLink(r, d) /\ SameCount(r, d) /\ SameRequests(r, d) /\ d.cleanup = r.cleanup
      /\ \A l \in Leases : IF l \in S
                           THEN /\ d.lease[l].at = where /\ d.lease[l].mode = r.lease[l].mode
                                /\ d.lease[l].gen = r.lease[l].gen /\ d.lease[l].conn = r.lease[l].conn
                           ELSE d.lease[l] = r.lease[l]
  BY <1>0, <1>1, PlacedFields
<1> HIDE DEF d
<1>3. /\ SameLink(c, d) /\ SameCount(c, d) /\ Open(d) = Open(c) \cup {p} /\ d.answered = c.answered /\ d.cleanup = c.cleanup
      /\ \A l \in Leases : IF l \in S
                           THEN /\ d.lease[l].at = where /\ d.lease[l].mode = c.lease[l].mode
                                /\ d.lease[l].gen = c.lease[l].gen /\ d.lease[l].conn = c.lease[l].conn
                           ELSE d.lease[l] = c.lease[l]
  BY <1>1, <1>2 DEF SameLink, SameCount, SameRequests, Open
<1>4. Own(d, {}) = Own(c, S)
  BY <1>0, <1>3 DEF Own, Holding, SameLink
<1>5. Counted(d, {}) /\ Alone(d, {})
  <2>1. \A l \in Leases : d.lease[l].mode = c.lease[l].mode
    BY <1>3
  <2>2. Own(c, S) \subseteq Leases
    BY DEF Own
  <2> QED BY <1>3, <1>4, <2>1, <2>2 DEF Good, Counted, Alone, SameCount
<1>6. Serial(d)
  <2>1. \A q \in Open(c) : q.why \notin Control
    BY DEF Pending, Open
  <2>2. why # "create"
    BY <1>0 DEF Control
  <2> QED BY <1>0, <1>3, <1>p, <2>1, <2>2 DEF Good, Serial
<1>7. Promised(d, {})
  <2>1. Pending(d, why) /\ \A w : Pending(c, w) => Pending(d, w)
    BY <1>3, <1>p DEF Pending, Open
  <2> QED BY <1>3, <2>1 DEF Good, Promised
<1>8. Wanted(d, {})
  <2>1. \E l \in Leases : d.lease[l].at = where
    BY <1>0, <1>3
  <2>2. ASSUME NEW q \in Open(c)
        PROVE  /\ q.why = "create" => q.by \in Leases /\ d.lease[q.by].at = "creating"
               /\ q.why \notin Control
    BY <1>3 DEF Good, Wanted, Pending, Open
  <2> QED BY <1>3, <1>p, <2>1, <2>2 DEF Wanted, Control
<1>9. Online(d) /\ Linked(d, {})
  BY <1>0, <1>3 DEF Good, Online, Linked, SameLink, Holding, Keeps, Waits
<1> QED
  BY <1>5, <1>6, <1>7, <1>8, <1>9 DEF Good, d, r

(* Whoever waits joins a request in flight, if there is one. *)
LEMMA JoinsPending ==
  ASSUME NEW c, NEW S, Good(c, S), NEW why, why # "detach"
  PROVE  InFlight(c, {why}) # {} <=> Pending(c, why)
BY DEF InFlight, Pending, Open, Good, Online

(* #attachSession, *)
LEMMA AttachingGood ==
  ASSUME NEW c, Sound(c), NEW S, Good(c, S), S # {}, ~c.cleanup,
         Pending(c, "attach") \/ \A w \in Control : ~Pending(c, w)
  PROVE  Good(Attaching(c, S), {})
<1>0. InFlight(c, {"attach"}) # {} <=> Pending(c, "attach")
  BY JoinsPending
<1>2. CASE Pending(c, "attach")
  <2>1. Attaching(c, S) = Placed(c, S, "attaching") /\ "attaching" \in Wheres
    BY <1>0, <1>2 DEF Attaching, Wheres
  <2> QED BY <1>2, <2>1, PlacedGood
<1>3. CASE ~Pending(c, "attach")
  <2> DEFINE s == [c EXCEPT !.snapshot = NoSnapshot]
  <2>1. Sound(s) /\ Unseen(c, s)
    BY SetSnapshot, NoSnapshotType
  <2>2. c.snapshot \in Snapshots /\ "attach" \in Whys /\ "attaching" \in Wheres
    BY DEF Sound, IsClient, Whys, Commands, Wheres
  <2>3. Attaching(c, S) = Placed(Request(s, "attach", NoLease, c.snapshot), S, "attaching")
    BY <1>0, <1>3 DEF Attaching
  <2> HIDE DEF s
  <2>4. Good(s, S)
    BY <2>1, UnseenGood
  <2>5. ~s.cleanup /\ \A w \in Control : ~Pending(s, w)
    BY <1>3, <2>1 DEF Unseen, SameLink, Pending, Open
  <2> QED BY <2>1, <2>2, <2>3, <2>4, <2>5, RequestedGood
<1> QED BY <1>2, <1>3

(* and acquireSession. *)
LEMMA AcquiringGood ==
  ASSUME NEW c, Sound(c), NEW S, Good(c, S), ~Pending(c, "detach")
  PROVE  Good(Acquiring(c, S), {})
<1>0. InFlight(c, {"reconcile"}) # {} <=> Pending(c, "reconcile")
  BY JoinsPending
<1>b. c.cleanup \in BOOLEAN
  BY DEF Sound, IsClient
<1>1. CASE S = {}
  BY <1>1 DEF Acquiring
<1>2. CASE S # {} /\ c.cleanup
  <2>1. ~Pending(c, "attach")
    BY <1>2 DEF Pending, Good, Wanted, Open
  <2>2. CASE Pending(c, "reconcile")
    <3>1. Acquiring(c, S) = Placed(c, S, "reconciling") /\ "reconciling" \in Wheres
      BY <1>0, <1>2, <2>2 DEF Acquiring, Wheres
    <3> QED BY <2>2, <3>1, PlacedGood
  <2>4. CASE ~Pending(c, "reconcile")
    <3>1. Acquiring(c, S) = Placed(Request(c, "reconcile", NoLease, NoSnapshot), S, "reconciling")
      BY <1>0, <1>2, <2>4 DEF Acquiring
    <3>2. "reconcile" \in Whys /\ "reconciling" \in Wheres /\ \A w \in Control : ~Pending(c, w)
      BY <2>1, <2>4 DEF Whys, Wheres, Control
    <3> QED BY <1>2, <2>4, <3>1, <3>2, RequestedGood, NoSnapshotType
  <2> QED BY <2>2, <2>4
<1>3. CASE S # {} /\ ~c.cleanup /\ c.attached
  <2>1. Acquiring(c, S) = Held(c, S, c.id)
    BY <1>3 DEF Acquiring
  <2> QED BY <1>3, <2>1, HeldGood
<1>4. CASE S # {} /\ ~c.cleanup /\ ~c.attached
  <2>1. Acquiring(c, S) = Attaching(c, S)
    BY <1>4 DEF Acquiring
  <2>2. ~Pending(c, "reconcile")
    BY <1>4 DEF Pending, Good, Wanted, Open
  <2>3. Pending(c, "attach") \/ \A w \in Control : ~Pending(c, w)
    BY <2>2 DEF Control
  <2> QED BY <1>4, <2>1, <2>3, AttachingGood
<1> QED BY <1>1, <1>2, <1>3, <1>4

(* A caller that owns nothing reserves. *)
LEMMA ReservedGood ==
  ASSUME NEW c, Sound(c), Good(c, {}), NEW l \in Leases, NEW mode \in Modes, MayReserve(c, mode),
         l \notin Own(c, {}),
         \A p \in Open(c) : p.why \in {"detach", "create"} => p.by # l
  PROVE  Good(Reserved(c, l, mode), {l})
<1> DEFINE d == Reserved(c, l, mode)
<1>0. IsClient(c) /\ c.count \in Nat /\ c.lease[l].at \notin Waits /\ ~Holding(c, l)
  BY DEF Sound, IsClient, Own
<1>1. /\ SameLink(c, d) /\ SameRequests(c, d) /\ d.cleanup = c.cleanup
      /\ d.count = c.count + 1
      /\ d.exclusive = IF mode = "exclusive" THEN l ELSE c.exclusive
      /\ d.lease[l].mode = mode /\ d.lease[l].at = c.lease[l].at
      /\ d.lease[l].gen = c.lease[l].gen /\ d.lease[l].conn = c.lease[l].conn
      /\ \A k \in Leases \ {l} : d.lease[k] = c.lease[k]
  BY <1>0, ReservedFields
<1> HIDE DEF d
<1>2. Own(d, {l}) = Own(c, {}) \cup {l} /\ Own(c, {}) \subseteq Leases
  BY <1>0, <1>1 DEF Own, Holding, SameLink
<1>3. Counted(d, {l})
  <2>1. IsFiniteSet(Own(c, {})) /\ c.count = Cardinality(Own(c, {}))
    BY <1>2, LeaseSets DEF Good, Counted
  <2>2. Cardinality(Own(c, {}) \cup {l}) = Cardinality(Own(c, {})) + 1
    BY <2>1, FS_AddElement
  <2> QED BY <1>1, <1>2, <2>1, <2>2 DEF Counted
<1>4. Alone(d, {l})
  <2>1. CASE mode = "exclusive"
    <3>1. Cardinality(Own(c, {})) = 0 /\ IsFiniteSet(Own(c, {}))
      BY <1>2, <2>1, LeaseSets DEF MayReserve, Good, Counted
    <3>2. Own(c, {}) = {}
      BY <3>1, FS_EmptySet
    <3>3. d.exclusive = l /\ l # NoLease
      BY <1>1, <2>1, BoundsAssumption
    <3> QED BY <1>2, <3>2, <3>3 DEF Alone
  <2>2. CASE mode # "exclusive"
    <3>1. c.exclusive = NoLease /\ mode = "shared"
      BY <2>2 DEF MayReserve, Modes
    <3>2. d.exclusive = NoLease
      BY <1>1, <2>2, <3>1
    <3>3. \A k \in Own(c, {}) : c.lease[k].mode = "shared"
      BY <3>1 DEF Good, Alone
    <3>4. ASSUME NEW k \in Own(d, {l}) PROVE d.lease[k].mode = "shared"
      <4>1. CASE k = l
        BY <1>1, <3>1, <4>1
      <4>2. CASE k # l
        BY <1>1, <1>2, <3>3, <4>2
      <4> QED BY <4>1, <4>2
    <3> QED BY <3>2, <3>4 DEF Alone
  <2> QED BY <2>1, <2>2
<1>5. Serial(d)
  BY <1>1 DEF Good, Serial, SameRequests, Open
<1>6. Promised(d, {l})
  BY <1>1 DEF Good, Promised, SameRequests, Pending, Open
<1>7. Wanted(d, {l})
  <2>1. ASSUME NEW k \in Leases, c.lease[k].at \in Waits PROVE k # l /\ d.lease[k] = c.lease[k]
    BY <1>0, <1>1, <2>1
  <2>2. ASSUME NEW p \in Open(c)
        PROVE  /\ p.why = "attach" => ~c.cleanup /\ \E k \in Leases \ {l} : d.lease[k].at = "attaching"
               /\ p.why = "reconcile" => c.cleanup /\ \E k \in Leases \ {l} : d.lease[k].at = "reconciling"
    BY <2>1 DEF Good, Wanted, Waits
  <2>3. ASSUME NEW p \in Open(c), p.why \in {"detach", "create"}
        PROVE  p.by \in Leases \ {l} /\ d.lease[p.by] = c.lease[p.by]
    BY <1>1, <2>3 DEF Good, Wanted
  <2> QED BY <1>1, <2>2, <2>3 DEF Good, Wanted, SameRequests, SameLink, Open
<1>8. Online(d)
  <2>1. Own(d, {}) = Own(c, {})
    BY <1>0, <1>1 DEF Own, Holding, SameLink
  <2> QED BY <1>1, <2>1 DEF Good, Online, SameLink, SameRequests, Open
<1>9. Linked(d, {l})
  BY <1>1 DEF Good, Linked, Holding, SameLink
<1> QED
  BY <1>3, <1>4, <1>5, <1>6, <1>7, <1>8, <1>9 DEF Good, d

(* Leases that own nothing are dropped. *)
LEMMA DroppedGood ==
  ASSUME NEW c, Sound(c), Good(c, {}), NEW ls, ls \subseteq Leases, ls \cap Own(c, {}) = {},
         \A p \in Open(c) : p.why \in {"detach", "create"} => p.by \notin ls
  PROVE  Good(Dropped(c, ls), {})
<1> DEFINE d == Dropped(c, ls)
<1>0. IsClient(c)
  BY DEF Sound
<1>1. /\ SameLink(c, d) /\ SameCount(c, d) /\ SameRequests(c, d) /\ d.cleanup = c.cleanup
      /\ \A l \in Leases : d.lease[l] = IF l \in ls THEN Idle ELSE c.lease[l]
  BY <1>0, DroppedFields
<1> HIDE DEF d
<1>i. Idle.at = "none"
  BY DEF Idle
<1>2. \A l \in ls : c.lease[l].at \notin Waits /\ ~Holding(c, l)
  BY DEF Own
<1>3. Own(d, {}) = Own(c, {})
  BY <1>1, <1>2, <1>i DEF Own, Holding, SameLink, Waits, Keeps
<1>4. \A l \in Own(c, {}) : d.lease[l] = c.lease[l]
  BY <1>1 DEF Own
<1>5. Counted(d, {}) /\ Alone(d, {})
  BY <1>1, <1>3, <1>4 DEF Good, Counted, Alone, SameCount
<1>6. Serial(d)
  BY <1>1 DEF Good, Serial, SameRequests, Open
<1>7. Promised(d, {})
  BY <1>1, <1>i DEF Good, Promised, SameRequests, Pending, Open
<1>8. Wanted(d, {})
  <2>1. ASSUME NEW p \in Open(c)
        PROVE  /\ p.why = "attach" => ~c.cleanup /\ \E k \in Leases : d.lease[k].at = "attaching"
               /\ p.why = "reconcile" => c.cleanup /\ \E k \in Leases : d.lease[k].at = "reconciling"
    BY <1>1, <1>2 DEF Good, Wanted, Waits
  <2>2. ASSUME NEW p \in Open(c), p.why \in {"detach", "create"}
        PROVE  p.by \in Leases /\ d.lease[p.by] = c.lease[p.by]
    BY <1>1, <2>2 DEF Good, Wanted
  <2> QED BY <1>1, <2>1, <2>2 DEF Good, Wanted, SameRequests, SameLink, Open
<1>9. Online(d) /\ Linked(d, {})
  BY <1>1, <1>3, <1>i DEF Good, Online, Linked, SameLink, SameRequests, Holding, Keeps, Open
<1> QED
  BY <1>5, <1>6, <1>7, <1>8, <1>9 DEF Good, d

(* A connected client without owners and without requests that attach or detach. *)
LEMMA EmptyGood ==
  ASSUME NEW c, c.count = 0, c.exclusive = NoLease, Own(c, {}) = {}, Serial(c),
         \A w \in Control : ~Pending(c, w),
         \A p \in Open(c) : p.why = "create" => p.by \in Leases /\ c.lease[p.by].at = "creating",
         Online(c)
  PROVE  Good(c, {})
<1>1. Cardinality({}) = 0
  BY FS_EmptySet
<1>2. Counted(c, {}) /\ Alone(c, {}) /\ Online(c)
  BY <1>1 DEF Counted, Alone, Online
<1>3. \A l \in Leases : c.lease[l].at \notin Waits /\ ~Holding(c, l)
  BY DEF Own
<1>4. Promised(c, {}) /\ Linked(c, {})
  BY <1>3 DEF Promised, Linked, Waits
<1>5. Wanted(c, {})
  BY DEF Wanted, Pending, Control, Open
<1> QED BY <1>2, <1>4, <1>5 DEF Good

-----------------------------------------------------------------------------
(* Those who await an answered request p go on; and a command is answered,
   which nobody here awaits. *)

Taken(c, d, p) ==
  /\ p \in Open(c) /\ Open(d) = Open(c) \ {p} /\ d.answered \subseteq c.answered
  /\ SameLink(c, d) /\ SameCount(c, d) /\ d.cleanup = c.cleanup /\ d.lease = c.lease

LEMMA ControlTaken ==
  ASSUME NEW c, NEW d, NEW p, Taken(c, d, p), Good(c, {}), p.why \in Control,
         NEW S, S \subseteq Own(c, {}), \A l \in Leases : c.lease[l].at \in Waits => l \in S
  PROVE  Good(d, S) /\ \A w \in Control : ~Pending(d, w)
<1>1. \A q \in Open(d) : q.why \notin Control
  BY DEF Good, Serial, Taken, Open
<1>2. \A w \in Control : ~Pending(d, w)
  BY <1>1 DEF Pending, Open
<1>3. Own(d, S) = Own(c, {}) /\ S \subseteq Leases
  BY DEF Own, Holding, Taken, SameLink, Open
<1>4. Counted(d, S) /\ Alone(d, S)
  BY <1>3 DEF Good, Counted, Alone, Taken, SameCount, Open
<1>5. Serial(d)
  BY DEF Good, Serial, Taken, Open
<1>6. Promised(d, S) /\ Linked(d, S)
  BY DEF Good, Promised, Linked, Taken, SameLink, Holding, Waits, Open
<1>7. Wanted(d, S)
  <2>1. ASSUME NEW q \in Open(d), q.why = "create" PROVE q.by \in Leases \ S /\ d.lease[q.by].at = "creating"
    <3>1. q.by \in Leases /\ c.lease[q.by].at = "creating"
      BY <2>1 DEF Good, Wanted, Taken, Open
    <3>2. q.by \notin S
      BY <3>1 DEF Own, Holding, Waits, Keeps
    <3> QED BY <3>1, <3>2 DEF Taken, Open
  <2> QED BY <1>1, <2>1 DEF Wanted, Control
<1>8. Online(d)
  BY DEF Good, Online, Taken, SameLink
<1> QED BY <1>2, <1>3, <1>4, <1>5, <1>6, <1>7, <1>8 DEF Good

LEMMA OtherTaken ==
  ASSUME NEW c, NEW d, NEW p, Taken(c, d, p), Good(c, {}), p.why \notin Control
  PROVE  Good(d, {}) /\ (p.why = "create" => /\ p.by \in Leases /\ c.lease[p.by].at = "creating"
                                             /\ p.by \notin Own(d, {})
                                             /\ \A q \in Open(d) : q.why \in {"detach", "create"} => q.by # p.by)
<1>1. \A w \in Control : Pending(c, w) => Pending(d, w)
  BY DEF Pending, Taken, Open
<1>2. Own(d, {}) = Own(c, {})
  BY DEF Own, Holding, Taken, SameLink, Open
<1>3. Counted(d, {}) /\ Alone(d, {})
  BY <1>2 DEF Good, Counted, Alone, Taken, SameCount, Open
<1>4. Serial(d)
  BY DEF Good, Serial, Taken, Open
<1>5. Promised(d, {}) /\ Linked(d, {})
  BY <1>1 DEF Good, Promised, Linked, Taken, SameLink, Holding, Control, Open
<1>6. Wanted(d, {})
  BY DEF Good, Wanted, Taken, SameLink, Open
<1>7. Online(d)
  BY DEF Good, Online, Taken, SameLink
<1>8. ASSUME p.why = "create"
      PROVE  /\ p.by \in Leases /\ c.lease[p.by].at = "creating" /\ p.by \notin Own(d, {})
             /\ \A q \in Open(d) : q.why \in {"detach", "create"} => q.by # p.by
  <2>1. p.by \in Leases /\ c.lease[p.by].at = "creating"
    BY <1>8 DEF Good, Wanted, Taken, Open
  <2>2. p.by \notin Own(d, {})
    BY <1>2, <2>1 DEF Own, Holding, Waits, Keeps
  <2>3. ASSUME NEW q \in Open(d), q.why \in {"detach", "create"} PROVE q.by # p.by
    <3>1. CASE q.why = "create"
      BY <1>8, <3>1 DEF Good, Serial, Taken, Open
    <3>2. CASE q.why = "detach"
      <4>1. c.lease[q.by].at \in {"detaching", "disposing"}
        BY <3>2 DEF Good, Wanted, Taken, Open
      <4> QED BY <2>1, <4>1
    <3> QED BY <2>3, <3>1, <3>2
  <2> QED BY <2>1, <2>2, <2>3
<1> QED BY <1>3, <1>4, <1>5, <1>6, <1>7, <1>8 DEF Good

(* Who is left waiting when the request is the one in control. *)
LEMMA Waiters ==
  ASSUME NEW c, NEW p \in Open(c), Good(c, {}), p.why \in Control,
         NEW l \in Leases, c.lease[l].at \in Waits
  PROVE  /\ p.why = "attach" => c.lease[l].at = "attaching"
         /\ p.why = "reconcile" => c.lease[l].at = "reconciling"
         /\ p.why = "detach" => c.lease[l].at = "waiting"
BY DEF Good, Promised, Serial, Pending, Waits, Control, Open

(* Nobody asks whether a cleanup is due while no such request is pending. *)
LEMMA CleanupGood ==
  ASSUME NEW c, NEW d, NEW S, Good(c, S), \A w \in Control : ~Pending(c, w),
         SameLink(c, d), SameCount(c, d), d.pending = c.pending, d.answered = c.answered, d.lease = c.lease
  PROVE  Good(d, S)
<1>1. Own(d, S) = Own(c, S)
  BY DEF Own, Holding, SameLink
<1>2. Counted(d, S) /\ Alone(d, S) /\ Online(d)
  BY <1>1 DEF Good, Counted, Alone, Online, SameLink, SameCount
<1>3. Serial(d) /\ Promised(d, S) /\ Linked(d, S)
  BY DEF Good, Serial, Promised, Linked, SameLink, Holding, Pending, Open
<1>4. Wanted(d, S)
  BY DEF Good, Wanted, Pending, Control, SameLink, Open
<1> QED BY <1>2, <1>3, <1>4 DEF Good

LEMMA AttachSettledGood ==
  ASSUME NEW c, NEW d, NEW p \in Answers, p \in c.answered, Taken(c, d, p), Sound(d), Good(c, {}),
         p.why = "attach"
  PROVE  Good(AttachSettled(d, p), {})
<1> DEFINE S == At(d, "attaching")
<1>1. S \subseteq Own(c, {}) /\ \A l \in Leases : c.lease[l].at \in Waits => l \in S
  <2>1. \A l \in Leases : c.lease[l].at \in Waits => c.lease[l].at = "attaching"
    BY Waiters DEF Taken, Control, Open
  <2> QED BY <2>1 DEF At, Taken, Own, Waits, Open
<1> HIDE DEF S
<1>2. Good(d, S)
  BY <1>1, ControlTaken DEF Control
<1>3. p.conn = d.id
  BY DEF Taken, SameLink, Good, Online
<1>4. Sound(Restored(d, p)) /\ Unseen(d, Restored(d, p))
  <2>1. (IF d.snapshot = NoSnapshot THEN p.previous ELSE d.snapshot) \in Snapshots
    BY DEF Sound, IsClient, Answers
  <2> QED BY <2>1, SetSnapshot DEF Restored
<1> DEFINE r == Restored(d, p)
<1> HIDE DEF r
<1>5. Sound(r) /\ Good(r, S)
  BY <1>2, <1>4, UnseenGood DEF r
<1>6. AttachSettled(d, p) = IF p.ok THEN Held(d, S, d.id) ELSE Refused(r, S)
  BY <1>3 DEF AttachSettled, S, r
<1> QED BY <1>2, <1>3, <1>5, <1>6, HeldGood, RefusedGood

LEMMA ReconcileSettledGood ==
  ASSUME NEW c, NEW d, NEW p, Taken(c, d, p), Sound(d), Good(c, {}),
         p.why = "reconcile"
  PROVE  Good(ReconcileSettled(d, p), {})
<1> DEFINE S == At(d, "reconciling")
<1>1. S \subseteq Own(c, {}) /\ \A l \in Leases : c.lease[l].at \in Waits => l \in S
  <2>1. \A l \in Leases : c.lease[l].at \in Waits => c.lease[l].at = "reconciling"
    BY Waiters DEF Taken, Control, Open
  <2> QED BY <2>1 DEF At, Taken, Own, Waits, Open
<1>n. S # {}
  BY DEF Good, Wanted, Taken, At, Open
<1> HIDE DEF S
<1>2. Good(d, S) /\ \A w \in Control : ~Pending(d, w)
  BY <1>1, ControlTaken DEF Control
<1> DEFINE r == [d EXCEPT !.cleanup = FALSE]
<1>3. /\ Sound(r) /\ SameLink(d, r) /\ SameCount(d, r) /\ SameRequests(d, r) /\ r.cleanup = FALSE /\ r.lease = d.lease
  BY SetCleanup
<1>4. ReconcileSettled(d, p) = IF p.ok THEN Attaching(r, S) ELSE Refused(d, S)
  BY DEF ReconcileSettled, S
<1> HIDE DEF r
<1>5. \A w \in Control : ~Pending(r, w)
  BY <1>2, <1>3 DEF Pending, SameRequests, Open
<1>6. Good(r, S)
  BY <1>2, <1>3, CleanupGood DEF SameRequests, Open
<1> QED BY <1>n, <1>2, <1>3, <1>4, <1>5, <1>6, AttachingGood, RefusedGood

(* The end of releases whose detachments failed. *)
Disposed(c, ls) == {l \in Current(c, ls) : c.lease[l].at = "disposing"}
Back(c, ls) == Current(c, ls) \ Disposed(c, ls)

LEMMA ReleasesFailedFields ==
  ASSUME NEW c, Sound(c), NEW ls, ls \subseteq Leases
  PROVE  LET d == ReleasesFailed(c, ls)
         IN  /\ Sound(d) /\ SameLink(c, d) /\ SameRequests(c, d) /\ SameView(c, d)
             /\ d.count = IF c.count > Cardinality(Disposed(c, ls))
                          THEN c.count - Cardinality(Disposed(c, ls)) ELSE 0
             /\ d.exclusive = IF c.exclusive \in Disposed(c, ls) THEN NoLease ELSE c.exclusive
             /\ d.cleanup = (c.cleanup \/ Disposed(c, ls) # {})
             /\ \A l \in Leases : IF l \in Back(c, ls)
                                  THEN /\ d.lease[l].at = "held" /\ d.lease[l].mode = c.lease[l].mode
                                       /\ d.lease[l].gen = c.lease[l].gen
                                       /\ d.lease[l].conn = c.lease[l].conn
                                  ELSE d.lease[l] = IF l \in ls THEN Idle ELSE c.lease[l]
<1> DEFINE disposed == Disposed(c, ls)
           back     == Back(c, ls)
           r        == Released(c, disposed)
           k        == [r EXCEPT !.cleanup = r.cleanup \/ disposed # {}]
           e        == Dropped(k, ls \ back)
           d        == Placed(e, back, "held")
<1>1. disposed \subseteq Leases /\ back \subseteq ls
  BY DEF Current, Disposed, Back
<1>2. ReleasesFailed(c, ls) = d
  BY DEF ReleasesFailed, Disposed, Back
<1>0. Sound(ReleasesFailed(c, ls))
  BY ReleasesFailedSound
<1> HIDE DEF disposed, back
<1>3. /\ Sound(r) /\ SameLink(c, r) /\ SameRequests(c, r) /\ SameView(c, r) /\ r.lease = c.lease
      /\ r.cleanup = c.cleanup
      /\ r.count = IF c.count > Cardinality(disposed) THEN c.count - Cardinality(disposed) ELSE 0
      /\ r.exclusive = IF c.exclusive \in disposed THEN NoLease ELSE c.exclusive
  BY <1>1, BasicSound, ReleasedFields DEF Sound
<1> HIDE DEF r
<1>4. /\ Sound(k) /\ SameLink(r, k) /\ SameCount(r, k) /\ SameRequests(r, k) /\ SameView(r, k) /\ k.lease = r.lease
      /\ k.cleanup = (r.cleanup \/ disposed # {})
  <2> DEFINE b == r.cleanup \/ disposed # {}
  <2>1. b \in BOOLEAN /\ k = [r EXCEPT !.cleanup = b]
    OBVIOUS
  <2> HIDE DEF b, k
  <2>2. /\ Sound(k) /\ SameLink(r, k) /\ SameCount(r, k) /\ SameRequests(r, k) /\ SameView(r, k)
        /\ k.lease = r.lease /\ k.cleanup = b
    BY <1>3, <2>1, SetCleanup
  <2> QED BY <2>2 DEF b
<1> HIDE DEF k
<1>5. /\ IsClient(e) /\ SameLink(k, e) /\ SameCount(k, e) /\ SameRequests(k, e) /\ SameView(k, e)
      /\ e.cleanup = k.cleanup
      /\ \A l \in Leases : e.lease[l] = IF l \in ls \ back THEN Idle ELSE k.lease[l]
  BY <1>4, DroppedFields DEF Sound
<1> HIDE DEF e
<1>6. /\ SameLink(e, d) /\ SameCount(e, d) /\ SameRequests(e, d) /\ SameView(e, d)
      /\ d.cleanup = e.cleanup
      /\ \A l \in Leases : IF l \in back
                           THEN /\ d.lease[l].at = "held" /\ d.lease[l].mode = e.lease[l].mode
                                /\ d.lease[l].gen = e.lease[l].gen /\ d.lease[l].conn = e.lease[l].conn
                           ELSE d.lease[l] = e.lease[l]
  BY <1>5, PlacedFields DEF Wheres
<1> HIDE DEF d
<1>7. SameLink(c, d) /\ SameRequests(c, d) /\ SameView(c, d) /\ SameCount(r, d)
  BY <1>3, <1>4, <1>5, <1>6 DEF SameLink, SameRequests, SameView, SameCount, Open
<1>8. \A l \in Leases : IF l \in back
                        THEN /\ d.lease[l].at = "held" /\ d.lease[l].mode = c.lease[l].mode
                             /\ d.lease[l].gen = c.lease[l].gen /\ d.lease[l].conn = c.lease[l].conn
                        ELSE d.lease[l] = IF l \in ls THEN Idle ELSE c.lease[l]
  BY <1>3, <1>4, <1>5, <1>6
<1>9. /\ d.count = IF c.count > Cardinality(disposed) THEN c.count - Cardinality(disposed) ELSE 0
      /\ d.exclusive = IF c.exclusive \in disposed THEN NoLease ELSE c.exclusive
      /\ d.cleanup = (c.cleanup \/ disposed # {})
  BY <1>3, <1>4, <1>5, <1>6, <1>7 DEF SameCount
<1> QED
  BY <1>0, <1>2, <1>7, <1>8, <1>9 DEF disposed, back

(* The end of one release: the lease is given up, or given back. *)
LEMMA ReleaseSettledGood ==
  ASSUME NEW c, NEW d, NEW p, Taken(c, d, p), Sound(c), Sound(d), Good(c, {}),
         p.why = "detach", NEW ok \in BOOLEAN
  PROVE  LET e == ReleaseSettled(d, p.by, ok)
         IN  /\ Good(e, At(d, "waiting")) /\ \A w \in Control : ~Pending(e, w)
             /\ SameLink(d, e) /\ SameView(d, e)
<1> DEFINE b == p.by
           W == At(d, "waiting")
           S == W \cup {b}
           e == ReleaseSettled(d, b, ok)
<1>1. /\ b \in Leases /\ c.lease[b].at \in {"detaching", "disposing"} /\ c.lease[b].gen = c.generation
      /\ d.lease = c.lease /\ d.generation = c.generation /\ Holding(c, b)
  BY DEF Good, Wanted, Taken, SameLink, Holding, Keeps, Open
<1>2. S \subseteq Own(c, {}) /\ \A l \in Leases : c.lease[l].at \in Waits => l \in S
  <2>1. \A l \in Leases : c.lease[l].at \in Waits => c.lease[l].at = "waiting"
    BY Waiters DEF Taken, Control, Open
  <2> QED BY <1>1, <2>1 DEF At, Own, Waits
<1>3. Good(d, S) /\ \A w \in Control : ~Pending(d, w)
  <2> HIDE DEF S
  <2> QED BY <1>2, ControlTaken DEF Control
<1>4. b \notin W /\ S \ {b} = W /\ {b} \subseteq S /\ W \subseteq Leases
  BY <1>1 DEF At
<1> HIDE DEF W, S, b
<1>5. Good(Refused(d, {b}), W)
  <2>1. Good(Refused(d, {b}), S \ {b})
    BY <1>3, <1>4, RefusedPart
  <2> QED BY <1>4, <2>1
<1>r. LET r == Refused(d, {b})
      IN  /\ IsClient(r) /\ SameLink(d, r) /\ SameRequests(d, r) /\ SameView(d, r)
          /\ \A l \in Leases : r.lease[l] = IF l \in {b} THEN Idle ELSE d.lease[l]
          /\ r.count = IF d.count > Cardinality({b}) THEN d.count - Cardinality({b}) ELSE 0
          /\ r.exclusive = IF d.exclusive \in {b} THEN NoLease ELSE d.exclusive
  BY <1>1, RefusedFields DEF Sound
<1> DEFINE r == Refused(d, {b})
           f == ReleasesFailed(d, {b})
<1>s. /\ IsClient(r) /\ SameLink(d, r) /\ SameRequests(d, r) /\ SameView(d, r)
      /\ \A l \in Leases : r.lease[l] = IF l \in {b} THEN Idle ELSE d.lease[l]
      /\ r.count = IF d.count > Cardinality({b}) THEN d.count - Cardinality({b}) ELSE 0
      /\ r.exclusive = IF d.exclusive \in {b} THEN NoLease ELSE d.exclusive
  BY <1>r, Zenon
<1>6. e = IF ok THEN r ELSE f
  BY DEF ReleaseSettled, Refused
<1>f. /\ Sound(f) /\ SameLink(d, f) /\ SameRequests(d, f) /\ SameView(d, f)
      /\ f.count = IF d.count > Cardinality(Disposed(d, {b})) THEN d.count - Cardinality(Disposed(d, {b})) ELSE 0
      /\ f.exclusive = IF d.exclusive \in Disposed(d, {b}) THEN NoLease ELSE d.exclusive
      /\ \A l \in Leases : IF l \in Back(d, {b})
                           THEN /\ f.lease[l].at = "held" /\ f.lease[l].mode = d.lease[l].mode
                                /\ f.lease[l].gen = d.lease[l].gen /\ f.lease[l].conn = d.lease[l].conn
                           ELSE f.lease[l] = IF l \in {b} THEN Idle ELSE d.lease[l]
  BY <1>1, ReleasesFailedFields
<1> HIDE DEF r, f
<1>7. SameLink(d, e) /\ SameView(d, e) /\ Open(d) = Open(e)
  BY <1>6, <1>s, <1>f DEF SameRequests, Open
<1>8. \A w \in Control : ~Pending(e, w)
  BY <1>3, <1>7 DEF Pending, Open
<1>9. Current(d, {b}) = {b}
  BY <1>1 DEF Current
<1>10. CASE ok
  BY <1>5, <1>6, <1>7, <1>8, <1>10 DEF r, b, W
<1>11. CASE ~ok /\ c.lease[b].at = "disposing"
  <2>1. Disposed(d, {b}) = {b} /\ Back(d, {b}) = {}
    BY <1>1, <1>9, <1>11 DEF Disposed, Back
  <2>2. SameLink(r, f) /\ SameCount(r, f) /\ f.pending = r.pending /\ f.answered = r.answered /\ \A l \in Leases : f.lease[l] = r.lease[l]
    BY <1>s, <1>f, <2>1 DEF SameLink, SameCount, SameRequests, Open
  <2>3. f.lease = r.lease
    BY <1>s, <1>f, <2>2 DEF Sound, IsClient
  <2>4. \A w \in Control : ~Pending(r, w)
    BY <1>3, <1>s DEF SameRequests, Pending, Open
  <2>5. Good(r, W)
    BY <1>5 DEF r
  <2>6. Good(f, W)
    BY <2>2, <2>3, <2>4, <2>5, CleanupGood
  <2> QED BY <1>6, <1>7, <1>8, <1>11, <2>6 DEF b, W
<1>12. CASE ~ok /\ c.lease[b].at = "detaching"
  <2>1. Disposed(d, {b}) = {} /\ Back(d, {b}) = {b}
    BY <1>1, <1>9, <1>12 DEF Disposed, Back
  <2>2. f.count = d.count /\ f.exclusive = d.exclusive
    <3>1. Cardinality({}) = 0 /\ d.count \in Nat
      BY FS_EmptySet DEF Sound, IsClient
    <3>2. f.count = IF d.count > Cardinality({}) THEN d.count - Cardinality({}) ELSE 0
      BY <1>f, <2>1
    <3>3. f.count = d.count
      BY <3>1, <3>2
    <3>4. f.exclusive = d.exclusive
      BY <1>f, <2>1
    <3> QED BY <3>3, <3>4
  <2>3. \A l \in Leases : IF l = b
                          THEN /\ f.lease[l].at = "held" /\ f.lease[l].mode = d.lease[l].mode
                               /\ f.lease[l].gen = d.lease[l].gen /\ f.lease[l].conn = d.lease[l].conn
                          ELSE f.lease[l] = d.lease[l]
    BY <1>f, <2>1
  <2>4. Holding(f, b) /\ Own(f, W) = Own(d, S)
    BY <1>1, <1>4, <1>f, <2>3 DEF Own, Holding, SameLink, Keeps, Waits
  <2>5. Counted(f, W) /\ Alone(f, W)
    <3>1. \A l \in Leases : f.lease[l].mode = d.lease[l].mode
      BY <2>3
    <3>2. Own(d, S) \subseteq Leases
      BY DEF Own
    <3> QED BY <1>3, <2>2, <2>4, <3>1, <3>2 DEF Good, Counted, Alone
  <2>6. Serial(f) /\ Promised(f, W)
    BY <1>3, <1>4, <1>f, <2>3 DEF Good, Serial, Promised, SameRequests, Pending, Open
  <2>7. Wanted(f, W)
    <3>1. ASSUME NEW q \in Open(d)
          PROVE  /\ q.why \notin Control
                 /\ q.why = "create" => q.by \in Leases \ W /\ f.lease[q.by].at = "creating"
      BY <1>3, <1>4, <2>3 DEF Good, Wanted, Pending, Open
    <3> QED BY <1>f, <3>1 DEF Wanted, SameRequests, Control, Open
  <2>8. Online(f)
    BY <1>3, <1>f DEF Good, Online, SameLink, SameRequests
  <2>9. Linked(f, W)
    <3>1. c.lease[b].conn = c.id
      BY <1>1 DEF Good, Linked
    <3> QED BY <1>1, <1>3, <1>4, <1>f, <2>3, <3>1 DEF Good, Linked, Holding, SameLink, Taken, Open
  <2>10. Good(f, W)
    BY <1>4, <2>5, <2>6, <2>7, <2>8, <2>9 DEF Good
  <2> QED BY <1>6, <1>7, <1>8, <1>12, <2>10 DEF b, W
<1> QED BY <1>1, <1>10, <1>11, <1>12

LEMMA DetachSettledGood ==
  ASSUME NEW c, NEW d, NEW p \in Answers, Taken(c, d, p), Sound(c), Sound(d), Good(c, {}),
         p.why = "detach"
  PROVE  Good(DetachSettled(d, p), {})
<1> DEFINE e == ReleaseSettled(d, p.by, p.ok)
           W == At(d, "waiting")
<1>2. p.by \in Leases /\ p.ok \in BOOLEAN
  BY DEF Good, Wanted, Taken, Answers
<1>1. Good(e, W) /\ (\A w \in Control : ~Pending(e, w)) /\ SameLink(d, e)
  BY <1>2, ReleaseSettledGood
<1>3. Sound(e)
  BY <1>2, ReleaseSettledSound
<1>4. DetachSettled(d, p) = Acquiring(e, W)
  BY DEF DetachSettled
<1> HIDE DEF e, W
<1>5. ~Pending(e, "detach")
  BY <1>1 DEF Control
<1> QED BY <1>1, <1>3, <1>4, <1>5, AcquiringGood

LEMMA CreateSettledGood ==
  ASSUME NEW c, NEW d, NEW p \in Answers, p \in c.answered, Taken(c, d, p), Sound(d), Good(c, {}),
         p.why = "create"
  PROVE  Good(CreateSettled(d, p), {})
<1> DEFINE b == p.by
<1>1. /\ Good(d, {}) /\ b \in Leases /\ b \notin Own(d, {})
      /\ \A q \in Open(d) : q.why \in {"detach", "create"} => q.by # b
  BY OtherTaken DEF Control
<1> HIDE DEF b
<1>2. CASE p.ok /\ MayReserve(d, "exclusive")
  <2> DEFINE r == Reserved(d, b, "exclusive")
  <2>1. Good(r, {b}) /\ Sound(r)
    BY <1>1, <1>2, ReservedGood, BasicSound DEF Modes
  <2>2. r.id = p.conn
    <3>1. SameLink(d, r)
      BY <1>1, ReservedFields DEF Sound, Modes
    <3> QED BY <3>1 DEF SameLink, Taken, Good, Online
  <2>3. CreateSettled(d, p) = Held(r, {b}, p.conn)
    BY <1>2 DEF CreateSettled, b
  <2> HIDE DEF r
  <2> QED BY <2>1, <2>2, <2>3, HeldGood
<1>3. CASE ~(p.ok /\ MayReserve(d, "exclusive"))
  <2>1. CreateSettled(d, p) = Dropped(d, {b})
    BY <1>3 DEF CreateSettled, b
  <2>2. {b} \subseteq Leases /\ {b} \cap Own(d, {}) = {}
    BY <1>1
  <2>3. \A q \in Open(d) : q.why \in {"detach", "create"} => q.by \notin {b}
    BY <1>1
  <2> QED BY <1>1, <2>1, <2>2, <2>3, DroppedGood
<1> QED BY <1>2, <1>3

LEMMA SettledGood ==
  ASSUME NEW c, NEW d, NEW p \in Answers, p \in c.answered, Taken(c, d, p), Sound(c), Sound(d), Good(c, {})
  PROVE  Good(Settled(d, p), {})
<1>1. CASE p.why = "attach"
  BY <1>1, AttachSettledGood DEF Settled
<1>2. CASE p.why = "reconcile"
  BY <1>2, ReconcileSettledGood DEF Settled
<1>3. CASE p.why = "detach"
  BY <1>3, DetachSettledGood DEF Settled
<1>4. CASE p.why = "create"
  BY <1>4, CreateSettledGood DEF Settled
<1>5. p.why \in Tasks
  BY DEF Answers
<1> QED BY <1>1, <1>2, <1>3, <1>4, <1>5 DEF Tasks

(* The promise of p is settled, or its failure caught: another record stands
   for the same request. *)
Swapped(c, d, p, q) ==
  /\ p \in Open(c) /\ Open(d) = (Open(c) \ {p}) \cup {q} /\ q.why = p.why /\ q.by = p.by
  /\ SameLink(c, d) /\ SameCount(c, d) /\ d.cleanup = c.cleanup /\ d.lease = c.lease

LEMMA SwappedGood ==
  ASSUME NEW c, NEW d, NEW p, NEW q, Swapped(c, d, p, q), Good(c, {}), Online(d)
  PROVE  Good(d, {})
<1>1. Own(d, {}) = Own(c, {})
  BY DEF Own, Holding, Swapped, SameLink
<1>2. Counted(d, {}) /\ Alone(d, {}) /\ Linked(d, {})
  BY <1>1 DEF Good, Counted, Alone, Linked, Holding, Swapped, SameLink, SameCount
<1>3. Serial(d)
  BY DEF Good, Serial, Swapped
<1>4. Promised(d, {})
  <2>1. \A w : Pending(c, w) => Pending(d, w)
    BY DEF Pending, Swapped
  <2> QED BY <2>1 DEF Good, Promised, Swapped
<1>5. Wanted(d, {})
  BY DEF Good, Wanted, Swapped, SameLink
<1> QED BY <1>2, <1>3, <1>4, <1>5 DEF Good

-----------------------------------------------------------------------------
(* What holds of the client's leases without a connection, as long as no lease
   was taken too late: nobody has one that is active, and whoever is counted
   waits for a promise that is settled already, and will be refused. *)

Waiting(c) == {l \in Leases : c.lease[l].at \in Waits}
Pursued(c, S) ==
  \A a \in c.answered :
    /\ a.why \in {"attach", "create"} => ~a.ok
    /\ a.why = "detach" => a.by \in Leases \ S /\ c.lease[a.by].at \in {"detaching", "disposing"}
    /\ a.why = "create" => a.by \in Leases \ S /\ c.lease[a.by].at = "creating"
    /\ a.caught => a.why = "detach"
Distinct(c) == \A a, b \in c.answered : a.why \in {"detach", "create"} /\ b.why = a.why => a = b
Lapsed(c) == \A l \in Leases : c.lease[l].at \in Keeps => c.lease[l].gen # c.generation

Loose(c, S) ==
  /\ S \subseteq Leases
  /\ c.state # "connected" /\ c.pending = {} /\ ~c.cleanup
  /\ c.count <= Cardinality(Waiting(c) \cup S) /\ c.exclusive \in Waiting(c) \cup S \cup {NoLease}
  /\ Promised(c, S) /\ Pursued(c, S) /\ Distinct(c) /\ Lapsed(c)

(* A pending request is none of the answered ones. *)
LEMMA Disjoint ==
  ASSUME NEW c, Sound(c), NEW p \in c.pending
  PROVE  p \notin c.answered
<1> SUFFICES ASSUME p \in c.answered PROVE FALSE
  OBVIOUS
<1>1. p \in Requests /\ p \in Answers
  BY DEF Sound, IsClient
<1>2. DOMAIN p = {"id", "why", "by", "previous"}
  BY <1>1 DEF Requests
<1>3. "ok" \in DOMAIN p
  BY <1>1 DEF Answers
<1> QED BY <1>2, <1>3

(* Loose depends on the leases and requests only. *)
LEMMA SameLoose ==
  ASSUME NEW c, NEW d, NEW S, Loose(c, S), d.state # "connected", d.generation = c.generation,
         SameCount(c, d), d.pending = c.pending, d.answered = c.answered, d.cleanup = c.cleanup,
         d.lease = c.lease
  PROVE  Loose(d, S)
<1>1. Waiting(d) = Waiting(c)
  BY DEF Waiting
<1> QED
  BY <1>1 DEF Loose, SameCount, Promised, Pending, Open, Pursued, Distinct, Lapsed

(* Of the leases S, those that own nothing are dropped, the others refused. *)
LEMMA FreedLoose ==
  ASSUME NEW c, NEW d, NEW S, Loose(c, S), NEW b \in Leases, b \notin S, b \notin Waiting(c),
         \A a \in c.answered : a.why \in {"detach", "create"} => a.by # b,
         SameLink(c, d), SameRequests(c, d), ~d.cleanup, d.count <= c.count, d.count \in Nat, c.count \in Nat,
         d.exclusive \in {c.exclusive, NoLease},
         \A l \in Leases : d.lease[l] = IF l = b THEN Idle ELSE c.lease[l]
  PROVE  Loose(d, S)
<1>i. Idle.at = "none"
  BY DEF Idle
<1>1. Waiting(d) = Waiting(c) /\ Cardinality(Waiting(c) \cup S) \in Nat
  <2>1. Waiting(c) \cup S \subseteq Leases
    BY DEF Waiting, Loose
  <2>2. Cardinality(Waiting(c) \cup S) \in Nat
    BY <2>1, LeaseSets
  <2> QED BY <1>i, <2>2 DEF Waiting, Waits
<1>2. d.count <= Cardinality(Waiting(d) \cup S) /\ d.exclusive \in Waiting(d) \cup S \cup {NoLease}
  BY <1>1 DEF Loose
<1>3. Promised(d, S)
  BY <1>i DEF Loose, Promised, Pending, Open, SameRequests
<1>4. Pursued(d, S) /\ Distinct(d)
  BY DEF Loose, Pursued, Distinct, SameRequests
<1>5. Lapsed(d)
  BY <1>i DEF Loose, Lapsed, SameLink, Keeps
<1> QED
  BY <1>2, <1>3, <1>4, <1>5 DEF Loose, SameLink, SameRequests

LEMMA RefusedLoose ==
  ASSUME NEW c, Sound(c), NEW S, Loose(c, S)
  PROVE  Loose(Refused(c, S), {})
<1> DEFINE d == Refused(c, S)
<1>0. IsClient(c) /\ S \subseteq Leases /\ c.count \in Nat
  BY DEF Sound, Loose, IsClient
<1>1. /\ SameLink(c, d) /\ SameRequests(c, d) /\ d.cleanup = c.cleanup
      /\ \A l \in Leases : d.lease[l] = IF l \in S THEN Idle ELSE c.lease[l]
      /\ d.count = IF c.count > Cardinality(S) THEN c.count - Cardinality(S) ELSE 0
      /\ d.exclusive = IF c.exclusive \in S THEN NoLease ELSE c.exclusive
  BY <1>0, RefusedFields
<1> HIDE DEF d
<1>i. Idle.at = "none"
  BY DEF Idle
<1> DEFINE A == Waiting(c) \cup S
<1>2. A \subseteq Leases /\ S \subseteq A /\ Waiting(d) = A \ S
  BY <1>0, <1>1, <1>i DEF Waiting, Waits
<1>3. c.count <= Cardinality(A) /\ c.exclusive \in A \cup {NoLease}
  BY DEF Loose
<1> HIDE DEF A
<1>4. /\ Cardinality(A \ S) = Cardinality(A) - Cardinality(S) /\ Cardinality(S) <= Cardinality(A)
      /\ Cardinality(A) \in Nat /\ Cardinality(S) \in Nat
  BY <1>2, Without
<1>5. d.count <= Cardinality(Waiting(d))
  BY <1>0, <1>1, <1>2, <1>3, <1>4
<1>6. d.exclusive \in Waiting(d) \cup {NoLease} /\ Waiting(d) \cup {} = Waiting(d)
  BY <1>1, <1>2, <1>3
<1>7. Promised(d, {})
  BY <1>1, <1>i DEF Loose, Promised, Pending, Open, SameRequests
<1>8. Pursued(d, {}) /\ Distinct(d)
  BY <1>1 DEF Loose, Pursued, Distinct, SameRequests
<1>9. Lapsed(d)
  BY <1>1, <1>i DEF Loose, Lapsed, SameLink, Keeps
<1>10. Loose(d, {})
  BY <1>1, <1>5, <1>6, <1>7, <1>8, <1>9 DEF Loose, SameLink, SameRequests
<1> QED BY <1>10 DEF d

(* The leases S join those who wait for a promise. *)
LEMMA PlacedLoose ==
  ASSUME NEW c, Sound(c), NEW S, Loose(c, S), NEW why, NEW where \in Wheres, Pending(c, why),
         \/ why = "attach" /\ where = "attaching"
         \/ why = "detach" /\ where = "waiting"
  PROVE  Loose(Placed(c, S, where), {})
<1> DEFINE d == Placed(c, S, where)
<1>0. IsClient(c) /\ S \subseteq Leases /\ where \in Waits
  BY DEF Sound, Loose, Waits
<1>1. /\ SameLink(c, d) /\ SameCount(c, d) /\ SameRequests(c, d) /\ d.cleanup = c.cleanup
      /\ \A l \in Leases : IF l \in S
                           THEN /\ d.lease[l].at = where /\ d.lease[l].mode = c.lease[l].mode
                                /\ d.lease[l].gen = c.lease[l].gen /\ d.lease[l].conn = c.lease[l].conn
                           ELSE d.lease[l] = c.lease[l]
  BY <1>0, PlacedFields
<1> HIDE DEF d
<1>2. Waiting(d) = Waiting(c) \cup S /\ Waiting(d) \cup {} = Waiting(d)
  BY <1>0, <1>1 DEF Waiting
<1>3. d.count <= Cardinality(Waiting(d) \cup {}) /\ d.exclusive \in Waiting(d) \cup {} \cup {NoLease}
  BY <1>1, <1>2 DEF Loose, SameCount
<1>4. Promised(d, {})
  BY <1>1 DEF Loose, Promised, Pending, Open, SameRequests
<1>5. Pursued(d, {}) /\ Distinct(d)
  BY <1>1 DEF Loose, Pursued, Distinct, SameRequests
<1>6. Lapsed(d)
  BY <1>0, <1>1 DEF Loose, Lapsed, SameLink, Keeps, Waits
<1>7. Loose(d, {})
  BY <1>1, <1>3, <1>4, <1>5, <1>6 DEF Loose, SameLink, SameRequests
<1> QED BY <1>7 DEF d

LEMMA AttachingLoose ==
  ASSUME NEW c, Sound(c), NEW S, Loose(c, S)
  PROVE  Loose(Attaching(c, S), {})
<1>0. "attaching" \in Wheres /\ "attach" \in Whys /\ "attach" \in Tasks /\ c.snapshot \in Snapshots
  BY DEF Wheres, Whys, Commands, Tasks, Sound, IsClient
<1>1. CASE InFlight(c, {"attach"}) # {}
  <2>1. Attaching(c, S) = Placed(c, S, "attaching")
    BY <1>1 DEF Attaching
  <2>2. Pending(c, "attach")
    BY <1>1 DEF InFlight, Pending, Open
  <2> QED BY <1>0, <2>1, <2>2, PlacedLoose
<1>2. CASE InFlight(c, {"attach"}) = {}
  <2> DEFINE s == [c EXCEPT !.snapshot = NoSnapshot]
             r == Request(s, "attach", NoLease, c.snapshot)
             p == Refusal(s, "attach", NoLease, c.snapshot)
  <2>1. Sound(s) /\ Unseen(c, s)
    BY SetSnapshot, NoSnapshotType
  <2>2. Attaching(c, S) = Placed(r, S, "attaching")
    BY <1>2 DEF Attaching
  <2> HIDE DEF s
  <2>3. Loose(s, S)
    BY <2>1, SameLoose DEF Unseen, SameLink, Loose
  <2>4. s.state # "connected" /\ IsClient(s)
    BY <2>1, <2>3 DEF Loose, Sound
  <2>5. /\ SameLink(s, r) /\ SameCount(s, r) /\ r.cleanup = s.cleanup /\ r.lease = s.lease
        /\ r.answered = s.answered \cup {p} /\ r.pending = s.pending
    BY <1>0, <2>4, RequestFields, NoSnapshotType
  <2>6. Sound(r)
    BY <1>0, <2>1, BasicSound, NoSnapshotType
  <2>7. p.why = "attach" /\ ~p.ok /\ ~p.caught
    BY DEF Refusal
  <2> HIDE DEF r, p
  <2>8. Waiting(r) = Waiting(s)
    BY <2>5 DEF Waiting
  <2>9. Promised(r, S)
    BY <2>3, <2>5 DEF Loose, Promised, Pending, Open
  <2>10. Pursued(r, S) /\ Distinct(r)
    BY <2>3, <2>5, <2>7 DEF Loose, Pursued, Distinct
  <2>11. Loose(r, S)
    BY <2>3, <2>5, <2>8, <2>9, <2>10 DEF Loose, SameLink, SameCount, Lapsed
  <2>12. Pending(r, "attach")
    BY <2>5, <2>7 DEF Pending, Open
  <2> QED BY <1>0, <2>2, <2>6, <2>11, <2>12, PlacedLoose
<1> QED BY <1>1, <1>2

LEMMA AcquiringLoose ==
  ASSUME NEW c, Sound(c), NEW S, Loose(c, S), ~c.attached
  PROVE  Loose(Acquiring(c, S), {})
<1>1. CASE S = {}
  BY <1>1 DEF Acquiring
<1>2. CASE S # {}
  <2>1. Acquiring(c, S) = Attaching(c, S)
    BY <1>2 DEF Acquiring, Loose
  <2> QED BY <2>1, AttachingLoose
<1> QED BY <1>1, <1>2

LEMMA ReservedLoose ==
  ASSUME NEW c, Sound(c), Loose(c, {}), NEW l \in Leases, NEW mode \in Modes, c.lease[l].at = "none"
  PROVE  Loose(Reserved(c, l, mode), {l})
<1> DEFINE d == Reserved(c, l, mode)
<1>0. IsClient(c) /\ c.count \in Nat
  BY DEF Sound, IsClient
<1>1. /\ SameLink(c, d) /\ SameRequests(c, d) /\ d.cleanup = c.cleanup
      /\ d.count = c.count + 1
      /\ d.exclusive = IF mode = "exclusive" THEN l ELSE c.exclusive
      /\ d.lease[l].at = c.lease[l].at
      /\ \A k \in Leases \ {l} : d.lease[k] = c.lease[k]
  BY <1>0, ReservedFields
<1> HIDE DEF d
<1>2. Waiting(d) = Waiting(c) /\ l \notin Waiting(c) /\ Waiting(c) \subseteq Leases
  BY <1>1 DEF Waiting, Waits
<1>3. Cardinality(Waiting(d) \cup {l}) = Cardinality(Waiting(c)) + 1 /\ Cardinality(Waiting(c)) \in Nat
  <2>1. IsFiniteSet(Waiting(c)) /\ Cardinality(Waiting(c)) \in Nat
    BY <1>2, LeaseSets
  <2> QED BY <1>2, <2>1, FS_AddElement
<1>4. Waiting(c) \cup {} = Waiting(c)
  OBVIOUS
<1>5. d.count <= Cardinality(Waiting(d) \cup {l}) /\ d.exclusive \in Waiting(d) \cup {l} \cup {NoLease}
  BY <1>0, <1>1, <1>2, <1>3, <1>4 DEF Loose
<1>6. Promised(d, {l})
  BY <1>1 DEF Loose, Promised, Pending, Open, SameRequests
<1>7. Pursued(d, {l}) /\ Distinct(d)
  BY <1>1 DEF Loose, Pursued, Distinct, SameRequests
<1>8. Lapsed(d)
  BY <1>1 DEF Loose, Lapsed, SameLink, Keeps
<1>9. Loose(d, {l})
  BY <1>1, <1>5, <1>6, <1>7, <1>8 DEF Loose, SameLink, SameRequests
<1> QED BY <1>9 DEF d

(* Those who await p go on. *)
LEMMA TakenLoose ==
  ASSUME NEW c, NEW d, NEW p, Taken(c, d, p), p \in c.answered, Loose(c, {}), d.pending = {},
         d.answered = c.answered \ {p},
         NEW S, S \subseteq Waiting(c),
         \A l \in Leases \ S : /\ p.why = "attach" => c.lease[l].at # "attaching"
                               /\ p.why = "reconcile" => c.lease[l].at # "reconciling"
                               /\ p.why = "detach" => c.lease[l].at # "waiting"
  PROVE  Loose(d, S)
<1>1. Waiting(d) = Waiting(c) /\ Waiting(c) \cup S = Waiting(c) \cup {} /\ S \subseteq Leases
  BY DEF Waiting, Taken
<1>2. Promised(d, S)
  <2>1. \A w : w # p.why /\ Pending(c, w) => Pending(d, w)
    BY DEF Pending, Taken
  <2> QED BY <2>1 DEF Loose, Promised, Taken
<1>3. Pursued(d, S) /\ Distinct(d)
  BY DEF Loose, Pursued, Distinct, Taken, Waiting, Waits
<1> QED
  BY <1>1, <1>2, <1>3 DEF Loose, Taken, SameLink, SameCount, Lapsed

(* The failure of the release of a lease that was invalidated. *)
LEMMA LapsedFields ==
  ASSUME NEW d, Sound(d), NEW b \in Leases, d.lease[b].gen # d.generation, ~d.cleanup,
         NEW f, f = ReleasesFailed(d, {b})
  PROVE  /\ SameLink(d, f) /\ SameRequests(d, f) /\ SameView(d, f)
         /\ f.count = d.count /\ f.exclusive = d.exclusive /\ ~f.cleanup
         /\ \A l \in Leases : f.lease[l] = IF l = b THEN Idle ELSE d.lease[l]
<1> DEFINE ls == {b}
<1>1. Current(d, ls) = {}
  BY DEF Current
<1>2. Disposed(d, ls) = {} /\ Back(d, ls) = {}
  BY <1>1 DEF Disposed, Back
<1>3. ls \subseteq Leases /\ \A l \in Leases : l \in ls <=> l = b
  OBVIOUS
<1>4. f = ReleasesFailed(d, ls)
  OBVIOUS
<1> HIDE DEF ls
<1>5. /\ SameLink(d, f) /\ SameRequests(d, f) /\ SameView(d, f)
      /\ f.count = IF d.count > Cardinality(Disposed(d, ls)) THEN d.count - Cardinality(Disposed(d, ls)) ELSE 0
      /\ f.exclusive = IF d.exclusive \in Disposed(d, ls) THEN NoLease ELSE d.exclusive
      /\ f.cleanup = (d.cleanup \/ Disposed(d, ls) # {})
      /\ \A l \in Leases : IF l \in Back(d, ls)
                           THEN /\ f.lease[l].at = "held" /\ f.lease[l].mode = d.lease[l].mode
                                /\ f.lease[l].gen = d.lease[l].gen /\ f.lease[l].conn = d.lease[l].conn
                           ELSE f.lease[l] = IF l \in ls THEN Idle ELSE d.lease[l]
  <2>1. LET r == ReleasesFailed(d, ls)
        IN  /\ Sound(r) /\ SameLink(d, r) /\ SameRequests(d, r) /\ SameView(d, r)
            /\ r.count = IF d.count > Cardinality(Disposed(d, ls))
                         THEN d.count - Cardinality(Disposed(d, ls)) ELSE 0
            /\ r.exclusive = IF d.exclusive \in Disposed(d, ls) THEN NoLease ELSE d.exclusive
            /\ r.cleanup = (d.cleanup \/ Disposed(d, ls) # {})
            /\ \A l \in Leases : IF l \in Back(d, ls)
                                 THEN /\ r.lease[l].at = "held" /\ r.lease[l].mode = d.lease[l].mode
                                      /\ r.lease[l].gen = d.lease[l].gen
                                      /\ r.lease[l].conn = d.lease[l].conn
                                 ELSE r.lease[l] = IF l \in ls THEN Idle ELSE d.lease[l]
    BY <1>3, ReleasesFailedFields
  <2> QED BY <1>4, <2>1
<1>6. d.count \in Nat /\ Cardinality({}) = 0
  BY FS_EmptySet DEF Sound, IsClient
<1>7. f.count = d.count /\ f.exclusive = d.exclusive
  BY <1>2, <1>5, <1>6
<1>8. ~f.cleanup
  BY <1>2, <1>5
<1>9. \A l \in Leases : f.lease[l] = IF l = b THEN Idle ELSE d.lease[l]
  BY <1>2, <1>3, <1>5
<1> QED BY <1>5, <1>7, <1>8, <1>9

LEMMA SettledLoose ==
  ASSUME NEW c, NEW d, NEW p \in Answers, p \in c.answered, Taken(c, d, p), Sound(d), Loose(c, {}),
         d.pending = {}, d.answered = c.answered \ {p}, ~d.attached
  PROVE  Loose(Settled(d, p), {})
<1>0. \A where : At(d, where) = {l \in Leases : c.lease[l].at = where}
  BY DEF At, Taken
<1>1. CASE p.why = "attach"
  <2> DEFINE S == At(d, "attaching")
             r == Restored(d, p)
  <2>1. Loose(d, S)
    BY <1>0, <1>1, TakenLoose DEF Waiting, Waits
  <2>2. Sound(r) /\ Unseen(d, r)
    <3>1. (IF d.snapshot = NoSnapshot THEN p.previous ELSE d.snapshot) \in Snapshots
      BY DEF Sound, IsClient, Answers
    <3> QED BY <3>1, SetSnapshot DEF Restored
  <2>3. ~p.ok
    BY <1>1 DEF Loose, Pursued
  <2>4. Settled(d, p) = Refused(r, S)
    BY <1>1, <2>3 DEF Settled, AttachSettled
  <2> HIDE DEF S, r
  <2>5. Loose(r, S)
    BY <2>1, <2>2, SameLoose DEF Unseen, SameLink, Loose
  <2> QED BY <2>2, <2>4, <2>5, RefusedLoose
<1>2. CASE p.why = "reconcile"
  <2> DEFINE S == At(d, "reconciling")
             r == [d EXCEPT !.cleanup = FALSE]
  <2>1. Loose(d, S)
    BY <1>0, <1>2, TakenLoose DEF Waiting, Waits
  <2>2. /\ Sound(r) /\ SameLink(d, r) /\ SameCount(d, r) /\ SameRequests(d, r) /\ r.cleanup = FALSE
        /\ r.lease = d.lease
    BY SetCleanup
  <2>3. Settled(d, p) = IF p.ok THEN Attaching(r, S) ELSE Refused(d, S)
    BY <1>2 DEF Settled, ReconcileSettled
  <2> HIDE DEF S, r
  <2>4. Loose(r, S)
    <3>1. d.cleanup = FALSE
      BY <2>1 DEF Loose, Sound, IsClient
    <3>2. d.state # "connected"
      BY <2>1 DEF Loose
    <3>3. r.state # "connected" /\ r.generation = d.generation /\ r.cleanup = d.cleanup
      BY <2>2, <3>1, <3>2 DEF SameLink
    <3> QED BY <2>1, <2>2, <3>3, SameLoose DEF SameRequests
  <2> QED BY <2>1, <2>2, <2>3, <2>4, RefusedLoose, AttachingLoose
<1>3. CASE p.why = "detach"
  <2> DEFINE S == At(d, "waiting")
             b == p.by
             e == ReleaseSettled(d, b, p.ok)
             r == Refused(d, {b})
             f == ReleasesFailed(d, {b})
  <2>1. Loose(d, S)
    BY <1>0, <1>3, TakenLoose DEF Waiting, Waits
  <2>2. b \in Leases /\ d.lease[b].at \in {"detaching", "disposing"}
    BY <1>3 DEF Loose, Pursued, Taken
  <2>3. b \notin S /\ b \notin Waiting(d)
    BY <2>2 DEF At, Waiting, Waits
  <2>4. \A a \in d.answered : a.why \in {"detach", "create"} => a.by # b
    <3>1. ASSUME NEW a \in d.answered, a.why = "detach" PROVE FALSE
      BY <1>3, <3>1 DEF Loose, Distinct
    <3>2. ASSUME NEW a \in d.answered, a.why = "create" PROVE a.by # b
      BY <2>2, <3>2 DEF Loose, Pursued, Taken
    <3> QED BY <3>1, <3>2
  <2>5. d.count \in Nat /\ ~d.cleanup /\ d.cleanup \in BOOLEAN /\ d.lease[b].gen # d.generation
    BY <2>1, <2>2 DEF Sound, IsClient, Loose, Lapsed, Keeps
  <2>6. Settled(d, p) = Acquiring(e, S) /\ e = IF p.ok THEN r ELSE f
    BY <1>3 DEF Settled, DetachSettled, ReleaseSettled, Refused
  <2>7. /\ IsClient(r) /\ SameLink(d, r) /\ SameRequests(d, r) /\ SameView(d, r) /\ r.cleanup = d.cleanup
        /\ \A l \in Leases : r.lease[l] = IF l \in {b} THEN Idle ELSE d.lease[l]
        /\ r.count = IF d.count > Cardinality({b}) THEN d.count - Cardinality({b}) ELSE 0
        /\ r.exclusive = IF d.exclusive \in {b} THEN NoLease ELSE d.exclusive
    BY <2>2, RefusedFields DEF Sound
  <2>8. /\ SameLink(d, f) /\ SameRequests(d, f) /\ SameView(d, f)
        /\ f.count = d.count /\ f.exclusive = d.exclusive /\ ~f.cleanup
        /\ \A l \in Leases : f.lease[l] = IF l = b THEN Idle ELSE d.lease[l]
    BY <2>2, <2>5, LapsedFields
  <2>10. Sound(e)
    BY <2>2, ReleaseSettledSound DEF Answers
  <2> HIDE DEF S, b, e, r, f
  <2>11. Cardinality({b}) \in Nat /\ Cardinality({}) = 0
    BY <2>2, LeaseSets, FS_EmptySet
  <2>12. ASSUME p.ok PROVE /\ SameLink(d, e) /\ SameRequests(d, e) /\ SameView(d, e) /\ ~e.cleanup
                          /\ e.count \in Nat /\ e.count <= d.count /\ e.exclusive \in {d.exclusive, NoLease}
                          /\ \A l \in Leases : e.lease[l] = IF l = b THEN Idle ELSE d.lease[l]
    BY <2>5, <2>6, <2>7, <2>11, <2>12
  <2>13. ASSUME ~p.ok PROVE /\ SameLink(d, e) /\ SameRequests(d, e) /\ SameView(d, e) /\ ~e.cleanup
                           /\ e.count \in Nat /\ e.count <= d.count /\ e.exclusive \in {d.exclusive, NoLease}
                           /\ \A l \in Leases : e.lease[l] = IF l = b THEN Idle ELSE d.lease[l]
    <3>1. e = f
      BY <2>6, <2>13
    <3> QED BY <2>5, <2>8, <3>1
  <2>14. Loose(e, S) /\ ~e.attached
    <3>1. /\ SameLink(d, e) /\ SameRequests(d, e) /\ SameView(d, e) /\ ~e.cleanup
          /\ e.count \in Nat /\ e.count <= d.count /\ e.exclusive \in {d.exclusive, NoLease}
          /\ \A l \in Leases : e.lease[l] = IF l = b THEN Idle ELSE d.lease[l]
      BY <2>12, <2>13
    <3>2. Loose(e, S)
      BY <2>1, <2>2, <2>3, <2>4, <2>5, <3>1, FreedLoose
    <3> QED BY <3>1, <3>2 DEF SameView
  <2> QED BY <2>6, <2>10, <2>14, AcquiringLoose
<1>4. CASE p.why = "create"
  <2> DEFINE b == p.by
             e == Dropped(d, {b})
  <2>1. Loose(d, {})
    BY <1>4, TakenLoose
  <2>2. b \in Leases /\ d.lease[b].at = "creating" /\ ~p.ok
    BY <1>4 DEF Loose, Pursued, Taken
  <2>3. b \notin Waiting(d)
    BY <2>2 DEF Waiting, Waits
  <2>4. \A a \in d.answered : a.why \in {"detach", "create"} => a.by # b
    <3>1. ASSUME NEW a \in d.answered, a.why = "create" PROVE FALSE
      BY <1>4, <3>1 DEF Loose, Distinct
    <3>2. ASSUME NEW a \in d.answered, a.why = "detach" PROVE a.by # b
      BY <2>2, <3>2 DEF Loose, Pursued, Taken
    <3> QED BY <3>1, <3>2
  <2>5. Settled(d, p) = e
    BY <1>4, <2>2 DEF Settled, CreateSettled
  <2>6. /\ SameLink(d, e) /\ SameCount(d, e) /\ SameRequests(d, e) /\ e.cleanup = d.cleanup
        /\ \A l \in Leases : e.lease[l] = IF l \in {b} THEN Idle ELSE d.lease[l]
    BY DroppedFields DEF Sound
  <2> HIDE DEF b, e
  <2>7. ~d.cleanup /\ d.count \in Nat
    BY <2>1 DEF Loose, Sound, IsClient
  <2>8. e.count = d.count /\ e.exclusive = d.exclusive /\ ~e.cleanup
    BY <2>6, <2>7 DEF SameCount
  <2>9. \A l \in Leases : e.lease[l] = IF l = b THEN Idle ELSE d.lease[l]
    BY <2>6
  <2>10. Loose(e, {})
    BY <2>1, <2>2, <2>3, <2>4, <2>6, <2>7, <2>8, <2>9, FreedLoose
  <2> QED BY <2>5, <2>10
<1>5. p.why \in Tasks
  BY DEF Answers
<1> QED BY <1>1, <1>2, <1>3, <1>4, <1>5 DEF Tasks

(* The connection ends, and no success is left to be told of. *)
LEMMA EndedLoose ==
  ASSUME NEW c, Sound(c), Good(c, {}), ~Granted(c), NEW to \in States, to # "connected"
  PROVE  Loose(Disconnected(c, to), {})
<1> DEFINE d == Disconnected(c, to)
<1>1. /\ d.state = to /\ d.pending = {} /\ d.lease = c.lease
      /\ d.answered = c.answered \cup Lost(c) /\ ~d.cleanup
      /\ c.count > 0 => d.generation = c.generation + 1 /\ d.count = 0 /\ d.exclusive = NoLease
      /\ c.count = 0 => d.generation = c.generation /\ d.count = 0 /\ d.exclusive = c.exclusive
  BY DisconnectedFields
<1> HIDE DEF d
<1>2. c.count \in Nat /\ c.count = Cardinality(Own(c, {})) /\ IsFiniteSet(Own(c, {}))
  BY LeaseSets DEF Good, Counted, Sound, IsClient, Own
<1>3. c.count = 0 => Own(c, {}) = {}
  BY <1>2, FS_EmptySet
<1>4. d.count = 0 /\ d.exclusive = NoLease
  BY <1>1, <1>2, <1>3 DEF Good, Alone
<1>5. Lapsed(d)
  <2>1. CASE c.count > 0
    <3>1. d.generation = c.generation + 1
      BY <1>1, <2>1
    <3>2. \A l \in Leases : c.lease[l].gen \in Nat /\ c.generation \in Nat /\ c.lease[l].gen <= c.generation
      BY DEF Sound, Gens, IsClient, LeaseRecords
    <3> QED BY <1>1, <3>1, <3>2 DEF Lapsed
  <2>2. CASE c.count = 0
    BY <1>1, <1>3, <2>2 DEF Own, Holding, Lapsed
  <2> QED BY <1>2, <2>1, <2>2
<1>6. Waiting(d) \cup {} \subseteq Leases /\ Cardinality(Waiting(d) \cup {}) \in Nat
  <2>1. Waiting(d) \cup {} \subseteq Leases
    BY DEF Waiting
  <2> QED BY <2>1, LeaseSets
<1>7. \A a \in Lost(c) : ~a.ok /\ ~a.caught /\ \E p \in c.pending : a.why = p.why /\ a.by = p.by
  BY LostAnswers
<1>8. Promised(d, {})
  <2>1. ASSUME NEW w \in Control, Pending(c, w) PROVE Pending(d, w)
    <3>1. PICK p \in Open(c) : p.why = w
      BY <2>1 DEF Pending
    <3>2. CASE p \in c.answered
      BY <1>1, <3>1, <3>2 DEF Pending, Open
    <3>3. CASE p \in c.pending
      <4>1. p.why # "command"
        BY <3>1 DEF Control
      <4>2. \E a \in Lost(c) : a.why = p.why
        BY <3>3, <4>1, LostAnswers
      <4> QED BY <1>1, <3>1, <4>2 DEF Pending, Open
    <3> QED BY <3>1, <3>2, <3>3 DEF Open
  <2> QED BY <1>1, <2>1 DEF Good, Promised, Control
<1>9. Pursued(d, {})
  <2>1. ASSUME NEW a \in d.answered
        PROVE  /\ a.why = "detach" => a.by \in Leases /\ c.lease[a.by].at \in {"detaching", "disposing"}
               /\ a.why = "create" => a.by \in Leases /\ c.lease[a.by].at = "creating"
    <3>1. PICK p \in Open(c) : a.why = p.why /\ a.by = p.by
      BY <1>1, <1>7 DEF Open
    <3> QED BY <3>1 DEF Good, Wanted
  <2>2. \A a \in d.answered : /\ a.why \in {"attach", "create"} => ~a.ok
                              /\ a.caught => a.why = "detach"
    BY <1>1, <1>7 DEF Granted, Good, Online
  <2>3. d.lease = c.lease
    BY <1>1
  <2> QED BY <2>1, <2>2, <2>3 DEF Pursued
<1>10. Distinct(d)
  <2> SUFFICES ASSUME NEW a \in d.answered, NEW b \in d.answered, a.why \in {"detach", "create"}, b.why = a.why
               PROVE  a = b
    BY DEF Distinct
  <2>1. ASSUME NEW p \in Open(c), NEW q \in Open(c), p.why = a.why, q.why = a.why PROVE p = q
    BY <2>1 DEF Good, Serial, Control
  <2>2. ASSUME NEW x \in Lost(c) PROVE \E p \in c.pending : p.why = x.why /\ x = Answered(c, p, FALSE)
    BY DEF Lost, Answered
  <2>3. \A p \in c.pending : p \notin c.answered
    BY Disjoint
  <2>4. CASE a \in c.answered /\ b \in c.answered
    BY <2>1, <2>4 DEF Open
  <2>5. CASE a \in c.answered /\ b \in Lost(c)
    BY <2>1, <2>2, <2>3, <2>5 DEF Open
  <2>6. CASE a \in Lost(c) /\ b \in c.answered
    BY <2>1, <2>2, <2>3, <2>6 DEF Open
  <2>7. CASE a \in Lost(c) /\ b \in Lost(c)
    <3>1. PICK p \in c.pending : p.why = a.why /\ a = Answered(c, p, FALSE)
      BY <2>2, <2>7
    <3>2. PICK q \in c.pending : q.why = b.why /\ b = Answered(c, q, FALSE)
      BY <2>2, <2>7
    <3>3. p = q
      BY <2>1, <3>1, <3>2 DEF Open
    <3> QED BY <3>1, <3>2, <3>3
  <2> QED BY <1>1, <2>4, <2>5, <2>6, <2>7
<1>11. Loose(d, {})
  BY <1>1, <1>4, <1>5, <1>6, <1>8, <1>9, <1>10 DEF Loose
<1> QED BY <1>11 DEF d

(* dispose() of a client without a connection, and a connection that was not
   yet there. *)
LEMMA DisconnectedLoose ==
  ASSUME NEW c, Sound(c), Loose(c, {}), NEW to \in States, to # "connected"
  PROVE  Loose(Disconnected(c, to), {})
<1> DEFINE d == Disconnected(c, to)
<1>1. /\ d.state = to /\ d.pending = {} /\ d.lease = c.lease
      /\ d.answered = c.answered \cup Lost(c) /\ ~d.cleanup
      /\ c.count > 0 => d.generation = c.generation + 1 /\ d.count = 0 /\ d.exclusive = NoLease
      /\ c.count = 0 => d.generation = c.generation /\ d.count = 0 /\ d.exclusive = c.exclusive
  BY DisconnectedFields
<1> HIDE DEF d
<1>2. Lost(c) = {}
  BY DEF Lost, Loose
<1>3. c.count \in Nat /\ Waiting(d) = Waiting(c)
  BY <1>1 DEF Sound, IsClient, Waiting
<1>4. Waiting(c) \cup {} \subseteq Leases /\ Cardinality(Waiting(c) \cup {}) \in Nat
  <2>1. Waiting(c) \cup {} \subseteq Leases
    BY DEF Waiting
  <2> QED BY <2>1, LeaseSets
<1>5. d.count <= Cardinality(Waiting(d) \cup {}) /\ d.exclusive \in Waiting(d) \cup {} \cup {NoLease}
  BY <1>1, <1>3, <1>4 DEF Loose
<1>6. Promised(d, {}) /\ Pursued(d, {}) /\ Distinct(d)
  BY <1>1, <1>2 DEF Loose, Promised, Pursued, Distinct, Pending, Open
<1>7. Lapsed(d)
  <2>1. \A l \in Leases : c.lease[l].gen \in Nat /\ c.generation \in Nat /\ c.lease[l].gen <= c.generation
    BY DEF Sound, Gens, IsClient, LeaseRecords
  <2> QED BY <1>1, <1>3, <2>1 DEF Loose, Lapsed
<1>8. Loose(d, {})
  BY <1>1, <1>5, <1>6, <1>7 DEF Loose
<1> QED BY <1>8 DEF d

(* The connection comes when every promise has been passed on. *)
LEMMA LinkedGood ==
  ASSUME NEW c, Sound(c), Loose(c, {}), c.answered = {}, NEW d, d.state = "connected", d.generation = c.generation,
         SameCount(c, d), d.pending = c.pending, d.answered = c.answered, d.lease = c.lease
  PROVE  Good(d, {})
<1>1. Waiting(c) = {}
  BY DEF Waiting, Waits, Loose, Promised, Pending, Open
<1>2. Waiting(c) \cup {} = {} /\ Cardinality({}) = 0 /\ c.count \in Nat
  BY <1>1, FS_EmptySet DEF Sound, IsClient
<1>3. d.count = 0 /\ d.exclusive = NoLease
  BY <1>2 DEF Loose, SameCount
<1>4. Own(d, {}) = {}
  BY <1>1 DEF Own, Waiting, Loose, Lapsed, Holding
<1>5. d.pending = {} /\ d.answered = {} /\ Open(d) = {}
  BY DEF Loose, Open
<1>6. Serial(d) /\ (\A w \in Control : ~Pending(d, w)) /\ Online(d)
  BY <1>5 DEF Serial, Pending, Online
<1> QED BY <1>3, <1>4, <1>5, <1>6, EmptyGood

-----------------------------------------------------------------------------
(* The calls and what follows an answer leave the connection and whether the
   session is attached as they are. *)

Steady(c, d) == d.state = c.state /\ d.id = c.id /\ d.attached = c.attached

LEMMA SteadyChain == ASSUME NEW c, NEW d, NEW e, Steady(c, d), Steady(d, e) PROVE Steady(c, e)
BY DEF Steady

LEMMA BasicSteady ==
  ASSUME NEW c, Sound(c), NEW ls, ls \subseteq Leases
  PROVE  /\ \A where \in Wheres : Steady(c, Placed(c, ls, where))
         /\ Steady(c, Dropped(c, ls)) /\ (\A conn \in 0..MaxConnects : Steady(c, Held(c, ls, conn))) /\ Steady(c, Refused(c, ls))
         /\ \A l \in Leases, mode \in Modes : Steady(c, Reserved(c, l, mode))
         /\ \A why \in Whys, by \in Callers, previous \in Snapshots :
              why \in Tasks \/ c.state = "connected" => Steady(c, Request(c, why, by, previous))
<1> USE DEF Steady, SameLink, SameView
<1>0. IsClient(c)
  BY DEF Sound
<1>1. ASSUME NEW where \in Wheres PROVE Steady(c, Placed(c, ls, where))
  BY <1>0, PlacedFields
<1>2. Steady(c, Dropped(c, ls))
  BY <1>0, DroppedFields
<1>3. ASSUME NEW conn \in 0..MaxConnects PROVE Steady(c, Held(c, ls, conn))
  BY <1>0, HeldFields
<1>4. Steady(c, Refused(c, ls))
  BY <1>0, RefusedFields
<1>5. ASSUME NEW l \in Leases, NEW mode \in Modes PROVE Steady(c, Reserved(c, l, mode))
  BY <1>0, ReservedFields
<1>6. ASSUME NEW why \in Whys, NEW by \in Callers, NEW previous \in Snapshots,
             why \in Tasks \/ c.state = "connected"
      PROVE  Steady(c, Request(c, why, by, previous))
  <2> DEFINE d == Request(c, why, by, previous)
  <2>1. SameLink(c, d) /\ SameView(c, d)
    BY <1>0, <1>6, RequestFields
  <2> HIDE DEF d
  <2>2. Steady(c, d)
    BY <2>1
  <2> QED BY <2>2 DEF d
<1> QED
  BY <1>1, <1>2, <1>3, <1>4, <1>5, <1>6

LEMMA AttachingSteady ==
  ASSUME NEW c, Sound(c), NEW ls, ls \subseteq Leases
  PROVE  Steady(c, Attaching(c, ls))
<1>2. CASE InFlight(c, {"attach"}) # {}
  <2>1. Attaching(c, ls) = Placed(c, ls, "attaching") /\ "attaching" \in Wheres
    BY <1>2 DEF Attaching, Wheres
  <2> QED BY <2>1, BasicSteady
<1>3. CASE InFlight(c, {"attach"}) = {}
  <2> DEFINE s == [c EXCEPT !.snapshot = NoSnapshot]
             r == Request(s, "attach", NoLease, c.snapshot)
  <2>1. Sound(s)
    BY SetSnapshot, NoSnapshotType
  <2>2. Steady(c, s)
    BY DEF Steady, Sound, IsClient, Fields
  <2>3. c.snapshot \in Snapshots /\ "attach" \in Whys /\ "attaching" \in Wheres /\ "attach" \in Tasks
    BY DEF Sound, IsClient, Whys, Commands, Wheres, Tasks
  <2>4. Attaching(c, ls) = Placed(r, ls, "attaching")
    BY <1>3 DEF Attaching
  <2> HIDE DEF s
  <2>5. Sound(r) /\ Steady(s, r)
    BY <2>1, <2>3, BasicSound, BasicSteady, NoSnapshotType
  <2> HIDE DEF r
  <2>6. Steady(r, Placed(r, ls, "attaching"))
    BY <2>3, <2>5, BasicSteady
  <2> QED BY <2>2, <2>4, <2>5, <2>6 DEF Steady
<1> QED BY <1>2, <1>3

LEMMA AcquiringSteady ==
  ASSUME NEW c, Sound(c), NEW ls, ls \subseteq Leases
  PROVE  Steady(c, Acquiring(c, ls))
<1>1. CASE ls = {}
  BY <1>1 DEF Acquiring, Steady
<1>2. CASE ls # {} /\ c.cleanup /\ InFlight(c, {"reconcile"}) # {}
  <2>1. Acquiring(c, ls) = Placed(c, ls, "reconciling") /\ "reconciling" \in Wheres
    BY <1>2 DEF Acquiring, Wheres
  <2> QED BY <2>1, BasicSteady
<1>4. CASE ls # {} /\ c.cleanup /\ InFlight(c, {"reconcile"}) = {}
  <2> DEFINE r == Request(c, "reconcile", NoLease, NoSnapshot)
  <2>1. Sound(r) /\ Steady(c, r)
    BY BasicSound, BasicSteady, NoSnapshotType DEF Whys, Tasks
  <2>2. Acquiring(c, ls) = Placed(r, ls, "reconciling") /\ "reconciling" \in Wheres
    BY <1>4 DEF Acquiring, Wheres
  <2> HIDE DEF r
  <2>3. Steady(r, Placed(r, ls, "reconciling"))
    BY <2>1, <2>2, BasicSteady
  <2> QED BY <2>1, <2>2, <2>3 DEF Steady
<1>5. CASE ls # {} /\ ~c.cleanup
  <2>1. c.id \in 0..MaxConnects
    BY DEF Sound, IsClient
  <2> QED BY <1>5, <2>1, BasicSteady, AttachingSteady DEF Acquiring, Steady
<1>6. c.cleanup \in BOOLEAN
  BY DEF Sound, IsClient
<1> QED BY <1>1, <1>2, <1>4, <1>5, <1>6

LEMMA SettledSteady ==
  ASSUME NEW c, Sound(c), NEW p \in Answers, p.why \in {"detach", "create"} => p.by \in Leases
  PROVE  Steady(c, Settled(c, p))
<1>0. p.ok \in BOOLEAN /\ p.conn \in 0..MaxConnects
  BY DEF Answers
<1>1. CASE p.why = "attach"
  <2> DEFINE r == Restored(c, p)
  <2>1. Sound(r)
    BY AttachSettledSound
  <2>2. Steady(c, r)
    BY DEF Restored, Steady, Sound, IsClient, Fields
  <2>3. Settled(c, p) = IF p.ok THEN Held(c, At(c, "attaching"), p.conn) ELSE Refused(r, At(c, "attaching"))
    BY <1>1 DEF Settled, AttachSettled
  <2> HIDE DEF r
  <2>4. Steady(c, Held(c, At(c, "attaching"), p.conn)) /\ Steady(r, Refused(r, At(c, "attaching")))
    BY <1>0, <2>1, AtLeases, BasicSteady
  <2> QED BY <2>2, <2>3, <2>4 DEF Steady
<1>2. CASE p.why = "reconcile"
  <2> DEFINE r == [c EXCEPT !.cleanup = FALSE]
  <2>1. Sound(r)
    BY SetCleanup
  <2>2. Steady(c, r)
    BY DEF Steady, Sound, IsClient, Fields
  <2>3. Settled(c, p) = IF p.ok THEN Attaching(r, At(c, "reconciling")) ELSE Refused(c, At(c, "reconciling"))
    BY <1>2 DEF Settled, ReconcileSettled
  <2> HIDE DEF r
  <2>4. Steady(r, Attaching(r, At(c, "reconciling"))) /\ Steady(c, Refused(c, At(c, "reconciling")))
    BY <2>1, AtLeases, BasicSteady, AttachingSteady
  <2> QED BY <2>2, <2>3, <2>4 DEF Steady
<1>3. CASE p.why = "detach"
  <2> DEFINE e == ReleaseSettled(c, p.by, p.ok)
             f == ReleasesFailed(c, {p.by})
             r == Refused(c, {p.by})
  <2>1. Sound(e)
    BY <1>0, <1>3, ReleaseSettledSound
  <2>2. e = IF p.ok THEN r ELSE f
    BY DEF ReleaseSettled, Refused
  <2>3. Steady(c, r)
    BY <1>3, BasicSteady
  <2>4. SameLink(c, f) /\ SameView(c, f)
    BY <1>3, ReleasesFailedFields
  <2>5. Settled(c, p) = Acquiring(e, At(c, "waiting"))
    BY <1>3 DEF Settled, DetachSettled
  <2> HIDE DEF e, f, r
  <2>6. Steady(c, e)
    BY <2>2, <2>3, <2>4 DEF Steady, SameLink, SameView
  <2>7. Steady(e, Acquiring(e, At(c, "waiting")))
    BY <2>1, AtLeases, AcquiringSteady
  <2> QED BY <2>5, <2>6, <2>7 DEF Steady
<1>4. CASE p.why = "create"
  <2> DEFINE r == Reserved(c, p.by, "exclusive")
  <2>1. Sound(r) /\ Steady(c, r)
    BY <1>4, BasicSound, BasicSteady DEF Modes
  <2>2. Settled(c, p) = IF p.ok /\ MayReserve(c, "exclusive") THEN Held(r, {p.by}, p.conn) ELSE Dropped(c, {p.by})
    BY <1>4 DEF Settled, CreateSettled
  <2> HIDE DEF r
  <2>3. Steady(r, Held(r, {p.by}, p.conn)) /\ Steady(c, Dropped(c, {p.by}))
    BY <1>0, <1>4, <2>1, BasicSteady
  <2> QED BY <2>1, <2>2, <2>3 DEF Steady
<1>5. p.why \in Tasks
  BY DEF Answers
<1> QED BY <1>1, <1>2, <1>3, <1>4, <1>5 DEF Tasks

-----------------------------------------------------------------------------
(* The invariant. *)

Shown(c) == c.attached => c.state = "connected"
Fit(c) == Good(c, {}) \/ Loose(c, {})
LeaseInv == Shown(client) /\ (~crossed => Fit(client))

LEMMA InitLeases == Init => LeaseInv
<1> SUFFICES ASSUME Init PROVE LeaseInv
  OBVIOUS
<1>1. /\ client.count = 0 /\ client.exclusive = NoLease /\ client.pending = {} /\ client.attached = FALSE
      /\ client.answered = {} /\ client.cleanup = FALSE /\ client.state = "disconnected"
      /\ \A l \in Leases : client.lease[l] = Idle
  BY DEF Init
<1>2. Idle.at = "none"
  BY DEF Idle
<1>3. Waiting(client) = {}
  BY <1>1, <1>2 DEF Waiting, Waits
<1>4. Waiting(client) \cup {} = {} /\ Cardinality({}) = 0
  BY <1>3, FS_EmptySet
<1>5. client.count <= Cardinality(Waiting(client) \cup {})
  BY <1>1, <1>4
<1>6. Promised(client, {}) /\ Pursued(client, {}) /\ Distinct(client) /\ Lapsed(client)
  BY <1>1, <1>2 DEF Promised, Pursued, Distinct, Lapsed, Keeps
<1>7. Loose(client, {})
  BY <1>1, <1>5, <1>6 DEF Loose
<1> QED BY <1>1, <1>7 DEF LeaseInv, Shown, Fit

(* Calls of a caller. *)
LEMMA AcquireKeeps ==
  ASSUME TypeInv, LeaseInv, NEW l \in Leases, NEW mode \in Modes, AcquireSession(l, mode)
  PROVE  LeaseInv'
<1>0. Sound(client) /\ Shown(client)
  BY DEF TypeInv, LeaseInv
<1> DEFINE c == Reserved(client, l, mode)
<1>1. Sound(c) /\ {l} \subseteq Leases /\ "waiting" \in Wheres /\ Steady(client, c)
  BY <1>0, BasicSound, BasicSteady DEF Wheres
<1>2. client' = IF InFlight(c, {"detach"}) # {} THEN Placed(c, {l}, "waiting") ELSE Acquiring(c, {l})
  BY DEF AcquireSession
<1>3. ~crossed' => ~crossed /\ ~Unsafe(client)
  BY DEF AcquireSession
<1>4. SameRequests(client, c)
  BY <1>0, ReservedFields DEF Sound
<1>5. ASSUME Good(client, {}) PROVE Good(c, {l})
  <2>2. client.lease[l].at = "none" /\ MayReserve(client, mode)
    BY DEF AcquireSession
  <2>3. l \notin Own(client, {})
    BY <2>2 DEF Own, Holding, Waits, Keeps
  <2>4. \A p \in Open(client) : p.why \in {"detach", "create"} => p.by # l
    BY <1>5, <2>2 DEF Good, Wanted
  <2> QED BY <1>0, <1>5, <2>2, <2>3, <2>4, ReservedGood
<1>6. ASSUME Loose(client, {}) PROVE Loose(c, {l})
  BY <1>0, <1>6, ReservedLoose DEF AcquireSession
<1> HIDE DEF c
<1>7. Shown(client)'
  <2>1. Steady(c, client')
    BY <1>1, <1>2, BasicSteady, AcquiringSteady
  <2> QED BY <1>0, <1>1, <2>1 DEF Steady, Shown
<1>8. ASSUME Good(client, {}), ~Unsafe(client) PROVE Good(client', {})
  <2>1. Good(c, {l})
    BY <1>5, <1>8
  <2>2. InFlight(c, {"detach"}) # {} <=> Pending(c, "detach")
    <3>1. \A p \in c.answered : ~p.caught
      BY <1>4, <1>8 DEF Unsafe, SameRequests
    <3> QED BY <3>1 DEF InFlight, Pending, Open
  <2>3. CASE Pending(c, "detach")
    <3>1. client' = Placed(c, {l}, "waiting")
      BY <1>2, <2>2, <2>3
    <3> QED BY <1>1, <2>1, <2>3, <3>1, PlacedGood
  <2>4. CASE ~Pending(c, "detach")
    <3>1. client' = Acquiring(c, {l})
      BY <1>2, <2>2, <2>4
    <3> QED BY <1>1, <2>1, <2>4, <3>1, AcquiringGood
  <2> QED BY <2>3, <2>4
<1>9. ASSUME Loose(client, {}) PROVE Loose(client', {})
  <2>1. Loose(c, {l}) /\ ~c.attached
    BY <1>0, <1>1, <1>6, <1>9 DEF Steady, Shown, Loose
  <2>2. CASE InFlight(c, {"detach"}) # {}
    <3>1. client' = Placed(c, {l}, "waiting")
      BY <1>2, <2>2
    <3>2. Pending(c, "detach")
      BY <2>2 DEF InFlight, Pending, Open
    <3> QED BY <1>1, <2>1, <3>1, <3>2, PlacedLoose
  <2>3. CASE InFlight(c, {"detach"}) = {}
    <3>1. client' = Acquiring(c, {l})
      BY <1>2, <2>3
    <3> QED BY <1>1, <2>1, <3>1, AcquiringLoose
  <2> QED BY <2>2, <2>3
<1>10. ~crossed' => Fit(client')
  BY <1>3, <1>8, <1>9 DEF LeaseInv, Fit
<1> QED BY <1>7, <1>10 DEF LeaseInv

(* A request of l that concerns nobody else. *)
LEMMA SentGood ==
  ASSUME NEW c, Sound(c), Good(c, {}), NEW l \in Leases,
         NEW why \in {"detach", "create"}, NEW where \in Wheres,
         \/ /\ why = "create" /\ where = "creating" /\ c.lease[l].at = "none" /\ ~Pending(c, "create")
         \/ /\ why = "detach" /\ where \in {"detaching", "disposing"} /\ Own(c, {}) = {l}
            /\ c.lease[l].at = "held" /\ c.lease[l].gen = c.generation
  PROVE  Good(Placed(Request(c, why, l, NoSnapshot), {l}, where), {})
<1> DEFINE r == Request(c, why, l, NoSnapshot)
           d == Placed(r, {l}, where)
           p == NewRequest(c, why, l, NoSnapshot)
<1>0. IsClient(c) /\ why \in Whys /\ l \in Callers
  BY DEF Sound, Whys, Commands, Callers
<1>1. /\ IsClient(r) /\ SameLink(c, r) /\ SameCount(c, r) /\ Open(r) = Open(c) \cup {p} /\ r.answered = c.answered
      /\ r.cleanup = c.cleanup /\ r.lease = c.lease
  BY <1>0, RequestFields, NoSnapshotType DEF Open, Good, Online, Tasks
<1>p. p.why = why /\ p.by = l
  BY DEF NewRequest
<1> HIDE DEF r, p
<1>2. /\ SameLink(r, d) /\ SameCount(r, d) /\ SameRequests(r, d) /\ d.cleanup = r.cleanup
      /\ \A k \in Leases : IF k \in {l}
                           THEN /\ d.lease[k].at = where /\ d.lease[k].mode = r.lease[k].mode
                                /\ d.lease[k].gen = r.lease[k].gen /\ d.lease[k].conn = r.lease[k].conn
                           ELSE d.lease[k] = r.lease[k]
  BY <1>1, PlacedFields
<1> HIDE DEF d
<1>3. /\ SameLink(c, d) /\ SameCount(c, d) /\ Open(d) = Open(c) \cup {p} /\ d.answered = c.answered /\ d.cleanup = c.cleanup
      /\ \A k \in Leases : IF k = l
                           THEN /\ d.lease[k].at = where /\ d.lease[k].mode = c.lease[k].mode
                                /\ d.lease[k].gen = c.lease[k].gen /\ d.lease[k].conn = c.lease[k].conn
                           ELSE d.lease[k] = c.lease[k]
  BY <1>1, <1>2 DEF SameLink, SameCount, SameRequests, Open
<1>4. Own(d, {}) = Own(c, {})
  BY <1>3 DEF Own, Holding, SameLink, Waits, Keeps
<1>5. Counted(d, {}) /\ Alone(d, {})
  <2>1. \A k \in Leases : d.lease[k].mode = c.lease[k].mode
    BY <1>3
  <2>2. Own(c, {}) \subseteq Leases
    BY DEF Own
  <2> QED BY <1>3, <1>4, <2>1, <2>2 DEF Good, Counted, Alone, SameCount
<1>6. why = "detach" => \A w \in Control : ~Pending(c, w)
  <2> SUFFICES ASSUME why = "detach", NEW w \in Control, Pending(c, w) PROVE FALSE
    OBVIOUS
  <2>1. Own(c, {}) = {l} /\ c.lease[l].at = "held"
    OBVIOUS
  <2>2. PICK q \in Open(c) : q.why = w
    BY DEF Pending
  <2>3. \E k \in Leases : k \in Own(c, {}) /\ c.lease[k].at # "held"
    BY <2>2 DEF Good, Wanted, Control, Own, Holding, Waits, Keeps
  <2> QED BY <2>1, <2>3
<1>7. Serial(d)
  <2>1. ASSUME why = "detach" PROVE \A q \in Open(c) : q.why \notin Control
    BY <1>6, <2>1 DEF Pending
  <2>2. ASSUME why = "create" PROVE \A q \in Open(c) : q.why # "create"
    BY <2>2 DEF Pending
  <2>3. "create" \notin Control
    BY DEF Control
  <2> QED BY <1>3, <1>p, <2>1, <2>2, <2>3 DEF Good, Serial
<1>8. Promised(d, {})
  <2>1. \A w : Pending(c, w) => Pending(d, w)
    BY <1>3 DEF Pending
  <2> QED BY <1>3, <2>1 DEF Good, Promised
<1>9. Wanted(d, {})
  <2>1. ASSUME NEW q \in Open(c), q.why \in {"detach", "create"} PROVE q.by \in Leases \ {l}
    BY <1>6, <2>1 DEF Good, Wanted, Pending, Control
  <2>2. \A q \in Open(c) :
          /\ q.why = "attach" => ~d.cleanup /\ \E k \in Leases : d.lease[k].at = "attaching"
          /\ q.why = "reconcile" => d.cleanup /\ \E k \in Leases : d.lease[k].at = "reconciling"
          /\ q.why = "detach" => /\ q.by \in Leases /\ d.lease[q.by].at \in {"detaching", "disposing"}
                                 /\ d.lease[q.by].gen = d.generation
          /\ q.why = "create" => q.by \in Leases /\ d.lease[q.by].at = "creating"
    BY <1>3, <2>1 DEF Good, Wanted, SameLink
  <2>3. /\ why = "detach" => /\ d.lease[l].at \in {"detaching", "disposing"}
                             /\ d.lease[l].gen = d.generation
        /\ why = "create" => d.lease[l].at = "creating"
    BY <1>3 DEF SameLink
  <2> QED BY <1>3, <1>p, <2>2, <2>3 DEF Wanted
<1>10. Online(d) /\ Linked(d, {})
  BY <1>3 DEF Good, Online, Linked, SameLink, Holding, Keeps
<1> QED
  BY <1>5, <1>7, <1>8, <1>9, <1>10 DEF Good, d, r

(* The lease l, which is held, is about to be given up. *)
LEMMA HeldLeaves ==
  ASSUME NEW c, Good(c, {}), NEW l \in Leases,
         c.lease[l].at = "held", c.lease[l].gen = c.generation
  PROVE  l \in Own(c, {}) /\ Good(c, {l})
<1>1. l \in Own(c, {}) /\ Own(c, {l}) = Own(c, {})
  BY DEF Own, Holding, Keeps
<1>2. Counted(c, {l}) /\ Alone(c, {l}) /\ Serial(c) /\ Online(c)
  BY <1>1 DEF Good, Counted, Alone
<1>3. Promised(c, {l}) /\ Linked(c, {l})
  BY DEF Good, Promised, Linked
<1>4. Wanted(c, {l})
  BY DEF Good, Wanted
<1> QED BY <1>1, <1>2, <1>3, <1>4 DEF Good

(* The only owner that is counted. *)
LEMMA LastOwner ==
  ASSUME NEW c, Sound(c), Counted(c, {}), c.count <= 1, NEW l \in Own(c, {})
  PROVE  Own(c, {}) = {l}
<1>1. Own(c, {}) \subseteq Leases /\ {l} \subseteq Own(c, {})
  BY DEF Own
<1>2. IsFiniteSet(Own(c, {})) /\ IsFiniteSet(Own(c, {}) \ {l})
  BY <1>1, BoundsAssumption, FS_Subset
<1>3. Cardinality(Own(c, {}) \ {l}) = Cardinality(Own(c, {})) - Cardinality({l})
  BY <1>1, Without
<1>4. Cardinality({l}) = 1 /\ Cardinality(Own(c, {}) \ {l}) \in Nat
  BY <1>2, FS_Singleton, FS_CardinalityType
<1>5. Cardinality(Own(c, {}) \ {l}) = 0
  <2>1. Cardinality(Own(c, {})) \in Nat /\ Cardinality(Own(c, {})) <= 1
    BY <1>2, FS_CardinalityType DEF Counted
  <2> QED BY <1>3, <1>4, <2>1
<1>6. Own(c, {}) \ {l} = {}
  BY <1>2, <1>5, FS_EmptySet
<1> QED BY <1>1, <1>6

LEMMA ReleaseKeeps ==
  ASSUME TypeInv, LeaseInv, NEW l \in Leases, NEW how \in {"detaching", "disposing"}, Release(l, how)
  PROVE  LeaseInv'
<1>0. Sound(client) /\ Shown(client)
  BY DEF TypeInv, LeaseInv
<1> DEFINE r == Request(client, "detach", l, NoSnapshot)
<1>1. Sound(r) /\ {l} \subseteq Leases /\ how \in Wheres /\ Steady(client, r)
  BY <1>0, BasicSound, BasicSteady, NoSnapshotType DEF Whys, Commands, Wheres, Callers, Tasks
<1>2. client' = IF client.count <= 1 THEN Placed(r, {l}, how) ELSE Refused(client, {l})
  BY DEF Release, Refused
<1>3. /\ client.lease[l].at = "held" /\ client.lease[l].gen = client.generation
      /\ client.state = "connected" /\ crossed' = crossed
  BY DEF Release
<1>4. ASSUME ~crossed PROVE Good(client', {})
  <2>1. Good(client, {})
    BY <1>3, <1>4 DEF LeaseInv, Fit, Loose
  <2>2. l \in Own(client, {}) /\ Good(client, {l})
    BY <1>3, <2>1, HeldLeaves
  <2>3. CASE client.count <= 1
    <3>1. Own(client, {}) = {l}
      BY <1>0, <2>1, <2>2, <2>3, LastOwner DEF Good
    <3>2. client' = Placed(Request(client, "detach", l, NoSnapshot), {l}, how)
      BY <1>2, <2>3
    <3> HIDE DEF r
    <3> QED BY <1>0, <1>1, <1>3, <2>1, <3>1, <3>2, SentGood
  <2>4. CASE ~(client.count <= 1)
    <3>1. client' = Refused(client, {l})
      BY <1>2, <2>4
    <3> QED BY <1>0, <2>2, <3>1, RefusedGood
  <2> QED BY <2>3, <2>4
<1> HIDE DEF r
<1>5. Steady(r, Placed(r, {l}, how)) /\ Steady(client, Refused(client, {l}))
  BY <1>0, <1>1, BasicSteady
<1>6. Steady(client, client')
  BY <1>1, <1>2, <1>5, SteadyChain
<1>7. Shown(client')
  BY <1>0, <1>6 DEF Steady, Shown
<1> QED BY <1>3, <1>4, <1>7 DEF LeaseInv, Fit

LEMMA CreateKeeps ==
  ASSUME TypeInv, LeaseInv, NEW l \in Leases, CreateSession(l)
  PROVE  LeaseInv'
<1>0. Sound(client) /\ Shown(client)
  BY DEF TypeInv, LeaseInv
<1> DEFINE r == Request(client, "create", l, NoSnapshot)
<1>1. Sound(r) /\ {l} \subseteq Leases /\ "creating" \in Wheres /\ Steady(client, r)
  BY <1>0, BasicSound, BasicSteady, NoSnapshotType DEF Whys, Commands, Wheres, Callers, Tasks
<1>2. client' = Placed(r, {l}, "creating")
  BY DEF CreateSession
<1>3. client.lease[l].at = "none" /\ client.state = "connected" /\ crossed' = crossed
  BY DEF CreateSession
<1>4. InFlight(client, {"create"}) = {}
  BY DEF CreateSession
<1>5. ASSUME ~crossed PROVE Good(client', {})
  <2>1. Good(client, {})
    BY <1>3, <1>5 DEF LeaseInv, Fit, Loose
  <2>3. ~Pending(client, "create")
    BY <1>4, <2>1, JoinsPending
  <2>2. client' = Placed(Request(client, "create", l, NoSnapshot), {l}, "creating")
    BY <1>2
  <2> HIDE DEF r
  <2> QED BY <1>0, <1>1, <1>3, <2>1, <2>2, <2>3, SentGood
<1> HIDE DEF r
<1>6. Steady(client, client')
  BY <1>1, <1>2, BasicSteady, SteadyChain
<1>7. Shown(client')
  BY <1>0, <1>6 DEF Steady, Shown
<1> QED BY <1>3, <1>5, <1>7 DEF LeaseInv, Fit

LEMMA InvalidKeeps ==
  ASSUME TypeInv, LeaseInv, NEW l \in Leases, ReleaseInvalid(l)
  PROVE  LeaseInv'
<1>0. Sound(client) /\ Shown(client)
  BY DEF TypeInv, LeaseInv
<1>1. /\ client' = Dropped(client, {l}) /\ crossed' = crossed
      /\ client.lease[l].at = "held" /\ client.lease[l].gen # client.generation
  BY DEF ReleaseInvalid
<1>2. ASSUME Good(client, {}) PROVE Good(client', {})
  <2>2. {l} \subseteq Leases /\ {l} \cap Own(client, {}) = {}
    BY <1>1 DEF Own, Holding, Waits
  <2>3. \A p \in Open(client) : p.why \in {"detach", "create"} => p.by \notin {l}
    BY <1>1, <1>2 DEF Good, Wanted
  <2> QED BY <1>0, <1>1, <1>2, <2>2, <2>3, DroppedGood
<1>3. ASSUME Loose(client, {}) PROVE Loose(client', {})
  <2> DEFINE d == Dropped(client, {l})
  <2>1. /\ SameLink(client, d) /\ SameCount(client, d) /\ SameRequests(client, d) /\ d.cleanup = client.cleanup
        /\ \A k \in Leases : d.lease[k] = IF k \in {l} THEN Idle ELSE client.lease[k]
    BY <1>0, DroppedFields DEF Sound
  <2> HIDE DEF d
  <2>2. client.count \in Nat /\ d.count = client.count /\ d.exclusive = client.exclusive /\ ~d.cleanup
    BY <1>0, <1>3, <2>1 DEF Sound, IsClient, Loose, SameCount
  <2>3. l \notin Waiting(client) /\ \A a \in client.answered : a.why \in {"detach", "create"} => a.by # l
    BY <1>1, <1>3 DEF Loose, Pursued, Waiting, Waits
  <2>4. \A k \in Leases : d.lease[k] = IF k = l THEN Idle ELSE client.lease[k]
    BY <2>1
  <2>5. Loose(d, {})
    BY <1>3, <2>1, <2>2, <2>3, <2>4, FreedLoose
  <2> QED BY <1>1, <2>5 DEF d
<1>4. Steady(client, client')
  BY <1>0, <1>1, BasicSteady
<1>5. Shown(client')
  BY <1>0, <1>4 DEF Steady, Shown
<1> QED BY <1>1, <1>2, <1>3, <1>5 DEF LeaseInv, Fit

LEMMA CommandKeeps ==
  ASSUME TypeInv, LeaseInv, NEW l \in Leases, Command(l)
  PROVE  LeaseInv'
<1>0. Sound(client) /\ Shown(client) /\ IsClient(client)
  BY DEF TypeInv, LeaseInv, Sound
<1> DEFINE d == Request(client, "command", l, NoSnapshot)
           p == NewRequest(client, "command", l, NoSnapshot)
<1>1. client' = d /\ crossed' = crossed /\ client.state = "connected"
  BY DEF Command
<1>2. "command" \in Whys /\ l \in Callers /\ p.why = "command"
  BY DEF Whys, Commands, Callers, NewRequest
<1>3. /\ SameLink(client, d) /\ SameCount(client, d) /\ SameView(client, d)
      /\ Open(d) = Open(client) \cup {p} /\ d.answered = client.answered /\ d.cleanup = client.cleanup /\ d.lease = client.lease
  BY <1>0, <1>1, <1>2, RequestFields, NoSnapshotType DEF Open
<1> HIDE DEF d, p
<1>4. ASSUME ~crossed PROVE Good(d, {})
  <2>0. Good(client, {})
    BY <1>1, <1>4 DEF LeaseInv, Fit, Loose
  <2>1. Own(d, {}) = Own(client, {})
    BY <1>3 DEF Own, Holding, SameLink
  <2>2. Counted(d, {}) /\ Alone(d, {}) /\ Online(d) /\ Linked(d, {})
    BY <1>1, <1>3, <2>0, <2>1 DEF Good, Counted, Alone, Online, Linked, SameLink, SameCount, Holding
  <2>3. Serial(d)
    BY <1>2, <1>3, <2>0 DEF Good, Serial, Control
  <2>4. Promised(d, {})
    BY <1>3, <2>0 DEF Good, Promised, Pending
  <2>5. Wanted(d, {})
    BY <1>2, <1>3, <2>0 DEF Good, Wanted, SameLink
  <2> QED BY <2>2, <2>3, <2>4, <2>5 DEF Good
<1>5. Shown(d)
  BY <1>0, <1>3 DEF SameLink, SameView, Shown
<1> QED BY <1>1, <1>4, <1>5 DEF LeaseInv, Fit

(* The connection comes. *)
LEMMA ConnectKeeps ==
  ASSUME TypeInv, LeaseInv, Connect \/ ReceiveHello
  PROVE  LeaseInv'
<1>0. Sound(client) /\ IsClient(client) /\ client.state # "connected" /\ crossed' = crossed
  BY DEF TypeInv, Sound, Connect, ReceiveHello
<1>1. \/ client' = [client EXCEPT !.state = "connecting", !.id = client.id + 1,
                                  !.snapshot = NoSnapshot, !.attached = FALSE]
      \/ client' = [client EXCEPT !.state = "connected"] /\ client.answered = {}
  BY DEF Connect, ReceiveHello
<1>2. /\ client'.generation = client.generation /\ SameCount(client, client')
      /\ client'.pending = client.pending /\ client'.answered = client.answered
      /\ client'.cleanup = client.cleanup /\ client'.lease = client.lease
      /\ client'.state = "connected" => client.answered = {}
  BY <1>0, <1>1 DEF IsClient, Fields, SameCount
<1>3. Shown(client')
  BY <1>0, <1>1 DEF IsClient, Fields, Shown, LeaseInv
<1>4. ASSUME ~crossed PROVE Fit(client')
  <2>1. Loose(client, {})
    BY <1>0, <1>4 DEF LeaseInv, Fit, Good, Online
  <2> QED BY <1>0, <1>2, <2>1, SameLoose, LinkedGood DEF Fit
<1> QED BY <1>0, <1>3, <1>4 DEF LeaseInv

(* The connection ends. *)
LEMMA DisconnectedKeeps ==
  ASSUME TypeInv, LeaseInv, NEW to \in {"disconnected", "disposed"}, EndConnection(to)
  PROVE  LeaseInv'
<1>0. Sound(client) /\ to \in States /\ to # "connected"
  BY DEF TypeInv, States
<1>1. client' = Disconnected(client, to) /\ crossed' = (crossed \/ Granted(client))
  BY DEF EndConnection
<1>2. ~client'.attached
  BY <1>0, <1>1, DisconnectedFields
<1>3. ASSUME ~crossed' PROVE Loose(client', {})
  BY <1>0, <1>1, <1>3, EndedLoose, DisconnectedLoose DEF LeaseInv, Fit
<1> QED BY <1>2, <1>3 DEF LeaseInv, Shown, Fit

(* An event of the server: the session is removed, or it has changed. *)
LEMMA EventKeeps ==
  ASSUME TypeInv, LeaseInv, client.state = "connected", NEW m \in Messages, HandleEvent(m)
  PROVE  LeaseInv'
<1>0. Sound(client) /\ IsClient(client) /\ Gens(client)
  BY DEF TypeInv, Sound
<1>m. m.snapshot \in Snapshots /\ m.attached \in BOOLEAN
  BY DEF Messages
<1>1. CASE m.type = "session_removed"
  <2> DEFINE i == Invalidated(client)
             d == [i EXCEPT !.attached = FALSE, !.snapshot = NoSnapshot]
  <2>1. /\ IsClient(i) /\ i.pending = client.pending /\ i.state = client.state /\ i.answered = client.answered /\ i.id = client.id
        /\ i.generation = client.generation + 1 /\ i.lease = client.lease
        /\ i.count = 0 /\ i.exclusive = NoLease
    BY <1>0, InvalidatedFields DEF SameRequests
  <2>2. client' = d /\ crossed' = (crossed \/ Unsettled(client) \/ Granted(client))
    BY <1>1 DEF HandleEvent
  <2> HIDE DEF i
  <2>3. /\ d.attached = FALSE /\ d.pending = client.pending /\ d.state = "connected" /\ d.answered = client.answered /\ d.id = client.id
        /\ d.generation = client.generation + 1 /\ d.lease = client.lease
        /\ d.count = 0 /\ d.exclusive = NoLease
    BY <2>1 DEF IsClient, Fields
  <2> HIDE DEF d
  <2>4. ASSUME ~crossed' PROVE Good(d, {})
    <3>1. Good(client, {})
      BY <2>2, <2>4 DEF LeaseInv, Fit, Loose
    <3>2. \A w \in Control : ~Pending(client, w)
      BY <2>2, <2>4 DEF Unsettled, Pending, Control, Open
    <3>3. \A w \in Control : ~Pending(d, w)
      BY <2>3, <3>2 DEF Pending, Open
    <3>4. \A l \in Leases : client.lease[l].at \notin Waits
      BY <3>1, <3>2 DEF Good, Promised, Control, Waits
    <3>5. \A l \in Leases : d.lease[l].gen # d.generation
      <4>1. \A l \in Leases : client.lease[l].gen \in Nat /\ client.generation \in Nat
        BY <1>0 DEF IsClient, LeaseRecords
      <4> QED BY <1>0, <2>3, <4>1 DEF Gens
    <3>6. Own(d, {}) = {}
      BY <2>3, <3>4, <3>5 DEF Own, Holding
    <3>7. Serial(d)
      BY <2>3, <3>1 DEF Good, Serial, Open
    <3>8. \A p \in Open(d) : p.why = "create" => p.by \in Leases /\ d.lease[p.by].at = "creating"
      BY <2>3, <3>1 DEF Good, Wanted, Open
    <3>9. Online(d)
      BY <2>3, <3>1 DEF Good, Online
    <3> QED BY <2>3, <3>3, <3>6, <3>7, <3>8, <3>9, EmptyGood
  <2> QED BY <2>2, <2>3, <2>4 DEF LeaseInv, Shown, Fit
<1>2. CASE m.type # "session_removed"
  <2>1. client' = AppliedSnapshot(client, m) /\ crossed' = crossed
    BY <1>2 DEF HandleEvent
  <2>2. Unseen(client, client')
    BY <1>0, <1>m, <2>1, AppliedFields
  <2>3. Shown(client')
    BY <2>2 DEF Unseen, SameLink, Shown
  <2>4. ASSUME ~crossed PROVE Good(client', {})
    BY <2>2, <2>4, UnseenGood DEF LeaseInv, Fit, Loose
  <2> QED BY <2>1, <2>3, <2>4 DEF LeaseInv, Fit
<1> QED BY <1>1, <1>2

(* A response settles the promise of its request. *)
LEMMA RespondedGood ==
  ASSUME NEW c, Sound(c), Good(c, {}), NEW p \in c.pending, NEW ok \in BOOLEAN
  PROVE  Good(Responded(c, p, ok), {})
<1> DEFINE d == Responded(c, p, ok)
           a == Answered(c, p, ok)
<1>1. /\ Sound(d) /\ SameLink(c, d) /\ SameCount(c, d) /\ d.cleanup = c.cleanup /\ d.lease = c.lease
      /\ d.pending = c.pending \ {p}
      /\ d.answered = IF p.why = "command" THEN c.answered ELSE c.answered \cup {a}
  BY RespondedSound
<1>2. a.why = p.why /\ a.by = p.by /\ a.conn = c.id /\ a.caught = FALSE
  BY DEF Answered
<1>3. p \notin c.answered /\ p \in Open(c)
  BY Disjoint DEF Open
<1> HIDE DEF d, a
<1>4. CASE p.why = "command"
  <2>1. Open(d) = Open(c) \ {p}
    BY <1>1, <1>3, <1>4 DEF Open
  <2>2. Taken(c, d, p)
    BY <1>1, <1>3, <1>4, <2>1 DEF Taken
  <2>3. Good(d, {})
    BY <1>4, <2>2, OtherTaken DEF Control
  <2> QED BY <2>3 DEF d
<1>5. CASE p.why # "command"
  <2>1. Open(d) = (Open(c) \ {p}) \cup {a}
    BY <1>1, <1>3, <1>5 DEF Open
  <2>2. Swapped(c, d, p, a)
    BY <1>1, <1>2, <1>3, <2>1 DEF Swapped
  <2>3. Online(d)
    BY <1>1, <1>2, <1>5 DEF Good, Online, SameLink
  <2>4. Good(d, {})
    BY <2>2, <2>3, SwappedGood
  <2> QED BY <2>4 DEF d
<1> QED BY <1>4, <1>5

(* A response, also one that nobody waits for. *)
LEMMA ResponseKeeps ==
  ASSUME TypeInv, LeaseInv, client.state = "connected", NEW m \in Messages, HandleResponse(m)
  PROVE  LeaseInv'
<1>0. Sound(client)
  BY DEF TypeInv
<1>m. m.snapshot \in Snapshots /\ m.attached \in BOOLEAN /\ m.ok \in BOOLEAN
  BY DEF Messages
<1> DEFINE ps == {p \in client.pending : p.id = m.id}
<1>1. CASE ps = {}
  <2>1. EndConnection("disconnected")
    BY <1>1 DEF HandleResponse
  <2> QED BY <2>1, DisconnectedKeeps
<1>2. CASE ps # {}
  <2> DEFINE p == CHOOSE q \in ps : TRUE
             d == IF m.ok THEN AppliedResult(client, p, m) ELSE client
  <2>1. p \in client.pending
    BY <1>2
  <2>2. client' = Responded(d, p, m.ok) /\ crossed' = crossed
    BY <1>2 DEF HandleResponse
  <2> HIDE DEF p
  <2>3. Sound(d) /\ Unseen(client, d)
    <3>1. d = client \/ d = AppliedResult(client, p, m)
      OBVIOUS
    <3>2. Unseen(client, client)
      BY DEF Unseen, SameLink, SameCount
    <3> HIDE DEF d
    <3> QED BY <1>0, <1>m, <3>1, <3>2, AppliedFields
  <2> HIDE DEF d
  <2>4. p \in d.pending /\ d.state = "connected"
    BY <2>1, <2>3 DEF Unseen, SameLink
  <2>5. ASSUME ~crossed PROVE Good(client', {})
    <3>1. Good(client, {})
      BY <2>5 DEF LeaseInv, Fit, Loose
    <3>2. Good(d, {})
      BY <2>3, <3>1, UnseenGood
    <3> QED BY <1>m, <2>2, <2>3, <2>4, <3>2, RespondedGood
  <2>6. client'.state = "connected"
    <3>1. SameLink(d, client')
      BY <1>m, <2>2, <2>3, <2>4, RespondedSound
    <3> QED BY <2>4, <3>1 DEF SameLink
  <2> QED BY <2>2, <2>5, <2>6 DEF LeaseInv, Shown, Fit
<1> QED BY <1>1, <1>2

(* The failure of a detachment is caught, *)
LEMMA CaughtFit ==
  ASSUME NEW c, Sound(c), Fit(c), NEW p \in c.answered, Failing(p)
  PROVE  Fit(Caught(c, p))
<1> DEFINE q == [p EXCEPT !.caught = TRUE]
           d == Caught(c, p)
<1>1. p \in Answers /\ p \notin c.pending
  BY Disjoint DEF Sound, IsClient
<1>2. q \in Answers /\ q.why = p.why /\ q.by = p.by /\ q.ok = p.ok /\ q.conn = p.conn /\ q.caught
  BY <1>1 DEF Answers
<1>3. p.why = "detach" /\ ~p.ok
  BY DEF Failing
<1>4. d = [c EXCEPT !.answered = (c.answered \ {p}) \cup {q}]
  BY DEF Caught
<1> HIDE DEF q, d
<1>5. /\ SameLink(c, d) /\ SameCount(c, d) /\ d.cleanup = c.cleanup /\ d.lease = c.lease
      /\ d.pending = c.pending /\ d.answered = (c.answered \ {p}) \cup {q}
  BY <1>4 DEF Sound, IsClient, Fields, SameLink, SameCount
<1>6. Open(d) = (Open(c) \ {p}) \cup {q} /\ p \in Open(c)
  BY <1>1, <1>5 DEF Open
<1>7. ASSUME Good(c, {}) PROVE Good(d, {})
  <2>1. Swapped(c, d, p, q)
    BY <1>2, <1>5, <1>6 DEF Swapped
  <2>2. Online(d)
    BY <1>2, <1>3, <1>5, <1>7 DEF Good, Online, SameLink
  <2> QED BY <1>7, <2>1, <2>2, SwappedGood
<1>8. ASSUME Loose(c, {}) PROVE Loose(d, {})
  <2>1. Waiting(d) = Waiting(c)
    BY <1>5 DEF Waiting
  <2>2. Promised(d, {})
    <3>1. \A w : Pending(c, w) => Pending(d, w)
      BY <1>2, <1>6 DEF Pending
    <3> QED BY <1>5, <1>8, <3>1 DEF Loose, Promised
  <2>3. Pursued(d, {})
    BY <1>2, <1>3, <1>5, <1>8 DEF Loose, Pursued
  <2>4. Distinct(d)
    BY <1>2, <1>5, <1>8 DEF Loose, Distinct
  <2> QED BY <1>5, <1>8, <2>1, <2>2, <2>3, <2>4 DEF Loose, SameLink, SameCount, Lapsed
<1>9. Fit(d)
  BY <1>7, <1>8 DEF Fit
<1> QED BY <1>9 DEF d

(* and those who await an answer go on. *)
LEMMA ContinuedFit ==
  ASSUME NEW c, Sound(c), Fit(c), Shown(c), NEW p \in c.answered
  PROVE  Fit(Settled(Passed(c, p), p))
<1> DEFINE d == Passed(c, p)
<1>1. p \in Answers /\ p \notin c.pending
  BY Disjoint DEF Sound, IsClient
<1>2. Sound(d)
  BY GoOnSound
<1>3. /\ SameLink(c, d) /\ SameCount(c, d) /\ SameView(c, d) /\ d.cleanup = c.cleanup /\ d.lease = c.lease
      /\ d.pending = c.pending /\ d.answered = c.answered \ {p}
  BY DEF Passed, Sound, IsClient, Fields, SameLink, SameCount, SameView
<1> HIDE DEF d
<1>4. Taken(c, d, p)
  BY <1>1, <1>3 DEF Taken, Open
<1>5. ASSUME Good(c, {}) PROVE Good(Settled(d, p), {})
  BY <1>1, <1>2, <1>4, <1>5, SettledGood
<1>6. ASSUME Loose(c, {}) PROVE Loose(Settled(d, p), {})
  <2>1. d.pending = {} /\ ~d.attached
    BY <1>3, <1>6 DEF Loose, Shown, SameView
  <2> QED BY <1>1, <1>2, <1>3, <1>4, <1>6, <2>1, SettledLoose
<1>7. Fit(Settled(d, p))
  BY <1>5, <1>6 DEF Fit
<1> QED BY <1>7 DEF d

LEMMA GoOnKeeps ==
  ASSUME TypeInv, LeaseInv, NEW why \in Tasks, GoOn(why)
  PROVE  LeaseInv'
<1>0. Sound(client) /\ Shown(client)
  BY DEF TypeInv, LeaseInv
<1>1. PICK p \in client.answered : CatchDetachment(p) \/ Continue(p)
  BY DEF GoOn
<1>2. crossed' = crossed
  BY <1>1 DEF CatchDetachment, Continue
<1>3. CASE CatchDetachment(p)
  <2>1. client' = Caught(client, p) /\ Failing(p)
    BY <1>3 DEF CatchDetachment, Caught
  <2>2. Shown(client')
    BY <1>0, <2>1 DEF Caught, Shown, Sound, IsClient, Fields
  <2> QED BY <1>0, <1>2, <2>1, <2>2, CaughtFit DEF LeaseInv
<1>4. CASE Continue(p)
  <2> DEFINE d == Passed(client, p)
  <2>1. client' = Settled(d, p)
    BY <1>4 DEF Continue, Passed
  <2>2. p \in Answers /\ Sound(d) /\ (p.why \in {"detach", "create"} => p.by \in Leases)
    BY <1>0, GoOnSound DEF Sound, Asked, Open
  <2>3. Steady(client, d)
    BY <1>0 DEF Passed, Steady, Sound, IsClient, Fields
  <2>4. ~crossed => Fit(client')
    BY <1>0, <2>1, ContinuedFit DEF LeaseInv
  <2> HIDE DEF d
  <2>5. Steady(d, client')
    BY <2>1, <2>2, SettledSteady
  <2>6. Shown(client')
    BY <1>0, <2>3, <2>5 DEF Steady, Shown
  <2> QED BY <1>2, <2>4, <2>6 DEF LeaseInv
<1> QED BY <1>1, <1>3, <1>4

(* Every step. *)
LEMMA NextLeases == TypeInv /\ LeaseInv /\ [Next]_vars => LeaseInv'
<1> SUFFICES ASSUME TypeInv, LeaseInv, [Next]_vars PROVE LeaseInv'
  OBVIOUS
<1>1. CASE \E l \in Leases : Calls(l)
  BY <1>1, AcquireKeeps, ReleaseKeeps, CreateKeeps, InvalidKeeps, CommandKeeps DEF Calls
<1>2. CASE Connect \/ ReceiveHello
  BY <1>2, ConnectKeeps
<1>3. CASE \E to \in {"disconnected", "disposed"} : Disconnect(to)
  <2>1. PICK to \in {"disconnected", "disposed"} : Disconnect(to)
    BY <1>3
  <2>2. EndConnection(to)
    BY <2>1 DEF Disconnect
  <2> QED BY <2>2, DisconnectedKeeps
<1>4. CASE HandleMessage
  <2> DEFINE m == Head(wire)
  <2>1. m \in Messages
    BY <1>4 DEF HandleMessage, TypeInv
  <2>2. \/ UNCHANGED <<client, crossed>>
        \/ client.state = "connected" /\ HandleResponse(m)
        \/ client.state = "connected" /\ HandleEvent(m)
    BY <1>4 DEF HandleMessage, IsCurrent
  <2> HIDE DEF m
  <2>3. CASE UNCHANGED <<client, crossed>>
    BY <2>3 DEF LeaseInv
  <2> QED BY <2>1, <2>2, <2>3, ResponseKeeps, EventKeeps
<1>5. CASE ServerSteps
  <2>1. Unseen(client, client') /\ SameView(client, client') /\ crossed' = crossed
    BY <1>5, ServerStepClient
  <2>2. ASSUME ~crossed PROVE Fit(client')
    <3>1. ASSUME Loose(client, {}) PROVE Loose(client', {})
      BY <2>1, <3>1, SameLoose DEF Unseen, SameLink, Loose
    <3> QED BY <2>1, <2>2, <3>1, UnseenGood DEF LeaseInv, Fit
  <2>3. Shown(client')
    BY <2>1 DEF Unseen, SameLink, SameView, Shown, LeaseInv
  <2> QED BY <2>1, <2>2, <2>3 DEF LeaseInv
<1>6. CASE UNCHANGED vars
  BY <1>6 DEF vars, LeaseInv
<1>7. CASE \E why \in Tasks : GoOn(why)
  BY <1>7, GoOnKeeps
<1>8. ASSUME Server \/ Troubles PROVE ServerSteps
  BY <1>8 DEF Server, Troubles, ServerSteps
<1> QED
  BY <1>1, <1>2, <1>3, <1>4, <1>5, <1>6, <1>7, <1>8 DEF Next

(* The leases and the requests of the client stay consistent with each other
   through every call, answer, continuation, failure and loss of the
   connection, as long as no lease is taken too late (crossed). *)
THEOREM LeasesConsistent == Spec => []LeaseInv
<1> QED
  BY InitLeases, NextLeases, TypesHold, PTL DEF Spec

(* ExclusiveAlone: the number of leases of PiClient is the number of leases
   and acquisitions that still have to release, and an exclusive one is the
   only one, unless a lease was taken too late or the end of the connection is
   still being passed on. *)
THEOREM ExclusiveIsAlone == Spec => []ExclusiveAlone
<1>1. TypeInv /\ LeaseInv => ExclusiveAlone
  <2> SUFFICES ASSUME TypeInv, LeaseInv, ~crossed, client.state = "connected" \/ client.answered = {}
               PROVE  ExclusiveAlone
    BY DEF ExclusiveAlone
  <2>1. Own(client, {}) = Owners
    BY DEF Own, Owners, Holding, Waits, Keeps
  <2>2. CASE Good(client, {})
    <3>1. client.count = Cardinality(Owners)
      BY <2>1, <2>2 DEF Good, Counted
    <3>2. ASSUME NEW l \in Owners, client.lease[l].mode = "exclusive" PROVE Owners = {l}
      BY <2>1, <2>2, <3>2 DEF Good, Alone
    <3> QED BY <3>1, <3>2 DEF ExclusiveAlone
  <2>3. CASE Loose(client, {})
    <3>1. client.answered = {} /\ client.pending = {}
      BY <2>3 DEF Loose
    <3>2. Waiting(client) = {}
      BY <2>3, <3>1 DEF Waiting, Waits, Loose, Promised, Pending, Open
    <3>3. Waiting(client) \cup {} = {} /\ Cardinality({}) = 0 /\ client.count \in Nat
      BY <3>2, FS_EmptySet DEF TypeInv, Sound, IsClient
    <3>4. Owners = {}
      BY <2>1, <2>3, <3>2 DEF Own, Waiting, Loose, Lapsed, Holding
    <3>5. client.count = 0
      BY <2>3, <3>3 DEF Loose
    <3> QED BY <3>3, <3>4, <3>5 DEF ExclusiveAlone
  <2> QED BY <2>2, <2>3 DEF LeaseInv, Fit
<1> QED
  BY <1>1, LeasesConsistent, TypesHold, PTL

(* SerialControl: the server never gets two requests of one client at a time
   that attach, detach or reconcile its connection. *)
THEOREM ControlIsSerial == Spec => []SerialControl
<1>1. LeaseInv => SerialControl
  <2> SUFFICES ASSUME LeaseInv, ~crossed PROVE SerialControl
    BY DEF SerialControl
  <2> DEFINE ps == {p \in client.pending : p.why \in {"attach", "detach", "reconcile"}}
  <2>1. \A p, q \in ps : p = q
    BY DEF LeaseInv, Fit, Good, Serial, Control, Loose, Open
  <2> HIDE DEF ps
  <2>2. CASE ps = {}
    <3>1. Cardinality(ps) = 0
      BY <2>2, FS_EmptySet
    <3> QED BY <3>1 DEF SerialControl, ps
  <2>3. CASE ps # {}
    <3>1. PICK p \in ps : TRUE
      BY <2>3
    <3>2. ps = {p}
      BY <2>1, <3>1
    <3>3. Cardinality(ps) = 1
      BY <3>2, FS_Singleton
    <3> QED BY <3>3 DEF SerialControl, ps
  <2> QED BY <2>2, <2>3
<1> QED
  BY <1>1, LeasesConsistent, PTL

(* LeaseOfConnection: a lease that is active was taken on the connection that
   the client has now, unless one was taken after its connection had ended. *)
THEOREM LeasesOfConnection == Spec => []LeaseOfConnection
<1>1. LeaseInv => LeaseOfConnection
  BY DEF LeaseInv, Fit, LeaseOfConnection, Active, Shown, Good, Linked, Holding, Keeps, Loose
<1> QED
  BY <1>1, LeasesConsistent, PTL
=============================================================================
