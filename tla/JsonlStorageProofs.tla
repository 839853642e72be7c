-------------------------- MODULE JsonlStorageProofs --------------------------
(***************************************************************************)
(* Proofs about JsonlStorage, for any sets of ids and lanes and any        *)
(* bounds: what a crash leaves of a file is loaded with every mutation     *)
(* that resolved, and the mutations of a fork are replayed to what was     *)
(* forked.                                                                 *)
(*                                                                         *)
(* What Replay and Branch compute is shown by induction on the length of   *)
(* the log and of the list of entries: over a set of numbers, which has a  *)
(* least element.  The inductive invariant IInv says what the file is at   *)
(* each stage of an append and what a crash leaves of it, always as the    *)
(* log of what resolved and at most one mutation that follows it.          *)
(***************************************************************************)
EXTENDS JsonlStorage, WellFoundedInduction, FiniteSetTheorems, TLAPS

-----------------------------------------------------------------------------
(* Induction up to n, over a set: what the library's theorem says of an
   operator is here said of the set of numbers that have the property. *)
LEMMA UpTo ==
  ASSUME NEW n \in Nat, NEW S, 0 \in S, \A i \in 0..n : i < n /\ i \in S => i + 1 \in S
  PROVE  \A i \in 0..n : i \in S
<1> DEFINE R == OpToRel(<, Nat)
           T == {i \in 0..n : i \notin S}
<1> SUFFICES ASSUME T # {} PROVE FALSE
  OBVIOUS
<1>1. T \subseteq Nat
  OBVIOUS
<1>2. IsWellFoundedOn(R, Nat)
  BY NatLessThanWellFounded
<1> HIDE DEF R
<1>3. PICK x \in T : \A y \in T : ~(<<y, x>> \in R)
  BY <1>1, <1>2, WFMin
<1>4. \A y \in T : ~(y < x)
  BY <1>1, <1>3 DEF R, OpToRel
<1>5. x # 0 /\ x \in 0..n
  BY <1>3
<1>6. x - 1 \in 0..n /\ x - 1 < x /\ x - 1 < n /\ (x - 1) + 1 = x
  BY <1>5
<1>7. x - 1 \in S
  BY <1>4, <1>6
<1> QED BY <1>3, <1>6, <1>7

-----------------------------------------------------------------------------
(* Replaying a log. *)
Fresh == [ok |-> TRUE, state |-> Empty]
RunOf(log, n, g) == g[0] = Fresh /\ \A i \in 1..n : g[i] = Replayed(g[i - 1], log[i])

(* The mutations that two logs begin with give the same. *)
LEMMA RunsAgree ==
  ASSUME NEW n \in Nat, NEW log, NEW g, RunOf(log, n, g), NEW lag, NEW h, RunOf(lag, n, h),
         \A i \in 1..n : log[i] = lag[i]
  PROVE  g[n] = h[n]
<1> DEFINE S == {i \in 0..n : g[i] = h[i]}
<1>1. 0 \in S
  BY DEF RunOf
<1>2. ASSUME NEW i \in 0..n, i < n, i \in S PROVE i + 1 \in S
  <2>1. i + 1 \in 1..n /\ (i + 1) - 1 = i /\ g[i] = h[i]
    BY <1>2
  <2>2. g[i + 1] = Replayed(g[i], log[i + 1]) /\ h[i + 1] = Replayed(h[i], lag[i + 1])
    BY <2>1 DEF RunOf
  <2>3. g[i + 1] = h[i + 1]
    BY <2>1, <2>2
  <2> QED BY <2>1, <2>3
<1> HIDE DEF S
<1>3. n \in S
  BY <1>1, <1>2, UpTo
<1> QED BY <1>3 DEF S

RunOn(log, n, g) ==
  g = [i \in 0..n |-> IF i = 0 THEN [ok |-> TRUE, state |-> Empty] ELSE Replayed(g[i - 1], log[i])]

(* A log can be replayed. *)
LEMMA RunExists ==
  ASSUME NEW n \in Nat, NEW log
  PROVE  \E g : RunOn(log, n, g)
<1> DEFINE S == {i \in 0..n : \E g : RunOn(log, i, g)}
<1>1. 0 \in S
  <2> DEFINE g == [i \in 0..0 |-> Fresh]
  <2>1. \A i \in 0..0 : i = 0
    OBVIOUS
  <2>2. RunOn(log, 0, g)
    BY <2>1 DEF RunOn, Fresh
  <2> QED BY <2>2
<1>2. ASSUME NEW k \in 0..n, k < n, k \in S PROVE k + 1 \in S
  <2>1. PICK g : RunOn(log, k, g)
    BY <1>2
  <2> DEFINE h == [i \in 0..(k + 1) |-> IF i = k + 1 THEN Replayed(g[k], log[k + 1]) ELSE g[i]]
             f == [i \in 0..(k + 1) |-> IF i = 0 THEN [ok |-> TRUE, state |-> Empty] ELSE Replayed(h[i - 1], log[i])]
  <2>2. ASSUME NEW i \in 0..(k + 1) PROVE h[i] = f[i]
    <3>1. CASE i = k + 1
      <4>1. i # 0 /\ i - 1 = k /\ k \in 0..(k + 1) /\ k # k + 1
        BY <3>1
      <4>2. h[i - 1] = g[k]
        BY <4>1
      <4> QED BY <3>1, <4>1, <4>2
    <3>2. CASE i # k + 1
      <4>1. i \in 0..k /\ (i # 0 => i - 1 \in 0..(k + 1) /\ i - 1 # k + 1)
        BY <3>2
      <4>2. h[i] = g[i] /\ (i # 0 => h[i - 1] = g[i - 1])
        BY <3>2, <4>1
      <4>3. g[i] = IF i = 0 THEN [ok |-> TRUE, state |-> Empty] ELSE Replayed(g[i - 1], log[i])
        BY <2>1, <4>1 DEF RunOn
      <4> QED BY <4>1, <4>2, <4>3
    <3> QED BY <3>1, <3>2
  <2>3. h = f
    BY <2>2
  <2>4. RunOn(log, k + 1, h)
    BY <2>3 DEF RunOn
  <2>5. k + 1 \in 0..n
    BY <1>2
  <2> QED BY <2>4, <2>5
<1> HIDE DEF S
<1>3. n \in S
  BY <1>1, <1>2, UpTo
<1> QED BY <1>3 DEF S

(* Replay is the last state of such a run, *)
LEMMA ReplayRuns ==
  ASSUME NEW log, Len(log) \in Nat
  PROVE  \E g : RunOf(log, Len(log), g) /\ Replay(log) = g[Len(log)]
<1> DEFINE run == CHOOSE g : RunOn(log, Len(log), g)
<1>1. RunOn(log, Len(log), run)
  BY RunExists
<1>2. Replay(log) = run[Len(log)]
  BY DEF Replay, RunOn
<1> HIDE DEF run
<1>3. RunOf(log, Len(log), run)
  <2>1. run[0] = Fresh
    BY <1>1 DEF RunOn, Fresh
  <2>2. ASSUME NEW i \in 1..Len(log) PROVE run[i] = Replayed(run[i - 1], log[i])
    <3>1. i \in 0..Len(log) /\ i # 0
      OBVIOUS
    <3> QED BY <1>1, <3>1 DEF RunOn
  <2> QED BY <2>1, <2>2 DEF RunOf
<1> QED BY <1>2, <1>3

(* and of every such run. *)
LEMMA ReplayIs ==
  ASSUME NEW log, Len(log) \in Nat, NEW g, RunOf(log, Len(log), g)
  PROVE  Replay(log) = g[Len(log)]
<1>1. PICK h : RunOf(log, Len(log), h) /\ Replay(log) = h[Len(log)]
  BY ReplayRuns
<1> QED BY <1>1, RunsAgree

(* No mutation: the empty session. *)
LEMMA ReplayEmpty == Replay(<<>>) = Fresh
<1>1. Len(<<>>) = 0
  OBVIOUS
<1>2. PICK h : RunOf(<<>>, 0, h) /\ Replay(<<>>) = h[0]
  BY <1>1, ReplayRuns
<1> QED BY <1>2 DEF RunOf

(* One more mutation. *)
LEMMA ReplayAppend ==
  ASSUME NEW S, NEW log \in Seq(S), NEW m \in S
  PROVE  Replay(Append(log, m)) = Replayed(Replay(log), m)
<1> DEFINE n == Len(log)
           lag == Append(log, m)
<1>1. n \in Nat /\ Len(lag) = n + 1 /\ lag[n + 1] = m /\ \A i \in 1..n : lag[i] = log[i]
  OBVIOUS
<1> HIDE DEF n, lag
<1>2. PICK g : RunOf(log, n, g) /\ Replay(log) = g[n]
  BY <1>1, ReplayRuns DEF n
<1>3. PICK h : RunOf(lag, n + 1, h) /\ Replay(lag) = h[n + 1]
  BY <1>1, ReplayRuns
<1>4. RunOf(lag, n, h) /\ h[n + 1] = Replayed(h[n], m)
  <2>1. n + 1 \in 1..(n + 1) /\ (n + 1) - 1 = n /\ \A i \in 1..n : i \in 1..(n + 1)
    BY <1>1
  <2> QED BY <1>1, <1>3, <2>1 DEF RunOf
<1>5. g[n] = h[n]
  BY <1>1, <1>2, <1>4, RunsAgree
<1> QED BY <1>2, <1>3, <1>4, <1>5 DEF lag

-----------------------------------------------------------------------------
(* The state of a session and the mutations that are written. *)
Leaves == Ids \cup {Root}
Entries == [id : Ids, parent : Leaves]
StateFields == {"seq", "used", "entries", "lanes", "open", "named", "labels"}

IsState(s) ==
  /\ DOMAIN s = StateFields
  /\ s.seq \in Nat /\ s.used \subseteq Ids /\ s.entries \in Seq(Entries)
  /\ s.lanes \in [Lanes -> Leaves \cup {Absent}] /\ s.open \in [Lanes -> SUBSET Ids]
  /\ s.named \in BOOLEAN /\ s.labels \subseteq Ids

Written(m) ==
  /\ m \in Mutations /\ m.kind \in {"entry", "started", "finished", "lane", "name", "label"}
  /\ m.kind = "entry" => m.id \in Ids /\ m.ref \in Leaves
  /\ m.kind \in {"started", "finished"} => m.id \in Ids /\ m.lane \in Lanes
  /\ m.kind = "lane" => m.lane \in Lanes /\ m.ref \in Leaves
  /\ m.kind = "label" => m.ref \in Ids

(* An entry comes after its parent, ids are not used again, and lanes and
   labels are about entries that are there. *)
Rooted(es) ==
  \A i \in 1..Len(es) : es[i].parent = Root \/ \E k \in 1..Len(es) : k < i /\ es[k].id = es[i].parent
Unique(es) == \A i, k \in 1..Len(es) : es[i].id = es[k].id => i = k
Consistent(s) ==
  /\ IsState(s) /\ Rooted(s.entries) /\ Unique(s.entries) /\ EntryIds(s) \subseteq s.used
  /\ \A l \in Lanes : s.lanes[l] # Absent => Target(s, s.lanes[l])
  /\ s.lanes[Main] # Absent /\ s.labels \subseteq EntryIds(s)
  /\ IsFiniteSet({l \in Lanes : s.lanes[l] # Absent})

(* The ids of entries, by position. *)
LEMMA EntryIdsAre ==
  ASSUME NEW s, s.entries \in Seq(Entries)
  PROVE  EntryIds(s) = {s.entries[i].id : i \in 1..Len(s.entries)}
BY DEF EntryIds

(* A session that was just created. *)
LEMMA EmptyConsistent == Consistent(Empty)
<1>1. IsState(Empty)
  BY NamesAssumption DEF IsState, Empty, StateFields, Leaves
<1>2. Empty.entries = <<>> /\ Len(Empty.entries) = 0 /\ Empty.labels = {} /\ Empty.used = {}
  BY DEF Empty
<1>3. EntryIds(Empty) = {}
  BY <1>2 DEF EntryIds
<1>4. Rooted(Empty.entries) /\ Unique(Empty.entries)
  BY <1>2 DEF Rooted, Unique
<1>5. \A l \in Lanes : Empty.lanes[l] = (IF l = Main THEN Root ELSE Absent)
  BY DEF Empty
<1>6. Root # Absent /\ Main \in Lanes
  BY NamesAssumption
<1>7. IsFiniteSet({l \in Lanes : Empty.lanes[l] # Absent})
  <2>1. {l \in Lanes : Empty.lanes[l] # Absent} = {Main}
    BY <1>5, <1>6
  <2> QED BY <2>1, FS_Singleton
<1> QED BY <1>1, <1>2, <1>3, <1>4, <1>5, <1>6, <1>7 DEF Consistent, Target

(* What a mutation changes. *)
LEMMA AppliedFields ==
  ASSUME NEW s, IsState(s), NEW m, Written(m)
  PROVE  LET t == Applied(s, m)
         IN  /\ DOMAIN t = StateFields /\ t.seq = m.seq
             /\ t.used = IF m.kind \in {"entry", "started", "finished"} THEN s.used \cup {m.id} ELSE s.used
             /\ t.entries = IF m.kind = "entry" THEN Append(s.entries, [id |-> m.id, parent |-> m.ref]) ELSE s.entries
             /\ t.lanes = IF m.kind = "entry" /\ m.lane # Absent THEN [s.lanes EXCEPT ![m.lane] = m.id]
                          ELSE IF m.kind = "lane" THEN [s.lanes EXCEPT ![m.lane] = m.ref] ELSE s.lanes
             /\ t.open = IF m.kind = "started" THEN [s.open EXCEPT ![m.lane] = s.open[m.lane] \cup {m.id}]
                         ELSE IF m.kind = "finished" THEN [s.open EXCEPT ![m.lane] = s.open[m.lane] \ {m.ref}] ELSE s.open
             /\ t.named = IF m.kind = "name" THEN m.set ELSE s.named
             /\ t.labels = IF m.kind = "label" THEN IF m.set THEN s.labels \cup {m.ref} ELSE s.labels \ {m.ref}
                           ELSE s.labels
<1> DEFINE used == IF m.kind \in {"entry", "started", "finished"} THEN s.used \cup {m.id} ELSE s.used
           b == [s EXCEPT !.seq = m.seq, !.used = used]
           t == Applied(s, m)
<1>0. m.kind \in {"entry", "started", "finished", "lane", "name", "label"}
  BY DEF Written
<1>1. /\ DOMAIN b = StateFields /\ b.seq = m.seq /\ b.used = used /\ b.entries = s.entries /\ b.lanes = s.lanes
      /\ b.open = s.open /\ b.named = s.named /\ b.labels = s.labels
  BY DEF IsState, StateFields
<1>2. /\ m.kind = "entry" => t = [b EXCEPT !.entries = Append(b.entries, [id |-> m.id, parent |-> m.ref]),
                                           !.lanes = IF m.lane = Absent THEN b.lanes ELSE [b.lanes EXCEPT ![m.lane] = m.id]]
      /\ m.kind = "started" => t = [b EXCEPT !.open = [b.open EXCEPT ![m.lane] = b.open[m.lane] \cup {m.id}]]
      /\ m.kind = "finished" => t = [b EXCEPT !.open = [b.open EXCEPT ![m.lane] = b.open[m.lane] \ {m.ref}]]
      /\ m.kind = "lane" => t = [b EXCEPT !.lanes = [b.lanes EXCEPT ![m.lane] = m.ref]]
      /\ m.kind = "name" => t = [b EXCEPT !.named = m.set]
      /\ m.kind = "label" => t = [b EXCEPT !.labels = IF m.set THEN b.labels \cup {m.ref} ELSE b.labels \ {m.ref}]
  <2> USE DEF Applied
  <2>1. m.kind = "entry" => t = [b EXCEPT !.entries = Append(b.entries, [id |-> m.id, parent |-> m.ref]),
                                          !.lanes = IF m.lane = Absent THEN b.lanes ELSE [b.lanes EXCEPT ![m.lane] = m.id]]
    OBVIOUS
  <2>2. m.kind = "started" => t = [b EXCEPT !.open = [b.open EXCEPT ![m.lane] = b.open[m.lane] \cup {m.id}]]
    BY <1>1 DEF StateFields
  <2>3. m.kind = "finished" => t = [b EXCEPT !.open = [b.open EXCEPT ![m.lane] = b.open[m.lane] \ {m.ref}]]
    BY <1>1 DEF StateFields
  <2>4. m.kind = "lane" => t = [b EXCEPT !.lanes = [b.lanes EXCEPT ![m.lane] = m.ref]]
    BY <1>1 DEF StateFields
  <2>5. m.kind = "name" => t = [b EXCEPT !.named = m.set]
    OBVIOUS
  <2>6. m.kind = "label" => t = [b EXCEPT !.labels = IF m.set THEN b.labels \cup {m.ref} ELSE b.labels \ {m.ref}]
    OBVIOUS
  <2> QED BY <2>1, <2>2, <2>3, <2>4, <2>5, <2>6
<1> HIDE DEF b, t, used
<1>3. CASE m.kind = "entry"
  <2> DEFINE es == Append(b.entries, [id |-> m.id, parent |-> m.ref])
             ls == IF m.lane = Absent THEN b.lanes ELSE [b.lanes EXCEPT ![m.lane] = m.id]
  <2>1. t = [b EXCEPT !.entries = es, !.lanes = ls]
    BY <1>2, <1>3
  <2> HIDE DEF es, ls
  <2>2. /\ DOMAIN t = StateFields /\ t.seq = b.seq /\ t.used = b.used /\ t.entries = es /\ t.lanes = ls
        /\ t.open = b.open /\ t.named = b.named /\ t.labels = b.labels
    BY <1>1, <2>1 DEF StateFields
  <2>3. es = Append(s.entries, [id |-> m.id, parent |-> m.ref])
    BY <1>1 DEF es
  <2>4. ls = IF m.lane # Absent THEN [s.lanes EXCEPT ![m.lane] = m.id] ELSE s.lanes
    BY <1>1 DEF ls
  <2> QED BY <1>1, <1>3, <2>2, <2>3, <2>4 DEF t, used
<1>4. CASE m.kind \in {"started", "finished"}
  <2> DEFINE os == IF m.kind = "started" THEN [b.open EXCEPT ![m.lane] = b.open[m.lane] \cup {m.id}]
                   ELSE [b.open EXCEPT ![m.lane] = b.open[m.lane] \ {m.ref}]
  <2>1. t = [b EXCEPT !.open = os]
    BY <1>2, <1>4
  <2>3. os = IF m.kind = "started" THEN [s.open EXCEPT ![m.lane] = s.open[m.lane] \cup {m.id}]
             ELSE [s.open EXCEPT ![m.lane] = s.open[m.lane] \ {m.ref}]
    BY <1>1
  <2> HIDE DEF os
  <2>2. /\ DOMAIN t = StateFields /\ t.seq = b.seq /\ t.used = b.used /\ t.entries = b.entries /\ t.lanes = b.lanes
        /\ t.open = os /\ t.named = b.named /\ t.labels = b.labels
    BY <1>1, <2>1 DEF StateFields
  <2> QED BY <1>1, <1>4, <2>2, <2>3 DEF t, used
<1>5. CASE m.kind = "lane"
  <2> DEFINE ls == [b.lanes EXCEPT ![m.lane] = m.ref]
  <2>1. t = [b EXCEPT !.lanes = ls]
    BY <1>2, <1>5
  <2>3. ls = [s.lanes EXCEPT ![m.lane] = m.ref]
    BY <1>1
  <2> HIDE DEF ls
  <2>2. /\ DOMAIN t = StateFields /\ t.seq = b.seq /\ t.used = b.used /\ t.entries = b.entries /\ t.lanes = ls
        /\ t.open = b.open /\ t.named = b.named /\ t.labels = b.labels
    BY <1>1, <2>1 DEF StateFields
  <2> QED BY <1>1, <1>5, <2>2, <2>3 DEF t, used
<1>6. CASE m.kind = "name"
  <2>2. /\ DOMAIN t = StateFields /\ t.seq = b.seq /\ t.used = b.used /\ t.entries = b.entries /\ t.lanes = b.lanes
        /\ t.open = b.open /\ t.named = m.set /\ t.labels = b.labels
    BY <1>1, <1>2, <1>6 DEF StateFields
  <2> QED BY <1>1, <1>6, <2>2 DEF t, used
<1>7. CASE m.kind = "label"
  <2> DEFINE ls == IF m.set THEN b.labels \cup {m.ref} ELSE b.labels \ {m.ref}
  <2>1. t = [b EXCEPT !.labels = ls]
    BY <1>2, <1>7
  <2>3. ls = IF m.set THEN s.labels \cup {m.ref} ELSE s.labels \ {m.ref}
    BY <1>1
  <2> HIDE DEF ls
  <2>2. /\ DOMAIN t = StateFields /\ t.seq = b.seq /\ t.used = b.used /\ t.entries = b.entries /\ t.lanes = b.lanes
        /\ t.open = b.open /\ t.named = b.named /\ t.labels = ls
    BY <1>1, <2>1 DEF StateFields
  <2> QED BY <1>1, <1>7, <2>2, <2>3 DEF t, used
<1> QED BY <1>0, <1>3, <1>4, <1>5, <1>6, <1>7

-----------------------------------------------------------------------------
(* A mutation makes a state of a state. *)
LEMMA AppliedIsState ==
  ASSUME NEW s, IsState(s), NEW m, Written(m)
  PROVE  IsState(Applied(s, m))
<1> DEFINE t == Applied(s, m)
<1>1. /\ DOMAIN t = StateFields /\ t.seq = m.seq
      /\ t.used = IF m.kind \in {"entry", "started", "finished"} THEN s.used \cup {m.id} ELSE s.used
      /\ t.entries = IF m.kind = "entry" THEN Append(s.entries, [id |-> m.id, parent |-> m.ref]) ELSE s.entries
      /\ t.lanes = IF m.kind = "entry" /\ m.lane # Absent THEN [s.lanes EXCEPT ![m.lane] = m.id]
                   ELSE IF m.kind = "lane" THEN [s.lanes EXCEPT ![m.lane] = m.ref] ELSE s.lanes
      /\ t.open = IF m.kind = "started" THEN [s.open EXCEPT ![m.lane] = s.open[m.lane] \cup {m.id}]
                  ELSE IF m.kind = "finished" THEN [s.open EXCEPT ![m.lane] = s.open[m.lane] \ {m.ref}] ELSE s.open
      /\ t.named = IF m.kind = "name" THEN m.set ELSE s.named
      /\ t.labels = IF m.kind = "label" THEN IF m.set THEN s.labels \cup {m.ref} ELSE s.labels \ {m.ref}
                    ELSE s.labels
  BY AppliedFields
<1> HIDE DEF t
<1>2. m.seq \in Nat /\ m.set \in BOOLEAN /\ m.lane \in Lanes \cup {Absent}
  BY DEF Written, Mutations
<1>3. t.seq \in Nat /\ t.used \subseteq Ids /\ t.labels \subseteq Ids
  BY <1>1, <1>2 DEF IsState, Written
<1>4. t.named \in BOOLEAN
  BY <1>1, <1>2 DEF IsState
<1>5. t.entries \in Seq(Entries)
  <2> DEFINE e == [id |-> m.id, parent |-> m.ref]
  <2>1. s.entries \in Seq(Entries)
    BY DEF IsState
  <2>2. m.kind = "entry" => e \in Entries
    BY DEF Written, Entries
  <2>3. t.entries = IF m.kind = "entry" THEN Append(s.entries, e) ELSE s.entries
    BY <1>1
  <2> HIDE DEF e
  <2> QED BY <2>1, <2>2, <2>3
<1>6. t.lanes \in [Lanes -> Leaves \cup {Absent}]
  BY <1>1 DEF IsState, Written, Leaves
<1>7. t.open \in [Lanes -> SUBSET Ids]
  <2>1. s.open \in [Lanes -> SUBSET Ids]
    BY DEF IsState
  <2>2. CASE m.kind = "started"
    <3> DEFINE o == s.open[m.lane] \cup {m.id}
    <3>1. m.lane \in Lanes /\ o \subseteq Ids
      BY <2>1, <2>2 DEF Written
    <3>2. t.open = [s.open EXCEPT ![m.lane] = o]
      BY <1>1, <2>2
    <3> HIDE DEF o
    <3> QED BY <2>1, <3>1, <3>2
  <2>3. CASE m.kind = "finished"
    <3> DEFINE o == s.open[m.lane] \ {m.ref}
    <3>1. m.lane \in Lanes /\ o \subseteq Ids
      BY <2>1, <2>3 DEF Written
    <3>2. t.open = [s.open EXCEPT ![m.lane] = o]
      BY <1>1, <2>3
    <3> HIDE DEF o
    <3> QED BY <2>1, <3>1, <3>2
  <2>4. CASE m.kind \notin {"started", "finished"}
    BY <1>1, <2>1, <2>4
  <2> QED BY <2>2, <2>3, <2>4
<1>8. IsState(t)
  BY <1>1, <1>3, <1>4, <1>5, <1>6, <1>7 DEF IsState
<1> QED BY <1>8 DEF t

(* A new entry. *)
LEMMA EntryAdded ==
  ASSUME NEW es \in Seq(Entries), Rooted(es), Unique(es), NEW e \in Entries,
         \A i \in 1..Len(es) : es[i].id # e.id,
         e.parent = Root \/ \E i \in 1..Len(es) : es[i].id = e.parent
  PROVE  LET fs == Append(es, e)
         IN  /\ Rooted(fs) /\ Unique(fs)
             /\ {fs[i].id : i \in 1..Len(fs)} = {es[i].id : i \in 1..Len(es)} \cup {e.id}
<1> DEFINE fs == Append(es, e)
<1>1. /\ Len(es) \in Nat /\ Len(fs) = Len(es) + 1 /\ fs[Len(es) + 1] = e
      /\ \A i \in 1..Len(es) : fs[i] = es[i] /\ i \in 1..Len(fs)
      /\ \A i \in 1..Len(fs) : i \in 1..Len(es) \/ i = Len(es) + 1
  OBVIOUS
<1> HIDE DEF fs
<1>2. ASSUME NEW i \in 1..Len(fs)
      PROVE  fs[i].parent = Root \/ \E k \in 1..Len(fs) : k < i /\ fs[k].id = fs[i].parent
  <2>1. CASE i \in 1..Len(es)
    <3>1. es[i].parent = Root \/ \E k \in 1..Len(es) : k < i /\ es[k].id = es[i].parent
      BY <2>1 DEF Rooted
    <3> QED BY <1>1, <2>1, <3>1
  <2>2. CASE i = Len(es) + 1
    BY <1>1, <2>2
  <2> QED BY <1>1, <2>1, <2>2
<1>3. Unique(fs)
  BY <1>1 DEF Unique
<1>4. {fs[i].id : i \in 1..Len(fs)} = {es[i].id : i \in 1..Len(es)} \cup {e.id}
  <2>1. Len(es) + 1 \in 1..Len(fs)
    BY <1>1
  <2> QED BY <1>1, <2>1
<1> QED BY <1>2, <1>3, <1>4 DEF Rooted, fs

(* A mutation that is valid keeps the state consistent. *)
LEMMA AppliedConsistent ==
  ASSUME NEW s, Consistent(s), NEW m, Written(m), Valid(s, m)
  PROVE  Consistent(Applied(s, m)) /\ Applied(s, m).seq = s.seq + 1
<1> DEFINE t == Applied(s, m)
<1>1. /\ t.seq = m.seq
      /\ t.used = IF m.kind \in {"entry", "started", "finished"} THEN s.used \cup {m.id} ELSE s.used
      /\ t.entries = IF m.kind = "entry" THEN Append(s.entries, [id |-> m.id, parent |-> m.ref]) ELSE s.entries
      /\ t.lanes = IF m.kind = "entry" /\ m.lane # Absent THEN [s.lanes EXCEPT ![m.lane] = m.id]
                   ELSE IF m.kind = "lane" THEN [s.lanes EXCEPT ![m.lane] = m.ref] ELSE s.lanes
      /\ t.labels = IF m.kind = "label" THEN IF m.set THEN s.labels \cup {m.ref} ELSE s.labels \ {m.ref}
                    ELSE s.labels
  BY AppliedFields DEF Consistent
<1>2. IsState(t) /\ IsState(s)
  BY AppliedIsState DEF Consistent
<1> HIDE DEF t
<1>3. /\ Rooted(t.entries) /\ Unique(t.entries)
      /\ EntryIds(t) = EntryIds(s) \cup (IF m.kind = "entry" THEN {m.id} ELSE {})
      /\ EntryIds(t) \subseteq t.used
  <2>1. EntryIds(s) = {s.entries[i].id : i \in 1..Len(s.entries)}
    BY <1>2, EntryIdsAre DEF IsState
  <2>2. EntryIds(t) = {t.entries[i].id : i \in 1..Len(t.entries)}
    BY <1>2, EntryIdsAre DEF IsState
  <2>3. CASE m.kind = "entry"
    <3> DEFINE e == [id |-> m.id, parent |-> m.ref]
    <3>1. e \in Entries /\ e.id = m.id /\ e.parent = m.ref /\ t.entries = Append(s.entries, e)
      BY <1>1, <2>3 DEF Written, Entries
    <3> HIDE DEF e
    <3>2. m.id \notin s.used /\ Target(s, m.ref)
      BY <2>3 DEF Valid
    <3>3. \A i \in 1..Len(s.entries) : s.entries[i].id # e.id
      BY <2>1, <3>1, <3>2 DEF Consistent
    <3>4. e.parent = Root \/ \E i \in 1..Len(s.entries) : s.entries[i].id = e.parent
      BY <2>1, <3>1, <3>2 DEF Target
    <3>5. /\ Rooted(t.entries) /\ Unique(t.entries)
          /\ {t.entries[i].id : i \in 1..Len(t.entries)} = {s.entries[i].id : i \in 1..Len(s.entries)} \cup {e.id}
      BY <1>2, <3>1, <3>3, <3>4, EntryAdded DEF Consistent, IsState
    <3>6. EntryIds(t) = EntryIds(s) \cup {m.id}
      BY <2>1, <2>2, <3>1, <3>5
    <3> QED BY <1>1, <2>3, <3>5, <3>6 DEF Consistent
  <2>4. CASE m.kind # "entry"
    <3>1. t.entries = s.entries
      BY <1>1, <2>4
    <3>2. EntryIds(t) = EntryIds(s)
      BY <2>1, <2>2, <3>1
    <3> QED BY <1>1, <2>4, <3>1, <3>2 DEF Consistent
  <2> QED BY <2>3, <2>4
<1>4. ASSUME NEW l \in Lanes, t.lanes[l] # Absent PROVE Target(t, t.lanes[l])
  <2>0. s.lanes \in [Lanes -> Leaves \cup {Absent}]
    BY <1>2 DEF IsState
  <2>1. \A x : Target(s, x) => Target(t, x)
    BY <1>3 DEF Target
  <2>2. CASE m.kind = "entry" /\ m.lane # Absent /\ l = m.lane
    <3>1. t.lanes[l] = m.id
      BY <1>1, <2>0, <2>2
    <3> QED BY <1>3, <2>2, <3>1 DEF Target
  <2>3. CASE m.kind = "lane" /\ l = m.lane
    <3>1. t.lanes[l] = m.ref /\ Target(s, m.ref)
      BY <1>1, <2>0, <2>3 DEF Valid
    <3> QED BY <2>1, <3>1
  <2>4. CASE ~(m.kind = "entry" /\ m.lane # Absent /\ l = m.lane) /\ ~(m.kind = "lane" /\ l = m.lane)
    <3>1. t.lanes[l] = s.lanes[l]
      BY <1>1, <2>0, <2>4
    <3> QED BY <1>4, <2>1, <3>1 DEF Consistent
  <2> QED BY <2>2, <2>3, <2>4
<1>5. t.lanes[Main] # Absent
  <2>1. Main \in Lanes /\ Absent \notin Leaves /\ s.lanes \in [Lanes -> Leaves \cup {Absent}]
    BY <1>2, NamesAssumption DEF IsState, Leaves
  <2>2. s.lanes[Main] # Absent
    BY DEF Consistent
  <2>3. (m.kind = "entry" => m.id \in Leaves) /\ (m.kind = "lane" => m.ref \in Leaves)
    BY DEF Written, Leaves
  <2> QED BY <1>1, <2>1, <2>2, <2>3
<1>6. t.labels \subseteq EntryIds(t)
  BY <1>1, <1>3 DEF Consistent, Valid
<1>7. t.seq = s.seq + 1
  BY <1>1 DEF Valid
<1>8. IsFiniteSet({l \in Lanes : t.lanes[l] # Absent})
  <2> DEFINE S == {l \in Lanes : s.lanes[l] # Absent}
             T == {l \in Lanes : t.lanes[l] # Absent}
  <2>1. IsFiniteSet(S \cup {m.lane})
    BY FS_AddElement DEF Consistent
  <2>2. s.lanes \in [Lanes -> Leaves \cup {Absent}]
    BY <1>2 DEF IsState
  <2>3. T \subseteq S \cup {m.lane}
    BY <1>1, <2>2
  <2> QED BY <2>1, <2>3, FS_Subset
<1> QED BY <1>2, <1>3, <1>4, <1>5, <1>6, <1>7, <1>8 DEF Consistent, t

-----------------------------------------------------------------------------
(* The logs that a storage writes: what they are replayed to is consistent. *)
Logged == {m \in Mutations : Written(m)}
Good(log) == log \in Seq(Logged) /\ Replay(log).ok = TRUE /\ Consistent(Replay(log).state)
Follows(log, m) == m \in Logged /\ Valid(Replay(log).state, m)

(* The log of a session that was just created. *)
LEMMA GoodEmpty == Good(<<>>) /\ Replay(<<>>).state = Empty
<1>1. Replay(<<>>).ok = TRUE /\ Replay(<<>>).state = Empty
  BY ReplayEmpty DEF Fresh
<1>2. <<>> \in Seq(Logged)
  OBVIOUS
<1> QED BY <1>1, <1>2, EmptyConsistent DEF Good

(* The log of a storage that has written one more mutation. *)
LEMMA GoodAppend ==
  ASSUME NEW log, Good(log), NEW m, Follows(log, m)
  PROVE  Good(Append(log, m)) /\ Replay(Append(log, m)).state = Applied(Replay(log).state, m)
<1> DEFINE r == Replay(log)
           t == Applied(r.state, m)
<1>1. log \in Seq(Logged) /\ m \in Logged /\ Written(m) /\ r.ok = TRUE /\ Consistent(r.state) /\ Valid(r.state, m)
  BY DEF Good, Follows, Logged
<1>2. Replay(Append(log, m)) = Replayed(r, m)
  BY <1>1, ReplayAppend
<1>3. Replayed(r, m) = [ok |-> TRUE, state |-> t]
  BY <1>1 DEF Replayed
<1>4. Consistent(t)
  BY <1>1, AppliedConsistent
<1> HIDE DEF r, t
<1>5. Append(log, m) \in Seq(Logged)
  BY <1>1
<1>6. Replay(Append(log, m)).ok = TRUE /\ Replay(Append(log, m)).state = t
  BY <1>2, <1>3
<1> QED BY <1>4, <1>5, <1>6 DEF Good, r, t

-----------------------------------------------------------------------------
(* What load() makes of a file. *)
LEMMA Unwritten == Garbage \notin Logged /\ NoText \notin Logged /\ Garbage # NoText
                   /\ Garbage \in Mutations /\ NoText \in Mutations
BY DEF Logged, Written, Garbage, NoText, Mutation, Mutations, Kinds

(* The log is the lines, and the text behind the last newline if it is a mutation. *)
LEMMA LogOfFile ==
  ASSUME NEW f, f.lines \in Seq(Logged)
  PROVE  /\ f.text = NoText => LogOf(f) = f.lines /\ ~TornTail(f)
         /\ f.text = Garbage => LogOf(f) = f.lines /\ TornTail(f)
         /\ f.text \in Logged => LogOf(f) = Append(f.lines, f.text) /\ ~TornTail(f)
<1>1. CASE f.text = NoText
  <2>1. Lines(f) = f.lines
    BY <1>1 DEF Lines
  <2>2. ASSUME f.lines # <<>> PROVE f.lines[Len(f.lines)] \in Logged
    BY <2>2
  <2>3. ~TornTail(f)
    BY <2>1, <2>2, Unwritten DEF TornTail, Last
  <2> QED BY <1>1, <2>1, <2>3, Unwritten DEF LogOf
<1>2. CASE f.text # NoText
  <2> DEFINE ls == f.lines
             x == f.text
             bs == Append(ls, x)
  <2>1. Lines(f) = bs
    BY <1>2 DEF Lines
  <2>2. bs # <<>> /\ Len(bs) = Len(ls) + 1 /\ bs[Len(bs)] = x /\ SubSeq(bs, 1, Len(bs) - 1) = ls
    <3>0. ls \in Seq(Logged \cup {x}) /\ x \in Logged \cup {x}
      OBVIOUS
    <3>1. Len(bs) = Len(ls) + 1 /\ bs[Len(ls) + 1] = x /\ Len(ls) \in Nat /\ bs \in Seq(Logged \cup {x})
      BY <3>0
    <3> HIDE DEF ls, x
    <3>2. bs # <<>>
      BY <3>1
    <3>3. Len(bs) - 1 = Len(ls)
      BY <3>1
    <3>4. SubSeq(bs, 1, Len(ls)) = ls
      BY <3>0, <3>1
    <3> QED BY <3>1, <3>2, <3>3, <3>4
  <2> HIDE DEF ls, x, bs
  <2>3. TornTail(f) <=> x = Garbage
    BY <2>1, <2>2 DEF TornTail, Last
  <2>4. LogOf(f) = IF x = Garbage THEN ls ELSE bs
    BY <2>1, <2>2, <2>3 DEF LogOf, Front
  <2> QED BY <1>2, <2>3, <2>4, Unwritten DEF ls, x, bs
<1> QED BY <1>1, <1>2

(* A log that was written has no line that is not JSON. *)
LEMMA LoggedParses ==
  ASSUME NEW log \in Seq(Logged)
  PROVE  Garbage \notin Range(log)
<1>1. \A i \in DOMAIN log : log[i] \in Logged
  OBVIOUS
<1> QED BY <1>1, Unwritten DEF Range

-----------------------------------------------------------------------------
(* A call that is accepted: its mutation is one the replay accepts. *)
LEMMA AcceptedFollows ==
  ASSUME NEW s, Consistent(s), NEW c \in Calls, Accepts(s, c)
  PROVE  MutationOf(s, c) \in Logged /\ Valid(s, MutationOf(s, c))
<1> DEFINE m == MutationOf(s, c)
<1>1. /\ s.seq \in Nat /\ s.lanes \in [Lanes -> Leaves \cup {Absent}]
      /\ \A l \in Lanes : s.lanes[l] # Absent => Target(s, s.lanes[l])
      /\ EntryIds(s) \subseteq Ids
  <2>1. IsState(s)
    BY DEF Consistent
  <2>2. EntryIds(s) \subseteq s.used /\ s.used \subseteq Ids
    BY <2>1 DEF Consistent, IsState
  <2> QED BY <2>1, <2>2 DEF Consistent, IsState
<1>2. /\ m.kind = (IF c.op \in {"create", "move"} THEN "lane" ELSE c.op) /\ m.seq = s.seq + 1 /\ m.lane = c.lane
      /\ m.id = c.id /\ m.ref = (IF c.op = "entry" THEN s.lanes[c.lane] ELSE c.ref) /\ m.set = c.set
      /\ m = [kind |-> m.kind, seq |-> m.seq, lane |-> m.lane, id |-> m.id, ref |-> m.ref, set |-> m.set]
  BY DEF MutationOf, Mutation
<1> HIDE DEF m
<1>3. \/ c.op = "entry" /\ c.lane \in Lanes /\ c.id \in Ids /\ c.set = FALSE
      \/ c.op = "started" /\ c.lane \in Lanes /\ c.id \in Ids /\ c.ref = Absent /\ c.set = FALSE
      \/ c.op = "finished" /\ c.lane \in Lanes /\ c.id \in Ids /\ c.ref \in Ids /\ c.set = FALSE
      \/ c.op \in {"create", "move"} /\ c.lane \in Lanes /\ c.id = Absent /\ c.ref \in Leaves /\ c.set = FALSE
      \/ c.op = "name" /\ c.lane = Absent /\ c.id = Absent /\ c.ref = Absent /\ c.set \in BOOLEAN
      \/ c.op = "label" /\ c.lane = Absent /\ c.id = Absent /\ c.ref \in Ids /\ c.set \in BOOLEAN
  BY DEF Calls, Call, Leaves
<1>4. m.set \in BOOLEAN
  BY <1>2, <1>3
<1>5. /\ m.kind \in {"entry", "started", "finished", "lane", "name", "label"}
      /\ m.seq \in Nat /\ m.lane \in Lanes \cup {Absent} /\ m.id \in Ids \cup {Absent}
      /\ m.ref \in Ids \cup {Root, Absent}
      /\ m.kind = "entry" => m.id \in Ids /\ m.ref \in Leaves
      /\ m.kind \in {"started", "finished"} => m.id \in Ids /\ m.lane \in Lanes
      /\ m.kind = "lane" => m.lane \in Lanes /\ m.ref \in Leaves
      /\ m.kind = "label" => m.ref \in Ids
  <2>1. CASE c.op = "entry"
    <3>1. s.lanes[c.lane] \in Leaves
      BY <1>1, <1>3, <2>1 DEF Accepts
    <3> QED BY <1>1, <1>2, <1>3, <2>1, <3>1 DEF Leaves
  <2>2. CASE c.op # "entry"
    BY <1>1, <1>2, <1>3, <2>2 DEF Leaves
  <2> QED BY <2>1, <2>2
<1>6. m \in Mutations
  <2> DEFINE k == m.kind
             b == m.set
  <2>1. k \in Kinds /\ b \in BOOLEAN
    BY <1>4, <1>5 DEF Kinds
  <2> HIDE DEF b
  <2>2. m = [kind |-> k, seq |-> m.seq, lane |-> m.lane, id |-> m.id, ref |-> m.ref, set |-> b]
    BY <1>2 DEF b
  <2> HIDE DEF k
  <2> QED BY <1>5, <2>1, <2>2 DEF Mutations
<1>7. Written(m)
  BY <1>5, <1>6 DEF Written
<1>8. Valid(s, m)
  <2>1. CASE c.op = "entry"
    BY <1>1, <1>2, <1>3, <2>1 DEF Accepts, Valid
  <2>2. CASE c.op \in {"started", "finished"}
    BY <1>2, <1>3, <2>2 DEF Accepts, Valid
  <2>3. CASE c.op \in {"create", "move"}
    BY <1>2, <1>3, <2>3 DEF Accepts, Valid
  <2>4. CASE c.op \in {"name", "label"}
    BY <1>2, <1>3, <2>4 DEF Accepts, Valid
  <2> QED BY <1>3, <2>1, <2>2, <2>3, <2>4
<1> QED BY <1>6, <1>7, <1>8 DEF Logged, m

-----------------------------------------------------------------------------
(* Types, as records. *)
Texts == [lines : Seq(Mutations), text : Mutations]
Loads == [for : {"none", "open", "fork"}, lines : Seq(Mutations), text : Mutations]
Typed ==
  /\ file \in Texts
  /\ DOMAIN storage = {"open", "state"} /\ storage.open \in BOOLEAN /\ Consistent(storage.state)
  /\ writing \in [stage : {"none", "start", "part", "whole", "done"}, mutation : Mutations]
  /\ loader \in Loads
  /\ acked \in Seq(Mutations) /\ damaged \in BOOLEAN

(* What the file is while a call is under way, after a crash, and before a
   load that opens it repairs it. *)
Extended(lines) == lines # <<>> /\ Follows(acked, Last(lines)) /\ lines = Append(acked, Last(lines))

InUse ==
  /\ storage.state = Replay(acked).state
  /\ writing.stage # "none" => Follows(acked, writing.mutation)
  /\ file.lines = IF writing.stage = "done" THEN Append(acked, writing.mutation) ELSE acked
  /\ file.text = CASE writing.stage \in {"none", "start", "done"} -> NoText
                   [] writing.stage = "part" -> Garbage
                   [] writing.stage = "whole" -> writing.mutation

LeftBehind ==
  \/ file.lines = acked /\ (file.text \in {NoText, Garbage} \/ Follows(acked, file.text))
  \/ Extended(file.lines) /\ file.text = NoText

Kept ==
  /\ Good(acked)
  /\ storage.open => InUse
  /\ ~storage.open => LeftBehind /\ writing.stage = "none"
  /\ loader.for = "open" => ~storage.open /\ loader.lines = file.lines /\ loader.text = file.text
  /\ loader.for = "fork" => storage.open

IInv == Typed /\ (~damaged => Kept)

-----------------------------------------------------------------------------
(* A sequence with one more element. *)
LEMMA AppendOnce ==
  ASSUME NEW S, NEW s \in Seq(S), NEW x \in S
  PROVE  /\ Append(s, x) # <<>> /\ Last(Append(s, x)) = x /\ Append(s, x) # s
         /\ IsPrefix(s, Append(s, x)) /\ IsPrefix(s, s) /\ Len(Append(s, x)) = Len(s) + 1
<1>1. Len(Append(s, x)) = Len(s) + 1 /\ Append(s, x)[Len(s) + 1] = x /\ Len(s) \in Nat
  OBVIOUS
<1>2. SubSeq(Append(s, x), 1, Len(s)) = s /\ SubSeq(s, 1, Len(s)) = s
  OBVIOUS
<1>3. Append(s, x) # <<>> /\ Append(s, x) # s
  BY <1>1
<1>4. Last(Append(s, x)) = x
  BY <1>1 DEF Last
<1>5. IsPrefix(s, Append(s, x)) /\ IsPrefix(s, s)
  BY <1>1, <1>2 DEF IsPrefix
<1> QED BY <1>1, <1>3, <1>4, <1>5

(* What a load has read. *)
LEMMA LoadsAre ==
  ASSUME NEW for \in {"none", "open", "fork"}, NEW lines \in Seq(Mutations), NEW text \in Mutations
  PROVE  [for |-> for, lines |-> lines, text |-> text] \in Loads
BY DEF Loads

(* No load. *)
LEMMA NotLoadingIs == NotLoading \in Loads /\ NotLoading.for = "none"
<1>1. <<>> \in Seq(Mutations) /\ NoText \in Mutations
  BY Unwritten
<1> QED BY <1>1, LoadsAre DEF NotLoading

(* A session that create() has just written. *)
LEMMA InitIInv == Init => IInv
<1> SUFFICES ASSUME Init PROVE IInv
  OBVIOUS
<1>1. NoText \in Mutations
  BY Unwritten
<1>2. file = [lines |-> <<>>, text |-> NoText] /\ acked = <<>> /\ damaged = FALSE
      /\ writing = [stage |-> "none", mutation |-> NoText] /\ loader = NotLoading
  BY DEF Init, NotWriting
<1>3. DOMAIN storage = {"open", "state"} /\ storage.open = TRUE /\ storage.state = Empty
  <2>1. storage = [[open |-> FALSE, state |-> Empty] EXCEPT !.open = TRUE]
    BY DEF Init, Closed
  <2> QED BY <2>1
<1>4. file \in Texts
  BY <1>1, <1>2 DEF Texts
<1>5. Consistent(storage.state)
  BY <1>3, EmptyConsistent
<1>6. acked \in Seq(Mutations) /\ damaged \in BOOLEAN /\ storage.open \in BOOLEAN
  <2>1. <<>> \in Seq(Mutations)
    OBVIOUS
  <2>2. acked \in Seq(Mutations)
    BY <1>2, <2>1
  <2>3. damaged \in BOOLEAN
    BY <1>2
  <2>4. storage.open \in BOOLEAN
    BY <1>3
  <2> QED BY <2>2, <2>3, <2>4
<1>7. loader \in Loads /\ loader.for = "none"
  BY <1>2, NotLoadingIs
<1>8. writing \in [stage : {"none", "start", "part", "whole", "done"}, mutation : Mutations] /\ writing.stage = "none"
  BY <1>1, <1>2
<1>9. Typed
  BY <1>3, <1>4, <1>5, <1>6, <1>7, <1>8 DEF Typed
<1>10. Good(acked) /\ Replay(acked).state = Empty
  BY <1>2, GoodEmpty
<1>11. InUse
  BY <1>2, <1>3, <1>8, <1>10 DEF InUse
<1>12. Kept
  BY <1>3, <1>7, <1>10, <1>11 DEF Kept
<1> QED BY <1>9, <1>12 DEF IInv

(* The turn of a call. *)
LEMMA StartStep ==
  ASSUME IInv, ~damaged, NEW c \in Calls, Start(c)
  PROVE  IInv'
<1> DEFINE m == MutationOf(storage.state, c)
<1>1. Typed /\ Kept /\ storage.open = TRUE /\ writing.stage = "none"
  BY DEF IInv, Start, Typed
<1>2. m \in Logged /\ Valid(storage.state, m)
  BY <1>1, AcceptedFollows DEF Typed, Start
<1>3. m \in Mutations
  BY <1>2 DEF Logged
<1> HIDE DEF m
<1>4. writing' = [stage |-> "start", mutation |-> m]
  BY DEF Start, m
<1>5. UNCHANGED <<file, storage, loader, acked, damaged>>
  BY DEF Start
<1>6. Typed'
  BY <1>1, <1>3, <1>4, <1>5 DEF Typed
<1>7. InUse
  BY <1>1 DEF Kept
<1>8. InUse'
  BY <1>1, <1>2, <1>4, <1>5, <1>7 DEF InUse, Follows
<1>9. Good(acked)'
  BY <1>1, <1>5 DEF Kept
<1>10. Kept'
  BY <1>1, <1>5, <1>8, <1>9 DEF Kept
<1> QED BY <1>6, <1>10 DEF IInv

(* The bytes reach the file. *)
LEMMA WriteStep ==
  ASSUME IInv, ~damaged, Write
  PROVE  IInv'
<1> DEFINE m == writing.mutation
<1>1. Typed /\ Kept /\ writing.stage # "none"
  BY DEF IInv, Write
<1>2. storage.open = TRUE
  BY <1>1 DEF Kept, Typed
<1>3. InUse
  BY <1>1, <1>2 DEF Kept
<1>4. UNCHANGED <<storage, loader, acked, damaged>>
  BY DEF Write
<1>5. /\ file \in Texts /\ m \in Mutations
      /\ writing \in [stage : {"none", "start", "part", "whole", "done"}, mutation : Mutations]
      /\ acked \in Seq(Mutations)
  BY <1>1 DEF Typed
<1>6. Follows(acked, m)
  BY <1>1, <1>3 DEF InUse
<1>7. /\ file' \in Texts /\ writing' \in [stage : {"none", "start", "part", "whole", "done"}, mutation : Mutations]
      /\ InUse'
  <2>1. CASE writing.stage = "start" /\ writing' = [writing EXCEPT !.stage = "part"] /\ file' = [file EXCEPT !.text = Garbage]
    <3>1. file'.lines = file.lines /\ file'.text = Garbage /\ file' \in Texts
      BY <1>5, <2>1, Unwritten DEF Texts
    <3>2. writing'.stage = "part" /\ writing'.mutation = m
      BY <1>5, <2>1
    <3>3. writing' \in [stage : {"none", "start", "part", "whole", "done"}, mutation : Mutations]
      BY <1>5, <2>1
    <3>4. Follows(acked, m)' /\ file.lines = acked
      BY <1>3, <1>4, <1>6, <2>1, <3>2 DEF InUse, Follows
    <3> QED BY <1>3, <1>4, <1>6, <2>1, <3>1, <3>2, <3>3, <3>4 DEF InUse
  <2>2. CASE writing.stage \in {"start", "part"} /\ writing' = [writing EXCEPT !.stage = "whole"] /\ file' = [file EXCEPT !.text = writing.mutation]
    <3>1. file'.lines = file.lines /\ file'.text = m /\ file' \in Texts
      BY <1>5, <2>2 DEF Texts
    <3>2. writing'.stage = "whole" /\ writing'.mutation = m
      BY <1>5, <2>2
    <3>3. writing' \in [stage : {"none", "start", "part", "whole", "done"}, mutation : Mutations]
      BY <1>5, <2>2
    <3>4. Follows(acked, m)' /\ file.lines = acked
      BY <1>3, <1>4, <1>6, <2>2, <3>2 DEF InUse, Follows
    <3> QED BY <1>3, <1>4, <1>6, <2>2, <3>1, <3>2, <3>3, <3>4 DEF InUse
  <2>3. CASE writing.stage = "whole" /\ writing' = [writing EXCEPT !.stage = "done"] /\ file' = Newline(file)
    <3>0. file.lines = acked /\ file.text = m
      BY <1>3, <2>3 DEF InUse
    <3>1. file'.lines = Append(acked, m) /\ file'.text = NoText /\ file' \in Texts
      BY <1>5, <2>3, <3>0, Unwritten DEF Texts, Newline
    <3>2. writing'.stage = "done" /\ writing'.mutation = m
      BY <1>5, <2>3
    <3>3. writing' \in [stage : {"none", "start", "part", "whole", "done"}, mutation : Mutations]
      BY <1>5, <2>3
    <3>4. Follows(acked, m)'
      BY <1>3, <1>4, <1>6, <2>3, <3>2 DEF InUse, Follows
    <3> QED BY <1>3, <1>4, <1>6, <2>3, <3>1, <3>2, <3>3, <3>4 DEF InUse
  <2> QED BY <2>1, <2>2, <2>3 DEF Write
<1>8. Typed'
  BY <1>1, <1>4, <1>7 DEF Typed
<1>9. Kept'
  BY <1>1, <1>2, <1>4, <1>7 DEF Kept, Good
<1> QED BY <1>8, <1>9 DEF IInv

(* The call resolves. *)
LEMMA ResolveStep ==
  ASSUME IInv, ~damaged, Resolve
  PROVE  IInv'
<1> DEFINE m == writing.mutation
           t == Applied(storage.state, m)
<1>1. Typed /\ Kept /\ writing.stage = "done"
  BY DEF IInv, Resolve
<1>2. storage.open = TRUE
  BY <1>1 DEF Kept, Typed
<1>3. InUse
  BY <1>1, <1>2 DEF Kept
<1>4. acked' = Append(acked, m) /\ writing' = [stage |-> "none", mutation |-> NoText] /\ UNCHANGED <<file, loader, damaged>>
  BY DEF Resolve, NotWriting
<1>5. Follows(acked, m) /\ Good(acked) /\ storage.state = Replay(acked).state
  BY <1>1, <1>3 DEF InUse, Kept
<1>6. Good(acked') /\ Replay(acked').state = t
  BY <1>4, <1>5, GoodAppend
<1>7. DOMAIN storage' = {"open", "state"} /\ storage'.open = TRUE /\ storage'.state = t
  <2>1. storage' = [storage EXCEPT !.state = t]
    BY DEF Resolve
  <2> HIDE DEF t
  <2> QED BY <1>1, <1>2, <2>1 DEF Typed
<1> HIDE DEF t
<1>8. Typed'
  <2>1. m \in Mutations /\ acked \in Seq(Mutations)
    BY <1>1 DEF Typed
  <2>2. acked' \in Seq(Mutations)
    BY <1>4, <2>1
  <2>3. Consistent(t)
    BY <1>6 DEF Good
  <2>4. writing' \in [stage : {"none", "start", "part", "whole", "done"}, mutation : Mutations]
    BY <1>4, Unwritten
  <2>5. Consistent(storage.state)'
    BY <1>7, <2>3
  <2> QED BY <1>1, <1>4, <1>7, <2>2, <2>4, <2>5 DEF Typed
<1>9. InUse'
  <2>1. file.lines = acked' /\ file.text = NoText
    BY <1>1, <1>3, <1>4 DEF InUse
  <2> QED BY <1>4, <1>6, <1>7, <2>1 DEF InUse
<1>10. Kept'
  BY <1>1, <1>2, <1>4, <1>6, <1>7, <1>9 DEF Kept
<1> QED BY <1>8, <1>10 DEF IInv

-----------------------------------------------------------------------------
(* The append fails. *)
LEMMA AppendFailsStep ==
  ASSUME IInv, ~damaged, AppendFails
  PROVE  IInv'
<1>1. Typed /\ Kept /\ writing.stage # "none"
  BY DEF IInv, AppendFails
<1>2. storage.open = TRUE /\ InUse
  BY <1>1 DEF Kept, Typed
<1>3. writing' = [stage |-> "none", mutation |-> NoText] /\ UNCHANGED <<file, storage, loader, acked>>
  BY DEF AppendFails, NotWriting
<1>4. damaged' \in BOOLEAN
  <2> DEFINE b == damaged \/ writing.stage # "start"
  <2>1. b \in BOOLEAN
    OBVIOUS
  <2>2. damaged' = b
    BY DEF AppendFails
  <2> QED BY <2>1, <2>2
<1>5. writing' \in [stage : {"none", "start", "part", "whole", "done"}, mutation : Mutations]
  BY <1>3, Unwritten
<1>6. Typed'
  BY <1>1, <1>3, <1>4, <1>5 DEF Typed
<1>7. ASSUME ~damaged' PROVE Kept'
  <2>1. writing.stage = "start"
    BY <1>7 DEF AppendFails
  <2>2. InUse'
    BY <1>2, <1>3, <2>1 DEF InUse
  <2> QED BY <1>1, <1>2, <1>3, <2>2 DEF Kept, Good
<1> QED BY <1>6, <1>7 DEF IInv

(* The process crashes. *)
LEMMA CrashStep ==
  ASSUME IInv, ~damaged, Crash
  PROVE  IInv'
<1>1. Typed /\ Kept /\ storage.open = TRUE
  BY DEF IInv, Crash, Typed
<1>2. InUse /\ Good(acked)
  BY <1>1 DEF Kept
<1>3. /\ storage' = [open |-> FALSE, state |-> Empty] /\ writing' = [stage |-> "none", mutation |-> NoText]
      /\ loader' = NotLoading /\ UNCHANGED <<file, acked, damaged>>
  BY DEF Crash, Closed, NotWriting
<1>4. DOMAIN storage' = {"open", "state"} /\ storage'.open = FALSE /\ storage'.state = Empty
  BY <1>3
<1>5. loader' \in Loads /\ loader'.for = "none"
  BY <1>3, NotLoadingIs
<1>6. writing' \in [stage : {"none", "start", "part", "whole", "done"}, mutation : Mutations] /\ writing'.stage = "none"
  BY <1>3, Unwritten
<1>7. Typed'
  <2>1. Consistent(storage.state)'
    BY <1>4, EmptyConsistent
  <2>2. storage'.open \in BOOLEAN
    BY <1>4
  <2> QED BY <1>1, <1>3, <1>4, <1>5, <1>6, <2>1, <2>2 DEF Typed
<1>8. LeftBehind'
  <2>1. CASE writing.stage = "done"
    <3> DEFINE m == writing.mutation
    <3>1. file.lines = Append(acked, m) /\ file.text = NoText /\ Follows(acked, m)
      BY <1>2, <2>1 DEF InUse
    <3> HIDE DEF m
    <3>2. acked \in Seq(Logged) /\ m \in Logged
      BY <1>2, <3>1 DEF Good, Follows
    <3>3. file.lines # <<>> /\ Last(file.lines) = m
      BY <3>1, <3>2, AppendOnce
    <3>4. Extended(file.lines)
      BY <3>1, <3>3 DEF Extended
    <3>5. Extended(file.lines)'
      BY <1>3, <3>4 DEF Extended, Follows
    <3> QED BY <1>3, <3>1, <3>5 DEF LeftBehind
  <2>2. CASE writing.stage # "done"
    <3>1. file.lines = acked /\ (file.text \in {NoText, Garbage} \/ Follows(acked, file.text))
      BY <1>1, <1>2, <2>2 DEF InUse, Typed
    <3> QED BY <1>3, <3>1 DEF LeftBehind, Follows
  <2> QED BY <2>1, <2>2
<1>9. Kept'
  BY <1>2, <1>3, <1>4, <1>5, <1>6, <1>8 DEF Kept, Good
<1> QED BY <1>7, <1>9 DEF IInv

(* A load reads the file. *)
LEMMA LoadReadStep ==
  ASSUME IInv, ~damaged, NEW for \in {"open", "fork"}, LoadRead(for)
  PROVE  IInv'
<1>1. Typed /\ Kept
  BY DEF IInv
<1>2. loader' = [for |-> for, lines |-> file.lines, text |-> file.text] /\ UNCHANGED <<file, storage, writing, acked, damaged>>
      /\ (storage.open <=> for = "fork")
  BY DEF LoadRead
<1>3. loader' \in Loads /\ loader'.for = for /\ loader'.lines = file.lines /\ loader'.text = file.text
  BY <1>1, <1>2 DEF Typed, Texts, Loads
<1>4. Typed'
  BY <1>1, <1>2, <1>3 DEF Typed
<1>5. (storage.open => InUse)' /\ (~storage.open => LeftBehind /\ writing.stage = "none")' /\ Good(acked)'
  <2>1. InUse => InUse'
    BY <1>2 DEF InUse, Follows
  <2>2. LeftBehind => LeftBehind'
    BY <1>2 DEF LeftBehind, Extended, Follows
  <2> QED BY <1>1, <1>2, <2>1, <2>2 DEF Kept, Good
<1>6. Kept'
  BY <1>2, <1>3, <1>5 DEF Kept
<1> QED BY <1>4, <1>6 DEF IInv

(* A load fails. *)
LEMMA LoadFailsStep ==
  ASSUME IInv, ~damaged, LoadFails
  PROVE  IInv'
<1>1. Typed /\ Kept
  BY DEF IInv
<1>2. loader' = NotLoading /\ UNCHANGED <<file, storage, writing, acked, damaged>>
  BY DEF LoadFails
<1>3. loader' \in Loads /\ loader'.for = "none"
  BY <1>2, NotLoadingIs
<1>4. Typed'
  BY <1>1, <1>2, <1>3 DEF Typed
<1>5. (storage.open => InUse)' /\ (~storage.open => LeftBehind /\ writing.stage = "none")' /\ Good(acked)'
  <2>1. InUse => InUse'
    BY <1>2 DEF InUse, Follows
  <2>2. LeftBehind => LeftBehind'
    BY <1>2 DEF LeftBehind, Extended, Follows
  <2> QED BY <1>1, <1>2, <2>1, <2>2 DEF Kept, Good
<1>6. Kept'
  BY <1>3, <1>5 DEF Kept
<1> QED BY <1>4, <1>6 DEF IInv

-----------------------------------------------------------------------------
(* What a load makes of a file that nobody writes, or that a crash left. *)
LEMMA InUseLog ==
  ASSUME Kept, storage.open, writing.stage = "none"
  PROVE  file.text = NoText /\ file.lines = acked /\ LogOf(file) = acked /\ ~TornTail(file)
<1>1. file.text = NoText /\ file.lines = acked /\ acked \in Seq(Logged)
  BY DEF Kept, InUse, Good
<1> QED BY <1>1, LogOfFile

(* The log ends with what resolved, or with one mutation more; it is what the
   file holds when the tail is repaired or terminated. *)
LEMMA LeftBehindLog ==
  ASSUME Kept, LeftBehind, file \in Texts
  PROVE  /\ LogOf(file) = acked \/ \E m \in Logged : Follows(acked, m) /\ LogOf(file) = Append(acked, m)
         /\ Good(LogOf(file))
         /\ ~TornTail(file) /\ file.text = NoText => file.lines = LogOf(file)
         /\ ~TornTail(file) /\ file.text # NoText => Newline(file).lines = LogOf(file)
<1>1. Good(acked) /\ acked \in Seq(Logged)
  BY DEF Kept, Good
<1>2. CASE file.lines = acked /\ file.text \in {NoText, Garbage}
  <2>1. LogOf(file) = acked /\ (file.text = Garbage => TornTail(file))
    BY <1>1, <1>2, LogOfFile
  <2> QED BY <1>1, <1>2, <2>1
<1>3. CASE file.lines = acked /\ Follows(acked, file.text)
  <2>1. file.text \in Logged
    BY <1>3 DEF Follows
  <2>2. LogOf(file) = Append(acked, file.text) /\ ~TornTail(file) /\ file.text # NoText
    BY <1>1, <1>3, <2>1, LogOfFile, Unwritten
  <2>3. Good(LogOf(file))
    BY <1>1, <1>3, <2>2, GoodAppend
  <2>4. Newline(file).lines = LogOf(file)
    BY <1>3, <2>2 DEF Newline
  <2> QED BY <1>3, <2>1, <2>2, <2>3, <2>4
<1>4. CASE Extended(file.lines) /\ file.text = NoText
  <2> DEFINE m == Last(file.lines)
  <2>1. file.lines = Append(acked, m) /\ Follows(acked, m)
    BY <1>4 DEF Extended
  <2> HIDE DEF m
  <2>2. m \in Logged
    BY <2>1 DEF Follows
  <2>3. file.lines \in Seq(Logged) /\ Good(file.lines)
    BY <1>1, <2>1, <2>2, GoodAppend
  <2>4. LogOf(file) = file.lines
    BY <1>4, <2>3, LogOfFile
  <2> QED BY <1>4, <2>1, <2>2, <2>3, <2>4
<1> QED BY <1>2, <1>3, <1>4 DEF LeftBehind

-----------------------------------------------------------------------------
(* A load that opens the session has read what is still there. *)
LEMMA OpenReads ==
  ASSUME IInv, ~damaged, loader.for = "open"
  PROVE  Read = file /\ LeftBehind /\ writing.stage = "none" /\ storage.open = FALSE
<1>1. Typed /\ Kept
  BY DEF IInv
<1>2. file = [lines |-> file.lines, text |-> file.text]
  BY <1>1 DEF Typed, Texts
<1>3. Read = file
  BY <1>1, <1>2 DEF Read, Kept
<1> QED BY <1>1, <1>3 DEF Kept, Typed

(* The storage that an open makes. *)
LEMMA Opened ==
  ASSUME NEW log, loader.for = "open", storage' = OpenedWith(log)
  PROVE  DOMAIN storage' = {"open", "state"} /\ storage'.open = TRUE /\ storage'.state = Replay(log).state
<1> DEFINE s == Replay(log).state
<1>1. storage' = [[open |-> FALSE, state |-> Empty] EXCEPT !.open = TRUE, !.state = s]
  BY DEF OpenedWith, Closed
<1> HIDE DEF s
<1>2. DOMAIN storage' = {"open", "state"} /\ storage'.open = TRUE /\ storage'.state = s
  BY <1>1
<1> QED BY <1>2 DEF s

(* An open leaves a storage in use, with the log it has read. *)
LEMMA OpenSteps ==
  ASSUME IInv, ~damaged, loader.for = "open", damaged' = damaged,
         storage' = OpenedWith(LogOf(file)), acked' = LogOf(file), loader' = NotLoading, writing' = writing,
         file' \in Texts, file'.lines = LogOf(file), file'.text = NoText
  PROVE  IInv'
<1> DEFINE log == LogOf(file)
<1>1. Typed /\ Kept /\ LeftBehind /\ writing.stage = "none"
  BY OpenReads DEF IInv
<1>2. Good(log)
  BY <1>1, LeftBehindLog DEF Typed
<1>3. DOMAIN storage' = {"open", "state"} /\ storage'.open = TRUE /\ storage'.state = Replay(log).state
  BY Opened
<1> HIDE DEF log
<1>4. acked' = log /\ file'.lines = log
  BY DEF log
<1>5. loader' \in Loads /\ loader'.for = "none"
  BY NotLoadingIs
<1>6. Typed'
  <2>1. log \in Seq(Logged)
    BY <1>2 DEF Good
  <2>2. Logged \subseteq Mutations
    BY DEF Logged
  <2>3. log \in Seq(Mutations)
    BY <2>1, <2>2
  <2>4. Consistent(storage.state)' /\ storage'.open \in BOOLEAN
    BY <1>2, <1>3 DEF Good
  <2> QED BY <1>1, <1>3, <1>4, <1>5, <2>3, <2>4 DEF Typed
<1>7. InUse'
  BY <1>1, <1>3, <1>4 DEF InUse
<1>8. Kept'
  BY <1>1, <1>2, <1>3, <1>4, <1>5, <1>7 DEF Kept
<1> QED BY <1>6, <1>8 DEF IInv

(* A fork reads: the storage goes on. *)
LEMMA ForkSteps ==
  ASSUME IInv, ~damaged, loader.for = "fork", storage' = storage, acked' = acked, loader' = NotLoading, writing' = writing,
         file' \in Texts, damaged' \in BOOLEAN, ~damaged' => file' = file
  PROVE  IInv'
<1>1. Typed /\ Kept
  BY DEF IInv
<1>2. loader' \in Loads /\ loader'.for = "none"
  BY NotLoadingIs
<1>3. Typed'
  BY <1>1, <1>2 DEF Typed
<1>4. ASSUME ~damaged' PROVE Kept'
  <2>1. InUse => InUse'
    BY <1>4 DEF InUse, Follows
  <2>2. storage.open
    BY <1>1 DEF Kept
  <2> QED BY <1>1, <1>2, <2>1, <2>2 DEF Kept, Good
<1> QED BY <1>3, <1>4 DEF IInv

(* A load repairs a torn tail. *)
LEMMA RepairTornStep ==
  ASSUME IInv, ~damaged, RepairTorn
  PROVE  IInv'
<1>1. Typed /\ Kept /\ loader.for \in {"open", "fork"}
  BY DEF IInv, RepairTorn, Typed, Loads
<1>2. /\ TornTail(Read) /\ file' = [lines |-> LogOf(Read), text |-> NoText] /\ damaged' = (damaged \/ Overtaken)
      /\ storage' = OpenedWith(LogOf(Read)) /\ acked' = AckedWith(LogOf(Read))
      /\ loader' = NotLoading /\ writing' = writing
  BY DEF RepairTorn
<1>3. CASE loader.for = "open"
  <2>1. Read = file /\ LeftBehind /\ writing.stage = "none"
    BY <1>3, OpenReads
  <2>2. damaged' = damaged
    <3>1. ~Overtaken
      BY <2>1 DEF Overtaken
    <3>2. damaged = FALSE /\ damaged' = FALSE
      BY <1>1, <1>2, <3>1 DEF Typed
    <3> QED BY <3>2
  <2>3. Good(LogOf(file))
    BY <1>1, <2>1, LeftBehindLog DEF Typed
  <2>4. LogOf(file) \in Seq(Mutations)
    <3>1. LogOf(file) \in Seq(Logged) /\ Logged \subseteq Mutations
      BY <2>3 DEF Good, Logged
    <3> QED BY <3>1
  <2>5. file' \in Texts /\ file'.lines = LogOf(file) /\ file'.text = NoText
    BY <1>2, <2>1, <2>4, Unwritten DEF Texts
  <2>6. acked' = LogOf(file) /\ storage' = OpenedWith(LogOf(file))
    BY <1>2, <1>3, <2>1 DEF AckedWith
  <2> QED BY <1>2, <1>3, <2>2, <2>5, <2>6, OpenSteps
<1>4. CASE loader.for = "fork"
  <2>1. storage.open /\ storage' = storage /\ acked' = acked
    BY <1>1, <1>2, <1>4 DEF Kept, OpenedWith, AckedWith
  <2>2. Overtaken
    <3> SUFFICES ASSUME ~Overtaken PROVE FALSE
      OBVIOUS
    <3>1. Read = file /\ writing.stage = "none"
      BY DEF Overtaken
    <3> QED BY <1>1, <1>2, <2>1, <3>1, InUseLog
  <2>3. damaged' = TRUE
    BY <1>2, <2>2
  <2>5. file' \in Texts
    <3>1. loader.lines \in Seq(Mutations) /\ loader.text \in Mutations
      BY <1>1 DEF Typed, Loads
    <3>2. Read.lines = loader.lines /\ Read.text = loader.text
      BY DEF Read
    <3>3. Lines(Read) \in Seq(Mutations)
      BY <3>1, <3>2 DEF Lines
    <3>4. Lines(Read) # <<>>
      BY <1>2 DEF TornTail
    <3>5. Front(Lines(Read)) \in Seq(Mutations)
      BY <3>3, <3>4 DEF Front
    <3>6. LogOf(Read) \in Seq(Mutations)
      BY <3>3, <3>5 DEF LogOf
    <3> QED BY <1>2, <3>6, Unwritten DEF Texts
  <2> QED BY <1>2, <1>4, <2>1, <2>3, <2>5, ForkSteps
<1> QED BY <1>1, <1>3, <1>4

(* A load terminates the last line. *)
LEMMA TerminateStep ==
  ASSUME IInv, ~damaged, Terminate
  PROVE  IInv'
<1>1. Typed /\ Kept /\ loader.for \in {"open", "fork"}
  BY DEF IInv, Terminate, Typed, Loads
<1>2. /\ ~TornTail(Read) /\ file' = IF loader.text = NoText THEN file ELSE Newline(file)
      /\ damaged' = (damaged \/ (loader.text # NoText /\ Overtaken))
      /\ storage' = OpenedWith(LogOf(Read)) /\ acked' = AckedWith(LogOf(Read))
      /\ loader' = NotLoading /\ writing' = writing
  BY DEF Terminate
<1>3. file' \in Texts
  <2>1. file \in Texts
    BY <1>1 DEF Typed
  <2>2. Newline(file) \in Texts
    BY <2>1, Unwritten DEF Texts, Newline
  <2> QED BY <1>2, <2>1, <2>2
<1>4. CASE loader.for = "open"
  <2>1. Read = file /\ LeftBehind /\ writing.stage = "none" /\ loader.text = file.text
    BY <1>1, <1>4, OpenReads DEF Kept
  <2>2. damaged' = damaged
    <3>1. ~Overtaken
      BY <2>1 DEF Overtaken
    <3>2. damaged = FALSE /\ damaged' = FALSE
      BY <1>1, <1>2, <3>1 DEF Typed
    <3> QED BY <3>2
  <2>3. file'.lines = LogOf(file) /\ file'.text = NoText
    <3>1. /\ file.text = NoText => file.lines = LogOf(file)
          /\ file.text # NoText => Newline(file).lines = LogOf(file)
      BY <1>1, <1>2, <2>1, LeftBehindLog DEF Typed
    <3>2. Newline(file).text = NoText
      BY DEF Newline
    <3> QED BY <1>2, <2>1, <3>1, <3>2
  <2>4. acked' = LogOf(file) /\ storage' = OpenedWith(LogOf(file))
    BY <1>2, <1>4, <2>1 DEF AckedWith
  <2> QED BY <1>2, <1>3, <1>4, <2>2, <2>3, <2>4, OpenSteps
<1>5. CASE loader.for = "fork"
  <2>1. storage.open /\ storage' = storage /\ acked' = acked
    BY <1>1, <1>2, <1>5 DEF Kept, OpenedWith, AckedWith
  <2>2. damaged' \in BOOLEAN
    <3> DEFINE b == damaged \/ (loader.text # NoText /\ Overtaken)
    <3>1. b \in BOOLEAN
      OBVIOUS
    <3> QED BY <1>2, <3>1
  <2>3. ASSUME ~damaged' PROVE file' = file
    <3> SUFFICES ASSUME loader.text # NoText PROVE FALSE
      BY <1>2
    <3>1. ~Overtaken
      BY <1>2, <2>3
    <3>2. Read = file /\ writing.stage = "none"
      BY <3>1 DEF Overtaken
    <3>3. file.text = NoText
      BY <1>1, <2>1, <3>2, InUseLog
    <3>4. Read.text = loader.text
      BY DEF Read
    <3> QED BY <3>2, <3>3, <3>4
  <2> QED BY <1>2, <1>3, <1>5, <2>1, <2>2, <2>3, ForkSteps
<1> QED BY <1>1, <1>4, <1>5

-----------------------------------------------------------------------------
(* IInv is inductive. *)
LEMMA IInvInvariant == Spec => []IInv
<1>1. IInv /\ [Next]_vars => IInv'
  <2> SUFFICES ASSUME IInv, [Next]_vars PROVE IInv'
    OBVIOUS
  <2>1. CASE Next
    <3>1. ~damaged
      BY <2>1 DEF Next
    <3>2. CASE \E c \in Calls : Start(c)
      BY <3>1, <3>2, StartStep
    <3>3. CASE Write
      BY <3>1, <3>3, WriteStep
    <3>4. CASE Resolve
      BY <3>1, <3>4, ResolveStep
    <3>5. CASE AppendFails
      BY <3>1, <3>5, AppendFailsStep
    <3>6. CASE Crash
      BY <3>1, <3>6, CrashStep
    <3>7. CASE \E for \in {"open", "fork"} : LoadRead(for)
      BY <3>1, <3>7, LoadReadStep
    <3>8. CASE RepairTorn
      BY <3>1, <3>8, RepairTornStep
    <3>9. CASE Terminate
      BY <3>1, <3>9, TerminateStep
    <3>10. CASE LoadFails
      BY <3>1, <3>10, LoadFailsStep
    <3> QED BY <2>1, <3>2, <3>3, <3>4, <3>5, <3>6, <3>7, <3>8, <3>9, <3>10 DEF Next
  <2>2. CASE UNCHANGED vars
    <3>1. (InUse => InUse') /\ (LeftBehind => LeftBehind')
      BY <2>2 DEF vars, InUse, LeftBehind, Extended, Follows
    <3> QED BY <2>2, <3>1 DEF vars, IInv, Typed, Kept, Good
  <2> QED BY <2>1, <2>2
<1> QED BY <1>1, InitIInv, PTL DEF Spec

(* IInv implies what is promised of the file. *)
LEMMA ReopenFollows == IInv => ReopenComplete
<1> SUFFICES ASSUME IInv, ~damaged
             PROVE  /\ Loadable(file) /\ IsPrefix(acked, LogOf(file))
                    /\ Len(LogOf(file)) <= Len(acked) + 1
                    /\ storage.open /\ writing.stage = "none" => Replay(LogOf(file)).state = storage.state
  BY DEF ReopenComplete
<1>1. Typed /\ Kept /\ file \in Texts /\ Good(acked)
  BY DEF IInv, Typed, Kept
<1>2. /\ LogOf(file) = acked \/ \E m \in Logged : Follows(acked, m) /\ LogOf(file) = Append(acked, m)
      /\ Good(LogOf(file))
      /\ storage.open /\ writing.stage = "none" => LogOf(file) = acked /\ storage.state = Replay(acked).state
  <2>1. CASE ~storage.open
    BY <1>1, <2>1, LeftBehindLog DEF Kept
  <2>2. CASE storage.open /\ writing.stage = "none"
    BY <1>1, <2>2, InUseLog DEF Kept, InUse
  <2>3. CASE storage.open /\ writing.stage # "none"
    <3> DEFINE m == writing.mutation
    <3>1. InUse /\ Follows(acked, m) /\ m \in Logged /\ acked \in Seq(Logged)
      BY <1>1, <2>3 DEF Kept, InUse, Follows, Good
    <3>2. Good(Append(acked, m))
      BY <1>1, <3>1, GoodAppend
    <3>3. CASE writing.stage \in {"start", "part"}
      <4>1. LogOf(file) = acked
        BY <3>1, <3>3, LogOfFile DEF InUse
      <4> QED BY <1>1, <2>3, <4>1
    <3>4. CASE writing.stage = "whole"
      <4>1. LogOf(file) = Append(acked, m)
        BY <3>1, <3>4, LogOfFile DEF InUse
      <4> QED BY <2>3, <3>1, <3>2, <4>1
    <3>5. CASE writing.stage = "done"
      <4>1. file.lines = Append(acked, m) /\ file.text = NoText
        BY <3>1, <3>5 DEF InUse
      <4>2. Append(acked, m) \in Seq(Logged)
        BY <3>1
      <4>3. LogOf(file) = Append(acked, m)
        BY <4>1, <4>2, LogOfFile
      <4> QED BY <2>3, <3>1, <3>2, <4>3
    <3> QED BY <1>1, <2>3, <3>3, <3>4, <3>5 DEF Typed
  <2> QED BY <2>1, <2>2, <2>3
<1>3. IsPrefix(acked, LogOf(file)) /\ Len(LogOf(file)) <= Len(acked) + 1
  <2>1. acked \in Seq(Logged) /\ Len(acked) \in Nat
    BY <1>1 DEF Good
  <2>2. CASE LogOf(file) = acked
    <3>1. IsPrefix(acked, acked)
      <4>1. SubSeq(acked, 1, Len(acked)) = acked
        BY <2>1
      <4> QED BY <2>1, <4>1 DEF IsPrefix
    <3> QED BY <2>1, <2>2, <3>1
  <2>3. CASE \E m \in Logged : LogOf(file) = Append(acked, m)
    BY <2>1, <2>3, AppendOnce
  <2> QED BY <1>2, <2>2, <2>3
<1>4. Loadable(file)
  BY <1>2, LoggedParses DEF Loadable, Good
<1> QED BY <1>2, <1>3, <1>4

(* TypeOK: the file, the storage and the append under way have their types. *)
THEOREM TypeCorrect == Spec => []TypeOK
<1>1. IInv => TypeOK
  <2> SUFFICES ASSUME IInv PROVE TypeOK
    OBVIOUS
  <2>1. Typed
    BY DEF IInv
  <2>2. file.lines \in Seq(Mutations) /\ file.text \in Mutations
    BY <2>1 DEF Typed, Texts
  <2>3. /\ storage.state.seq \in Nat /\ storage.state.used \subseteq Ids
        /\ storage.state.lanes \in [Lanes -> Leaves \cup {Absent}] /\ storage.state.lanes[Main] # Absent
    BY <2>1 DEF Typed, Consistent, IsState
  <2>4. Leaves \cup {Absent} = Ids \cup {Root, Absent}
    BY DEF Leaves
  <2>5. writing.stage \in {"none", "start", "part", "whole", "done"} /\ writing.mutation \in Mutations
    BY <2>1 DEF Typed
  <2>6. Range(acked) \subseteq Mutations
    BY <2>1 DEF Typed, Range
  <2>7. storage.open \in BOOLEAN /\ damaged \in BOOLEAN
    BY <2>1 DEF Typed
  <2> QED BY <2>2, <2>3, <2>4, <2>5, <2>6, <2>7 DEF TypeOK
<1> QED BY <1>1, IInvInvariant, PTL

(* ReopenComplete: a crash between any two bytes of an append leaves a file
   that load() accepts, with every mutation whose call resolved and at most one
   that did not; a load gives the state in memory when nothing is written. *)
THEOREM ReopenIsComplete == Spec => []ReopenComplete
BY IInvInvariant, ReopenFollows, PTL

-----------------------------------------------------------------------------
(* SetToSeq(S) holds each element of a finite set. *)
LEMMA Listed ==
  ASSUME NEW S, IsFiniteSet(S)
  PROVE  SetToSeq(S) \in Seq(S) /\ \A x \in S : \E k \in 1..Len(SetToSeq(S)) : SetToSeq(S)[k] = x
<1> DEFINE n == Cardinality(S)
           f == SetToSeq(S)
<1>1. n \in Nat /\ ExistsBijection(1..n, S)
  BY FS_CardinalityType
<1>2. \E g \in [1..n -> S] : IsInjective(g)
  BY <1>1 DEF ExistsBijection, Bijection, Injection
<1>3. f \in [1..n -> S] /\ IsInjective(f)
  BY <1>2 DEF SetToSeq
<1> HIDE DEF f
<1>4. f \in Injection(1..n, S)
  BY <1>3 DEF Injection
<1>5. IsFiniteSet(1..n) /\ Cardinality(1..n) = n
  BY <1>1, FS_Interval
<1>6. f \in Surjection(1..n, S)
  BY <1>4, <1>5, FS_Injection
<1>7. f \in Seq(S) /\ Len(f) = n
  BY <1>1, <1>3
<1>8. \A x \in S : \E k \in 1..n : f[k] = x
  BY <1>6 DEF Surjection
<1> QED BY <1>7, <1>8 DEF f

(* Two sequences joined. *)
Join(a, b) == a \o b
LEMMA Joined ==
  ASSUME NEW S, NEW a \in Seq(S), NEW b \in Seq(S)
  PROVE  /\ Join(a, b) \in Seq(S) /\ Len(Join(a, b)) = Len(a) + Len(b)
         /\ \A i \in 1..(Len(a) + Len(b)) : Join(a, b)[i] = IF i <= Len(a) THEN a[i] ELSE b[i - Len(a)]
BY DEF Join

(* Four sequences joined, by position. *)
FourIn(S, s, a, b, c, d, na, nb, nc, nd) ==
  /\ s \in Seq(S) /\ Len(s) = na + nb + nc + nd
  /\ \A i \in 1..(na + nb + nc + nd) :
       s[i] = IF i <= na THEN a[i] ELSE IF i <= na + nb THEN b[i - na]
              ELSE IF i <= na + nb + nc THEN c[i - (na + nb)] ELSE d[i - (na + nb + nc)]

LEMMA JoinedFour ==
  ASSUME NEW S, NEW a \in Seq(S), NEW b \in Seq(S), NEW c \in Seq(S), NEW d \in Seq(S),
         NEW na, na = Len(a), NEW nb, nb = Len(b), NEW nc, nc = Len(c), NEW nd, nd = Len(d)
  PROVE  FourIn(S, Join(Join(Join(a, b), c), d), a, b, c, d, na, nb, nc, nd)
<1> DEFINE ab == Join(a, b)
           abc == Join(ab, c)
           s == Join(abc, d)
<1>0. na \in Nat /\ nb \in Nat /\ nc \in Nat /\ nd \in Nat
  OBVIOUS
<1>1. /\ ab \in Seq(S) /\ Len(ab) = na + nb
      /\ \A i \in 1..(na + nb) : ab[i] = IF i <= na THEN a[i] ELSE b[i - na]
  BY Joined
<1> HIDE DEF ab
<1>2. /\ abc \in Seq(S) /\ Len(abc) = na + nb + nc
      /\ \A i \in 1..(na + nb + nc) : abc[i] = IF i <= na + nb THEN ab[i] ELSE c[i - (na + nb)]
  <2> DEFINE n == Len(ab)
  <2>1. /\ abc \in Seq(S) /\ Len(abc) = n + nc
        /\ \A i \in 1..(n + nc) : abc[i] = IF i <= n THEN ab[i] ELSE c[i - n]
    <3>1. ab \in Seq(S)
      BY <1>1
    <3> QED BY <3>1, Joined
  <2> HIDE DEF n, abc
  <2>2. n = na + nb
    BY <1>1 DEF n
  <2> QED BY <2>1, <2>2
<1> HIDE DEF abc
<1>3. /\ s \in Seq(S) /\ Len(s) = na + nb + nc + nd
      /\ \A i \in 1..(na + nb + nc + nd) : s[i] = IF i <= na + nb + nc THEN abc[i] ELSE d[i - (na + nb + nc)]
  <2> DEFINE n == Len(abc)
  <2>1. /\ s \in Seq(S) /\ Len(s) = n + nd
        /\ \A i \in 1..(n + nd) : s[i] = IF i <= n THEN abc[i] ELSE d[i - n]
    <3>1. abc \in Seq(S)
      BY <1>2
    <3> QED BY <3>1, Joined
  <2> HIDE DEF n, s
  <2>2. n = na + nb + nc
    BY <1>2 DEF n
  <2> QED BY <2>1, <2>2
<1> HIDE DEF s
<1>4. ASSUME NEW i \in 1..(na + nb + nc + nd)
      PROVE  s[i] = IF i <= na THEN a[i] ELSE IF i <= na + nb THEN b[i - na]
                    ELSE IF i <= na + nb + nc THEN c[i - (na + nb)] ELSE d[i - (na + nb + nc)]
  <2>1. CASE i <= na + nb
    <3>1. i \in 1..(na + nb) /\ i \in 1..(na + nb + nc) /\ i <= na + nb + nc
      BY <1>0, <2>1
    <3> QED BY <1>1, <1>2, <1>3, <2>1, <3>1
  <2>2. CASE ~(i <= na + nb) /\ i <= na + nb + nc
    <3>1. i \in 1..(na + nb + nc) /\ ~(i <= na)
      BY <1>0, <2>2
    <3> QED BY <1>2, <1>3, <2>2, <3>1
  <2>3. CASE ~(i <= na + nb + nc)
    <3>1. ~(i <= na) /\ ~(i <= na + nb)
      BY <1>0, <2>3
    <3> QED BY <1>3, <2>3, <3>1
  <2> QED BY <2>1, <2>2, <2>3
<1>5. FourIn(S, s, a, b, c, d, na, nb, nc, nd)
  BY <1>3, <1>4 DEF FourIn
<1> QED BY <1>5 DEF s, abc, ab

(* A mutation of a fork is given its number. *)
Numbered(m, n) == [m EXCEPT !.seq = n]
LEMMA Renumber ==
  ASSUME NEW kind, NEW lane, NEW id, NEW ref, NEW set, NEW n
  PROVE  Numbered(Mutation(kind, 0, lane, id, ref, set), n) = Mutation(kind, n, lane, id, ref, set)
BY DEF Mutation, Numbered

(* The mutations that a fork is made of. *)
EntryAt(i, e) == Mutation("entry", i, Absent, e.id, e.parent, FALSE)
LaneAt(i, l, leaf) == Mutation("lane", i, l, Absent, leaf, FALSE)
NameAt(i) == Mutation("name", i, Absent, Absent, Absent, TRUE)
LabelAt(i, id) == Mutation("label", i, Absent, Absent, id, TRUE)

LEMMA RenumberEach ==
  ASSUME NEW n
  PROVE  /\ \A e : Numbered(EntryAt(0, e), n) = EntryAt(n, e)
         /\ \A l, leaf : Numbered(LaneAt(0, l, leaf), n) = LaneAt(n, l, leaf)
         /\ Numbered(NameAt(0), n) = NameAt(n)
         /\ \A id : Numbered(LabelAt(0, id), n) = LabelAt(n, id)
<1> DEFINE f == FALSE
           t == TRUE
<1> HIDE DEF f, t
<1>1. ASSUME NEW e
      PROVE  Numbered(Mutation("entry", 0, Absent, e.id, e.parent, f), n) = Mutation("entry", n, Absent, e.id, e.parent, f)
  BY Renumber
<1>2. ASSUME NEW l, NEW leaf
      PROVE  Numbered(Mutation("lane", 0, l, Absent, leaf, f), n) = Mutation("lane", n, l, Absent, leaf, f)
  BY Renumber
<1>3. Numbered(Mutation("name", 0, Absent, Absent, Absent, t), n) = Mutation("name", n, Absent, Absent, Absent, t)
  BY Renumber
<1>4. ASSUME NEW id
      PROVE  Numbered(Mutation("label", 0, Absent, Absent, id, t), n) = Mutation("label", n, Absent, Absent, id, t)
  BY Renumber
<1>5. \A e : Numbered(EntryAt(0, e), n) = EntryAt(n, e)
  BY <1>1, Zenon DEF EntryAt, f
<1>6. \A l, leaf : Numbered(LaneAt(0, l, leaf), n) = LaneAt(n, l, leaf)
  BY <1>2, Zenon DEF LaneAt, f
<1>7. Numbered(NameAt(0), n) = NameAt(n)
  BY <1>3, Zenon DEF NameAt, t
<1>8. \A id : Numbered(LabelAt(0, id), n) = LabelAt(n, id)
  BY <1>4, Zenon DEF LabelAt, t
<1> QED BY <1>5, <1>6, <1>7, <1>8

(* A sequence of mutations. *)
LEMMA Sequence ==
  ASSUME NEW n \in Nat, NEW S, NEW f, f = [i \in 1..n |-> f[i]], \A i \in 1..n : f[i] \in S
  PROVE  f \in Seq(S) /\ Len(f) = n
OBVIOUS

-----------------------------------------------------------------------------
(* The log of a fork: the entries, the lanes, the name and the labels. *)
ForkIs(s, es, lanes, log, kept, labelled, nn) ==
  /\ nn = IF s.named THEN 1 ELSE 0
  /\ Len(log) = Len(es) + Len(kept) + nn + Len(labelled)
  /\ \A i \in 1..Len(log) :
       log[i] = IF i <= Len(es) THEN EntryAt(i, es[i])
                ELSE IF i <= Len(es) + Len(kept)
                THEN LaneAt(i, kept[i - Len(es)], lanes[kept[i - Len(es)]])
                ELSE IF i <= Len(es) + Len(kept) + nn THEN NameAt(i)
                ELSE LabelAt(i, labelled[i - (Len(es) + Len(kept) + nn)])

(* createForkMutations writes such a log. *)
LEMMA ForkLog ==
  ASSUME NEW s, s.named \in BOOLEAN, NEW es \in Seq(Entries), NEW lanes,
         IsFiniteSet({l \in Lanes : lanes[l] # Absent})
  PROVE  LET kept == SetToSeq({l \in Lanes : lanes[l] # Absent})
             labelled == SetToSeq({es[i].id : i \in DOMAIN es} \cap s.labels)
         IN  ForkIs(s, es, lanes, ForkMutations(s, es, lanes), kept, labelled, IF s.named THEN 1 ELSE 0)
<1> DEFINE kept == SetToSeq({l \in Lanes : lanes[l] # Absent})
           labelled == SetToSeq({es[i].id : i \in DOMAIN es} \cap s.labels)
           nn == IF s.named THEN 1 ELSE 0
           a == [i \in DOMAIN es |-> EntryAt(0, es[i])]
           b == [i \in DOMAIN kept |-> LaneAt(0, kept[i], lanes[kept[i]])]
           c == IF s.named THEN <<NameAt(0)>> ELSE <<>>
           d == [i \in DOMAIN labelled |-> LabelAt(0, labelled[i])]
           ms == a \o b \o c \o d
           log == ForkMutations(s, es, lanes)
           ne == Len(es)
           nk == Len(kept)
           nl == Len(labelled)
<1>1. log = [i \in DOMAIN ms |-> [ms[i] EXCEPT !.seq = i]]
  BY DEF ForkMutations, Renumbered, EntryAt, LaneAt, NameAt, LabelAt
<1>2. DOMAIN kept = 1..nk /\ nk \in Nat
  <2>1. kept \in Seq({l \in Lanes : lanes[l] # Absent})
    BY Listed
  <2> HIDE DEF kept
  <2> QED BY <2>1
<1>3. DOMAIN labelled = 1..nl /\ nl \in Nat
  <2> DEFINE X == {es[i].id : i \in DOMAIN es}
  <2>1. IsFiniteSet(DOMAIN es)
    <3>1. DOMAIN es = 1..ne /\ ne \in Nat
      OBVIOUS
    <3> QED BY <3>1, FS_Interval
  <2>2. IsFiniteSet(X)
    <3> DEFINE f == [i \in DOMAIN es |-> es[i].id]
    <3>1. f \in Surjection(DOMAIN es, X)
      BY DEF Surjection
    <3> HIDE DEF f, X
    <3> QED BY <2>1, <3>1, FS_Surjection
  <2>3. IsFiniteSet(X \cap s.labels)
    BY <2>2, FS_Subset
  <2>4. labelled \in Seq(X \cap s.labels)
    BY <2>3, Listed
  <2> HIDE DEF labelled
  <2> QED BY <2>4
<1>4. DOMAIN es = 1..ne /\ ne \in Nat /\ nn \in {0, 1}
  OBVIOUS
<1> HIDE DEF kept, labelled, log, ne
<1> DEFINE U == {a[i] : i \in 1..ne} \cup {b[i] : i \in 1..nk} \cup {d[i] : i \in 1..nl}
                \cup {NameAt(0)}
<1>5. a \in Seq(U) /\ Len(a) = ne /\ \A i \in 1..ne : a[i] = EntryAt(0, es[i])
  <2>1. a = [i \in 1..ne |-> a[i]] /\ \A i \in 1..ne : a[i] \in U
    BY <1>4
  <2>2. \A i \in 1..ne : a[i] = EntryAt(0, es[i])
    BY <1>4
  <2> HIDE DEF a, U
  <2> QED BY <1>4, <2>1, <2>2, Sequence
<1>6. b \in Seq(U) /\ Len(b) = nk /\ \A i \in 1..nk : b[i] = LaneAt(0, kept[i], lanes[kept[i]])
  <2>1. b = [i \in 1..nk |-> b[i]] /\ \A i \in 1..nk : b[i] \in U
    BY <1>2
  <2>2. \A i \in 1..nk : b[i] = LaneAt(0, kept[i], lanes[kept[i]])
    BY <1>2
  <2> HIDE DEF b, U
  <2> QED BY <1>2, <2>1, <2>2, Sequence
<1>7. d \in Seq(U) /\ Len(d) = nl /\ \A i \in 1..nl : d[i] = LabelAt(0, labelled[i])
  <2>1. d = [i \in 1..nl |-> d[i]] /\ \A i \in 1..nl : d[i] \in U
    BY <1>3
  <2>2. \A i \in 1..nl : d[i] = LabelAt(0, labelled[i])
    BY <1>3
  <2> HIDE DEF d, U
  <2> QED BY <1>3, <2>1, <2>2, Sequence
<1>8. c \in Seq(U) /\ Len(c) = nn /\ (nn = 1 => c[1] = NameAt(0))
  <2> DEFINE x == NameAt(0)
  <2>1. x \in U
    OBVIOUS
  <2>2. c = IF s.named THEN <<x>> ELSE <<>>
    OBVIOUS
  <2> HIDE DEF x, U, c
  <2>3. c \in Seq(U) /\ Len(c) = nn /\ (nn = 1 => c[1] = x)
    BY <2>1, <2>2
  <2> QED BY <2>3 DEF x
<1> HIDE DEF a, b, c, d, U, nn
<1>9. /\ ms \in Seq(U) /\ Len(ms) = ne + nk + nn + nl
      /\ \A i \in 1..(ne + nk + nn + nl) :
           ms[i] = IF i <= ne THEN a[i] ELSE IF i <= ne + nk THEN b[i - ne]
                   ELSE IF i <= ne + nk + nn THEN c[i - (ne + nk)] ELSE d[i - (ne + nk + nn)]
  <2>1. a \in Seq(U) /\ b \in Seq(U) /\ c \in Seq(U) /\ d \in Seq(U)
    BY <1>5, <1>6, <1>7, <1>8
  <2>2. ne = Len(a) /\ nk = Len(b) /\ nn = Len(c) /\ nl = Len(d)
    BY <1>5, <1>6, <1>7, <1>8
  <2>3. ms = Join(Join(Join(a, b), c), d)
    BY DEF Join
  <2> HIDE DEF ms, nk, nl
  <2>4. FourIn(U, ms, a, b, c, d, ne, nk, nn, nl)
    BY <2>1, <2>2, <2>3, JoinedFour
  <2> QED BY <2>4 DEF FourIn
<1> HIDE DEF ms, nk, nl
<1> DEFINE n == ne + nk + nn + nl
<1>10. DOMAIN ms = 1..n /\ n \in Nat /\ ne \in Nat /\ nk \in Nat /\ nl \in Nat /\ nn \in Nat
  BY <1>2, <1>3, <1>4, <1>9 DEF nn, nk, nl
<1>11. Len(log) = n /\ \A i \in 1..n : log[i] = Numbered(ms[i], i)
  <2>1. log = [i \in 1..n |-> log[i]] /\ \A i \in 1..n : log[i] = Numbered(ms[i], i)
    BY <1>1, <1>10 DEF Numbered
  <2>2. \A i \in 1..n : log[i] \in {log[j] : j \in 1..n}
    OBVIOUS
  <2> HIDE DEF n
  <2> QED BY <1>10, <2>1, <2>2, Sequence
<1>12. ASSUME NEW i \in 1..n
       PROVE  log[i] = IF i <= ne THEN EntryAt(i, es[i])
                       ELSE IF i <= ne + nk THEN LaneAt(i, kept[i - ne], lanes[kept[i - ne]])
                       ELSE IF i <= ne + nk + nn THEN NameAt(i)
                       ELSE LabelAt(i, labelled[i - (ne + nk + nn)])
  <2>0. log[i] = Numbered(ms[i], i)
    BY <1>11
  <2>1. CASE i <= ne
    <3>1. i \in 1..ne
      BY <1>10, <2>1
    <3>2. ms[i] = EntryAt(0, es[i])
      BY <1>5, <1>9, <2>1, <3>1
    <3>3. log[i] = EntryAt(i, es[i])
      BY <2>0, <3>2, RenumberEach
    <3> QED BY <2>1, <3>3
  <2>2. CASE ~(i <= ne) /\ i <= ne + nk
    <3> DEFINE k == i - ne
    <3>1. k \in 1..nk
      BY <1>10, <2>2
    <3>2. ms[i] = b[k]
      BY <1>9, <2>2
    <3> HIDE DEF k
    <3>3. ms[i] = LaneAt(0, kept[k], lanes[kept[k]])
      BY <1>6, <3>1, <3>2
    <3>4. log[i] = LaneAt(i, kept[k], lanes[kept[k]])
      <4> DEFINE l == kept[k]
                 leaf == lanes[kept[k]]
      <4>1. ms[i] = LaneAt(0, l, leaf)
        BY <3>3
      <4> HIDE DEF l, leaf
      <4>2. log[i] = LaneAt(i, l, leaf)
        BY <2>0, <4>1, RenumberEach
      <4> QED BY <4>2 DEF l, leaf
    <3> QED BY <2>2, <3>4 DEF k
  <2>3. CASE ~(i <= ne) /\ ~(i <= ne + nk) /\ i <= ne + nk + nn
    <3>1. nn = 1 /\ i - (ne + nk) = 1
      BY <1>4, <1>10, <2>3
    <3>2. ms[i] = c[1]
      BY <1>9, <2>3, <3>1
    <3>3. ms[i] = NameAt(0)
      BY <1>8, <3>1, <3>2
    <3>4. log[i] = NameAt(i)
      BY <2>0, <3>3, RenumberEach
    <3> QED BY <2>3, <3>4
  <2>4. CASE ~(i <= ne) /\ ~(i <= ne + nk) /\ ~(i <= ne + nk + nn)
    <3> DEFINE k == i - (ne + nk + nn)
    <3>1. k \in 1..nl
      BY <1>10, <2>4
    <3>2. ms[i] = d[k]
      BY <1>9, <2>4
    <3> HIDE DEF k
    <3>3. ms[i] = LabelAt(0, labelled[k])
      BY <1>7, <3>1, <3>2
    <3>4. log[i] = LabelAt(i, labelled[k])
      BY <2>0, <3>3, RenumberEach
    <3> QED BY <2>4, <3>4 DEF k
  <2> QED BY <2>1, <2>2, <2>3, <2>4
<1>13. nn = IF s.named THEN 1 ELSE 0
  BY DEF nn
<1>14. ForkIs(s, es, lanes, log, kept, labelled, nn)
  BY <1>11, <1>12, <1>13 DEF ForkIs, ne, nk, nl
<1> QED BY <1>14 DEF kept, labelled, log, nn

-----------------------------------------------------------------------------
(* A mutation by its fields. *)
LEMMA MutationIn ==
  ASSUME NEW kind \in Kinds, NEW seq \in Nat, NEW lane \in Lanes \cup {Absent}, NEW id \in Ids \cup {Absent},
         NEW ref \in Ids \cup {Root, Absent}, NEW set \in BOOLEAN
  PROVE  LET m == Mutation(kind, seq, lane, id, ref, set)
         IN  m \in Mutations /\ m.kind = kind /\ m.seq = seq /\ m.lane = lane /\ m.id = id /\ m.ref = ref /\ m.set = set
<1> DEFINE b == set
<1>1. b \in BOOLEAN
  OBVIOUS
<1> HIDE DEF b
<1> DEFINE m == Mutation(kind, seq, lane, id, ref, b)
<1>2. m \in Mutations /\ m.kind = kind /\ m.seq = seq /\ m.lane = lane /\ m.id = id /\ m.ref = ref /\ m.set = b
  BY <1>1 DEF Mutation, Mutations
<1> QED BY <1>2 DEF b

(* The copy of an entry, *)
LEMMA EntryAtIs ==
  ASSUME NEW i \in Nat, NEW e \in Entries
  PROVE  LET m == EntryAt(i, e)
         IN  Written(m) /\ m.kind = "entry" /\ m.seq = i /\ m.lane = Absent /\ m.id = e.id /\ m.ref = e.parent
<1> DEFINE b == FALSE
           m == Mutation("entry", i, Absent, e.id, e.parent, b)
<1>1. b \in BOOLEAN /\ "entry" \in Kinds /\ e.id \in Ids /\ e.parent \in Leaves
  BY DEF Kinds, Entries
<1>2. EntryAt(i, e) = m
  BY DEF EntryAt
<1> HIDE DEF b
<1>3. m \in Mutations /\ m.kind = "entry" /\ m.seq = i /\ m.lane = Absent /\ m.id = e.id /\ m.ref = e.parent
  <2>1. Absent \in Lanes \cup {Absent} /\ e.id \in Ids \cup {Absent} /\ e.parent \in Ids \cup {Root, Absent}
    BY <1>1 DEF Leaves
  <2>2. m \in Mutations
    BY <1>1, <2>1, MutationIn
  <2>3. m.kind = "entry" /\ m.seq = i /\ m.lane = Absent /\ m.id = e.id /\ m.ref = e.parent
    BY DEF Mutation
  <2> QED BY <2>2, <2>3
<1> HIDE DEF m
<1>4. Written(m)
  BY <1>1, <1>3 DEF Written
<1> QED BY <1>2, <1>3, <1>4

(* of a lane, *)
LEMMA LaneAtIs ==
  ASSUME NEW i \in Nat, NEW l \in Lanes, NEW leaf \in Leaves
  PROVE  LET m == LaneAt(i, l, leaf)
         IN  Written(m) /\ m.kind = "lane" /\ m.seq = i /\ m.lane = l /\ m.ref = leaf
<1> DEFINE b == FALSE
           m == Mutation("lane", i, l, Absent, leaf, b)
<1>1. b \in BOOLEAN /\ "lane" \in Kinds
  BY DEF Kinds
<1>2. LaneAt(i, l, leaf) = m
  BY DEF LaneAt
<1> HIDE DEF b
<1>3. m \in Mutations /\ m.kind = "lane" /\ m.seq = i /\ m.lane = l /\ m.ref = leaf
  <2>1. Absent \in Ids \cup {Absent} /\ l \in Lanes \cup {Absent} /\ leaf \in Ids \cup {Root, Absent}
    BY DEF Leaves
  <2>2. m \in Mutations
    BY <1>1, <2>1, MutationIn
  <2>3. m.kind = "lane" /\ m.seq = i /\ m.lane = l /\ m.ref = leaf
    BY DEF Mutation
  <2> QED BY <2>2, <2>3
<1> HIDE DEF m
<1>4. Written(m)
  BY <1>3 DEF Written
<1> QED BY <1>2, <1>3, <1>4

(* of the name *)
LEMMA NameAtIs ==
  ASSUME NEW i \in Nat
  PROVE  LET m == NameAt(i)
         IN  Written(m) /\ m.kind = "name" /\ m.seq = i /\ m.set = TRUE
<1> DEFINE b == TRUE
           m == Mutation("name", i, Absent, Absent, Absent, b)
<1>0. b = TRUE
  OBVIOUS
<1>1. b \in BOOLEAN /\ "name" \in Kinds
  BY DEF Kinds
<1>2. NameAt(i) = m
  BY DEF NameAt
<1> HIDE DEF b
<1>3. m \in Mutations /\ m.kind = "name" /\ m.seq = i
  <2>1. Absent \in Lanes \cup {Absent} /\ Absent \in Ids \cup {Absent} /\ Absent \in Ids \cup {Root, Absent}
    OBVIOUS
  <2>2. m \in Mutations
    BY <1>1, <2>1, MutationIn
  <2>3. m.kind = "name" /\ m.seq = i
    BY DEF Mutation
  <2> QED BY <2>2, <2>3
<1>4. m.set = b
  BY DEF Mutation
<1> HIDE DEF m
<1>5. Written(m)
  BY <1>3 DEF Written
<1> QED BY <1>0, <1>2, <1>3, <1>4, <1>5

(* and of a label. *)
LEMMA LabelAtIs ==
  ASSUME NEW i \in Nat, NEW id \in Ids
  PROVE  LET m == LabelAt(i, id)
         IN  Written(m) /\ m.kind = "label" /\ m.seq = i /\ m.ref = id /\ m.set = TRUE
<1> DEFINE b == TRUE
           m == Mutation("label", i, Absent, Absent, id, b)
<1>0. b = TRUE
  OBVIOUS
<1>1. b \in BOOLEAN /\ "label" \in Kinds
  BY DEF Kinds
<1>2. LabelAt(i, id) = m
  BY DEF LabelAt
<1> HIDE DEF b
<1>3. m \in Mutations /\ m.kind = "label" /\ m.seq = i /\ m.ref = id
  <2>1. Absent \in Lanes \cup {Absent} /\ Absent \in Ids \cup {Absent} /\ id \in Ids \cup {Root, Absent}
    OBVIOUS
  <2>2. m \in Mutations
    BY <1>1, <2>1, MutationIn
  <2>3. m.kind = "label" /\ m.seq = i /\ m.ref = id
    BY DEF Mutation
  <2> QED BY <2>2, <2>3
<1>4. m.set = b
  BY DEF Mutation
<1> HIDE DEF m
<1>5. Written(m)
  BY <1>3 DEF Written
<1> QED BY <1>0, <1>2, <1>3, <1>4, <1>5

-----------------------------------------------------------------------------
(* What a mutation changes, as one formula. *)
Changed(s, m, t) ==
  /\ t.seq = m.seq
  /\ t.used = IF m.kind \in {"entry", "started", "finished"} THEN s.used \cup {m.id} ELSE s.used
  /\ t.entries = IF m.kind = "entry" THEN Append(s.entries, [id |-> m.id, parent |-> m.ref]) ELSE s.entries
  /\ t.lanes = IF m.kind = "entry" /\ m.lane # Absent THEN [s.lanes EXCEPT ![m.lane] = m.id]
               ELSE IF m.kind = "lane" THEN [s.lanes EXCEPT ![m.lane] = m.ref] ELSE s.lanes
  /\ m.kind \notin {"started", "finished"} => t.open = s.open
  /\ t.named = IF m.kind = "name" THEN m.set ELSE s.named
  /\ t.labels = IF m.kind = "label" THEN IF m.set THEN s.labels \cup {m.ref} ELSE s.labels \ {m.ref}
                ELSE s.labels

(* One mutation is replayed. *)
LEMMA ReplayedFields ==
  ASSUME NEW r, r.ok = TRUE, IsState(r.state), NEW m, Written(m), Valid(r.state, m)
  PROVE  LET q == Replayed(r, m)
         IN  q.ok = TRUE /\ IsState(q.state) /\ Changed(r.state, m, q.state)
<1> DEFINE t == Applied(r.state, m)
           q == Replayed(r, m)
<1>1. q = [ok |-> TRUE, state |-> t]
  BY DEF Replayed
<1>2. IsState(t)
  BY AppliedIsState
<1>3. Changed(r.state, m, t)
  <2> SUFFICES ASSUME NEW s, IsState(s) PROVE Changed(s, m, Applied(s, m))
    OBVIOUS
  <2> DEFINE u == Applied(s, m)
  <2>1. /\ u.seq = m.seq
        /\ u.used = IF m.kind \in {"entry", "started", "finished"} THEN s.used \cup {m.id} ELSE s.used
        /\ u.entries = IF m.kind = "entry" THEN Append(s.entries, [id |-> m.id, parent |-> m.ref]) ELSE s.entries
        /\ u.lanes = IF m.kind = "entry" /\ m.lane # Absent THEN [s.lanes EXCEPT ![m.lane] = m.id]
                     ELSE IF m.kind = "lane" THEN [s.lanes EXCEPT ![m.lane] = m.ref] ELSE s.lanes
        /\ m.kind \notin {"started", "finished"} => u.open = s.open
        /\ u.named = IF m.kind = "name" THEN m.set ELSE s.named
        /\ u.labels = IF m.kind = "label" THEN IF m.set THEN s.labels \cup {m.ref} ELSE s.labels \ {m.ref}
                      ELSE s.labels
    BY AppliedFields
  <2> HIDE DEF u
  <2>2. Changed(s, m, u)
    BY <2>1 DEF Changed
  <2> QED BY <2>2 DEF u
<1> HIDE DEF t, q
<1>4. q.ok = TRUE /\ q.state = t
  BY <1>1
<1> QED BY <1>2, <1>3, <1>4 DEF q

(* What a fork is made of: entries in order and lanes that lead to them. *)
CopyOf(es, lanes) ==
  /\ es \in Seq(Entries) /\ Rooted(es) /\ Unique(es)
  /\ lanes \in [Lanes -> Leaves \cup {Absent}] /\ lanes[Main] # Absent
  /\ \A l \in Lanes : lanes[l] # Absent => lanes[l] = Root \/ \E k \in 1..Len(es) : es[k].id = lanes[l]
  /\ IsFiniteSet({l \in Lanes : lanes[l] # Absent})

(* The state when i mutations of the fork are replayed. *)
Copied(es, i) == {es[k].id : k \in {j \in 1..Len(es) : j <= i}}
LanesAt(es, lanes, kept, i) ==
  [l \in Lanes |-> IF \E k \in 1..Len(kept) : kept[k] = l /\ Len(es) + k <= i THEN lanes[l] ELSE Empty.lanes[l]]
LabelsAt(labelled, at, i) == {labelled[k] : k \in {j \in 1..Len(labelled) : at + j <= i}}
At(es, lanes, kept, labelled, nn, r, i) ==
  /\ r.ok = TRUE /\ IsState(r.state) /\ r.state.seq = i
  /\ r.state.used = Copied(es, i)
  /\ i <= Len(es) => r.state.entries = SubSeq(es, 1, i)
  /\ i >= Len(es) => r.state.entries = es
  /\ r.state.lanes = LanesAt(es, lanes, kept, i) /\ r.state.open = Empty.open
  /\ r.state.named = TRUE <=> nn = 1 /\ Len(es) + Len(kept) < i
  /\ r.state.labels = LabelsAt(labelled, Len(es) + Len(kept) + nn, i)

-----------------------------------------------------------------------------
(* Nothing is replayed yet, *)
LEMMA AtZero ==
  ASSUME NEW es, NEW lanes, CopyOf(es, lanes), NEW kept \in Seq(Lanes), NEW labelled \in Seq(Ids), NEW nn \in {0, 1}
  PROVE  At(es, lanes, kept, labelled, nn, Fresh, 0)
<1> DEFINE ne == Len(es)
           nk == Len(kept)
           nl == Len(labelled)
<1>1. ne \in Nat /\ nk \in Nat /\ nl \in Nat
  BY DEF CopyOf
<1>2. /\ Fresh.ok = TRUE /\ Fresh.state.seq = 0 /\ Fresh.state.used = {} /\ Fresh.state.entries = <<>>
      /\ Fresh.state.lanes = Empty.lanes /\ Fresh.state.open = Empty.open /\ Fresh.state.named = FALSE /\ Fresh.state.labels = {}
      /\ IsState(Fresh.state)
  BY EmptyConsistent DEF Fresh, Empty, Consistent
<1>3. Copied(es, 0) = {}
  BY <1>1 DEF Copied
<1>4. SubSeq(es, 1, 0) = <<>> /\ (0 >= ne => es = <<>>)
  <2>1. es \in Seq(Entries)
    BY DEF CopyOf
  <2> QED BY <1>1, <2>1
<1>5. LanesAt(es, lanes, kept, 0) = Empty.lanes
  <2>1. \A l \in Lanes : ~\E k \in 1..nk : kept[k] = l /\ ne + k <= 0
    BY <1>1
  <2>2. LanesAt(es, lanes, kept, 0) = [l \in Lanes |-> Empty.lanes[l]]
    BY <2>1 DEF LanesAt
  <2>3. Empty.lanes = [l \in Lanes |-> Empty.lanes[l]]
    BY DEF Empty
  <2> QED BY <2>2, <2>3
<1>6. LabelsAt(labelled, ne + nk + nn, 0) = {}
  BY <1>1 DEF LabelsAt
<1>7. ~(nn = 1 /\ ne + nk < 0)
  BY <1>1
<1> HIDE DEF ne, nk, nl
<1>8. Fresh.state.named = TRUE <=> nn = 1 /\ Len(es) + Len(kept) < 0
  BY <1>2, <1>7 DEF ne, nk
<1> QED BY <1>1, <1>2, <1>3, <1>4, <1>5, <1>6, <1>8 DEF At, ne, nk

(* one entry more, *)
LEMMA AtEntry ==
  ASSUME NEW es, NEW lanes, CopyOf(es, lanes), NEW kept \in Seq(Lanes), NEW labelled \in Seq(Ids), NEW nn \in {0, 1},
         NEW i \in Nat, i < Len(es), NEW r, At(es, lanes, kept, labelled, nn, r, i)
  PROVE  At(es, lanes, kept, labelled, nn, Replayed(r, EntryAt(i + 1, es[i + 1])), i + 1)
<1> DEFINE e == es[i + 1]
           m == EntryAt(i + 1, e)
           q == Replayed(r, m)
           ne == Len(es)
           nk == Len(kept)
<1>1. ne \in Nat /\ nk \in Nat /\ Len(labelled) \in Nat /\ i + 1 \in 1..ne /\ e \in Entries /\ es \in Seq(Entries)
  BY DEF CopyOf
<1>2. Written(m) /\ m.kind = "entry" /\ m.seq = i + 1 /\ m.lane = Absent /\ m.id = e.id /\ m.ref = e.parent
  BY <1>1, EntryAtIs
<1>3. /\ r.ok = TRUE /\ IsState(r.state) /\ r.state.seq = i /\ r.state.used = Copied(es, i)
      /\ r.state.entries = SubSeq(es, 1, i) /\ r.state.lanes = LanesAt(es, lanes, kept, i)
      /\ r.state.open = Empty.open
      /\ (r.state.named = TRUE <=> nn = 1 /\ ne + nk < i)
      /\ r.state.labels = LabelsAt(labelled, ne + nk + nn, i)
  BY <1>1 DEF At
<1>4. Valid(r.state, m)
  <2>1. e.id \notin Copied(es, i)
    BY <1>1 DEF Copied, CopyOf, Unique
  <2>2. Target(r.state, e.parent)
    <3>1. e.parent = Root \/ \E k \in 1..ne : k < i + 1 /\ es[k].id = e.parent
      BY <1>1 DEF CopyOf, Rooted
    <3>2. ASSUME NEW k \in 1..ne, k < i + 1, es[k].id = e.parent PROVE e.parent \in EntryIds(r.state)
      <4>1. k \in 1..i
        BY <1>1, <3>2
      <4>2. k \in DOMAIN r.state.entries /\ r.state.entries[k] = es[k]
        BY <1>1, <1>3, <4>1
      <4> QED BY <3>2, <4>2 DEF EntryIds
    <3> QED BY <3>1, <3>2 DEF Target
  <2> QED BY <1>2, <1>3, <2>1, <2>2 DEF Valid
<1>5. q.ok = TRUE /\ IsState(q.state) /\ Changed(r.state, m, q.state)
  BY <1>2, <1>3, <1>4, ReplayedFields
<1> HIDE DEF q, m, e
<1>6. /\ q.state.seq = i + 1 /\ q.state.used = Copied(es, i) \cup {e.id}
      /\ q.state.entries = Append(SubSeq(es, 1, i), [id |-> e.id, parent |-> e.parent])
      /\ q.state.lanes = LanesAt(es, lanes, kept, i) /\ q.state.open = Empty.open
      /\ q.state.labels = LabelsAt(labelled, ne + nk + nn, i)
  BY <1>2, <1>3, <1>5 DEF Changed
<1>7. q.state.named = TRUE <=> nn = 1 /\ ne + nk < i + 1
  <2>1. q.state.named = r.state.named
    BY <1>2, <1>5 DEF Changed
  <2>2. ~(ne + nk < i) /\ ~(ne + nk < i + 1)
    BY <1>1
  <2> QED BY <1>3, <2>1, <2>2
<1>8. Copied(es, i) \cup {e.id} = Copied(es, i + 1)
  <2>1. \A j \in 1..ne : j <= i + 1 <=> j <= i \/ j = i + 1
    BY <1>1
  <2> QED BY <1>1, <2>1 DEF Copied, e
<1>9. Append(SubSeq(es, 1, i), [id |-> e.id, parent |-> e.parent]) = SubSeq(es, 1, i + 1)
  <2>1. e = [id |-> e.id, parent |-> e.parent]
    BY <1>1 DEF Entries
  <2>2. Append(SubSeq(es, 1, i), es[i + 1]) = SubSeq(es, 1, i + 1)
    BY <1>1
  <2> QED BY <2>1, <2>2 DEF e
<1>10. LanesAt(es, lanes, kept, i) = LanesAt(es, lanes, kept, i + 1)
  <2>1. \A k \in 1..nk : ~(ne + k <= i) /\ ~(ne + k <= i + 1)
    BY <1>1
  <2> QED BY <2>1 DEF LanesAt
<1>11. LabelsAt(labelled, ne + nk + nn, i) = LabelsAt(labelled, ne + nk + nn, i + 1)
  <2>1. \A k \in 1..Len(labelled) : ~(ne + nk + nn + k <= i) /\ ~(ne + nk + nn + k <= i + 1)
    BY <1>1
  <2> QED BY <2>1 DEF LabelsAt
<1>12. (i + 1 <= ne => q.state.entries = SubSeq(es, 1, i + 1)) /\ (i + 1 >= ne => q.state.entries = es)
  <2>1. q.state.entries = SubSeq(es, 1, i + 1)
    BY <1>6, <1>9
  <2>2. i + 1 >= ne => i + 1 = ne /\ SubSeq(es, 1, ne) = es
    BY <1>1
  <2> QED BY <2>1, <2>2
<1>13. At(es, lanes, kept, labelled, nn, q, i + 1)
  BY <1>5, <1>6, <1>7, <1>8, <1>10, <1>11, <1>12 DEF At
<1> QED BY <1>13 DEF q, m, e

-----------------------------------------------------------------------------
(* one lane more, *)
LEMMA AtLane ==
  ASSUME NEW es, NEW lanes, CopyOf(es, lanes), NEW kept \in Seq(Lanes), NEW labelled \in Seq(Ids), NEW nn \in {0, 1},
         NEW i \in Nat, Len(es) <= i, i < Len(es) + Len(kept), lanes[kept[i + 1 - Len(es)]] # Absent,
         NEW r, At(es, lanes, kept, labelled, nn, r, i)
  PROVE  LET l == kept[i + 1 - Len(es)]
         IN  At(es, lanes, kept, labelled, nn, Replayed(r, LaneAt(i + 1, l, lanes[l])), i + 1)
<1> DEFINE ne == Len(es)
           nk == Len(kept)
           c == i + 1 - ne
           l == kept[c]
           leaf == lanes[l]
           m == LaneAt(i + 1, l, leaf)
           q == Replayed(r, m)
<1>1. ne \in Nat /\ nk \in Nat /\ Len(labelled) \in Nat /\ c \in 1..nk /\ es \in Seq(Entries)
  BY DEF CopyOf
<1>2. l \in Lanes /\ leaf \in Leaves
  <2>1. l \in Lanes
    BY <1>1
  <2>2. leaf # Absent
    OBVIOUS
  <2> HIDE DEF l
  <2> QED BY <2>1, <2>2 DEF CopyOf
<1>3. ne + c = i + 1 /\ i + 1 \in Nat
  BY <1>1
<1>4. At(es, lanes, kept, labelled, nn, r, i) /\ lanes[l] # Absent /\ ne <= i
  OBVIOUS
<1> HIDE DEF c, l, leaf, m, q, ne, nk
<1>5. Written(m) /\ m.kind = "lane" /\ m.seq = i + 1 /\ m.lane = l /\ m.ref = leaf
  BY <1>2, <1>3, LaneAtIs DEF m
<1>6. /\ r.ok = TRUE /\ IsState(r.state) /\ r.state.seq = i /\ r.state.used = Copied(es, i)
      /\ r.state.entries = es /\ r.state.lanes = LanesAt(es, lanes, kept, i) /\ r.state.open = Empty.open
      /\ (r.state.named = TRUE <=> nn = 1 /\ ne + nk < i)
      /\ r.state.labels = LabelsAt(labelled, ne + nk + nn, i)
  BY <1>1, <1>4 DEF At, ne, nk
<1>7. Valid(r.state, m)
  <2>1. Target(r.state, leaf)
    <3>1. leaf = Root \/ \E k \in 1..ne : es[k].id = leaf
      BY <1>2, <1>4 DEF CopyOf, leaf, ne
    <3>2. \A k \in 1..ne : k \in DOMAIN r.state.entries
      BY <1>1, <1>6 DEF ne
    <3> QED BY <1>6, <3>1, <3>2 DEF Target, EntryIds
  <2> QED BY <1>5, <1>6, <2>1 DEF Valid
<1>8. q.ok = TRUE /\ IsState(q.state) /\ Changed(r.state, m, q.state)
  BY <1>5, <1>6, <1>7, ReplayedFields DEF q
<1>9. /\ q.state.seq = i + 1 /\ q.state.used = Copied(es, i) /\ q.state.entries = es
      /\ q.state.lanes = [LanesAt(es, lanes, kept, i) EXCEPT ![l] = leaf] /\ q.state.open = Empty.open
      /\ q.state.labels = LabelsAt(labelled, ne + nk + nn, i)
  BY <1>5, <1>6, <1>8 DEF Changed
<1>10. q.state.named = TRUE <=> nn = 1 /\ ne + nk < i + 1
  <2>1. q.state.named = r.state.named
    BY <1>5, <1>8 DEF Changed
  <2>2. ~(ne + nk < i) /\ ~(ne + nk < i + 1)
    BY <1>1, <1>3
  <2> QED BY <1>6, <2>1, <2>2
<1>11. Copied(es, i) = Copied(es, i + 1)
  <2>1. \A j \in 1..ne : j <= i /\ j <= i + 1
    BY <1>1, <1>4
  <2> QED BY <2>1 DEF Copied, ne
<1>12. [LanesAt(es, lanes, kept, i) EXCEPT ![l] = leaf] = LanesAt(es, lanes, kept, i + 1)
  <2> DEFINE f == LanesAt(es, lanes, kept, i)
             g == LanesAt(es, lanes, kept, i + 1)
             by(x, n) == \E k \in 1..nk : kept[k] = x /\ ne + k <= n
  <2>1. ASSUME NEW x \in Lanes PROVE [f EXCEPT ![l] = leaf][x] = g[x]
    <3>1. f[x] = (IF by(x, i) THEN lanes[x] ELSE Empty.lanes[x]) /\ g[x] = (IF by(x, i + 1) THEN lanes[x] ELSE Empty.lanes[x])
      BY DEF LanesAt, nk, ne
    <3>2. by(l, i + 1)
      BY <1>1, <1>3 DEF l
    <3>3. x # l => (by(x, i + 1) <=> by(x, i))
      <4>1. ASSUME x # l, NEW k \in 1..nk, kept[k] = x, ne + k <= i + 1 PROVE ne + k <= i
        <5>1. k # c
          BY <4>1 DEF l
        <5> QED BY <1>1, <1>3, <4>1, <5>1
      <4>2. \A k \in 1..nk : ne + k <= i => ne + k <= i + 1
        BY <1>1
      <4> QED BY <4>1, <4>2
    <3>4. [f EXCEPT ![l] = leaf][x] = IF x = l THEN leaf ELSE f[x]
      BY DEF LanesAt
    <3> HIDE DEF f, g, by
    <3> QED BY <3>1, <3>2, <3>3, <3>4 DEF leaf
  <2>2. [f EXCEPT ![l] = leaf] = [x \in Lanes |-> [f EXCEPT ![l] = leaf][x]] /\ g = [x \in Lanes |-> g[x]]
    BY DEF LanesAt
  <2> HIDE DEF f, g
  <2>3. [f EXCEPT ![l] = leaf] = g
    BY <2>1, <2>2
  <2> QED BY <2>3 DEF f, g
<1>13. LabelsAt(labelled, ne + nk + nn, i) = LabelsAt(labelled, ne + nk + nn, i + 1)
  <2>1. \A k \in 1..Len(labelled) : ~(ne + nk + nn + k <= i) /\ ~(ne + nk + nn + k <= i + 1)
    BY <1>1, <1>3
  <2> QED BY <2>1 DEF LabelsAt
<1>14. i + 1 <= ne => FALSE
  BY <1>1, <1>4
<1>15. At(es, lanes, kept, labelled, nn, q, i + 1)
  BY <1>8, <1>9, <1>10, <1>11, <1>12, <1>13, <1>14 DEF At, ne, nk
<1> QED BY <1>15 DEF q, m, l, leaf, c, ne

(* the name, *)
LEMMA AtName ==
  ASSUME NEW es, NEW lanes, CopyOf(es, lanes), NEW kept \in Seq(Lanes), NEW labelled \in Seq(Ids), NEW nn \in {0, 1},
         NEW i \in Nat, i = Len(es) + Len(kept), nn = 1, NEW r, At(es, lanes, kept, labelled, nn, r, i)
  PROVE  At(es, lanes, kept, labelled, nn, Replayed(r, NameAt(i + 1)), i + 1)
<1> DEFINE ne == Len(es)
           nk == Len(kept)
           m == NameAt(i + 1)
           q == Replayed(r, m)
<1>1. ne \in Nat /\ nk \in Nat /\ Len(labelled) \in Nat /\ es \in Seq(Entries) /\ i = ne + nk /\ i + 1 \in Nat
  BY DEF CopyOf
<1> HIDE DEF m, q, ne, nk
<1>2. Written(m) /\ m.kind = "name" /\ m.seq = i + 1 /\ m.set = TRUE
  BY <1>1, NameAtIs DEF m
<1>3. /\ r.ok = TRUE /\ IsState(r.state) /\ r.state.seq = i /\ r.state.used = Copied(es, i)
      /\ r.state.entries = es /\ r.state.lanes = LanesAt(es, lanes, kept, i) /\ r.state.open = Empty.open
      /\ r.state.labels = LabelsAt(labelled, ne + nk + nn, i)
  BY <1>1 DEF At, ne, nk
<1>4. Valid(r.state, m)
  BY <1>2, <1>3 DEF Valid
<1>5. q.ok = TRUE /\ IsState(q.state) /\ Changed(r.state, m, q.state)
  BY <1>2, <1>3, <1>4, ReplayedFields DEF q
<1>6. /\ q.state.seq = i + 1 /\ q.state.used = Copied(es, i) /\ q.state.entries = es
      /\ q.state.lanes = LanesAt(es, lanes, kept, i) /\ q.state.open = Empty.open
      /\ q.state.labels = LabelsAt(labelled, ne + nk + nn, i)
  BY <1>2, <1>3, <1>5 DEF Changed
<1>7. q.state.named = TRUE <=> nn = 1 /\ ne + nk < i + 1
  <2>1. q.state.named = m.set
    BY <1>2, <1>5 DEF Changed
  <2>2. q.state.named = TRUE
    BY <1>2, <2>1
  <2>3. ne + nk < i + 1
    BY <1>1
  <2> QED BY <2>2, <2>3
<1>8. Copied(es, i) = Copied(es, i + 1)
  <2>1. \A j \in 1..ne : j <= i /\ j <= i + 1
    BY <1>1
  <2> QED BY <2>1 DEF Copied, ne
<1>9. LanesAt(es, lanes, kept, i) = LanesAt(es, lanes, kept, i + 1)
  <2>1. \A k \in 1..nk : ne + k <= i /\ ne + k <= i + 1
    BY <1>1
  <2> QED BY <2>1 DEF LanesAt, ne, nk
<1>10. LabelsAt(labelled, ne + nk + nn, i) = LabelsAt(labelled, ne + nk + nn, i + 1)
  <2>1. \A k \in 1..Len(labelled) : ~(ne + nk + nn + k <= i) /\ ~(ne + nk + nn + k <= i + 1)
    BY <1>1
  <2> QED BY <2>1 DEF LabelsAt
<1>11. i + 1 <= ne => FALSE
  BY <1>1
<1>12. At(es, lanes, kept, labelled, nn, q, i + 1)
  BY <1>5, <1>6, <1>7, <1>8, <1>9, <1>10, <1>11 DEF At, ne, nk
<1> QED BY <1>12 DEF q, m

(* one label more. *)
LEMMA AtLabel ==
  ASSUME NEW es, NEW lanes, CopyOf(es, lanes), NEW kept \in Seq(Lanes), NEW labelled \in Seq(Ids), NEW nn \in {0, 1},
         NEW i \in Nat, Len(es) + Len(kept) + nn <= i, i < Len(es) + Len(kept) + nn + Len(labelled),
         \E k \in 1..Len(es) : es[k].id = labelled[i + 1 - (Len(es) + Len(kept) + nn)],
         NEW r, At(es, lanes, kept, labelled, nn, r, i)
  PROVE  At(es, lanes, kept, labelled, nn, Replayed(r, LabelAt(i + 1, labelled[i + 1 - (Len(es) + Len(kept) + nn)])), i + 1)
<1> DEFINE ne == Len(es)
           nk == Len(kept)
           nl == Len(labelled)
           at == ne + nk + nn
           c == i + 1 - at
           id == labelled[c]
           m == LabelAt(i + 1, id)
           q == Replayed(r, m)
<1>1. ne \in Nat /\ nk \in Nat /\ nl \in Nat /\ at \in Nat /\ c \in 1..nl /\ es \in Seq(Entries) /\ at + c = i + 1 /\ i + 1 \in Nat
      /\ at <= i /\ ne <= i /\ ne + nk <= i
  BY DEF CopyOf
<1>2. id \in Ids /\ \E k \in 1..ne : es[k].id = id
  BY <1>1
<1> HIDE DEF c, id, m, q, ne, nk, nl
<1>3. Written(m) /\ m.kind = "label" /\ m.seq = i + 1 /\ m.ref = id /\ m.set = TRUE
  BY <1>1, <1>2, LabelAtIs DEF m
<1>4. /\ r.ok = TRUE /\ IsState(r.state) /\ r.state.seq = i /\ r.state.used = Copied(es, i)
      /\ r.state.entries = es /\ r.state.lanes = LanesAt(es, lanes, kept, i) /\ r.state.open = Empty.open
      /\ (r.state.named = TRUE <=> nn = 1 /\ ne + nk < i)
      /\ r.state.labels = LabelsAt(labelled, at, i)
  BY <1>1 DEF At, ne, nk
<1>5. Valid(r.state, m)
  <2>1. \A k \in 1..ne : k \in DOMAIN r.state.entries
    BY <1>1, <1>4 DEF ne
  <2>2. id \in EntryIds(r.state)
    BY <1>2, <1>4, <2>1 DEF EntryIds
  <2> QED BY <1>3, <1>4, <2>2 DEF Valid
<1>6. q.ok = TRUE /\ IsState(q.state) /\ Changed(r.state, m, q.state)
  BY <1>3, <1>4, <1>5, ReplayedFields DEF q
<1>7. /\ q.state.seq = i + 1 /\ q.state.used = Copied(es, i) /\ q.state.entries = es
      /\ q.state.lanes = LanesAt(es, lanes, kept, i) /\ q.state.open = Empty.open
      /\ q.state.labels = LabelsAt(labelled, at, i) \cup {id}
  BY <1>3, <1>4, <1>6 DEF Changed
<1>8. q.state.named = TRUE <=> nn = 1 /\ ne + nk < i + 1
  <2>1. q.state.named = r.state.named
    BY <1>3, <1>6 DEF Changed
  <2>2. ASSUME nn = 1 PROVE ne + nk < i /\ ne + nk < i + 1
    <3>1. at = ne + nk + 1
      BY <2>2
    <3>2. at <= i /\ ne \in Nat /\ nk \in Nat
      BY <1>1
    <3> HIDE DEF at
    <3> QED BY ONLY <3>1, <3>2, i \in Nat
  <2> QED BY <1>4, <2>1, <2>2
<1>9. Copied(es, i) = Copied(es, i + 1)
  <2>1. \A j \in 1..ne : j <= i /\ j <= i + 1
    BY <1>1
  <2> QED BY <2>1 DEF Copied, ne
<1>10. LanesAt(es, lanes, kept, i) = LanesAt(es, lanes, kept, i + 1)
  <2>1. \A k \in 1..nk : ne + k <= i /\ ne + k <= i + 1
    BY <1>1
  <2> QED BY <2>1 DEF LanesAt, ne, nk
<1>11. LabelsAt(labelled, at, i) \cup {id} = LabelsAt(labelled, at, i + 1)
  <2>1. \A k \in 1..nl : at + k <= i + 1 <=> at + k <= i \/ k = c
    <3>1. at \in Nat /\ nl \in Nat /\ c \in 1..nl /\ at + c = i + 1
      BY <1>1
    <3> HIDE DEF at
    <3> QED BY ONLY <3>1, i \in Nat
  <2> QED BY <1>1, <2>1 DEF LabelsAt, nl, id
<1>12. i + 1 <= ne => FALSE
  BY <1>1
<1>13. At(es, lanes, kept, labelled, nn, q, i + 1)
  BY <1>6, <1>7, <1>8, <1>9, <1>10, <1>11, <1>12 DEF At, ne, nk
<1> QED BY <1>13 DEF q, m, id, c, ne, nk

-----------------------------------------------------------------------------
(* What the replay of a fork comes to. *)
ForkedTo(r, s, es, lanes) ==
  /\ r.ok = TRUE /\ r.state.entries = es /\ r.state.lanes = lanes /\ r.state.named = s.named
  /\ r.state.open = Empty.open
  /\ r.state.labels = s.labels \cap {es[k].id : k \in 1..Len(es)}

(* The mutations of a fork are replayed to what was copied. *)
LEMMA ForkReplays ==
  ASSUME NEW s, s.named \in BOOLEAN, s.labels \subseteq Ids, NEW es, NEW lanes, CopyOf(es, lanes)
  PROVE  ForkedTo(Replay(ForkMutations(s, es, lanes)), s, es, lanes)
<1> DEFINE K == {l \in Lanes : lanes[l] # Absent}
           B == {es[k].id : k \in DOMAIN es} \cap s.labels
           kept == SetToSeq(K)
           labelled == SetToSeq(B)
           nn == IF s.named THEN 1 ELSE 0
           log == ForkMutations(s, es, lanes)
           ne == Len(es)
           nk == Len(kept)
           nl == Len(labelled)
           n == Len(log)
<1>1. es \in Seq(Entries) /\ IsFiniteSet(K)
  BY DEF CopyOf
<1>2. ForkIs(s, es, lanes, log, kept, labelled, nn)
  BY <1>1, ForkLog
<1>3. kept \in Seq(K) /\ \A l \in K : \E k \in 1..nk : kept[k] = l
  BY <1>1, Listed
<1>4. labelled \in Seq(B) /\ \A id \in B : \E k \in 1..nl : labelled[k] = id
  <2> DEFINE X == {es[i].id : i \in DOMAIN es}
  <2>1. IsFiniteSet(DOMAIN es)
    <3>1. DOMAIN es = 1..ne /\ ne \in Nat
      BY <1>1
    <3> QED BY <3>1, FS_Interval
  <2>2. IsFiniteSet(X)
    <3> DEFINE f == [i \in DOMAIN es |-> es[i].id]
    <3>1. f \in Surjection(DOMAIN es, X)
      BY DEF Surjection
    <3> HIDE DEF f, X
    <3> QED BY <2>1, <3>1, FS_Surjection
  <2>3. IsFiniteSet(B)
    BY <2>2, FS_Subset
  <2> HIDE DEF B
  <2> QED BY <2>3, Listed
<1>5. nn \in {0, 1}
  OBVIOUS
<1>6. K \subseteq Lanes /\ B \subseteq Ids /\ \A id \in B : \E k \in 1..ne : es[k].id = id
  BY <1>1
<1>7. \A l \in Lanes : l \in K <=> lanes[l] # Absent
  OBVIOUS
<1>8. B = s.labels \cap {es[k].id : k \in 1..Len(es)}
  BY <1>1
<1> HIDE DEF kept, labelled, log, K, B
<1>9. ne \in Nat /\ nk \in Nat /\ nl \in Nat /\ kept \in Seq(Lanes) /\ labelled \in Seq(Ids)
  BY <1>1, <1>3, <1>4, <1>6
<1>10. n = ne + nk + nn + nl /\ n \in Nat
  BY <1>2, <1>5, <1>9 DEF ForkIs
<1>11. PICK g : RunOf(log, n, g) /\ Replay(log) = g[n]
  BY <1>10, ReplayRuns
<1> DEFINE S == {i \in 0..n : At(es, lanes, kept, labelled, nn, g[i], i)}
<1>12. 0 \in S
  <2>1. g[0] = Fresh
    BY <1>11 DEF RunOf
  <2>2. At(es, lanes, kept, labelled, nn, Fresh, 0)
    BY <1>5, <1>9, AtZero
  <2> QED BY <1>10, <2>1, <2>2
<1>13. ASSUME NEW i \in 0..n, i < n, i \in S PROVE i + 1 \in S
  <2> DEFINE r == g[i]
             j == i + 1
  <2>1. At(es, lanes, kept, labelled, nn, r, i) /\ i \in Nat
    BY <1>10, <1>13
  <2>2. g[i + 1] = Replayed(r, log[i + 1])
    <3>1. i + 1 \in 1..n /\ (i + 1) - 1 = i
      BY <1>10, <1>13
    <3> QED BY <1>11, <3>1 DEF RunOf
  <2>3. log[j] = IF j <= ne THEN EntryAt(j, es[j])
                 ELSE IF j <= ne + nk THEN LaneAt(j, kept[j - ne], lanes[kept[j - ne]])
                 ELSE IF j <= ne + nk + nn THEN NameAt(j) ELSE LabelAt(j, labelled[j - (ne + nk + nn)])
    <3>1. j \in 1..n
      BY <1>10, <1>13
    <3> QED BY <1>2, <3>1 DEF ForkIs
  <2> HIDE DEF r
  <2>4. At(es, lanes, kept, labelled, nn, g[i + 1], i + 1)
    <3>1. CASE j <= ne
      <4>1. i < ne /\ g[i + 1] = Replayed(r, EntryAt(i + 1, es[i + 1]))
        BY <1>9, <2>1, <2>2, <2>3, <3>1
      <4> QED BY <1>5, <1>9, <2>1, <4>1, AtEntry
    <3>2. CASE ~(j <= ne) /\ j <= ne + nk
      <4> DEFINE l == kept[i + 1 - ne]
      <4>1. ne <= i /\ i < ne + nk /\ i + 1 - ne \in 1..nk
        BY <1>9, <2>1, <3>2
      <4>2. log[i + 1] = LaneAt(i + 1, l, lanes[l])
        BY <2>3, <3>2
      <4>3. lanes[l] # Absent
        <5>1. l \in K
          BY <1>3, <4>1
        <5> HIDE DEF l
        <5> QED BY <1>6, <1>7, <5>1
      <4>4. At(es, lanes, kept, labelled, nn, Replayed(r, LaneAt(i + 1, l, lanes[l])), i + 1)
        BY <1>5, <1>9, <2>1, <4>1, <4>3, AtLane
      <4> QED BY <2>2, <4>2, <4>4
    <3>3. CASE ~(j <= ne) /\ ~(j <= ne + nk) /\ j <= ne + nk + nn
      <4>1. i = ne + nk /\ nn = 1
        BY <1>5, <1>9, <2>1, <3>3
      <4>2. log[i + 1] = NameAt(i + 1)
        BY <2>3, <3>3
      <4>3. At(es, lanes, kept, labelled, nn, Replayed(r, NameAt(i + 1)), i + 1)
        BY <1>5, <1>9, <2>1, <4>1, AtName
      <4> QED BY <2>2, <4>2, <4>3
    <3>4. CASE ~(j <= ne) /\ ~(j <= ne + nk) /\ ~(j <= ne + nk + nn)
      <4> DEFINE c == i + 1 - (ne + nk + nn)
                 id == labelled[c]
      <4>1. ne + nk + nn <= i /\ i < ne + nk + nn + nl /\ c \in 1..nl
        BY <1>5, <1>9, <1>10, <1>13, <2>1, <3>4
      <4>2. log[i + 1] = LabelAt(i + 1, id)
        BY <2>3, <3>4
      <4>3. \E k \in 1..ne : es[k].id = id
        <5>1. id \in B
          BY <1>4, <4>1
        <5> HIDE DEF id
        <5> QED BY <1>6, <5>1
      <4>4. At(es, lanes, kept, labelled, nn, Replayed(r, LabelAt(i + 1, id)), i + 1)
        BY <1>5, <1>9, <2>1, <4>1, <4>3, AtLabel
      <4> QED BY <2>2, <4>2, <4>4
    <3> QED BY <3>1, <3>2, <3>3, <3>4
  <2>5. i + 1 \in 0..n
    BY <1>10, <1>13
  <2> QED BY <2>4, <2>5
<1> HIDE DEF S
<1>14. n \in S
  <2>1. \A i \in 0..n : i < n /\ i \in S => i + 1 \in S
    BY <1>13
  <2>2. n \in 0..n
    BY <1>10
  <2> HIDE DEF n
  <2>3. \A i \in 0..n : i \in S
    BY <1>10, <1>12, <2>1, UpTo
  <2> QED BY <2>2, <2>3
<1> DEFINE r == Replay(log)
<1>15. At(es, lanes, kept, labelled, nn, r, n)
  BY <1>11, <1>14 DEF S
<1> HIDE DEF r, n
<1>16. r.ok = TRUE /\ IsState(r.state) /\ r.state.entries = es /\ r.state.open = Empty.open
  BY <1>5, <1>9, <1>10, <1>15 DEF At
<1>17. r.state.lanes = lanes
  <2>1. ASSUME NEW l \in Lanes PROVE LanesAt(es, lanes, kept, n)[l] = lanes[l]
    <3>1. CASE l \in K
      <4>1. PICK k \in 1..nk : kept[k] = l
        BY <1>3, <3>1
      <4>2. ne + k <= n
        BY <1>5, <1>9, <1>10
      <4> QED BY <4>1, <4>2 DEF LanesAt
    <3>2. CASE l \notin K
      <4>1. \A k \in 1..nk : kept[k] # l
        BY <1>3, <3>2
      <4>2. LanesAt(es, lanes, kept, n)[l] = Empty.lanes[l]
        BY <4>1 DEF LanesAt
      <4>3. lanes[l] = Absent /\ l # Main
        BY <1>7, <3>2 DEF CopyOf
      <4> QED BY <4>2, <4>3 DEF Empty
    <3> QED BY <3>1, <3>2
  <2>2. lanes = [l \in Lanes |-> lanes[l]]
    BY DEF CopyOf
  <2>3. LanesAt(es, lanes, kept, n) = [l \in Lanes |-> LanesAt(es, lanes, kept, n)[l]]
    BY DEF LanesAt
  <2>4. LanesAt(es, lanes, kept, n) = lanes
    BY <2>1, <2>2, <2>3
  <2> QED BY <1>15, <2>4 DEF At
<1>18. r.state.named = s.named
  <2>1. nn = 1 <=> s.named
    OBVIOUS
  <2>2. nn = 1 => ne + nk < n
    BY <1>9, <1>10
  <2>3. r.state.named = TRUE <=> nn = 1 /\ ne + nk < n
    BY <1>15 DEF At
  <2>4. r.state.named \in BOOLEAN
    BY <1>16 DEF IsState
  <2> QED BY <2>1, <2>2, <2>3, <2>4
<1>19. r.state.labels = B
  <2>1. \A k \in 1..nl : ne + nk + nn + k <= n
    BY <1>5, <1>9, <1>10
  <2>2. LabelsAt(labelled, ne + nk + nn, n) = {labelled[k] : k \in 1..nl}
    BY <2>1 DEF LabelsAt
  <2>3. {labelled[k] : k \in 1..nl} = B
    BY <1>4
  <2> QED BY <1>15, <2>2, <2>3 DEF At
<1>20. ForkedTo(r, s, es, lanes)
  BY <1>8, <1>16, <1>17, <1>18, <1>19 DEF ForkedTo
<1> QED BY <1>20 DEF r, log

-----------------------------------------------------------------------------
(* The walk from an entry to the root. *)
WalkOn(es, start, n, g) ==
  g = [i \in 0..n |-> IF i = 0 THEN [next |-> start, path |-> <<>>] ELSE Walked(g[i - 1], es[Len(es) + 1 - i])]
WalkOf(es, start, n, g) ==
  g[0] = [next |-> start, path |-> <<>>] /\ \A i \in 1..n : g[i] = Walked(g[i - 1], es[Len(es) + 1 - i])

(* The walk can be made. *)
LEMMA WalkExists ==
  ASSUME NEW n \in Nat, NEW es, NEW start
  PROVE  \E g : WalkOn(es, start, n, g)
<1> DEFINE S == {i \in 0..n : \E g : WalkOn(es, start, i, g)}
           first == [next |-> start, path |-> <<>>]
<1>1. 0 \in S
  <2> DEFINE g == [i \in 0..0 |-> first]
  <2>1. \A i \in 0..0 : i = 0
    OBVIOUS
  <2>2. WalkOn(es, start, 0, g)
    BY <2>1 DEF WalkOn
  <2> QED BY <2>2
<1>2. ASSUME NEW k \in 0..n, k < n, k \in S PROVE k + 1 \in S
  <2>1. PICK g : WalkOn(es, start, k, g)
    BY <1>2
  <2> DEFINE h == [i \in 0..(k + 1) |-> IF i = k + 1 THEN Walked(g[k], es[Len(es) + 1 - (k + 1)]) ELSE g[i]]
             f == [i \in 0..(k + 1) |-> IF i = 0 THEN first ELSE Walked(h[i - 1], es[Len(es) + 1 - i])]
  <2> HIDE DEF first
  <2>2. ASSUME NEW i \in 0..(k + 1) PROVE h[i] = f[i]
    <3>1. CASE i = k + 1
      <4>1. i # 0 /\ i - 1 = k /\ k \in 0..(k + 1) /\ k # k + 1
        BY <3>1
      <4>2. h[i - 1] = g[k]
        BY <4>1
      <4> QED BY <3>1, <4>1, <4>2
    <3>2. CASE i # k + 1
      <4>1. i \in 0..k /\ (i # 0 => i - 1 \in 0..(k + 1) /\ i - 1 # k + 1)
        BY <3>2
      <4>2. h[i] = g[i] /\ (i # 0 => h[i - 1] = g[i - 1])
        BY <3>2, <4>1
      <4>3. g[i] = IF i = 0 THEN first ELSE Walked(g[i - 1], es[Len(es) + 1 - i])
        BY <2>1, <4>1 DEF WalkOn, first
      <4> QED BY <4>1, <4>2, <4>3
    <3> QED BY <3>1, <3>2
  <2>3. h = f
    BY <2>2
  <2>4. WalkOn(es, start, k + 1, h)
    BY <2>3 DEF WalkOn, first
  <2>5. k + 1 \in 0..n
    BY <1>2
  <2> QED BY <2>4, <2>5
<1> HIDE DEF S
<1>3. n \in S
  BY <1>1, <1>2, UpTo
<1> QED BY <1>3 DEF S

(* Branch is the path of such a walk. *)
LEMMA BranchWalks ==
  ASSUME NEW s, Len(s.entries) \in Nat, NEW start
  PROVE  \E g : WalkOf(s.entries, start, Len(s.entries), g) /\ Branch(s, start) = g[Len(s.entries)].path
<1> DEFINE es == s.entries
           n == Len(es)
           walk == CHOOSE g : WalkOn(es, start, n, g)
<1>1. WalkOn(es, start, n, walk)
  BY WalkExists
<1>2. Branch(s, start) = walk[n].path
  BY DEF Branch, WalkOn
<1> HIDE DEF walk
<1>3. WalkOf(es, start, n, walk)
  <2>1. walk[0] = [next |-> start, path |-> <<>>]
    BY <1>1 DEF WalkOn
  <2>2. ASSUME NEW i \in 1..n PROVE walk[i] = Walked(walk[i - 1], es[Len(es) + 1 - i])
    <3>1. i \in 0..n /\ i # 0
      OBVIOUS
    <3> QED BY <1>1, <3>1 DEF WalkOn
  <2> QED BY <2>1, <2>2 DEF WalkOf
<1> QED BY <1>2, <1>3

(* An element in front of a sequence. *)
Prefixed(e, p) == <<e>> \o p
LEMMA PrefixedIs ==
  ASSUME NEW S, NEW p \in Seq(S), NEW e \in S
  PROVE  /\ Prefixed(e, p) \in Seq(S) /\ Len(Prefixed(e, p)) = Len(p) + 1 /\ Prefixed(e, p)[1] = e
         /\ \A i \in 2..(Len(p) + 1) : Prefixed(e, p)[i] = p[i - 1]
BY DEF Prefixed

(* What the walk has found when it has j entries before it. *)
Climbs(es, start, r, j) ==
  /\ r.path \in Seq(Entries) /\ Unique(r.path)
  /\ \A i \in 1..Len(r.path) : \E k \in 1..Len(es) : k > j /\ r.path[i] = es[k]
  /\ r.next = Root \/ \E k \in 1..j : es[k].id = r.next
  /\ Len(r.path) = 0 => r.next = start
  /\ Len(r.path) # 0 => r.path[1].parent = r.next /\ r.path[Len(r.path)].id = start
  /\ \A i \in 2..Len(r.path) : r.path[i].parent = r.path[i - 1].id

(* The walk looks at one entry more. *)
LEMMA ClimbStep ==
  ASSUME NEW es \in Seq(Entries), Rooted(es), Unique(es), NEW start, NEW j \in 1..Len(es),
         NEW r, Climbs(es, start, r, j)
  PROVE  Climbs(es, start, Walked(r, es[j]), j - 1)
<1> DEFINE e == es[j]
           p == r.path
           n == Len(p)
<1>1. e \in Entries /\ p \in Seq(Entries) /\ n \in Nat /\ j - 1 \in Nat /\ Len(es) \in Nat
  BY DEF Climbs
<1>2. CASE e.id = r.next
  <2> DEFINE q == Prefixed(e, p)
             w == Walked(r, e)
  <2>1. w.next = e.parent /\ w.path = q
    BY <1>2 DEF Walked, Prefixed
  <2>2. q \in Seq(Entries) /\ Len(q) = n + 1 /\ q[1] = e /\ \A i \in 2..(n + 1) : q[i] = p[i - 1]
    <3> HIDE DEF e, p
    <3> QED BY <1>1, PrefixedIs
  <2> HIDE DEF q, w
  <2>3. ASSUME NEW i \in 1..Len(q) PROVE \E k \in 1..Len(es) : k > j - 1 /\ q[i] = es[k]
    <3>1. CASE i = 1
      BY <1>1, <2>2, <3>1
    <3>2. CASE i # 1
      <4>1. i \in 2..(n + 1) /\ i - 1 \in 1..n
        BY <1>1, <2>2, <3>2
      <4>2. PICK k \in 1..Len(es) : k > j /\ p[i - 1] = es[k]
        BY <4>1 DEF Climbs
      <4>3. k > j - 1
        BY <1>1, <4>2
      <4> QED BY <2>2, <4>1, <4>2, <4>3
    <3> QED BY <3>1, <3>2
  <2>4. Unique(q)
    <3> SUFFICES ASSUME NEW a \in 1..Len(q), NEW b \in 1..Len(q), q[a].id = q[b].id PROVE a = b
      BY DEF Unique
    <3>1. ASSUME NEW i \in 2..(n + 1) PROVE q[i].id # e.id
      <4>1. i - 1 \in 1..n /\ q[i] = p[i - 1]
        BY <1>1, <2>2
      <4>2. PICK k \in 1..Len(es) : k > j /\ p[i - 1] = es[k]
        BY <4>1 DEF Climbs
      <4>3. k # j
        BY <1>1, <4>2
      <4> QED BY <4>1, <4>2, <4>3 DEF Unique
    <3>2. CASE a = 1 \/ b = 1
      BY <1>1, <2>2, <3>1, <3>2
    <3>3. CASE a # 1 /\ b # 1
      <4>1. a \in 2..(n + 1) /\ b \in 2..(n + 1) /\ a - 1 \in 1..n /\ b - 1 \in 1..n
        BY <1>1, <2>2, <3>3
      <4>2. p[a - 1].id = p[b - 1].id
        BY <2>2, <4>1
      <4>3. a - 1 = b - 1
        BY <4>1, <4>2 DEF Climbs, Unique
      <4> QED BY <4>1, <4>3
    <3> QED BY <3>2, <3>3
  <2>5. e.parent = Root \/ \E k \in 1..(j - 1) : es[k].id = e.parent
    <3>1. e.parent = Root \/ \E k \in 1..Len(es) : k < j /\ es[k].id = e.parent
      BY DEF Rooted
    <3>2. \A k \in 1..Len(es) : k < j => k \in 1..(j - 1)
      BY <1>1
    <3> QED BY <3>1, <3>2
  <2>6. q[Len(q)].id = start
    <3>1. CASE n = 0
      <4>1. r.next = start
        BY <3>1 DEF Climbs
      <4> QED BY <1>2, <2>2, <3>1, <4>1
    <3>2. CASE n # 0
      <4>1. p[n].id = start
        BY <3>2 DEF Climbs
      <4>2. n + 1 \in 2..(n + 1) /\ (n + 1) - 1 = n
        BY <1>1, <3>2
      <4> QED BY <2>2, <4>1, <4>2
    <3> QED BY <3>1, <3>2
  <2>7. ASSUME NEW i \in 2..Len(q) PROVE q[i].parent = q[i - 1].id
    <3>1. q[i] = p[i - 1] /\ i \in Nat
      BY <2>2
    <3>2. CASE i = 2
      <4>1. n # 0 /\ p[1].parent = r.next
        BY <1>1, <2>2, <3>2 DEF Climbs
      <4> QED BY <1>2, <2>2, <3>1, <3>2, <4>1
    <3>3. CASE i # 2
      <4>1. i - 1 \in 2..n /\ i - 1 \in 2..(n + 1)
        BY <1>1, <2>2, <3>3
      <4>2. p[i - 1].parent = p[(i - 1) - 1].id
        BY <4>1 DEF Climbs
      <4>3. q[i - 1] = p[(i - 1) - 1]
        BY <2>2, <4>1
      <4> QED BY <3>1, <4>2, <4>3
    <3> QED BY <3>2, <3>3
  <2>8. Len(q) # 0
    BY <1>1, <2>2
  <2>9. Climbs(es, start, w, j - 1)
    BY <2>1, <2>2, <2>3, <2>4, <2>5, <2>6, <2>7, <2>8 DEF Climbs
  <2> QED BY <2>9 DEF w
<1>3. CASE e.id # r.next
  <2>1. Walked(r, e) = r
    BY <1>3 DEF Walked
  <2>2. r.next = Root \/ \E k \in 1..(j - 1) : es[k].id = r.next
    <3>1. \A k \in 1..j : k # j => k \in 1..(j - 1)
      BY <1>1
    <3> QED BY <1>3, <3>1 DEF Climbs
  <2>3. \A i \in 1..Len(r.path) : \E k \in 1..Len(es) : k > j - 1 /\ r.path[i] = es[k]
    <3>1. \A k \in 1..Len(es) : k > j => k > j - 1
      BY <1>1
    <3> QED BY <3>1 DEF Climbs
  <2>4. Climbs(es, start, r, j - 1)
    BY <2>2, <2>3 DEF Climbs
  <2> QED BY <2>1, <2>4
<1> QED BY <1>2, <1>3

(* A branch leads from the root to its start. *)
LEMMA BranchIs ==
  ASSUME NEW s, s.entries \in Seq(Entries), Rooted(s.entries), Unique(s.entries),
         NEW start, start = Root \/ \E k \in 1..Len(s.entries) : s.entries[k].id = start
  PROVE  LET b == Branch(s, start)
         IN  /\ b \in Seq(Entries) /\ Rooted(b) /\ Unique(b)
             /\ start = Root \/ \E k \in 1..Len(b) : b[k].id = start
             /\ IsPath(s, start, b)
<1> DEFINE es == s.entries
           n == Len(es)
<1>1. n \in Nat /\ es \in Seq(Entries) /\ Rooted(es) /\ Unique(es)
  OBVIOUS
<1>2. PICK g : WalkOf(es, start, n, g) /\ Branch(s, start) = g[n].path
  BY <1>1, BranchWalks
<1>0. start = Root \/ \E k \in 1..n : es[k].id = start
  OBVIOUS
<1> HIDE DEF es
<1> DEFINE S == {i \in 0..n : Climbs(es, start, g[i], n - i)}
<1>3. 0 \in S
  <2>1. g[0].next = start /\ g[0].path = <<>>
    BY <1>2 DEF WalkOf
  <2>2. Len(<<>>) = 0 /\ <<>> \in Seq(Entries)
    OBVIOUS
  <2>3. n - 0 = n /\ 0 \in 0..n
    BY <1>1
  <2>4. Climbs(es, start, g[0], n)
    BY <1>0, <2>1, <2>2 DEF Climbs, Unique
  <2> QED BY <2>3, <2>4
<1>4. ASSUME NEW i \in 0..n, i < n, i \in S PROVE i + 1 \in S
  <2> DEFINE j == n - i
  <2>1. j \in 1..n /\ n - (i + 1) = j - 1 /\ i + 1 \in 1..n /\ (i + 1) - 1 = i /\ n + 1 - (i + 1) = j /\ i + 1 \in 0..n
    BY <1>1, <1>4
  <2>2. g[i + 1] = Walked(g[i], es[j])
    BY <1>2, <2>1 DEF WalkOf
  <2>3. Climbs(es, start, g[i], j)
    BY <1>4
  <2> HIDE DEF j
  <2>4. Climbs(es, start, Walked(g[i], es[j]), j - 1)
    BY <1>1, <2>1, <2>3, ClimbStep
  <2> QED BY <2>1, <2>2, <2>4
<1> HIDE DEF S
<1>5. n \in S
  <2>1. n \in Nat
    BY <1>1
  <2> HIDE DEF n
  <2>2. \A i \in 0..n : i < n /\ i \in S => i + 1 \in S
    BY <1>4
  <2> QED BY ONLY <2>1, <2>2, <1>3, UpTo
<1> DEFINE b == g[n].path
<1>6. Climbs(es, start, g[n], 0)
  <2>1. n - n = 0
    BY <1>1
  <2> QED BY <1>5, <2>1 DEF S
<1> DEFINE m == Len(b)
<1>7. /\ b \in Seq(Entries) /\ Unique(b) /\ m \in Nat
      /\ g[n].next = Root
      /\ m = 0 => start = Root
      /\ m # 0 => b[1].parent = Root /\ b[m].id = start
      /\ \A i \in 2..m : b[i].parent = b[i - 1].id
      /\ \A i \in 1..m : \E k \in 1..n : b[i] = es[k]
  <2>1. g[n].next = Root
    BY <1>6 DEF Climbs
  <2> QED BY <1>6, <2>1 DEF Climbs
<1> HIDE DEF b
<1>8. Rooted(b)
  <2> SUFFICES ASSUME NEW i \in 1..m PROVE b[i].parent = Root \/ \E k \in 1..m : k < i /\ b[k].id = b[i].parent
    BY DEF Rooted
  <2>1. CASE i = 1
    BY <1>7, <2>1
  <2>2. CASE i # 1
    <3>1. i \in 2..m /\ i - 1 \in 1..m /\ i - 1 < i
      BY <1>7, <2>2
    <3> QED BY <1>7, <3>1
  <2> QED BY <2>1, <2>2
<1>9. start = Root \/ \E k \in 1..m : b[k].id = start
  BY <1>7
<1>10. IsPath(s, start, b)
  <2>1. Range(b) \subseteq Range(es)
    <3>1. DOMAIN b = 1..m /\ DOMAIN es = 1..n
      BY <1>1, <1>7
    <3> QED BY <1>7, <3>1 DEF Range
  <2>2. start = Root => b = <<>>
    <3> SUFFICES ASSUME start = Root, m # 0 PROVE FALSE
      BY <1>7
    <3>1. m \in 1..m /\ b[m] \in Entries /\ b[m].id = Root
      BY <1>7
    <3>2. b[m].id \in Ids
      BY <3>1 DEF Entries
    <3> QED BY <3>1, <3>2, NamesAssumption
  <2>3. start # Root => b # <<>> /\ Last(b).id = start
    <3> SUFFICES ASSUME start # Root PROVE b # <<>> /\ Last(b).id = start
      OBVIOUS
    <3>1. m # 0 /\ b # <<>>
      BY <1>7
    <3> QED BY <1>7, <3>1 DEF Last
  <2>4. \A i \in 1..m : b[i].parent = IF i = 1 THEN Root ELSE b[i - 1].id
    <3> SUFFICES ASSUME NEW i \in 1..m PROVE b[i].parent = IF i = 1 THEN Root ELSE b[i - 1].id
      OBVIOUS
    <3>1. i # 1 => i \in 2..m
      BY <1>7
    <3> QED BY <1>7, <3>1
  <2>5. DOMAIN b = 1..m
    BY <1>7
  <2> QED BY <2>1, <2>2, <2>3, <2>4, <2>5 DEF IsPath, es
<1> QED BY <1>2, <1>7, <1>8, <1>9, <1>10 DEF b

-----------------------------------------------------------------------------
(* What a fork has of s, whichever entries it copies. *)
ForkHas(r, s, lanes) ==
  /\ r.ok /\ r.state.lanes = lanes /\ r.state.named = s.named
  /\ r.state.labels = s.labels \cap EntryIds(r.state)
  /\ r.state.open = [l \in Lanes |-> {}]

(* That is what the replay comes to. *)
LEMMA ForkedHas ==
  ASSUME NEW r, NEW s, NEW es \in Seq(Entries), NEW lanes, ForkedTo(r, s, es, lanes)
  PROVE  ForkHas(r, s, lanes) /\ r.state.entries = es
<1>1. r.ok = TRUE /\ r.state.entries = es /\ r.state.lanes = lanes /\ r.state.named = s.named
      /\ r.state.labels = s.labels \cap {es[k].id : k \in 1..Len(es)} /\ r.state.open = Empty.open
  BY DEF ForkedTo
<1>2. EntryIds(r.state) = {es[k].id : k \in 1..Len(es)}
  BY <1>1, EntryIdsAre
<1>3. Empty.open = [l \in Lanes |-> {}]
  BY DEF Empty
<1> QED BY <1>1, <1>2, <1>3 DEF ForkHas

(* A consistent state is forked faithfully, as a tree, *)
LEMMA TreeFollows ==
  ASSUME NEW s, Consistent(s)
  PROVE  LET r == Replay(ForkTree(s))
         IN  ForkHas(r, s, s.lanes) /\ r.state.entries = s.entries /\ r.state.labels = s.labels
<1> DEFINE r == Replay(ForkMutations(s, s.entries, s.lanes))
<1>1. s.named \in BOOLEAN /\ s.labels \subseteq Ids /\ s.entries \in Seq(Entries)
      /\ s.lanes \in [Lanes -> Leaves \cup {Absent}]
  BY DEF Consistent, IsState
<1>2. EntryIds(s) = {s.entries[i].id : i \in 1..Len(s.entries)}
  BY <1>1, EntryIdsAre
<1>3. CopyOf(s.entries, s.lanes)
  <2>1. ASSUME NEW l \in Lanes, s.lanes[l] # Absent
        PROVE  s.lanes[l] = Root \/ \E k \in 1..Len(s.entries) : s.entries[k].id = s.lanes[l]
    <3>1. Target(s, s.lanes[l])
      BY <2>1 DEF Consistent
    <3> QED BY <1>2, <3>1 DEF Target
  <2> QED BY <1>1, <2>1 DEF Consistent, CopyOf
<1>4. ForkedTo(r, s, s.entries, s.lanes)
  BY <1>1, <1>3, ForkReplays
<1>5. s.labels \cap {s.entries[k].id : k \in 1..Len(s.entries)} = s.labels
  BY <1>2 DEF Consistent
<1> HIDE DEF r
<1>6. r.state.labels = s.labels
  BY <1>4, <1>5 DEF ForkedTo
<1>7. ForkHas(r, s, s.lanes) /\ r.state.entries = s.entries
  BY <1>1, <1>4, ForkedHas
<1>8. Replay(ForkTree(s)) = r
  BY DEF ForkTree, r
<1> QED BY <1>6, <1>7, <1>8

(* and as a branch. *)
LEMMA BranchFollows ==
  ASSUME NEW s, Consistent(s), NEW leaf \in EntryIds(s) \cup {Root}
  PROVE  LET r == Replay(ForkBranch(s, leaf))
         IN  ForkHas(r, s, OnlyMain(leaf)) /\ IsPath(s, leaf, r.state.entries)
<1> DEFINE b == Branch(s, leaf)
           ls == OnlyMain(leaf)
           r == Replay(ForkMutations(s, b, ls))
<1>1. s.named \in BOOLEAN /\ s.labels \subseteq Ids /\ s.entries \in Seq(Entries)
  BY DEF Consistent, IsState
<1>2. EntryIds(s) = {s.entries[i].id : i \in 1..Len(s.entries)}
  BY <1>1, EntryIdsAre
<1>3. leaf = Root \/ \E k \in 1..Len(s.entries) : s.entries[k].id = leaf
  BY <1>2
<1>4. /\ b \in Seq(Entries) /\ Rooted(b) /\ Unique(b) /\ (leaf = Root \/ \E k \in 1..Len(b) : b[k].id = leaf)
      /\ IsPath(s, leaf, b)
  BY <1>1, <1>3, BranchIs DEF Consistent
<1>5. leaf \in Leaves /\ leaf # Absent
  <2>1. \A k \in 1..Len(s.entries) : s.entries[k].id \in Ids
    <3>1. \A k \in 1..Len(s.entries) : s.entries[k] \in Entries
      BY <1>1
    <3> QED BY <3>1 DEF Entries
  <2> QED BY <1>3, <2>1, NamesAssumption DEF Leaves
<1> HIDE DEF b
<1>6. CopyOf(b, ls)
  <2>1. ls \in [Lanes -> Leaves \cup {Absent}] /\ Main \in Lanes
        /\ \A l \in Lanes : ls[l] = IF l = Main THEN leaf ELSE Absent
    BY <1>5, NamesAssumption DEF OnlyMain
  <2> HIDE DEF ls
  <2>2. {l \in Lanes : ls[l] # Absent} = {Main}
    BY <1>5, <2>1
  <2>3. IsFiniteSet({l \in Lanes : ls[l] # Absent})
    BY <2>2, FS_Singleton
  <2> QED BY <1>4, <1>5, <2>1, <2>3 DEF CopyOf
<1> HIDE DEF ls
<1>7. ForkedTo(r, s, b, ls)
  BY <1>1, <1>6, ForkReplays
<1> HIDE DEF r
<1>8. ForkHas(r, s, ls) /\ r.state.entries = b
  BY <1>4, <1>7, ForkedHas
<1>9. IsPath(s, leaf, r.state.entries)
  BY <1>4, <1>8
<1>10. Replay(ForkBranch(s, leaf)) = r
  BY DEF ForkBranch, r, b, ls
<1> QED BY <1>8, <1>9, <1>10 DEF ls

(* ForkFaithful: the mutations of createForkMutations are accepted when the
   fork is loaded, and give the lanes, the name, the labels of the entries
   copied and no open operation; a tree has the entries of its source in their
   order, a branch exactly those from the root to the entry asked for. *)
THEOREM ForksAreFaithful == Spec => []ForkFaithful
<1>1. IInv => ForkFaithful
  <2> SUFFICES ASSUME IInv PROVE ForkFaithful
    OBVIOUS
  <2> DEFINE s == storage.state
  <2>1. Consistent(s)
    BY DEF IInv, Typed
  <2> HIDE DEF s
  <2>2. ForkHas(Replay(ForkTree(s)), s, s.lanes)
        /\ Replay(ForkTree(s)).state.entries = s.entries /\ Replay(ForkTree(s)).state.labels = s.labels
    BY <2>1, TreeFollows
  <2>3. \A leaf \in EntryIds(s) \cup {Root} :
          ForkHas(Replay(ForkBranch(s, leaf)), s, OnlyMain(leaf)) /\ IsPath(s, leaf, Replay(ForkBranch(s, leaf)).state.entries)
    BY <2>1, BranchFollows
  <2> QED BY <2>2, <2>3 DEF ForkFaithful, ForkHas, s
<1> QED BY <1>1, IInvInvariant, PTL
=============================================================================
