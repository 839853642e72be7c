---------------------------- MODULE SessionState ----------------------------
(***************************************************************************)
(* SessionState of packages/agent/src/harness/session/state.ts: what a     *)
(* session is, as the fold of its mutations, and the mutations that copy   *)
(* it into a fork.  Used by the JSONL storage, which writes the mutations  *)
(* as lines and replays them when it loads a file.                         *)
(*                                                                         *)
(* An entry or record is its id; the name and the labels are present or    *)
(* not; statistics and the queries that only read are left out.            *)
(***************************************************************************)
EXTENDS Integers, Sequences, FiniteSets, SequencesExt

CONSTANTS
  Ids,      \* ids of entries and records
  Lanes,    \* names of lanes
  Main,     \* the lane every session has
  Root,     \* parentId or leafId null
  Absent    \* no such lane; no lane or id in a mutation

ASSUME NamesAssumption ==
  Main \in Lanes /\ Root \notin Ids /\ Absent \notin Ids \cup Lanes \cup {Root} /\ Root \notin Lanes

(* SessionMutation.  ref is parentId, runId, leafId or targetId. *)
Mutation(kind, seq, lane, id, ref, set) ==
  [kind |-> kind, seq |-> seq, lane |-> lane, id |-> id, ref |-> ref, set |-> set]

Empty ==
  [seq |-> 0, used |-> {}, entries |-> <<>>, lanes |-> [l \in Lanes |-> IF l = Main THEN Root ELSE Absent],
   open |-> [l \in Lanes |-> {}], named |-> FALSE, labels |-> {}]

EntryIds(s) == {s.entries[i].id : i \in DOMAIN s.entries}
Target(s, id) == id = Root \/ id \in EntryIds(s)

(* The checks of applyMutation. *)
Valid(s, m) ==
  /\ m.seq = s.seq + 1
  /\ m.kind = "entry" =>
       /\ m.id \notin s.used /\ Target(s, m.ref)
       /\ m.lane # Absent => s.lanes[m.lane] # Absent /\ m.ref = s.lanes[m.lane]
  /\ m.kind \in {"started", "finished"} => m.id \notin s.used /\ s.lanes[m.lane] # Absent
  /\ m.kind = "lane" => Target(s, m.ref)
  /\ m.kind = "label" => m.ref \in EntryIds(s)

Applied(s, m) ==
  LET t == [s EXCEPT !.seq = m.seq,
                     !.used = IF m.kind \in {"entry", "started", "finished"} THEN @ \cup {m.id} ELSE @]
  IN  CASE m.kind = "entry" ->
             [t EXCEPT !.entries = Append(@, [id |-> m.id, parent |-> m.ref]),
                       !.lanes = IF m.lane = Absent THEN @ ELSE [@ EXCEPT ![m.lane] = m.id]]
        [] m.kind = "started"  -> [t EXCEPT !.open[m.lane] = @ \cup {m.id}]
        [] m.kind = "finished" -> [t EXCEPT !.open[m.lane] = @ \ {m.ref}]
        [] m.kind = "lane"     -> [t EXCEPT !.lanes[m.lane] = m.ref]
        [] m.kind = "name"     -> [t EXCEPT !.named = m.set]
        [] m.kind = "label"    -> [t EXCEPT !.labels = IF m.set THEN @ \cup {m.ref} ELSE @ \ {m.ref}]

(* A log replayed from the beginning: its state, and whether all of it is valid. *)
Replayed(r, m) ==
  IF r.ok /\ Valid(r.state, m) THEN [ok |-> TRUE, state |-> Applied(r.state, m)] ELSE [r EXCEPT !.ok = FALSE]
Replay(log) ==
  LET run[n \in 0..Len(log)] ==
        IF n = 0 THEN [ok |-> TRUE, state |-> Empty] ELSE Replayed(run[n - 1], log[n])
  IN  run[Len(log)]

-----------------------------------------------------------------------------
(* createForkMutations. *)

(* findEntriesOnBranch, oldest first: an entry follows its parent, so the walk
   to the root meets the entries in the order of the list backwards. *)
Walked(r, e) == IF e.id = r.next THEN [next |-> e.parent, path |-> <<e>> \o r.path] ELSE r
Branch(s, start) ==
  LET entry(n) == s.entries[Len(s.entries) + 1 - n]
      walk[n \in 0..Len(s.entries)] ==
        IF n = 0 THEN [next |-> start, path |-> <<>>] ELSE Walked(walk[n - 1], entry(n))
  IN  walk[Len(s.entries)].path

Renumbered(ms) == [i \in DOMAIN ms |-> [ms[i] EXCEPT !.seq = i]]

(* Mutant: the entries as findEntries returns them by default, newest first. *)
ForkNewestFirst(s, copied, lanes) ==
  LET entry(e) == Mutation("entry", 0, Absent, e.id, e.parent, FALSE)
      lane(l)  == Mutation("lane", 0, l, Absent, lanes[l], FALSE)
      label(id) == Mutation("label", 0, Absent, Absent, id, TRUE)
      names    == IF s.named THEN <<Mutation("name", 0, Absent, Absent, Absent, TRUE)>> ELSE <<>>
      labelled == SetToSeq({copied[i].id : i \in DOMAIN copied} \cap s.labels)
      kept     == SetToSeq({l \in Lanes : lanes[l] # Absent})
  IN  Renumbered([i \in DOMAIN copied |-> entry(Reverse(copied)[i])] \o [i \in DOMAIN kept |-> lane(kept[i])]
                 \o names \o [i \in DOMAIN labelled |-> label(labelled[i])])

(* The entries, the lanes, the name and the labels, renumbered; records stay.
   The order among lanes and among labels is not told apart. *)
ForkMutations(s, copied, lanes) ==
  LET entry(e) == Mutation("entry", 0, Absent, e.id, e.parent, FALSE)
      lane(l)  == Mutation("lane", 0, l, Absent, lanes[l], FALSE)
      label(id) == Mutation("label", 0, Absent, Absent, id, TRUE)
      names    == IF s.named THEN <<Mutation("name", 0, Absent, Absent, Absent, TRUE)>> ELSE <<>>
      labelled == SetToSeq({copied[i].id : i \in DOMAIN copied} \cap s.labels)
      kept     == SetToSeq({l \in Lanes : lanes[l] # Absent})
  IN  Renumbered([i \in DOMAIN copied |-> entry(copied[i])] \o [i \in DOMAIN kept |-> lane(kept[i])]
                 \o names \o [i \in DOMAIN labelled |-> label(labelled[i])])

ForkTree(s) == ForkMutations(s, s.entries, s.lanes)

OnlyMain(leaf) == [l \in Lanes |-> IF l = Main THEN leaf ELSE Absent]
ForkBranch(s, leaf) == ForkMutations(s, Branch(s, leaf), OnlyMain(leaf))
=============================================================================
