----------------------------- MODULE JsonlStorage -----------------------------
(***************************************************************************)
(* JSONL session files: JsonlSessionStorage of                             *)
(* packages/agent/src/harness/session/jsonl/storage.ts with its codec      *)
(* (codec.ts) and the operations of repo.ts that load a file.              *)
(*                                                                         *)
(* The calls of a storage run one after the other: each is checked against *)
(* the state in memory, its mutation is appended to the file as a line,    *)
(* and then applied to the state.  An append reaches the file in pieces;   *)
(* it may fail, and the process may crash, after any of them.  Loading     *)
(* replays the lines and repairs the tail that a crash left.               *)
(*                                                                         *)
(* A file is the sequence of its terminated lines and what follows the     *)
(* last newline.  A line is a mutation or Garbage, which is not JSON: a    *)
(* part of an object never parses, nor do two of them in a row.            *)
(***************************************************************************)
EXTENDS SessionState

CONSTANTS
  MaxLines,      \* bound: lines
  MaxCrashes,    \* bound: crashes
  MaxFailures    \* bound: appends that fail

ASSUME BoundsAssumption ==
  /\ {MaxLines, MaxCrashes, MaxFailures} \subseteq Nat

VARIABLES
  file,      \* lines, and the text behind the last newline
  storage,   \* the JsonlSessionStorage: whether there is one, and its state
  writing,   \* the append under way
  loader,    \* a load that has read the file
  acked,     \* history: the mutations that resolved or that the storage was opened with
  damaged,   \* history: a failed append or a rename under an append
  faults     \* crashes, failed appends

vars == <<file, storage, writing, loader, acked, damaged, faults>>

Garbage == Mutation("garbage", 0, Absent, Absent, Absent, FALSE)
NoText  == Mutation("none", 0, Absent, Absent, Absent, FALSE)
Closed  == [open |-> FALSE, state |-> Empty]
NotWriting == [stage |-> "none", mutation |-> NoText]
NotLoading == [for |-> "none", lines |-> <<>>, text |-> NoText]

(* A session that create() has just written: the header line is implied. *)
Init ==
  /\ file = [lines |-> <<>>, text |-> NoText]
  /\ storage = [Closed EXCEPT !.open = TRUE]
  /\ writing = NotWriting /\ loader = NotLoading
  /\ acked = <<>> /\ damaged = FALSE
  /\ faults = [crashes |-> 0, failures |-> 0]

-----------------------------------------------------------------------------
(* Calls: createLane, moveLane, appendEntry, appendRecord, setName, setLabel. *)

Call(op, lane, id, ref, set) == [op |-> op, lane |-> lane, id |-> id, ref |-> ref, set |-> set]
Calls ==
  {Call("entry", l, i, Absent, FALSE) : l \in Lanes, i \in Ids}
  \cup {Call("started", l, i, Absent, FALSE) : l \in Lanes, i \in Ids}
  \cup {Call("finished", l, i, r, FALSE) : l \in Lanes, i \in Ids, r \in Ids}
  \cup {Call(op, l, Absent, r, FALSE) : op \in {"create", "move"}, l \in Lanes, r \in Ids \cup {Root}}
  \cup {Call("name", Absent, Absent, Absent, b) : b \in BOOLEAN}
  \cup {Call("label", Absent, Absent, i, b) : i \in Ids, b \in BOOLEAN}

(* What a call checks when its turn comes. *)
Accepts(s, c) ==
  /\ c.op \in {"entry", "started", "finished"} => s.lanes[c.lane] # Absent /\ c.id \notin s.used
  /\ c.op = "started" => s.open[c.lane] = {}
  /\ c.op = "create" => s.lanes[c.lane] = Absent
  /\ c.op = "move" => s.lanes[c.lane] # Absent
  /\ c.op \in {"create", "move"} => Target(s, c.ref)
  /\ c.op = "label" => c.ref \in EntryIds(s)

MutationOf(s, c) ==
  Mutation(IF c.op \in {"create", "move"} THEN "lane" ELSE c.op, s.seq + 1, c.lane, c.id,
           IF c.op = "entry" THEN s.lanes[c.lane] ELSE c.ref, c.set)

(* A call's turn: it is checked and its mutation goes to the file.  The calls
   that wait behind it in tail are looked at only when their turns come, and a
   call that is refused leaves everything as it was. *)
Start(c) ==
  /\ storage.open /\ writing.stage = "none" /\ Len(file.lines) < MaxLines
  /\ Accepts(storage.state, c)
  /\ writing' = [stage |-> "start", mutation |-> MutationOf(storage.state, c)]
  /\ UNCHANGED <<file, storage, loader, acked, damaged, faults>>

-----------------------------------------------------------------------------
(* appendFile: the bytes reach the file in pieces. *)

Newline(f) == [lines |-> Append(f.lines, f.text), text |-> NoText]

(* A part of the object, the object or the rest of it, the newline. *)
Write ==
  /\ \/ /\ writing.stage = "start"
        /\ writing' = [writing EXCEPT !.stage = "part"] /\ file' = [file EXCEPT !.text = Garbage]
     \/ /\ writing.stage \in {"start", "part"}
        /\ writing' = [writing EXCEPT !.stage = "whole"] /\ file' = [file EXCEPT !.text = writing.mutation]
     \/ /\ writing.stage = "whole"
        /\ writing' = [writing EXCEPT !.stage = "done"] /\ file' = Newline(file)
  /\ UNCHANGED <<storage, loader, acked, damaged, faults>>

(* The append resolves and the mutation is applied: the call resolves. *)
Resolve ==
  /\ writing.stage = "done"
  /\ storage' = [storage EXCEPT !.state = Applied(@, writing.mutation)]
  /\ acked' = Append(acked, writing.mutation)
  /\ writing' = NotWriting
  /\ UNCHANGED <<file, loader, damaged, faults>>

(* The append fails, whatever it has written; the call rejects. *)
AppendFails ==
  /\ writing.stage # "none" /\ faults.failures < MaxFailures
  /\ faults' = [faults EXCEPT !.failures = @ + 1]
  /\ damaged' = (damaged \/ writing.stage # "start")
  /\ writing' = NotWriting
  /\ UNCHANGED <<file, storage, loader, acked>>

Crash ==
  /\ faults.crashes < MaxCrashes /\ storage.open
  /\ faults' = [faults EXCEPT !.crashes = @ + 1]
  /\ storage' = Closed /\ writing' = NotWriting /\ loader' = NotLoading
  /\ UNCHANGED <<file, acked, damaged>>

-----------------------------------------------------------------------------
(* load(). *)

Lines(f) == IF f.text = NoText THEN f.lines ELSE Append(f.lines, f.text)

(* The last line is not JSON: an append was cut off. *)
TornTail(f) == Lines(f) # <<>> /\ Last(Lines(f)) = Garbage

(* The mutations that are replayed. *)
LogOf(f) == IF TornTail(f) THEN Front(Lines(f)) ELSE Lines(f)

Loadable(f) == Garbage \notin Range(LogOf(f)) /\ Replay(LogOf(f)).ok

(* open() after a crash, or fork() beside the storage that is in use: nothing
   keeps a load from reading the file of a storage that writes. *)
LoadRead(for) ==
  /\ loader = NotLoading
  /\ storage.open <=> for = "fork"
  /\ loader' = [for |-> for, lines |-> file.lines, text |-> file.text]
  /\ UNCHANGED <<file, storage, writing, acked, damaged, faults>>

Read == [lines |-> loader.lines, text |-> loader.text]
Overtaken == writing.stage # "none" \/ file # Read   \* the file was written after or while it was read
OpenedWith(log) ==
  IF loader.for = "open" THEN [Closed EXCEPT !.open = TRUE, !.state = Replay(log).state] ELSE storage
AckedWith(log) == IF loader.for = "open" THEN log ELSE acked

(* The valid prefix replaces the file, under an append if one is under way. *)
RepairTorn ==
  /\ loader.for # "none" /\ Loadable(Read) /\ TornTail(Read)
  /\ file' = [lines |-> LogOf(Read), text |-> NoText]
  /\ damaged' = (damaged \/ Overtaken)
  /\ storage' = OpenedWith(LogOf(Read)) /\ acked' = AckedWith(LogOf(Read))
  /\ loader' = NotLoading
  /\ UNCHANGED <<writing, faults>>

(* Mutant: the missing newline is not written. *)
TerminateLater ==
  /\ loader.for # "none" /\ Loadable(Read) /\ ~TornTail(Read)
  /\ storage' = OpenedWith(LogOf(Read)) /\ acked' = AckedWith(LogOf(Read))
  /\ loader' = NotLoading
  /\ UNCHANGED <<file, writing, damaged, faults>>

(* Nothing to repair but, perhaps, the last newline. *)
Terminate ==
  /\ loader.for # "none" /\ Loadable(Read) /\ ~TornTail(Read)
  /\ file' = IF loader.text = NoText THEN file ELSE Newline(file)
  /\ damaged' = (damaged \/ (loader.text # NoText /\ Overtaken))
  /\ storage' = OpenedWith(LogOf(Read)) /\ acked' = AckedWith(LogOf(Read))
  /\ loader' = NotLoading
  /\ UNCHANGED <<writing, faults>>

(* The file is invalid, or cannot be read or repaired: it stays as it is. *)
LoadFails ==
  /\ loader.for # "none"
  /\ loader' = NotLoading
  /\ UNCHANGED <<file, storage, writing, acked, damaged, faults>>

-----------------------------------------------------------------------------
(* What a damaged file comes to is left open: the model ends there. *)
Next ==
  /\ ~damaged
  /\ \/ \E c \in Calls : Start(c)
     \/ Write \/ Resolve \/ AppendFails \/ Crash
     \/ \E for \in {"open", "fork"} : LoadRead(for)
     \/ RepairTorn \/ Terminate \/ LoadFails

Spec == Init /\ [][Next]_vars

-----------------------------------------------------------------------------
Kinds == {"entry", "started", "finished", "lane", "name", "label", "garbage", "none"}
Mutations == [kind : Kinds, seq : Nat, lane : Lanes \cup {Absent}, id : Ids \cup {Absent},
              ref : Ids \cup {Root, Absent}, set : BOOLEAN]

(* Types of the file, the storage and the append under way. *)
TypeOK ==
  /\ file.lines \in Seq(Mutations) /\ file.text \in Mutations
  /\ storage.open \in BOOLEAN /\ storage.state.seq \in Nat /\ storage.state.used \subseteq Ids
  /\ storage.state.lanes \in [Lanes -> Ids \cup {Root, Absent}] /\ storage.state.lanes[Main] # Absent
  /\ writing.stage \in {"none", "start", "part", "whole", "done"} /\ writing.mutation \in Mutations
  /\ Range(acked) \subseteq Mutations /\ damaged \in BOOLEAN

(* A crash between any two bytes leaves a file that load() accepts, with every
   mutation whose call resolved, in order, and at most one that did not; and a
   load gives the state in memory whenever no append is under way.  Not after
   an append that failed half-way, nor if a fork repaired the file under an
   append: then what is written afterwards may be lost. *)
ReopenComplete ==
  ~damaged => /\ Loadable(file) /\ IsPrefix(acked, LogOf(file))
              /\ Len(LogOf(file)) <= Len(acked) + 1
              /\ storage.open /\ writing.stage = "none" => Replay(LogOf(file)).state = storage.state

(* path leads from the root to leaf, through the entries of s. *)
IsPath(s, leaf, path) ==
  /\ Range(path) \subseteq Range(s.entries)
  /\ IF leaf = Root THEN path = <<>> ELSE path # <<>> /\ Last(path).id = leaf
  /\ \A i \in DOMAIN path : path[i].parent = IF i = 1 THEN Root ELSE path[i - 1].id

(* The mutations of a fork are accepted when the fork is loaded.  A fork of the
   tree gives the same entries in the same order, a fork of a branch exactly
   the entries from the root to the one that was asked for; each gives its
   lanes (a branch: main at its last entry, and no other), the name, the labels
   of the entries it has, and no open operation. *)
ForkFaithful ==
  LET s == storage.state
      forked(r, lanes) ==
        /\ r.ok /\ r.state.lanes = lanes /\ r.state.named = s.named
        /\ r.state.labels = s.labels \cap EntryIds(r.state)
        /\ r.state.open = [l \in Lanes |-> {}]
      tree == Replay(ForkTree(s))
      branch(leaf) == Replay(ForkBranch(s, leaf))
  IN  /\ forked(tree, s.lanes) /\ tree.state.entries = s.entries /\ tree.state.labels = s.labels
      /\ \A leaf \in EntryIds(s) \cup {Root} :
           forked(branch(leaf), OnlyMain(leaf)) /\ IsPath(s, leaf, branch(leaf).state.entries)
=============================================================================
