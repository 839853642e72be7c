---------------------------- MODULE WriterLease ----------------------------
(***************************************************************************)
(* The fenced writer lease of the SQLite session backend                   *)
(* (packages/session-backends/sqlite-node), for one session id and several *)
(* processes, each with a SqliteSessionRepository on the same database.    *)
(*                                                                         *)
(* A transaction is BEGIN IMMEDIATE ... COMMIT with a synchronous body     *)
(* that reads the clock itself, so it is one step.  Time is kept as what   *)
(* is left: row.left is expires_at_ms minus now, cut at 0 (expired).       *)
(*                                                                         *)
(* A storage is one SqliteSessionStorage; storages are numbered in the     *)
(* order of their claims, and the number stands for the uuid in owner_id.  *)
(***************************************************************************)
EXTENDS Integers, Sequences

CONSTANTS
  Repos,        \* the processes
  TTL,          \* writerLease.ttlMs, in ticks
  Heartbeat,    \* writerLease.heartbeatIntervalMs, in ticks
  MaxStorages,  \* bound: claims that yield a storage
  MaxQueue,     \* bound: operations waiting in one storage's queue
  MaxLog,       \* bound: committed mutations
  MaxFaults,    \* bound: transactions that fail to begin (SQLITE_BUSY) and process crashes
  Timely        \* TRUE: no tick passes while an event loop has work that is due

ASSUME LeaseAssumption ==
  /\ Repos # {}
  /\ TTL \in Nat \ {0}
  /\ Heartbeat \in 1..(TTL - 1)
  /\ MaxStorages \in Nat /\ MaxQueue \in Nat /\ MaxLog \in Nat /\ MaxFaults \in Nat
  /\ Timely \in BOOLEAN

VARIABLES
  exists,  \* the session row
  row,     \* the writer_leases row; NoLease when there is none
  log,     \* the storage of each committed mutation
  st,      \* the storages
  next,    \* number of the next storage to be created
  task,    \* what a repository is doing that needs its storages released first, and which
  born,    \* first storage of the current incarnation of the session
  faults

vars == <<exists, row, log, st, next, task, born, faults>>

Storages == 1..MaxStorages
NoTimer  == -1
NoLease  == [owner |-> 0, fence |-> 0, left |-> 0]
NoTask   == [kind |-> "none", todo |-> {}]
Unused   == [repo |-> CHOOSE r \in Repos : TRUE, fence |-> 0, phase |-> "unused", lost |-> FALSE,
             db |-> FALSE, timer |-> NoTimer, queue |-> <<>>]

Active(r) == {s \in Storages : st[s].repo = r /\ st[s].phase \in {"open", "closing"}}

Init ==
  /\ exists = FALSE /\ row = NoLease /\ log = <<>>
  /\ st = [s \in Storages |-> Unused] /\ next = 1
  /\ task = [r \in Repos |-> NoTask] /\ born = 1 /\ faults = 0

-----------------------------------------------------------------------------
(* storage/writer-leases.ts *)

(* acquireWriterLease: no row, or one that has expired. *)
Claimable == row.left = 0

ClaimedRow(s) == [owner |-> s, fence |-> row.fence + 1, left |-> TTL]

(* The WHERE clauses of renewWriterLease and releaseWriterLease. *)
OwnsByFence(s) == row.fence = st[s].fence
Owns(s) == row.owner = s /\ row.fence = st[s].fence
HoldsAny(s) == row.left > 0
Holds(s) == Owns(s) /\ row.left > 0

-----------------------------------------------------------------------------
(* SqliteSessionRepository: its operations are serialised, and close() is
   outside the queue. *)

NewStorage(r) ==
  /\ next \in Storages
  /\ Claimable
  /\ row' = ClaimedRow(next)
  /\ st' = [st EXCEPT ![next] = [repo |-> r, fence |-> row.fence + 1, phase |-> "open", lost |-> FALSE,
                                 db |-> TRUE, timer |-> Heartbeat, queue |-> <<>>]]
  /\ next' = next + 1

(* create() and fork(): the session, its lanes and its lease in one transaction. *)
Create(r) ==
  /\ task[r].kind \in {"none", "close"}
  /\ ~exists
  /\ exists' = TRUE
  /\ born' = next
  /\ NewStorage(r)
  /\ UNCHANGED <<log, task, faults>>

(* open(): a repository that has a storage of the session hands that one out
   again, which changes nothing; otherwise it claims the lease. *)
Open(r) ==
  /\ task[r].kind \in {"none", "close"}
  /\ exists
  /\ Active(r) = {}
  /\ NewStorage(r)
  /\ UNCHANGED <<exists, log, task, born, faults>>

(* release(): refuse new writes, stop the timer, queue the release. *)
ClosingIfHeld(s) ==
  [st[s] EXCEPT !.phase = "closing", !.timer = NoTimer,
                !.queue = IF st[s].lost THEN @ ELSE Append(@, "release")]
Closing(s) == [st[s] EXCEPT !.phase = "closing", !.timer = NoTimer, !.queue = Append(@, "release")]

(* delete(), repairBranchCache() and close() first release, one after the
   other, the storages of the session the repository has at that moment. *)
StartTask(r, kind) ==
  /\ task[r] = NoTask
  /\ task' = [task EXCEPT ![r] = [kind |-> kind, todo |-> Active(r)]]
  /\ UNCHANGED <<exists, row, log, st, next, born, faults>>

Unreleased(r) == task[r].todo \cap Active(r)

ReleaseNext(r, s) ==
  /\ s \in Unreleased(r)
  /\ \A t \in Unreleased(r) : st[t].phase = "open" /\ s <= t
  /\ st' = [st EXCEPT ![s] = Closing(s)]
  /\ UNCHANGED <<exists, row, log, next, task, born, faults>>

FinishTask(r, kind) ==
  /\ task[r].kind = kind /\ Unreleased(r) = {}
  /\ task' = [task EXCEPT ![r] = NoTask]

(* The transaction of delete(); it fails when another writer is active. *)
DeleteKeepsEntries(r) ==
  /\ FinishTask(r, "delete")
  /\ IF ~exists \/ Claimable
     THEN exists' = FALSE /\ row' = NoLease
     ELSE UNCHANGED <<exists, row>>
  /\ UNCHANGED <<log, st, next, born, faults>>

FinishDelete(r) ==
  /\ FinishTask(r, "delete")
  /\ IF ~exists \/ Claimable
     THEN exists' = FALSE /\ row' = NoLease /\ log' = <<>>
     ELSE UNCHANGED <<exists, row, log>>
  /\ UNCHANGED <<st, next, born, faults>>

(* The transaction of repairBranchCache(): claim, rebuild, release. *)
FinishRepair(r) ==
  /\ FinishTask(r, "repair")
  /\ row' = IF Claimable /\ exists THEN NoLease ELSE row
  /\ UNCHANGED <<exists, log, st, next, born, faults>>

(* The end of close(): the connection goes away, also under a storage that
   was opened while close() was releasing the others. *)
FinishClose(r) ==
  /\ FinishTask(r, "close")
  /\ st' = [s \in Storages |-> IF s \in Active(r) THEN [st[s] EXCEPT !.db = FALSE] ELSE st[s]]
  /\ UNCHANGED <<exists, row, log, next, born, faults>>

-----------------------------------------------------------------------------
(* SqliteSessionStorage *)

(* enqueueWrite: refused once closing. *)
EnqueueWrite(s) ==
  /\ st[s].phase = "open" /\ Len(st[s].queue) < MaxQueue
  /\ st' = [st EXCEPT ![s].queue = Append(@, "write")]
  /\ UNCHANGED <<exists, row, log, next, task, born, faults>>

(* The heartbeat timer expires. *)
HeartbeatFires(s) ==
  /\ st[s].timer = 0
  /\ st' = [st EXCEPT ![s].timer = NoTimer, ![s].queue = Append(@, "beat")]
  /\ UNCHANGED <<exists, row, log, next, task, born, faults>>

(* The operation at the head of the queue leaves it; a heartbeat that is over
   schedules the next one unless the storage is closing or has lost its
   lease (scheduleHeartbeat). *)
DequeuedUnarmed(s, lost) ==
  [st[s] EXCEPT !.queue = Tail(@), !.lost = lost, !.timer = IF lost THEN NoTimer ELSE @]

Dequeued(s, lost) ==
  [st[s] EXCEPT !.queue = Tail(@),
                !.lost = lost,
                !.timer = IF lost THEN NoTimer
                          ELSE IF Head(st[s].queue) # "beat" THEN @
                          ELSE IF st[s].phase = "open" THEN Heartbeat ELSE NoTimer]

Renewed == [row EXCEPT !.left = TTL]

(* A write: renewal and mutation in one transaction.  A mutation that throws
   (duplicate id, missing lane) rolls the renewal back. *)
RunWrite(s, ok) ==
  /\ st[s].queue # <<>> /\ Head(st[s].queue) = "write" /\ st[s].db
  /\ IF st[s].lost \/ ~Holds(s)
     THEN /\ st' = [st EXCEPT ![s] = Dequeued(s, TRUE)]
          /\ UNCHANGED <<row, log>>
     ELSE /\ st' = [st EXCEPT ![s] = Dequeued(s, FALSE)]
          /\ ok => Len(log) < MaxLog
          /\ log' = IF ok THEN Append(log, s) ELSE log
          /\ row' = IF ok THEN Renewed ELSE row
  /\ UNCHANGED <<exists, next, task, born, faults>>

(* A heartbeat: nothing when closing or lost, else a renewal. *)
RunHeartbeat(s) ==
  /\ st[s].queue # <<>> /\ Head(st[s].queue) = "beat" /\ st[s].db
  /\ \/ /\ st[s].lost \/ st[s].phase = "closing"
        /\ st' = [st EXCEPT ![s] = Dequeued(s, st[s].lost)]
        /\ UNCHANGED row
     \/ /\ ~st[s].lost /\ st[s].phase # "closing" /\ Holds(s)
        /\ st' = [st EXCEPT ![s] = Dequeued(s, FALSE)]
        /\ row' = Renewed
     \/ /\ ~st[s].lost /\ st[s].phase # "closing" /\ ~Holds(s)
        /\ st' = [st EXCEPT ![s] = Dequeued(s, TRUE)]
        /\ UNCHANGED row
  /\ UNCHANGED <<exists, log, next, task, born, faults>>

(* onRelease: the storage leaves activeStorages, its queue is at its end. *)
Released == [Unused EXCEPT !.phase = "gone"]

(* releaseWriterLease, then onRelease. *)
RunRelease(s) ==
  /\ st[s].queue # <<>> /\ Head(st[s].queue) = "release" /\ st[s].db
  /\ st' = [st EXCEPT ![s] = Released]
  /\ row' = IF Owns(s) THEN NoLease ELSE row
  /\ UNCHANGED <<exists, log, next, task, born, faults>>

(* A transaction cannot begin, because the database is busy or the
   connection closed: the write is rejected, the heartbeat rescheduled; a
   release drops the storage without deleting its row, and the task that
   awaited it fails. *)
BusyLosesLease(s) ==
  /\ st[s].queue # <<>>
  /\ faults < MaxFaults /\ faults' = faults + 1
  /\ st' = [st EXCEPT ![s] = Dequeued(s, TRUE)]
  /\ UNCHANGED <<exists, row, log, next, task, born>>

TransactionFails(s) ==
  /\ st[s].queue # <<>>
  /\ IF st[s].db THEN faults < MaxFaults /\ faults' = faults + 1 ELSE UNCHANGED faults
  /\ IF Head(st[s].queue) = "release"
     THEN /\ st' = [st EXCEPT ![s] = Released]
          /\ task' = [task EXCEPT ![st[s].repo] = NoTask]
     ELSE /\ st' = [st EXCEPT ![s] = Dequeued(s, st[s].lost)]
          /\ UNCHANGED task
  /\ UNCHANGED <<exists, row, log, next, born>>

-----------------------------------------------------------------------------
(* The environment. *)

Crash(r) ==
  /\ faults < MaxFaults
  /\ Active(r) # {}
  /\ faults' = faults + 1
  /\ st' = [s \in Storages |-> IF s \in Active(r)
                               THEN Released ELSE st[s]]
  /\ task' = [task EXCEPT ![r] = NoTask]
  /\ UNCHANGED <<exists, row, log, next, born>>

Minus1(n) == IF n > 0 THEN n - 1 ELSE n

Tick ==
  /\ Timely => \A s \in Storages : st[s].queue = <<>> /\ st[s].timer # 0
  /\ row' = [row EXCEPT !.left = Minus1(@)]
  /\ st' = [s \in Storages |-> [st[s] EXCEPT !.timer = Minus1(@)]]
  /\ UNCHANGED <<exists, log, next, task, born, faults>>

Tasks == {"delete", "repair", "close"}

Repository(r) ==
  \/ Create(r) \/ Open(r)
  \/ \E kind \in Tasks : StartTask(r, kind)
  \/ \E s \in Storages : ReleaseNext(r, s)
  \/ FinishDelete(r) \/ FinishRepair(r) \/ FinishClose(r)

RunOperation(s) ==
  \/ \E ok \in BOOLEAN : RunWrite(s, ok)
  \/ RunHeartbeat(s) \/ RunRelease(s) \/ TransactionFails(s)

Storage(s) == EnqueueWrite(s) \/ HeartbeatFires(s) \/ RunOperation(s)

Next ==
  \/ \E r \in Repos : Repository(r) \/ Crash(r)
  \/ \E s \in Storages : Storage(s)
  \/ Tick

Spec == Init /\ [][Next]_vars

(* Event loops run what is queued, and repositories finish what they began. *)
FairSpec ==
  /\ Spec
  /\ \A s \in Storages : WF_vars(RunOperation(s))
  /\ \A r \in Repos : WF_vars(\/ \E s \in Storages : ReleaseNext(r, s)
                            \/ FinishDelete(r) \/ FinishRepair(r) \/ FinishClose(r))

-----------------------------------------------------------------------------
(* Properties. *)

Phases     == {"unused", "open", "closing", "gone"}
Operations == {"write", "beat", "release"}
LeaseRow   == [owner : Nat, fence : Nat, left : 0..TTL]
StorageRecord ==
  [repo : Repos, fence : Nat, phase : Phases, lost : BOOLEAN, db : BOOLEAN,
   timer : -1..Heartbeat, queue : Seq(Operations)]

(* The lease row, the storages and the repositories hold values of their
   kinds; a fence is never negative and never more than the ttl is left. *)
TypeOK ==
  /\ exists \in BOOLEAN
  /\ row \in LeaseRow
  /\ log \in Seq(Storages)
  /\ st \in [Storages -> StorageRecord]
  /\ next \in Nat
  /\ task \in [Repos -> [kind : Tasks \cup {"none"}, todo : SUBSET Storages]]
  /\ born \in Nat /\ faults \in Nat

(* Fencing: once a writer has taken the session over, no mutation of an
   earlier writer is ever committed, however late its queued write runs. *)
FencedLog == \A i, j \in DOMAIN log : i <= j => log[i] <= log[j]

(* A storage of a deleted session never writes into the session created
   again under the same id. *)
NoWriteAcrossIncarnations == \A i \in DOMAIN log : exists /\ log[i] >= born

(* leaseError is final and truthful: a storage that has reported its lease
   lost does not hold it, now or later, although the row may still carry its
   owner id and fence. *)
LostIsLost == \A s \in Storages : st[s].lost => ~Holds(s)

(* The heartbeat does its job: while event loops are on time and the database
   answers, an open storage always holds the lease. *)
OpenMeansHeld ==
  Timely /\ faults = 0 => \A s \in Storages : st[s].phase = "open" /\ st[s].db => Holds(s) /\ ~st[s].lost

(* The abstract writer of this session. *)
Abstract == INSTANCE SingleWriter WITH writer <- next - 1

(* The lease implements a single writer: commits come only from the latest
   claimant. *)
ImplementsSingleWriter == Abstract!Spec

(* delete(), repairBranchCache() and close() return: nobody waits forever
   for a storage to be released. *)
TasksFinish == \A r \in Repos : task[r] # NoTask ~> task[r] = NoTask
=============================================================================
