------------------------- MODULE WriterLeaseProofs -------------------------
(***************************************************************************)
(* Proofs about WriterLease for any number of processes and storages, any  *)
(* ttl and heartbeat interval: type correctness, fencing, and that the     *)
(* lease implements SingleWriter.                                          *)
(***************************************************************************)
EXTENDS WriterLease, TLAPS

(* The timer values that the code writes are timer values. *)
LEMMA TimerType == NoTimer \in -1..Heartbeat /\ Heartbeat \in -1..Heartbeat
BY LeaseAssumption DEF NoTimer

(* The updates that the actions make to a storage keep it a storage. *)
LEMMA StorageUpdates ==
  ASSUME NEW x \in StorageRecord
  PROVE  /\ [x EXCEPT !.db = FALSE] \in StorageRecord
         /\ [x EXCEPT !.timer = Minus1(@)] \in StorageRecord
         /\ \A op \in Operations :
              /\ [x EXCEPT !.queue = Append(@, op)] \in StorageRecord
              /\ [x EXCEPT !.timer = NoTimer, !.queue = Append(@, op)] \in StorageRecord
         /\ x.lost \in BOOLEAN
<1>1. \A op \in Operations : Append(x.queue, op) \in Seq(Operations)
  BY DEF StorageRecord
<1>2. Minus1(x.timer) \in -1..Heartbeat
  BY LeaseAssumption DEF StorageRecord, Minus1
<1>3. [x EXCEPT !.db = FALSE] \in StorageRecord
  BY DEF StorageRecord
<1>4. [x EXCEPT !.timer = Minus1(@)] \in StorageRecord
  BY <1>2 DEF StorageRecord
<1>5. ASSUME NEW op \in Operations
      PROVE  /\ [x EXCEPT !.queue = Append(@, op)] \in StorageRecord
             /\ [x EXCEPT !.timer = NoTimer, !.queue = Append(@, op)] \in StorageRecord
  BY <1>1, TimerType DEF StorageRecord
<1>6. x.lost \in BOOLEAN
  BY DEF StorageRecord
<1> QED
  BY <1>3, <1>4, <1>5, <1>6

(* The records that the actions build are storages. *)
LEMMA UnusedType == Unused \in StorageRecord
<1>1. (CHOOSE r \in Repos : TRUE) \in Repos
  BY LeaseAssumption
<1> QED
  BY <1>1, TimerType DEF Unused, StorageRecord, Phases

(* A storage that left activeStorages is a storage. *)
LEMMA ReleasedType == Released \in StorageRecord
<1>1. "gone" \in Phases
  BY DEF Phases
<1> QED
  BY <1>1, UnusedType DEF Released, StorageRecord

(* The storage that claimStorage creates is a storage. *)
LEMMA ClaimedType ==
  ASSUME TypeOK, NEW r \in Repos
  PROVE  [repo |-> r, fence |-> row.fence + 1, phase |-> "open", lost |-> FALSE,
          db |-> TRUE, timer |-> Heartbeat, queue |-> <<>>] \in StorageRecord
BY LeaseAssumption, TimerType DEF TypeOK, LeaseRow, StorageRecord, Phases

(* A storage that release() has marked as closing is a storage. *)
LEMMA ClosingType ==
  ASSUME NEW s \in Storages, st[s] \in StorageRecord
  PROVE  Closing(s) \in StorageRecord
<1>1. Append(st[s].queue, "release") \in Seq(Operations)
  BY DEF StorageRecord, Operations
<1>2. "closing" \in Phases
  BY DEF Phases
<1> QED
  BY <1>1, <1>2, TimerType DEF Closing, StorageRecord

(* A storage whose queue has run one operation is a storage. *)
LEMMA DequeuedType ==
  ASSUME NEW s \in Storages, st[s] \in StorageRecord, st[s].queue # <<>>, NEW lost \in BOOLEAN
  PROVE  Dequeued(s, lost) \in StorageRecord
<1> DEFINE timer == IF lost THEN NoTimer
                    ELSE IF Head(st[s].queue) # "beat" THEN st[s].timer
                    ELSE IF st[s].phase = "open" THEN Heartbeat ELSE NoTimer
<1>1. Tail(st[s].queue) \in Seq(Operations)
  BY DEF StorageRecord, Operations
<1>2. timer \in -1..Heartbeat
  BY TimerType DEF StorageRecord
<1>3. Dequeued(s, lost) = [st[s] EXCEPT !.queue = Tail(@), !.lost = lost, !.timer = timer]
  BY DEF Dequeued
<1> HIDE DEF timer
<1> QED
  BY <1>1, <1>2, <1>3 DEF StorageRecord

(* The rows that the transactions leave are lease rows. *)
LEMMA RowType ==
  ASSUME TypeOK
  PROVE  /\ NoLease \in LeaseRow
         /\ Renewed \in LeaseRow
         /\ [row EXCEPT !.left = Minus1(@)] \in LeaseRow
         /\ \A s \in Nat : ClaimedRow(s) \in LeaseRow
<1>1. row \in LeaseRow
  BY DEF TypeOK
<1>2. TTL \in 0..TTL /\ Minus1(row.left) \in 0..TTL
  BY <1>1, LeaseAssumption DEF LeaseRow, Minus1
<1>3. NoLease \in LeaseRow
  BY LeaseAssumption DEF LeaseRow, NoLease
<1>4. Renewed \in LeaseRow
  BY <1>1, <1>2 DEF LeaseRow, Renewed
<1>5. [row EXCEPT !.left = Minus1(@)] \in LeaseRow
  BY <1>1, <1>2 DEF LeaseRow
<1>6. \A s \in Nat : ClaimedRow(s) \in LeaseRow
  BY <1>1, <1>2 DEF LeaseRow, ClaimedRow
<1> QED
  BY <1>3, <1>4, <1>5, <1>6

(* The tasks of a repository that StartTask and FinishTask set. *)
LEMMA TaskType ==
  /\ NoTask \in [kind : Tasks \cup {"none"}, todo : SUBSET Storages]
  /\ \A r \in Repos, kind \in Tasks :
       [kind |-> kind, todo |-> Active(r)] \in [kind : Tasks \cup {"none"}, todo : SUBSET Storages]
BY DEF NoTask, Active

(* An empty database is in its type. *)
LEMMA TypeInit == Init => TypeOK
<1> SUFFICES ASSUME Init PROVE TypeOK
  OBVIOUS
<1>1. NoLease \in LeaseRow
  BY LeaseAssumption DEF LeaseRow, NoLease
<1>2. <<>> \in Seq(Storages)
  OBVIOUS
<1> QED
  BY <1>1, <1>2, UnusedType, TaskType DEF Init, TypeOK

(* Every step keeps every variable in its type. *)
LEMMA TypeStep == TypeOK /\ [Next]_vars => TypeOK'
<1> SUFFICES ASSUME TypeOK, [Next]_vars PROVE TypeOK'
  OBVIOUS
<1>0. /\ \A s \in Storages : st[s] \in StorageRecord
      /\ "write" \in Operations /\ "beat" \in Operations
  BY DEF TypeOK, Operations
<1>1. ASSUME NEW r \in Repos, Create(r) PROVE TypeOK'
  BY <1>1, RowType, ClaimedType DEF TypeOK, Create, NewStorage
<1>2. ASSUME NEW r \in Repos, Open(r) PROVE TypeOK'
  BY <1>2, RowType, ClaimedType DEF TypeOK, Open, NewStorage
<1>3. ASSUME NEW r \in Repos, NEW kind \in Tasks, StartTask(r, kind) PROVE TypeOK'
  BY <1>3, TaskType DEF TypeOK, StartTask
<1>4. ASSUME NEW r \in Repos, NEW s \in Storages, ReleaseNext(r, s) PROVE TypeOK'
  BY <1>4, ClosingType DEF TypeOK, ReleaseNext
<1>5. ASSUME NEW r \in Repos, FinishDelete(r) PROVE TypeOK'
  <2>1. <<>> \in Seq(Storages)
    OBVIOUS
  <2> QED
    BY <1>5, <2>1, RowType, TaskType DEF TypeOK, FinishDelete, FinishTask
<1>6. ASSUME NEW r \in Repos, FinishRepair(r) PROVE TypeOK'
  BY <1>6, RowType, TaskType DEF TypeOK, FinishRepair, FinishTask
<1>7. ASSUME NEW r \in Repos, FinishClose(r) PROVE TypeOK'
  BY <1>0, <1>7, StorageUpdates, TaskType DEF TypeOK, FinishClose, FinishTask
<1>8. ASSUME NEW r \in Repos, Crash(r) PROVE TypeOK'
  BY <1>8, ReleasedType, TaskType DEF TypeOK, Crash
<1>9. ASSUME NEW s \in Storages, EnqueueWrite(s) PROVE TypeOK'
  BY <1>0, <1>9, StorageUpdates DEF TypeOK, EnqueueWrite
<1>10. ASSUME NEW s \in Storages, HeartbeatFires(s) PROVE TypeOK'
  BY <1>0, <1>10, StorageUpdates DEF TypeOK, HeartbeatFires
<1>11. ASSUME NEW s \in Storages, NEW ok \in BOOLEAN, RunWrite(s, ok) PROVE TypeOK'
  <2>1. Append(log, s) \in Seq(Storages)
    BY DEF TypeOK
  <2>2. st' \in [Storages -> StorageRecord]
    BY <1>0, <1>11, DequeuedType DEF TypeOK, RunWrite
  <2>3. log' \in Seq(Storages) /\ row' \in LeaseRow
    BY <1>11, <2>1, RowType DEF TypeOK, RunWrite
  <2> QED
    BY <1>11, <2>2, <2>3 DEF TypeOK, RunWrite
<1>12. ASSUME NEW s \in Storages, RunHeartbeat(s) PROVE TypeOK'
  <2>1. /\ Dequeued(s, TRUE) \in StorageRecord /\ Dequeued(s, FALSE) \in StorageRecord
        /\ Dequeued(s, st[s].lost) \in StorageRecord
    BY <1>0, <1>12, StorageUpdates, DequeuedType DEF RunHeartbeat
  <2> QED
    BY <1>12, <2>1, RowType DEF TypeOK, RunHeartbeat
<1>13. ASSUME NEW s \in Storages, RunRelease(s) PROVE TypeOK'
  BY <1>13, ReleasedType, RowType DEF TypeOK, RunRelease
<1>14. ASSUME NEW s \in Storages, TransactionFails(s) PROVE TypeOK'
  <2>1. Dequeued(s, st[s].lost) \in StorageRecord
    BY <1>0, <1>14, StorageUpdates, DequeuedType DEF TransactionFails
  <2> QED
    BY <1>14, <2>1, ReleasedType, TaskType DEF TypeOK, TransactionFails
<1>15. ASSUME Tick PROVE TypeOK'
  BY <1>0, <1>15, StorageUpdates, RowType DEF TypeOK, Tick
<1>16. CASE UNCHANGED vars
  BY <1>16 DEF TypeOK, vars
<1> QED
  BY <1>1, <1>2, <1>3, <1>4, <1>5, <1>6, <1>7, <1>8, <1>9, <1>10, <1>11, <1>12, <1>13, <1>14,
     <1>15, <1>16
  DEF Next, Repository, Storage, RunOperation

(* The type invariant: the lease row, the storages and the repositories of
   the SQLite backend hold values of their kinds in every reachable state. *)
THEOREM TypeCorrect == Spec => []TypeOK
BY TypeInit, TypeStep, PTL DEF Spec

-----------------------------------------------------------------------------
(* Fencing. *)

(* Only the latest storage can be in the lease row, and only while the
   session exists can the row be live. *)
RowInv ==
  /\ row.owner # 0 => row.owner = next - 1
  /\ row.left > 0 => exists /\ row.owner # 0
  /\ next >= 1
  /\ exists => born < next

(* A storage that was not created yet has nothing queued and no timer. *)
UnusedInv ==
  \A s \in Storages : s >= next =>
    st[s].phase = "unused" /\ st[s].queue = <<>> /\ st[s].timer = NoTimer /\ ~st[s].lost

(* What is committed was committed by storages of this incarnation. *)
LogInv == \A i \in DOMAIN log : exists /\ born <= log[i] /\ log[i] < next

(* The inductive invariant.  FencedLog alone is not inductive: a commit
   extends the log in order only because the row names the latest storage,
   and the row does so only because claims number the storages. *)
FenceInv == TypeOK /\ RowInv /\ UnusedInv /\ LogInv /\ FencedLog /\ LostIsLost

(* Fields of the records that the actions build. *)
LEMMA Fields ==
  ASSUME NEW s \in Storages, st[s] \in StorageRecord
  PROVE  /\ \A lost \in BOOLEAN : Dequeued(s, lost).fence = st[s].fence /\ Dequeued(s, lost).lost = lost
         /\ Closing(s).fence = st[s].fence /\ Closing(s).lost = st[s].lost
         /\ Released.lost = FALSE
BY DEF Dequeued, Closing, Released, Unused, StorageRecord

(* The row names the latest storage or none, and is live only under a session. *)
LEMMA RowStep == FenceInv /\ [Next]_vars => RowInv'
<1> SUFFICES ASSUME FenceInv, [Next]_vars PROVE RowInv'
  OBVIOUS
<1>0. TypeOK /\ RowInv /\ row \in LeaseRow /\ next \in Nat /\ born \in Nat
  BY DEF FenceInv, TypeOK
<1>1. ASSUME NEW r \in Repos, Create(r) PROVE RowInv'
  BY <1>0, <1>1, LeaseAssumption DEF RowInv, Create, NewStorage, ClaimedRow, Storages
<1>2. ASSUME NEW r \in Repos, Open(r) PROVE RowInv'
  BY <1>0, <1>2, LeaseAssumption DEF RowInv, Open, NewStorage, ClaimedRow, Storages
<1>3. ASSUME NEW r \in Repos, NEW kind \in Tasks, StartTask(r, kind) PROVE RowInv'
  BY <1>0, <1>3 DEF RowInv, StartTask
<1>4. ASSUME NEW r \in Repos, NEW t \in Storages, ReleaseNext(r, t) PROVE RowInv'
  BY <1>0, <1>4 DEF RowInv, ReleaseNext
<1>5. ASSUME NEW r \in Repos, FinishDelete(r) PROVE RowInv'
  BY <1>0, <1>5 DEF RowInv, FinishDelete, Claimable, NoLease
<1>6. ASSUME NEW r \in Repos, FinishRepair(r) PROVE RowInv'
  BY <1>0, <1>6 DEF RowInv, FinishRepair, NoLease
<1>7. ASSUME NEW r \in Repos, FinishClose(r) PROVE RowInv'
  BY <1>0, <1>7 DEF RowInv, FinishClose
<1>8. ASSUME NEW r \in Repos, Crash(r) PROVE RowInv'
  BY <1>0, <1>8 DEF RowInv, Crash
<1>9. ASSUME NEW t \in Storages, EnqueueWrite(t) PROVE RowInv'
  BY <1>0, <1>9 DEF RowInv, EnqueueWrite
<1>10. ASSUME NEW t \in Storages, HeartbeatFires(t) PROVE RowInv'
  BY <1>0, <1>10 DEF RowInv, HeartbeatFires
<1>11. ASSUME NEW t \in Storages, NEW ok \in BOOLEAN, RunWrite(t, ok) PROVE RowInv'
  BY <1>0, <1>11 DEF RowInv, RunWrite, Renewed, Holds, LeaseRow
<1>12. ASSUME NEW t \in Storages, RunHeartbeat(t) PROVE RowInv'
  BY <1>0, <1>12 DEF RowInv, RunHeartbeat, Renewed, Holds, LeaseRow
<1>13. ASSUME NEW t \in Storages, RunRelease(t) PROVE RowInv'
  BY <1>0, <1>13 DEF RowInv, RunRelease, NoLease
<1>14. ASSUME NEW t \in Storages, TransactionFails(t) PROVE RowInv'
  BY <1>0, <1>14 DEF RowInv, TransactionFails
<1>15. ASSUME Tick PROVE RowInv'
  BY <1>0, <1>15 DEF RowInv, Tick, Minus1, LeaseRow
<1>16. CASE UNCHANGED vars
  BY <1>0, <1>16 DEF vars, RowInv
<1> QED
  BY <1>1, <1>2, <1>3, <1>4, <1>5, <1>6, <1>7, <1>8, <1>9, <1>10, <1>11, <1>12, <1>13, <1>14,
     <1>15, <1>16
  DEF Next, Repository, Storage, RunOperation

(* A storage that was not created yet takes no part in any step but its creation. *)
LEMMA UnusedStep == FenceInv /\ [Next]_vars => UnusedInv'
<1> SUFFICES ASSUME FenceInv, [Next]_vars PROVE UnusedInv'
  OBVIOUS
<1>0. /\ TypeOK /\ RowInv /\ UnusedInv /\ next \in Nat
      /\ \A s \in Storages : s \in Nat /\ st[s] \in StorageRecord
  BY LeaseAssumption DEF FenceInv, TypeOK, Storages
<1>1. ASSUME NEW r \in Repos, Create(r) PROVE UnusedInv'
  BY <1>0, <1>1 DEF TypeOK, UnusedInv, Create, NewStorage
<1>2. ASSUME NEW r \in Repos, Open(r) PROVE UnusedInv'
  BY <1>0, <1>2 DEF TypeOK, UnusedInv, Open, NewStorage
<1>3. ASSUME NEW r \in Repos, NEW kind \in Tasks, StartTask(r, kind) PROVE UnusedInv'
  BY <1>0, <1>3 DEF UnusedInv, StartTask
<1>4. ASSUME NEW r \in Repos, NEW t \in Storages, ReleaseNext(r, t) PROVE UnusedInv'
  BY <1>0, <1>4 DEF TypeOK, UnusedInv, ReleaseNext, Unreleased, Active
<1>5. ASSUME NEW r \in Repos, FinishDelete(r) PROVE UnusedInv'
  BY <1>0, <1>5 DEF UnusedInv, FinishDelete
<1>6. ASSUME NEW r \in Repos, FinishRepair(r) PROVE UnusedInv'
  BY <1>0, <1>6 DEF UnusedInv, FinishRepair
<1>7. ASSUME NEW r \in Repos, FinishClose(r) PROVE UnusedInv'
  BY <1>0, <1>7 DEF TypeOK, UnusedInv, FinishClose, Active
<1>8. ASSUME NEW r \in Repos, Crash(r) PROVE UnusedInv'
  BY <1>0, <1>8 DEF TypeOK, UnusedInv, Crash, Active
<1>9. ASSUME NEW t \in Storages, EnqueueWrite(t) PROVE UnusedInv'
  BY <1>0, <1>9 DEF TypeOK, UnusedInv, EnqueueWrite
<1>10. ASSUME NEW t \in Storages, HeartbeatFires(t) PROVE UnusedInv'
  BY <1>0, <1>10 DEF TypeOK, UnusedInv, HeartbeatFires, NoTimer
<1>11. ASSUME NEW t \in Storages, NEW ok \in BOOLEAN, RunWrite(t, ok) PROVE UnusedInv'
  BY <1>0, <1>11 DEF TypeOK, UnusedInv, RunWrite
<1>12. ASSUME NEW t \in Storages, RunHeartbeat(t) PROVE UnusedInv'
  BY <1>0, <1>12 DEF TypeOK, UnusedInv, RunHeartbeat
<1>13. ASSUME NEW t \in Storages, RunRelease(t) PROVE UnusedInv'
  BY <1>0, <1>13 DEF TypeOK, UnusedInv, RunRelease
<1>14. ASSUME NEW t \in Storages, TransactionFails(t) PROVE UnusedInv'
  BY <1>0, <1>14 DEF TypeOK, UnusedInv, TransactionFails
<1>15. ASSUME Tick PROVE UnusedInv'
  <2>1. \A s \in Storages : /\ st'[s].phase = st[s].phase /\ st'[s].queue = st[s].queue
                             /\ st'[s].lost = st[s].lost /\ st'[s].timer = Minus1(st[s].timer)
    BY <1>0, <1>15 DEF Tick, StorageRecord
  <2>2. next' = next /\ Minus1(NoTimer) = NoTimer
    BY <1>15 DEF Tick, Minus1, NoTimer
  <2> QED
    BY <1>0, <2>1, <2>2 DEF UnusedInv
<1>16. CASE UNCHANGED vars
  BY <1>0, <1>16 DEF vars, UnusedInv
<1> QED
  BY <1>1, <1>2, <1>3, <1>4, <1>5, <1>6, <1>7, <1>8, <1>9, <1>10, <1>11, <1>12, <1>13, <1>14,
     <1>15, <1>16
  DEF Next, Repository, Storage, RunOperation

(* Commits come from the latest storage, of the current incarnation. *)
LEMMA LogStep == FenceInv /\ [Next]_vars => (LogInv /\ FencedLog)'
<1> SUFFICES ASSUME FenceInv, [Next]_vars PROVE (LogInv /\ FencedLog)'
  OBVIOUS
<1>0. /\ TypeOK /\ RowInv /\ LogInv /\ FencedLog /\ next \in Nat /\ born \in Nat
      /\ log \in Seq(Storages) /\ \A s \in Storages : s \in Nat \ {0}
  BY LeaseAssumption DEF FenceInv, TypeOK, Storages
<1>a. \A i \in DOMAIN log : log[i] \in Nat
  BY <1>0
<1>1. ASSUME NEW r \in Repos, Create(r) PROVE (LogInv /\ FencedLog)'
  BY <1>0, <1>1 DEF LogInv, FencedLog, Create, NewStorage
<1>2. ASSUME NEW r \in Repos, Open(r) PROVE (LogInv /\ FencedLog)'
  BY <1>0, <1>a, <1>2 DEF LogInv, FencedLog, Open, NewStorage
<1>3. ASSUME NEW r \in Repos, NEW kind \in Tasks, StartTask(r, kind) PROVE (LogInv /\ FencedLog)'
  BY <1>0, <1>3 DEF LogInv, FencedLog, StartTask
<1>4. ASSUME NEW r \in Repos, NEW t \in Storages, ReleaseNext(r, t) PROVE (LogInv /\ FencedLog)'
  BY <1>0, <1>4 DEF LogInv, FencedLog, ReleaseNext
<1>5. ASSUME NEW r \in Repos, FinishDelete(r) PROVE (LogInv /\ FencedLog)'
  BY <1>0, <1>5 DEF LogInv, FencedLog, FinishDelete
<1>6. ASSUME NEW r \in Repos, FinishRepair(r) PROVE (LogInv /\ FencedLog)'
  BY <1>0, <1>6 DEF LogInv, FencedLog, FinishRepair
<1>7. ASSUME NEW r \in Repos, FinishClose(r) PROVE (LogInv /\ FencedLog)'
  BY <1>0, <1>7 DEF LogInv, FencedLog, FinishClose
<1>8. ASSUME NEW r \in Repos, Crash(r) PROVE (LogInv /\ FencedLog)'
  BY <1>0, <1>8 DEF LogInv, FencedLog, Crash
<1>9. ASSUME NEW t \in Storages, EnqueueWrite(t) PROVE (LogInv /\ FencedLog)'
  BY <1>0, <1>9 DEF LogInv, FencedLog, EnqueueWrite
<1>10. ASSUME NEW t \in Storages, HeartbeatFires(t) PROVE (LogInv /\ FencedLog)'
  BY <1>0, <1>10 DEF LogInv, FencedLog, HeartbeatFires
<1>11. ASSUME NEW t \in Storages, NEW ok \in BOOLEAN, RunWrite(t, ok) PROVE (LogInv /\ FencedLog)'
  <2>1. CASE log' = log
    BY <1>0, <2>1, <1>11 DEF LogInv, FencedLog, RunWrite
  <2>2. CASE log' = Append(log, t) /\ Holds(t)
    <3>1. t = next - 1 /\ exists /\ born <= t
      BY <1>0, <2>2 DEF RowInv, Holds, Owns
    <3>2. \A i \in DOMAIN log' : log'[i] = IF i \in DOMAIN log THEN log[i] ELSE t
      BY <1>0, <2>2
    <3>3. next' = next /\ born' = born /\ exists' = exists
      BY <1>11 DEF RunWrite
    <3>4. LogInv'
      BY <1>0, <1>a, <3>1, <3>2, <3>3 DEF LogInv
    <3>5. FencedLog'
      <4> SUFFICES ASSUME NEW i \in DOMAIN log', NEW j \in DOMAIN log', i <= j
                   PROVE  log'[i] <= log'[j]
        BY DEF FencedLog
      <4>1. DOMAIN log' = 1..(Len(log) + 1) /\ DOMAIN log = 1..Len(log) /\ Len(log) \in Nat
        BY <1>0, <2>2
      <4>2. CASE j \in DOMAIN log
        BY <1>0, <3>2, <4>1, <4>2 DEF FencedLog
      <4>3. CASE j \notin DOMAIN log
        BY <1>0, <1>a, <3>1, <3>2, <4>3 DEF LogInv
      <4> QED
        BY <4>2, <4>3
    <3> QED
      BY <3>4, <3>5
  <2> QED
    BY <2>1, <2>2, <1>11 DEF RunWrite
<1>12. ASSUME NEW t \in Storages, RunHeartbeat(t) PROVE (LogInv /\ FencedLog)'
  BY <1>0, <1>12 DEF LogInv, FencedLog, RunHeartbeat
<1>13. ASSUME NEW t \in Storages, RunRelease(t) PROVE (LogInv /\ FencedLog)'
  BY <1>0, <1>13 DEF LogInv, FencedLog, RunRelease
<1>14. ASSUME NEW t \in Storages, TransactionFails(t) PROVE (LogInv /\ FencedLog)'
  BY <1>0, <1>14 DEF LogInv, FencedLog, TransactionFails
<1>15. ASSUME Tick PROVE (LogInv /\ FencedLog)'
  BY <1>0, <1>15 DEF LogInv, FencedLog, Tick
<1>16. CASE UNCHANGED vars
  BY <1>0, <1>16 DEF vars, LogInv, FencedLog
<1> QED
  BY <1>1, <1>2, <1>3, <1>4, <1>5, <1>6, <1>7, <1>8, <1>9, <1>10, <1>11, <1>12, <1>13, <1>14,
     <1>15, <1>16
  DEF Next, Repository, Storage, RunOperation

(* An operation that leaves the queue reports the loss truthfully. *)
LEMMA LostAfterDequeue ==
  ASSUME TypeOK, LostIsLost, NEW t \in Storages, NEW lost \in BOOLEAN, lost => ~Holds(t),
         st' = [st EXCEPT ![t] = Dequeued(t, lost)],
         row' = row \/ (Holds(t) /\ row' = Renewed)
  PROVE  LostIsLost'
<1> SUFFICES ASSUME NEW s \in Storages, st'[s].lost, Holds(s)' PROVE FALSE
  BY DEF LostIsLost
<1>1. row \in LeaseRow /\ st \in [Storages -> StorageRecord]
  BY DEF TypeOK
<1>2. st'[s].fence = st[s].fence /\ (st'[s].lost => IF s = t THEN lost ELSE st[s].lost)
  BY <1>1, Fields
<1>3. row'.owner = row.owner /\ row'.fence = row.fence
  BY <1>1 DEF Renewed, LeaseRow
<1>4. row.left > 0
  BY DEF Holds
<1>5. Holds(s)
  BY <1>2, <1>3, <1>4 DEF Holds, Owns
<1> QED
  BY <1>2, <1>5 DEF LostIsLost

(* A lost lease is not regained. *)
LEMMA LostStep == FenceInv /\ [Next]_vars => LostIsLost'
<1> SUFFICES ASSUME FenceInv, [Next]_vars PROVE LostIsLost'
  OBVIOUS
<1>a. /\ TypeOK /\ RowInv /\ UnusedInv /\ LostIsLost /\ row \in LeaseRow /\ next \in Nat
      /\ \A s \in Storages : s \in Nat /\ s # 0 /\ st[s] \in StorageRecord
  BY LeaseAssumption DEF FenceInv, TypeOK, Storages
<1>b. \A s \in Storages : st[s].lost \in BOOLEAN
  BY <1>a, StorageUpdates
<1>0. \A s \in Storages : st[s].lost => ~Holds(s)
  BY <1>a DEF LostIsLost
<1>1. ASSUME NEW r \in Repos, Create(r) PROVE LostIsLost'
  BY <1>0, <1>a, <1>b, <1>1 DEF TypeOK, LostIsLost, Holds, Owns, Create, NewStorage, ClaimedRow
<1>2. ASSUME NEW r \in Repos, Open(r) PROVE LostIsLost'
  BY <1>0, <1>a, <1>b, <1>2 DEF TypeOK, LostIsLost, Holds, Owns, Open, NewStorage, ClaimedRow
<1>3. ASSUME NEW r \in Repos, NEW kind \in Tasks, StartTask(r, kind) PROVE LostIsLost'
  BY <1>0, <1>a, <1>b, <1>3 DEF LostIsLost, Holds, Owns, StartTask
<1>4. ASSUME NEW r \in Repos, NEW t \in Storages, ReleaseNext(r, t) PROVE LostIsLost'
  BY <1>0, <1>a, <1>b, <1>4, Fields DEF TypeOK, LostIsLost, Holds, Owns, ReleaseNext
<1>5. ASSUME NEW r \in Repos, FinishDelete(r) PROVE LostIsLost'
  BY <1>0, <1>a, <1>b, <1>5 DEF LostIsLost, Holds, Owns, FinishDelete, NoLease
<1>6. ASSUME NEW r \in Repos, FinishRepair(r) PROVE LostIsLost'
  BY <1>0, <1>a, <1>b, <1>6 DEF LostIsLost, Holds, Owns, FinishRepair, NoLease
<1>7. ASSUME NEW r \in Repos, FinishClose(r) PROVE LostIsLost'
  BY <1>0, <1>a, <1>b, <1>7 DEF TypeOK, LostIsLost, Holds, Owns, FinishClose, StorageRecord
<1>8. ASSUME NEW r \in Repos, Crash(r) PROVE LostIsLost'
  BY <1>0, <1>a, <1>b, <1>8, Fields DEF TypeOK, LostIsLost, Holds, Owns, Crash
<1>9. ASSUME NEW t \in Storages, EnqueueWrite(t) PROVE LostIsLost'
  BY <1>0, <1>a, <1>b, <1>9 DEF TypeOK, LostIsLost, Holds, Owns, EnqueueWrite, StorageRecord
<1>10. ASSUME NEW t \in Storages, HeartbeatFires(t) PROVE LostIsLost'
  BY <1>0, <1>a, <1>b, <1>10 DEF TypeOK, LostIsLost, Holds, Owns, HeartbeatFires, StorageRecord
<1>11. ASSUME NEW t \in Storages, NEW ok \in BOOLEAN, RunWrite(t, ok) PROVE LostIsLost'
  <2>1. PICK lost \in BOOLEAN : st' = [st EXCEPT ![t] = Dequeued(t, lost)] /\ (lost => ~Holds(t))
    BY <1>0, <1>11 DEF RunWrite
  <2>2. row' = row \/ (Holds(t) /\ row' = Renewed)
    BY <1>11 DEF RunWrite
  <2> QED
    BY <1>0, <1>a, <2>1, <2>2, LostAfterDequeue
<1>12. ASSUME NEW t \in Storages, RunHeartbeat(t) PROVE LostIsLost'
  <2>1. PICK lost \in BOOLEAN : st' = [st EXCEPT ![t] = Dequeued(t, lost)] /\ (lost => ~Holds(t))
    BY <1>0, <1>b, <1>12 DEF RunHeartbeat
  <2>2. row' = row \/ (Holds(t) /\ row' = Renewed)
    BY <1>12 DEF RunHeartbeat
  <2> QED
    BY <1>0, <1>a, <2>1, <2>2, LostAfterDequeue
<1>13. ASSUME NEW t \in Storages, RunRelease(t) PROVE LostIsLost'
  BY <1>0, <1>a, <1>b, <1>13, Fields DEF TypeOK, LostIsLost, Holds, Owns, RunRelease, NoLease
<1>14. ASSUME NEW t \in Storages, TransactionFails(t) PROVE LostIsLost'
  <2>1. CASE st' = [st EXCEPT ![t] = Dequeued(t, st[t].lost)]
    BY <1>0, <1>a, <1>b, <1>14, <2>1, LostAfterDequeue DEF TransactionFails
  <2>2. CASE st' = [st EXCEPT ![t] = Released]
    BY <1>0, <1>a, <1>14, <2>2, Fields DEF TypeOK, LostIsLost, Holds, Owns, TransactionFails
  <2> QED
    BY <1>14, <2>1, <2>2 DEF TransactionFails
<1>15. ASSUME Tick PROVE LostIsLost'
  BY <1>0, <1>a, <1>b, <1>15 DEF TypeOK, LostIsLost, Holds, Owns, Tick, Minus1, StorageRecord, LeaseRow
<1>16. CASE UNCHANGED vars
  BY <1>0, <1>a, <1>b, <1>16 DEF vars, LostIsLost, Holds, Owns
<1> QED
  BY <1>1, <1>2, <1>3, <1>4, <1>5, <1>6, <1>7, <1>8, <1>9, <1>10, <1>11, <1>12, <1>13, <1>14,
     <1>15, <1>16
  DEF Next, Repository, Storage, RunOperation

(* The conjuncts of the fence invariant are kept by every step. *)
LEMMA FenceStep == FenceInv /\ [Next]_vars => FenceInv'
BY TypeStep, RowStep, UnusedStep, LogStep, LostStep DEF FenceInv

(* The inductive invariant holds in every reachable state. *)
THEOREM FenceInvariant == Spec => []FenceInv
<1>1. Init => FenceInv
  <2> SUFFICES ASSUME Init PROVE FenceInv
    OBVIOUS
  <2>1. RowInv
    BY DEF Init, RowInv, NoLease
  <2>2. UnusedInv
    BY DEF Init, UnusedInv, Unused
  <2>3. LogInv /\ FencedLog
    BY DEF Init, LogInv, FencedLog
  <2>4. LostIsLost
    BY DEF Init, LostIsLost, Unused
  <2> QED
    BY <2>1, <2>2, <2>3, <2>4, TypeInit DEF FenceInv
<1> QED
  BY <1>1, FenceStep, PTL DEF Spec

(* Fencing (renewWriterLease in enqueueWrite): once a storage has claimed the
   session, no mutation of an earlier one is ever committed. *)
THEOREM Fenced == Spec => []FencedLog
<1>1. FenceInv => FencedLog
  BY DEF FenceInv
<1> QED
  BY <1>1, FenceInvariant, PTL

(* A storage of a deleted session never writes into the session that is
   created again under the same id, although the fence restarts at 1. *)
THEOREM IncarnationsApart == Spec => []NoWriteAcrossIncarnations
<1>1. FenceInv => NoWriteAcrossIncarnations
  <2> SUFFICES ASSUME FenceInv, NEW i \in DOMAIN log PROVE exists /\ log[i] >= born
    BY DEF NoWriteAcrossIncarnations
  <2>1. exists /\ born <= log[i] /\ born \in Nat
    BY DEF FenceInv, LogInv, TypeOK
  <2>2. log[i] \in Nat
    BY LeaseAssumption DEF FenceInv, TypeOK, Storages
  <2> QED
    BY <2>1, <2>2
<1> QED
  BY <1>1, FenceInvariant, PTL

(* leaseError is never raised against the holder of the lease, and the holder
   of a lost lease never holds it again. *)
THEOREM LostForGood == Spec => []LostIsLost
<1>1. FenceInv => LostIsLost
  BY DEF FenceInv
<1> QED
  BY <1>1, FenceInvariant, PTL

-----------------------------------------------------------------------------
(* The heartbeat. *)

(* A storage that is open on a live connection holds the lease, and the lease
   outlives its timer: while the timer runs, more of the lease is left than of
   the timer, and once it has fired the renewal is in the queue. *)
Beating(s) ==
  /\ Holds(s) /\ st[s].lost = FALSE
  /\ st[s].timer >= 0 => row.left > st[s].timer
  /\ st[s].timer < 0 => \E i \in DOMAIN st[s].queue : st[s].queue[i] = "beat"
  /\ \A i \in DOMAIN st[s].queue : st[s].queue[i] # "release"

Live(s) == st[s].phase = "open" /\ st[s].db

BeatInv == \A s \in Storages : Live(s) => Beating(s)

(* What is left of a queue when its head leaves it. *)
LEMMA TailElements ==
  ASSUME NEW q \in Seq(Operations), q # <<>>
  PROVE  /\ \A i \in DOMAIN Tail(q) : i + 1 \in DOMAIN q /\ Tail(q)[i] = q[i + 1]
         /\ \A i \in DOMAIN q : i # 1 => i - 1 \in DOMAIN Tail(q) /\ Tail(q)[i - 1] = q[i]
         /\ Head(q) = q[1] /\ 1 \in DOMAIN q
OBVIOUS

(* What is in a queue when an operation has been added to it. *)
LEMMA AppendElements ==
  ASSUME NEW q \in Seq(Operations), NEW op \in Operations
  PROVE  /\ \A i \in DOMAIN q : i \in DOMAIN Append(q, op) /\ Append(q, op)[i] = q[i]
         /\ \A i \in DOMAIN Append(q, op) : i \in DOMAIN q \/ Append(q, op)[i] = op
         /\ \E i \in DOMAIN Append(q, op) : Append(q, op)[i] = op
OBVIOUS

(* The fields of a storage whose queue has run one operation. *)
LEMMA DequeuedFields ==
  ASSUME NEW s \in Storages, st[s] \in StorageRecord, NEW lost \in BOOLEAN
  PROVE  /\ Dequeued(s, lost).phase = st[s].phase /\ Dequeued(s, lost).db = st[s].db
         /\ Dequeued(s, lost).fence = st[s].fence /\ Dequeued(s, lost).lost = lost
         /\ Dequeued(s, lost).queue = Tail(st[s].queue)
         /\ lost = FALSE /\ Head(st[s].queue) # "beat" => Dequeued(s, lost).timer = st[s].timer
         /\ lost = FALSE /\ Head(st[s].queue) = "beat" /\ st[s].phase = "open"
              => Dequeued(s, lost).timer = Heartbeat
BY DEF Dequeued, StorageRecord

(* Nobody else can claim, delete or release under an open storage, and its
   heartbeat renews the lease in time. *)
LEMMA BeatStep ==
  ASSUME Timely, faults' = 0, FenceInv, BeatInv, [Next]_vars
  PROVE  BeatInv'
<1>0. /\ TypeOK /\ RowInv /\ UnusedInv /\ row \in LeaseRow /\ next \in Nat /\ faults \in Nat
      /\ st \in [Storages -> StorageRecord]
      /\ \A s \in Storages : s \in Nat /\ s # 0 /\ st[s] \in StorageRecord
  BY LeaseAssumption DEF FenceInv, TypeOK, Storages
<1>t. /\ row.left \in Nat /\ TTL \in Nat /\ Heartbeat \in Nat /\ Heartbeat < TTL /\ TTL > 0
      /\ \A s \in Storages : st[s].timer \in Int /\ st[s].timer <= Heartbeat /\ st[s].queue \in Seq(Operations)
  BY <1>0, LeaseAssumption DEF LeaseRow, StorageRecord
<1>f. faults' # faults + 1
  BY <1>0
(* A step that leaves the row and a storage alone. *)
<1>s. ASSUME NEW s \in Storages, row' = row, st'[s] = st[s] PROVE Live(s)' => Beating(s)'
  BY <1>s DEF BeatInv, Live, Beating, Holds, Owns
<1>1. ASSUME NEW r \in Repos, NewStorage(r) PROVE BeatInv'
  <2> SUFFICES ASSUME NEW s \in Storages, Live(s)' PROVE Beating(s)'
    BY DEF BeatInv
  <2>1. CASE s = next
    <3>1. st'[s] = [repo |-> r, fence |-> row.fence + 1, phase |-> "open", lost |-> FALSE,
                    db |-> TRUE, timer |-> Heartbeat, queue |-> <<>>]
      BY <1>0, <1>1, <2>1 DEF NewStorage
    <3>2. row' = [owner |-> s, fence |-> row.fence + 1, left |-> TTL]
      BY <1>1, <2>1 DEF NewStorage, ClaimedRow
    <3> QED
      BY <1>t, <3>1, <3>2 DEF Beating, Holds, Owns
  <2>2. CASE s # next
    <3>1. st'[s] = st[s]
      BY <1>0, <1>1, <2>2 DEF NewStorage
    <3>2. Holds(s)
      BY <3>1 DEF BeatInv, Live, Beating
    <3> QED
      BY <1>1, <1>t, <3>2 DEF NewStorage, Claimable, Holds
  <2> QED
    BY <2>1, <2>2
<1>2. ASSUME NEW r \in Repos, NEW kind \in Tasks, StartTask(r, kind) PROVE BeatInv'
  BY <1>s, <1>2 DEF StartTask, BeatInv
<1>3. ASSUME NEW r \in Repos, NEW t \in Storages, ReleaseNext(r, t) PROVE BeatInv'
  <2>1. ASSUME NEW s \in Storages, s # t PROVE st'[s] = st[s] /\ row' = row
    BY <1>0, <1>3, <2>1 DEF ReleaseNext
  <2>2. st'[t].phase = "closing"
    BY <1>0, <1>3 DEF ReleaseNext, Closing, StorageRecord
  <2> QED
    BY <1>s, <2>1, <2>2 DEF BeatInv, Live
<1>4. ASSUME NEW r \in Repos, FinishDelete(r) \/ FinishRepair(r) PROVE BeatInv'
  <2> SUFFICES ASSUME NEW s \in Storages, Live(s)' PROVE Beating(s)'
    BY DEF BeatInv
  <2>1. st' = st
    BY <1>4 DEF FinishDelete, FinishRepair
  <2>2. Holds(s)
    BY <2>1 DEF BeatInv, Live, Beating
  <2>3. ~Claimable /\ exists
    BY <1>0, <1>t, <2>2 DEF Holds, Claimable, RowInv
  <2>4. row' = row
    BY <1>4, <2>3 DEF FinishDelete, FinishRepair
  <2> QED
    BY <1>s, <2>1, <2>4
<1>5. ASSUME NEW r \in Repos, FinishClose(r) PROVE BeatInv'
  <2> SUFFICES ASSUME NEW s \in Storages, Live(s)' PROVE Beating(s)'
    BY DEF BeatInv
  <2>1. CASE s \in Active(r)
    <3>1. st'[s] = [st[s] EXCEPT !.db = FALSE]
      BY <1>5, <2>1 DEF FinishClose
    <3>2. st'[s].db = FALSE
      BY <1>0, <3>1 DEF StorageRecord
    <3> QED
      BY <3>2 DEF Live
  <2>2. CASE s \notin Active(r)
    BY <1>5, <1>s, <2>2 DEF FinishClose
  <2> QED
    BY <2>1, <2>2
<1>6. ASSUME NEW r \in Repos, Crash(r) PROVE BeatInv'
  BY <1>6, <1>f DEF Crash
<1>7. ASSUME NEW t \in Storages, NEW op \in {"write", "beat"}, NEW timer \in {st[t].timer, NoTimer},
             timer = NoTimer => op = "beat" \/ st[t].timer = NoTimer,
             st' = [st EXCEPT ![t].timer = timer, ![t].queue = Append(@, op)], row' = row
      PROVE  BeatInv'
  <2> SUFFICES ASSUME NEW s \in Storages, Live(s)' PROVE Beating(s)'
    BY DEF BeatInv
  <2>1. CASE s # t
    <3>1. st'[s] = st[s]
      BY <1>0, <1>7, <2>1
    <3> QED
      BY <1>7, <1>s, <3>1
  <2>2. CASE s = t
    <3> DEFINE q == Append(st[s].queue, op)
    <3>1. /\ st'[s].phase = st[s].phase /\ st'[s].db = st[s].db /\ st'[s].lost = st[s].lost
          /\ st'[s].fence = st[s].fence /\ st'[s].timer = timer /\ st'[s].queue = q
      BY <1>0, <1>7, <2>2 DEF StorageRecord
    <3>2. Beating(s)
      BY <3>1 DEF BeatInv, Live
    <3>3. op \in Operations /\ op # "release" /\ st[s].queue \in Seq(Operations)
      BY <1>t DEF Operations
    <3>4. /\ \A i \in DOMAIN st[s].queue : i \in DOMAIN q /\ q[i] = st[s].queue[i]
          /\ \A i \in DOMAIN q : i \in DOMAIN st[s].queue \/ q[i] = op
          /\ \E i \in DOMAIN q : q[i] = op
      BY <3>3, AppendElements
    <3> HIDE DEF q
    <3>5. Holds(s)' /\ st'[s].lost = FALSE
      BY <1>7, <3>1, <3>2 DEF Beating, Holds, Owns
    <3>6. \A i \in DOMAIN q : q[i] # "release"
      BY <3>2, <3>3, <3>4 DEF Beating
    <3>7. timer >= 0 => row.left > timer
      BY <2>2, <3>2 DEF Beating, NoTimer
    <3>8. timer < 0 => \E i \in DOMAIN q : q[i] = "beat"
      <4>1. CASE op = "beat"
        BY <3>4, <4>1
      <4>2. CASE op # "beat"
        BY <1>7, <2>2, <3>2, <3>4, <4>2 DEF Beating
      <4> QED
        BY <4>1, <4>2
    <3> QED
      BY <1>7, <3>1, <3>5, <3>6, <3>7, <3>8 DEF Beating
  <2> QED
    BY <2>1, <2>2
<1>8. ASSUME NEW t \in Storages, EnqueueWrite(t) PROVE BeatInv'
  <2>1. st' = [st EXCEPT ![t].timer = st[t].timer, ![t].queue = Append(@, "write")]
    BY <1>0, <1>8 DEF EnqueueWrite, StorageRecord
  <2> QED
    BY <1>7, <1>8, <2>1 DEF EnqueueWrite
<1>9. ASSUME NEW t \in Storages, HeartbeatFires(t) PROVE BeatInv'
  BY <1>7, <1>9 DEF HeartbeatFires
(* A storage without the lease, or without a connection, runs an operation. *)
<1>10. ASSUME NEW t \in Storages, NEW lost \in BOOLEAN, ~Live(t),
              st' = [st EXCEPT ![t] = Dequeued(t, lost)], row' = row
       PROVE  BeatInv'
  <2>1. ~Live(t)'
    BY <1>0, <1>10, DequeuedFields DEF Live
  <2>2. ASSUME NEW s \in Storages, s # t PROVE st'[s] = st[s]
    BY <1>0, <1>10, <2>2
  <2> QED
    BY <1>10, <1>s, <2>1, <2>2 DEF BeatInv
(* The holder runs an operation. *)
<1>11. ASSUME NEW t \in Storages, Holds(t), st[t].queue # <<>>, Head(st[t].queue) # "release",
              st' = [st EXCEPT ![t] = Dequeued(t, FALSE)],
              row' = Renewed \/ (row' = row /\ Head(st[t].queue) # "beat")
       PROVE  BeatInv'
  <2> SUFFICES ASSUME NEW s \in Storages, Live(s)' PROVE Beating(s)'
    BY DEF BeatInv
  <2>1. s = t
    <3> SUFFICES ASSUME s # t PROVE FALSE
      OBVIOUS
    <3>1. st'[s] = st[s]
      BY <1>0, <1>11
    <3>2. Holds(s)
      BY <3>1 DEF BeatInv, Live, Beating
    <3> QED
      BY <1>11, <3>2 DEF Holds, Owns
  <2>2. st'[s] = Dequeued(s, FALSE)
    BY <1>0, <1>11, <2>1
  <2>3. /\ st'[s].phase = st[s].phase /\ st'[s].db = st[s].db /\ st'[s].fence = st[s].fence
        /\ st'[s].lost = FALSE /\ st'[s].queue = Tail(st[s].queue)
        /\ Head(st[s].queue) # "beat" => st'[s].timer = st[s].timer
        /\ Head(st[s].queue) = "beat" /\ st[s].phase = "open" => st'[s].timer = Heartbeat
    BY <1>0, <2>2, DequeuedFields
  <2>4. Live(s) /\ Beating(s)
    BY <2>3 DEF BeatInv, Live
  <2>5. row'.owner = row.owner /\ row'.fence = row.fence /\ (row'.left = row.left \/ row'.left = TTL)
    BY <1>0, <1>11 DEF Renewed, LeaseRow
  <2>6. Holds(s)'
    BY <1>t, <2>3, <2>4, <2>5 DEF Beating, Holds, Owns
  <2> DEFINE q == st[s].queue
             u == Tail(q)
  <2>7. q \in Seq(Operations) /\ q # <<>>
    BY <1>t, <1>11, <2>1
  <2>8. /\ \A i \in DOMAIN u : i + 1 \in DOMAIN q /\ u[i] = q[i + 1]
        /\ \A i \in DOMAIN q : i # 1 => i - 1 \in DOMAIN u /\ u[i - 1] = q[i]
        /\ Head(q) = q[1]
    BY <2>7, TailElements
  <2> HIDE DEF u
  <2>9. \A i \in DOMAIN u : u[i] # "release"
    BY <2>4, <2>8 DEF Beating
  <2>10. st'[s].timer >= 0 => row'.left > st'[s].timer
    <3>1. CASE Head(q) = "beat"
      <4>1. row' = Renewed /\ st'[s].timer = Heartbeat
        BY <1>11, <2>1, <2>3, <2>4, <3>1 DEF Live
      <4>2. row'.left = TTL
        BY <1>0, <4>1 DEF Renewed, LeaseRow
      <4> QED
        BY <1>t, <4>1, <4>2
    <3>2. CASE Head(q) # "beat"
      <4>1. st'[s].timer = st[s].timer
        BY <2>3, <3>2
      <4> QED
        BY <1>t, <2>4, <2>5, <4>1 DEF Beating
    <3> QED
      BY <3>1, <3>2
  <2>11. st'[s].timer < 0 => \E i \in DOMAIN u : u[i] = "beat"
    <3>1. CASE Head(q) = "beat"
      <4>1. st'[s].timer = Heartbeat
        BY <2>3, <2>4, <3>1 DEF Live
      <4> QED
        BY <1>t, <4>1
    <3>2. CASE Head(q) # "beat"
      <4>1. st'[s].timer = st[s].timer
        BY <2>3, <3>2
      <4> SUFFICES ASSUME st[s].timer < 0 PROVE \E i \in DOMAIN u : u[i] = "beat"
        BY <4>1
      <4>2. PICK i \in DOMAIN q : q[i] = "beat"
        BY <2>4 DEF Beating
      <4>3. i # 1
        BY <2>8, <3>2, <4>2
      <4> QED
        BY <2>8, <4>2, <4>3
    <3> QED
      BY <3>1, <3>2
  <2>12. st'[s].queue = u /\ st'[s].lost = FALSE
    BY <2>3 DEF u
  <2> QED
    BY <2>6, <2>9, <2>10, <2>11, <2>12 DEF Beating
<1>12. ASSUME NEW t \in Storages, NEW ok \in BOOLEAN, RunWrite(t, ok) PROVE BeatInv'
  <2>1. CASE st[t].lost \/ ~Holds(t)
    <3>1. ~Live(t)
      BY <2>1 DEF BeatInv, Beating
    <3> QED
      BY <1>10, <1>12, <2>1, <3>1 DEF RunWrite
  <2>2. CASE ~(st[t].lost \/ ~Holds(t))
    <3>1. /\ st' = [st EXCEPT ![t] = Dequeued(t, FALSE)] /\ row' = IF ok THEN Renewed ELSE row
          /\ Head(st[t].queue) = "write" /\ st[t].queue # <<>> /\ Holds(t)
      BY <1>12, <2>2 DEF RunWrite
    <3> QED
      BY <1>11, <3>1
  <2> QED
    BY <2>1, <2>2
<1>13. ASSUME NEW t \in Storages, RunHeartbeat(t) PROVE BeatInv'
  <2>0. st[t].lost \in BOOLEAN
    BY <1>0, StorageUpdates
  <2>1. CASE st[t].lost \/ st[t].phase = "closing" \/ ~Holds(t)
    <3>1. ~Live(t)
      BY <2>1 DEF BeatInv, Beating, Live
    <3>2. row' = row /\ \E lost \in BOOLEAN : st' = [st EXCEPT ![t] = Dequeued(t, lost)]
      BY <1>13, <2>0, <2>1 DEF RunHeartbeat
    <3> QED
      BY <1>10, <3>1, <3>2
  <2>2. CASE ~(st[t].lost \/ st[t].phase = "closing" \/ ~Holds(t))
    <3>1. /\ st' = [st EXCEPT ![t] = Dequeued(t, FALSE)] /\ row' = Renewed
          /\ Head(st[t].queue) = "beat" /\ st[t].queue # <<>> /\ Holds(t)
      BY <1>13, <2>2 DEF RunHeartbeat
    <3> QED
      BY <1>11, <3>1
  <2> QED
    BY <2>1, <2>2
<1>14. ASSUME NEW t \in Storages, st' = [st EXCEPT ![t] = Released],
              row' = row \/ (Owns(t) /\ ~Live(t))
       PROVE  BeatInv'
  <2> SUFFICES ASSUME NEW s \in Storages, Live(s)' PROVE Beating(s)'
    BY DEF BeatInv
  <2>0. Released.phase = "gone"
    BY DEF Released, Unused
  <2>1. s # t
    <3>1. s = t => st'[s] = Released
      BY <1>0, <1>14
    <3> QED
      BY <2>0, <3>1 DEF Live
  <2>2. st'[s] = st[s]
    BY <1>0, <1>14, <2>1
  <2>3. Holds(s)
    BY <2>2 DEF BeatInv, Live, Beating
  <2>4. row' = row
    BY <1>14, <2>1, <2>3 DEF Holds, Owns
  <2> QED
    BY <1>s, <2>2, <2>4
<1>15. ASSUME NEW t \in Storages, RunRelease(t) PROVE BeatInv'
  <2>1. ~Live(t)
    <3>1. st[t].queue[1] = "release" /\ 1 \in DOMAIN st[t].queue
      BY <1>15, <1>t, TailElements DEF RunRelease
    <3> QED
      BY <3>1 DEF BeatInv, Beating
  <2> QED
    BY <1>14, <1>15, <2>1 DEF RunRelease
<1>16. ASSUME NEW t \in Storages, TransactionFails(t) PROVE BeatInv'
  <2>1. ~Live(t) /\ row' = row
    BY <1>16, <1>f DEF TransactionFails, Live
  <2>2. st[t].lost \in BOOLEAN
    BY <1>0, StorageUpdates
  <2> QED
    BY <1>10, <1>14, <1>16, <2>1, <2>2 DEF TransactionFails
<1>17. ASSUME Tick PROVE BeatInv'
  <2> SUFFICES ASSUME NEW s \in Storages, Live(s)' PROVE Beating(s)'
    BY DEF BeatInv
  <2>1. st[s].queue = <<>> /\ st[s].timer # 0
    BY <1>17 DEF Tick
  <2>2. st'[s] = [st[s] EXCEPT !.timer = Minus1(@)] /\ row' = [row EXCEPT !.left = Minus1(@)]
    BY <1>17 DEF Tick
  <2>3. /\ st'[s].phase = st[s].phase /\ st'[s].db = st[s].db /\ st'[s].fence = st[s].fence
        /\ st'[s].lost = st[s].lost /\ st'[s].queue = st[s].queue /\ st'[s].timer = Minus1(st[s].timer)
        /\ row'.owner = row.owner /\ row'.fence = row.fence /\ row'.left = Minus1(row.left)
    BY <1>0, <2>2 DEF StorageRecord, LeaseRow
  <2>4. Beating(s)
    BY <2>3 DEF BeatInv, Live
  <2>5. st[s].timer > 0 /\ row.left > st[s].timer
    <3>1. ~(st[s].timer < 0)
      BY <2>1, <2>4 DEF Beating
    <3> QED
      BY <1>t, <2>1, <2>4, <3>1 DEF Beating
  <2>6. row'.left > st'[s].timer /\ st'[s].timer >= 0 /\ row'.left > 0
    BY <1>t, <2>3, <2>5 DEF Minus1
  <2>7. Holds(s)'
    BY <2>3, <2>4, <2>6 DEF Beating, Holds, Owns
  <2>8. st'[s].lost = FALSE
    BY <2>3, <2>4 DEF Beating
  <2>9. \A i \in DOMAIN st'[s].queue : st'[s].queue[i] # "release"
    BY <2>3, <2>4 DEF Beating
  <2>10. ~(st'[s].timer < 0)
    <3>1. st'[s].timer \in Int
      BY <1>t, <2>3 DEF Minus1
    <3> QED
      BY <2>6, <3>1
  <2>11. st'[s].timer < 0 => \E i \in DOMAIN st'[s].queue : st'[s].queue[i] = "beat"
    BY <2>10
  <2>12. st'[s].timer >= 0 => row'.left > st'[s].timer
    BY <2>6
  <2> QED
    BY <2>7, <2>8, <2>9, <2>11, <2>12, Zenon DEF Beating
<1>18. CASE UNCHANGED vars
  BY <1>s, <1>18 DEF vars, BeatInv
<1> QED
  BY <1>1, <1>2, <1>3, <1>4, <1>5, <1>6, <1>8, <1>9, <1>12, <1>13, <1>15, <1>16, <1>17, <1>18
  DEF Next, Repository, Storage, RunOperation, Create, Open

(* Faults are never forgotten. *)
LEMMA FaultsStay ==
  ASSUME FenceInv, [Next]_vars, faults' = 0
  PROVE  faults = 0
<1>1. faults \in Nat
  BY DEF FenceInv, TypeOK
<1>2. faults' = faults \/ faults' = faults + 1
  BY DEF Next, vars, Repository, Storage, RunOperation, Create, Open, StartTask, ReleaseNext, FinishDelete,
         FinishRepair, FinishClose, EnqueueWrite, HeartbeatFires, RunWrite, RunHeartbeat, RunRelease,
         TransactionFails, Crash, Tick
<1> QED
  BY <1>1, <1>2

(* The heartbeat does its job: with event loops on time and a database that
   answers, an open storage holds the lease whatever the ttl and the interval
   (which the code keeps below the ttl), the writes in its queue and the other
   processes that wait to claim, delete or repair the session. *)
THEOREM HeartbeatHolds == Spec => []OpenMeansHeld
<1> DEFINE Inv == faults = 0 => BeatInv
<1>1. ASSUME Timely PROVE Spec => []OpenMeansHeld
  <2>1. Init => Inv
    BY DEF Init, BeatInv, Live, Unused
  <2>2. FenceInv /\ Inv /\ [Next]_vars => Inv'
    <3> SUFFICES ASSUME FenceInv, Inv, [Next]_vars, faults' = 0 PROVE BeatInv'
      OBVIOUS
    <3> QED
      BY <1>1, BeatStep, FaultsStay
  <2>3. Inv => OpenMeansHeld
    BY DEF BeatInv, Live, Beating, OpenMeansHeld
  <2> QED
    BY <2>1, <2>2, <2>3, FenceInvariant, PTL DEF Spec
<1>2. CASE ~Timely
  <2>1. OpenMeansHeld
    BY <1>2 DEF OpenMeansHeld
  <2> QED
    BY <2>1, PTL
<1> QED
  BY <1>1, <1>2

-----------------------------------------------------------------------------
(* Refinement: a claim is a claim, a commit is a commit by the latest
   claimant, a deletion is a deletion, and every other step is a stutter. *)

AbstractVars == <<exists, next - 1, log>>

(* Every step of the repositories is a step of the abstract writer or a
   stutter. *)
LEMMA RefinementStep == FenceInv /\ [Next]_vars => [Abstract!Next]_AbstractVars
<1> SUFFICES ASSUME FenceInv, [Next]_vars PROVE [Abstract!Next]_AbstractVars
  OBVIOUS
<1> USE DEF AbstractVars
<1>0. /\ RowInv /\ LogInv /\ next \in Nat /\ log \in Seq(Storages)
      /\ \A s \in Storages : s \in Nat \ {0}
  BY LeaseAssumption DEF FenceInv, TypeOK, Storages
<1>1. ASSUME NEW r \in Repos, Create(r) PROVE Abstract!Create
  BY <1>0, <1>1 DEF Create, NewStorage, Abstract!Create
<1>2. ASSUME NEW r \in Repos, Open(r) PROVE Abstract!Claim
  BY <1>0, <1>2 DEF Open, NewStorage, Abstract!Claim
<1>3. ASSUME NEW r \in Repos, FinishDelete(r) PROVE Abstract!Delete \/ UNCHANGED AbstractVars
  <2>1. CASE exists
    BY <1>3, <2>1 DEF FinishDelete, Abstract!Delete
  <2>2. CASE ~exists
    <3>1. DOMAIN log = {}
      BY <1>0, <2>2 DEF LogInv
    <3>2. Len(log) = 0
      BY <1>0, <3>1
    <3>3. log = <<>>
      BY <1>0, <3>2
    <3>4. exists = FALSE
      BY <2>2 DEF FenceInv, TypeOK
    <3> QED
      BY <1>3, <3>3, <3>4 DEF FinishDelete
  <2> QED
    BY <2>1, <2>2
<1>4. ASSUME NEW s \in Storages, NEW ok \in BOOLEAN, RunWrite(s, ok)
      PROVE  Abstract!Commit \/ UNCHANGED AbstractVars
  <2>1. CASE log' = log
    BY <1>4, <2>1 DEF RunWrite
  <2>2. CASE log' = Append(log, s) /\ Holds(s)
    <3>1. s = next - 1 /\ exists
      BY <1>0, <2>2 DEF RowInv, Holds, Owns
    <3> QED
      BY <1>4, <2>2, <3>1 DEF RunWrite, Abstract!Commit
  <2> QED
    BY <1>4, <2>1, <2>2 DEF RunWrite
<1>5. ASSUME NEW r \in Repos,
             \/ \E kind \in Tasks : StartTask(r, kind)
             \/ \E s \in Storages : ReleaseNext(r, s)
             \/ FinishRepair(r) \/ FinishClose(r) \/ Crash(r)
      PROVE  UNCHANGED AbstractVars
  BY <1>5 DEF StartTask, ReleaseNext, FinishRepair, FinishClose, Crash
<1>6. ASSUME NEW s \in Storages,
             \/ EnqueueWrite(s) \/ HeartbeatFires(s)
             \/ RunHeartbeat(s) \/ RunRelease(s) \/ TransactionFails(s)
      PROVE  UNCHANGED AbstractVars
  BY <1>6 DEF EnqueueWrite, HeartbeatFires, RunHeartbeat, RunRelease, TransactionFails
<1>7. CASE Tick \/ UNCHANGED vars
  BY <1>7 DEF Tick, vars
<1> QED
  BY <1>1, <1>2, <1>3, <1>4, <1>5, <1>6, <1>7
  DEF Next, Repository, Storage, RunOperation, Abstract!Next

(* The lease implements a single writer: every behaviour of the repositories
   on one database is one in which only the latest claimant commits. *)
THEOREM Implementation == Spec => ImplementsSingleWriter
<1>1. Init => Abstract!Init
  BY DEF Init, Abstract!Init
<1> QED
  BY <1>1, FenceInvariant, RefinementStep, PTL
  DEF Spec, ImplementsSingleWriter, Abstract!Spec, AbstractVars
=============================================================================
