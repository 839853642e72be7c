# A verification of smolt's agent, sessions, server and client

smolt is a coding agent written in TypeScript: a runtime that lets a language
model call tools, durable sessions, a server that shares live sessions between
clients, and the programs around them. This directory holds TLA+ models of the
parts whose correctness depends on the order of events, the TLC configurations
that check them on small instances, and TLAPS proofs of the results that hold
for every value of the parameters. Paths below are relative to `src/packages/`.

`PROJECT.json` lists the components, the runs, one mutant per checked property,
the source lines behind every definition (`map`), the hazards that the
properties are for, the findings and the theorems.

## 1. Inventory

| Component | State | Operations | What is hard |
|---|---|---|---|
| **Agent runtime** (`agent/src/agent.ts`, `agent-loop.ts`) | transcript, pending tool calls, steering and follow-up queues, active run with its abort signal; the loop's private context, pending messages and tool batch | prompt, continue, steer, followUp, clear, reset, abort; the loop's turn: inject, stream, prepare, execute, results, polls | every emission is an await at which the host may steer, clear or abort and at which a listener may throw; parallel tools; two copies of the conversation |
| **SQLite backend** (`session-backends/sqlite-node`) | session rows, a writer lease row with owner, fence and expiry; per storage: a queue, a heartbeat timer, closing, leaseError | create, open, fork, delete, repairBranchCache, close, writes, heartbeats, releases | several processes on one database, stalls past the ttl, crashes, busy database, session deleted and created again |
| **Server** (`server/src`) | connections and their stages; live sessions, sessions being opened; operation counts; snapshot revision | hello, list, create, attach, detach, prompt/steer/abort/set_*; runtime events; close | requests of one connection run side by side; disposal races attach; runtime errors; shutdown |
| **Client** (`client/src`) | connection, requests in flight, leases, the attachment they share, generation of the leases, snapshots | connect, disconnect, acquire, create, release, dispose, commands; answers and events | answers that arrive after a lease was released or a connection replaced; acquisitions that share one attach request |
| **Protocol** (`protocol/src`) | decoder buffer | framing, CBOR, schemas | frames split over chunks, limits |
| **Session state** (`agent/src/harness/session`) | entries, lanes, facts, records; a JSONL log | append, move lanes, name, label, fork, load | crash between append and apply, torn tail, a load beside an append |
| **Harness** (`agent/src/harness`) | reducer state, event bus, file mutation queue | reduce, emit, subscribe | re-entrancy; the harness itself is mostly stubs at this commit |
| **coding-agent session** (`coding-agent/src/core/agent-session.ts`, `session-manager.ts`, `compaction/`) | context of the Agent, branch of the session file, run flag, retry counter, overflow and mid-turn flags, deferred asides | prompt, sendCustomMessage, recordBashResult, abort, abortResponse, compact, abortCompaction, navigateTree; the loop after a run: retry, compact, continue, settle | every await of the loop lets hosts and extensions act; two copies of the conversation, one of them rebuilt from the other |
| CLI and modes, providers (`ai`), `tui`, `desktop`, `telemetry`, `evals` | | | I/O and presentation: not modelled |

How they interact: a host (`coding-agent`, or a `PiSessionRuntime` behind the
server) owns an Agent and reads its events; a session writes its entries
through a storage (memory, JSONL or SQLite); the server hands runtimes to
connections; the client turns attachments into leases.

What makes each part correct:

- *Agent*: the model is asked what the transcript shows; every tool call gets
  its result in order; no queued message is lost, doubled or reordered; an
  abort ends the run; every run ends.
- *Lease*: only the latest claimant of a session commits; a lost lease stays
  lost; a healthy process keeps its lease; deleting and closing end.
- *Live sessions*: one runtime per session; no disposal under work; nothing
  abandoned stays; everything is released on close.
- *Connections*: hello first and hello_error last; every client ends with the
  newest list; every handshake ends; nobody waits for a write that cannot end.
- *Client*: an exclusive lease is alone; attach and detach do not cross; no
  lease of an old connection acts on a new one; every call is settled.
- *Session file*: what was acknowledged is there after a crash; a fork has the
  entries, lanes, name and labels of what it was taken of.
- *coding-agent session*: tool results stay with their calls; idle means idle;
  the context is what the session file gives; an overflow is retried once; an
  abort is heard.

## 2. Plan

Done, in this order: `AgentRun`; `SingleWriter` and `WriterLease`;
`LiveSessions`; `AgentSession`, the loop around the Agent; `ServerConnections`,
handshake and snapshots; `ClientLeases`, the client with the server's side of
its commands; `SessionState` and `JsonlStorage`.

Proved since: every safety property that the runs show to hold, but for
AttachedWhileLeased. Next would be its proof, and the SQLite branch cache
against the walk to the root.

## 3. Modules

| Module | Role |
|---|---|
| `AgentRun` | agent and loop |
| `MCAgentRun` | instance for TLC (symmetry of messages) |
| `AgentRunProofs` | proofs about `AgentRun`: types, aborts, pending calls, submitted messages and their order |
| `AgentTranscriptProofs` | proofs about `AgentRun`: context and tool results |
| `SingleWriter` | what the SQLite backend promises of one session |
| `WriterLease` | leases, storages, repositories; its refinement mapping |
| `MCWriterLease` | instance for TLC |
| `WriterLeaseProofs` | proofs about `WriterLease`, the refinement included |
| `LiveSessions` | the server's sessions, connections and shutdown |
| `MCLiveSessions` | instance for TLC (symmetry of connections) |
| `LiveSessionsProofs` | proofs about `LiveSessions` |
| `ServerConnections` | connections, handshake, snapshot broadcasts, Unix byte connections |
| `MCServerConnections` | instance for TLC |
| `ServerConnectionsProofs` | proofs about `ServerConnections` |
| `ClientLeases` | the client's connection, requests and leases, with the server behind it |
| `MCClientLeases` | instance for TLC |
| `ClientLeasesProofs` | proofs about `ClientLeases` |
| `SessionState` | mutations of a session, their validation, replay and forks: operators only |
| `JsonlStorage` | a session file: appends, crashes, loads and repairs |
| `MCJsonlStorage` | instance for TLC (symmetry of entry ids) |
| `JsonlStorageProofs` | proofs about `JsonlStorage` and the operators of `SessionState` |
| `AgentSession` | prompt loop of the coding agent |
| `MCAgentSession` | instance for TLC (symmetry of callers) |
| `AgentSessionProofs` | proofs about `AgentSession` |

In every module some operators stand before the definition they are a wrong
version of (`DrainedLifo` before `Drained`, `OwnsByFence` before `Owns`, ...).
They are not used by the specifications: `PROJECT.json` uses them as mutants,
to show that each property notices the mistake.

### 3.1 AgentRun

Every action is the code between two awaits. `pc` says where the run is
suspended; `"idle"` is `activeRun === undefined`. `messages` is the Agent's
transcript, `context` the loop's own copy; the first grows by `message_end`
events (`processEvents`), the second by pushes in `runLoop`. `batch` holds a
tool batch: how it is executed (sequential, parallel, or refused because the
response was truncated), how far each call got, which results said *terminate*.

`Steer`, `FollowUp`, `Clear*`, `SetMode`, `Abort`, `Reset`, `Prompt` and
`Continue*` are the host's calls; `EmitPrompt` ... `EmitAgentEnd` the loop in
the order of its text; `LoopThrows` and `ToolEventThrows` an exception of a
listener, a hook or a provider, after which `HandleRunFailure` and `FinishRun`
run as in `runWithLifecycle`. A tool of a failed run that has not returned is
an *orphan*; `OrphanCompletes` reduces its late event.

Abstractions: a user message is its identity and is handed in once; an
assistant message is its turn, stop reason and number of calls; streaming
deltas, `streamingMessage` and `errorMessage` are left out. `prepareNextTurn`
is taken to keep the messages of the context (it may replace model and tools).
`message_start` and `message_end` of one message are one step.

### 3.2 SingleWriter and WriterLease

One session id, one database, several repositories (processes). A transaction
is `BEGIN IMMEDIATE` with a synchronous body, hence one step. Time is what is
left of the lease, so that ticks make no unbounded clock. Storages are numbered
by their claims; the number stands for the uuid in `owner_id`. The log records
which storage committed each mutation.

`Crash` drops a process's storages and leaves its row. `TransactionFails`
models a transaction that cannot begin (busy or closed database): a write is
rejected, a heartbeat rescheduled, a release drops the storage but not the row.
`Tick` may pass at any time (a stalled process) unless `Timely`.

Simplifications: a repository has one of delete, repair, close under way at a
time; `open()` of a session that the repository already has returns the
existing storage and is a stutter; `fork()` is `Create` for the session it
makes (what it copies is not modelled).

The refinement maps the abstract `writer` to the number of the latest storage.

### 3.3 LiveSessions

One session id. A runtime is numbered when it is asked of the service and goes
through `acquiring`, `snapshot`, `live`, `disposing`, `disposed`. `live` and
`opening` are the two maps' entries for the session. `req` holds where each
request is suspended: waiting for a disposal or an opening, between `acquire()`
and `attach()`, or in an operation. `shut` is the progress of `close()`.

`maybeDispose` is an operator on the LiveSession (`MaybeDispose`) used wherever
the code calls it. An event of the runtime, a detach of the same connection or
a disconnect may fall between the return of `acquire()` and `attach()`. The
only ordering of promise reactions the model assumes is `Told`: all requests
that wait for one disposal resume before the service answers one of them.

Left out: `list`, what snapshots contain, and answers (`ClientLeases` has them).
The runtime is external: it may work while or after an operation runs, reports
the end of its work with an event, and may report an error at any time, also
during `subscribe()`.

### 3.4 ServerConnections

A connection goes through the stages of `ConnectionState`; `shake` says at
which await `finishHandshake` is and which snapshot it holds. The session list
is a version number, `content`, that requests and disconnects raise. The
publisher's promise chain is a counter of queued broadcasts and the one under
way, `cast`. A byte connection is a queue of frames with a limit: `Write` hands
one to the peer (which may stop reading), `Send` refuses one beyond the limit,
`Closed` begins the graceful close that `CloseDone` or its timer ends.
`view` is what the client makes of the frames (`Applied`, `client/src/state.ts`).

Left out: encoding errors, and what requests do to live sessions.

### 3.5 ClientLeases

One session, one client, the server's handling of its commands, and the frames
between them. A lease is `waiting` for a detachment, `reconciling`,
`attaching`, `creating`, `held`, `detaching` or `disposing`. The server's side
takes a detach at once and opens a runtime for an attach; each command may fail.

What becomes of a request is in two steps. A response, or the end of the
connection, settles its promise: `HandleMessage` and `EndConnection` move it
from `pending` to `answered`. Those who await it go on later, in microtasks
(`GoOn`): `Settled` is what they do, built from operators on the client's state
(`AttachSettled`, `DetachSettled`, ...). In between come the other messages of
a chunk, which `Connection.#handleData` handles in one loop
(`connection.ts`:156-159), and the calls of listeners, `disconnect()` among
them (`client.ts`:317-318). The model lets any message and any call fall
between any two continuations, whatever chunk it came in. All who await one
promise go on in one step. A failed detach takes two: first its entry in
`#sessionDetachments` goes, then its handler gives the lease back or up
(`CatchDetachment`, then `Continue`).

The server's steps touch nothing that a continuation reads, so they are taken
when no promise is left to be passed on (`Apart`): one that comes earlier has
the same effect. `ReceiveHello` waits likewise, being data that arrives when no
microtask is left.

Two history variables name behaviours that the properties leave out. `undone`:
an attach or detach was answered with an error and the connection is, or may
be, attached or detached all the same; a later attach or detach that succeeds
ends this. `crossed`: what the code does wrong, or leaves to its callers, when a
continuation comes late:

- an acquisition succeeded, and the connection ended or the session was removed
  before it went on (`Granted`);
- `session_removed` met an attach or detach under way;
- an acquisition began between the failure of a detachment and its handler, or
  while the session was still being created (`Unsafe`).

Some 142,000 of the 619,000 states that TLC visits come before any of this; in
the others only CallsSettle is claimed.

### 3.6 SessionState and JsonlStorage

`SessionState` has the mutations of `state.ts` as records, `Valid` and
`Applied` for `applyMutation`, `Replay` for a log, and the two forks. `Replay`
and `Branch` (the walk to the root) are recursive functions, one line or entry
at a time. A fork writes its lanes, and its labels, in some order: the code
takes that of the source, and the replayed state is the same.
`JsonlStorage` is one file: its terminated lines and the text after the last
newline. Calls are taken one at a time, as `enqueue` makes them run; a refused
call changes nothing. An append reaches the file as a part of its line, the
whole line, and the newline, and may fail or be cut off by a crash in between.
`LoadRead` reads the file for an `open()` or for a `fork()`; a fork may read
while the storage writes. `RepairTorn` publishes the prefix, `Terminate`
appends the missing newline.

`damaged` marks a file that a failed append has left bytes in, or that a load
repaired while an append was under way; the model ends there. Left out: power
loss (the code does not call fsync), a header torn by a crash of `create()`,
listing and deleting.

### 3.7 AgentSession

`ctx` is the Agent's context and `path` the branch of the session file; a
message is its kind and serial number, and the kind of an answer is what the
loop reads of it (stop reason, retryable or not, past the threshold or not).
Each `prompt()` call is a record that says at which await it is. `midTurn` is
`_compactBeforeNextStep`, and `lapsed` remembers that a run began while it was
still set by an earlier one. The Agent
itself is its phase (`none`, `stream`, `tools`): `AgentRun` has it in full.

After a run, `PostRun` is `_handlePostAgentRun` up to its first await;
`RetrySleep`, `CompactAuth`, `CompactSummary` and `CompactDone` are the rest of
it. `Returns` gives the result of an automatic compaction to its caller: the
preflight, the loop, or the turn it interrupted. `Settle` is the `finally`.

Nothing keeps overlapping calls apart: RPC mode starts every command, and every
prompt, without awaiting the one before (`modes/rpc/rpc-mode.ts`:443-464,
1168-1170), so a second prompt, compaction or navigation may pass its check of
the session while the first is between its own check and its run. The model has
all of these orders. The history variable `raced` is set when a call passes its
check while another one is `Underway`; the code then breaks what it states of
an idle session (a finding), and all properties but AbortIsHeard stop there.

An answer with stop reason `length` is `length` when it has no tool calls and
`cut` when it has: then all of its calls fail, their results are recorded, and
the loop goes on (`agent-loop.ts`:207-222).

Left out: streaming updates,
extension commands, and the messages that `before_agent_start` handlers add.

## 4. Runs

| Run | Shows | Bounds |
|---|---|---|
| `agent_tools` | TypeOK, ContextIsTranscript, ResultsInSourceOrder, CallsAnswered, PendingCallsExact, AbortEndsRun, RunSettles | 1 user message, 2 calls per response, 3 turns, 1 exception |
| `agent_queues` | MessagesConserved, QueueOrder | 3 user messages, no calls, 1 exception |
| `lease_safety` | FencedLog, NoWriteAcrossIncarnations, LostIsLost, ImplementsSingleWriter | 2 processes, 2 storages, ttl 2, heartbeat 1, 2 commits, 1 fault |
| `lease_timely` | OpenMeansHeld, TasksFinish | 2 processes on time, 2 storages, ttl 3, heartbeat 2, 1 queued write, 1 fault |
| `server_live` | TypeOK, ExclusiveRuntime, LiveMapExact, OperationsRunLive, AbandonedIsDisposed, CloseReleases, RequestsAnswered | 2 clients, 2 runtimes |
| `server_attached` | violation of AttachedControlsLive | 1 client with 2 requests |
| `server_handshake` | TypeOK, WireOrder, RevisionReached, SnapshotsCoverRevision, WritesAwaited, HandshakeEnds | 2 connections, 2 pending frames, 1 change, 2 requests |
| `client_leases` | ExclusiveAlone, SerialControl, AttachedWhileLeased, LeaseOfConnection, CallsSettle | 2 leases, 3 requests, 2 connections, 2 runtimes, 1 failure or removal |
| `jsonl_storage` | ReopenComplete, ForkFaithful | 3 ids, 2 lanes, 3 lines, 2 crashes, 1 failed append |
| `session_loop` | NoIntruder, SettledIsIdle, ContextFromSession, OverflowOnce, AbortIsHeard | 2 callers, 1 retry, 3 host actions, 2 free answers, until a race |
| `session_idle` | violation of IdleHasNoRun | 2 callers, 2 host actions |
| `session_continue` | violation of ContinueAccepted | 1 caller, 1 host action, 2 answers |

`TypeOK` is defined in every module and listed in three runs; the others of it
hold in the same runs and are used when a model is changed.

Why these bounds: two calls are the least that can finish out of order or leave
one behind; three messages the least that a drain of one can reorder against
two others; two turns let a batch be followed by another request; one exception
already separates what was emitted from what was drained. For the lease, two
storages are a superseded writer and its successor, and a heartbeat one tick
below the ttl is the tightest the options allow. For the server, two clients
are the least for "others stay attached", and two runtimes let a session be
opened, given up and opened again. Two connections are one that is ready and
one that shakes hands, and a pending limit of two frames is reached by a hello
and a snapshot. Two leases and three requests are an attach, a detach and what
crosses them. Three lines and two crashes let a repaired tail be written to and
torn again. Three host actions around two answers of any kind let an aside, an
abort and a second prompt meet one retry or compaction.

What the bounds leave to the proofs. In `agent_tools` no run follows a failed
one (there is one user message), so the late event of a tool of a failed run
meets no later run there; `PendingCalls` covers it. In `server_live` two
attaches never both wait for one disposal; `RuntimesExclusive` covers it.
`session_loop` goes no further than a state with `raced` (its constraint
`NoRaceYet`), because all its properties but AbortIsHeard say nothing from there
on; AbortIsHeard, which has no exception, is proved for every order.

`lease_timely` checks liveness with event loops on time. A lease that is lost
under an open storage, which is what a stall would add for delete, repair and
close, is there all the same: with a heartbeat of 2 and a ttl of 3 one failed
renewal lets the lease run out and the other process claim it.

Deadlock checking is off because the systems may stop: hosts, processes and
clients owe nothing, and messages, storages and runtimes are bounded.

Fairness. `AgentRun!FairSpec`: the loop goes on (providers, tools and listeners
settle; the code awaits them without a timeout, so nothing less would do).
`WriterLease!FairSpec`: an event loop runs what is queued, and a repository
goes on with a task it began. `LiveSessions!FairSpec`: continuations run, the
service answers, a socket that the server closed is disconnected, `close()`
goes on. `ServerConnections!FairSpec`: timers fire and a socket that is being
closed closes; nothing is assumed of peers. `ClientLeases!FairSpec`: the server
answers and answers arrive, unless the connection ends, and each continuation
of the client runs, microtasks being run in the order they were queued. No host, client, clock
or fault is ever forced to act.

### Findings

- `server_attached`: a client can be attached to a runtime whose disposal began
  between `acquire()` and `attach()`; it is told that it is attached and finds
  no live session.
- `session_idle`: two `prompt()` calls that overlap both find the session free
  and start a run. The Agent refuses the second, and the `finally` of the refused
  call settles the session under the first: it calls itself idle, and tells its
  listeners so, while its Agent streams. (PromptCall, PromptInput, a second
  call with TriggerTurn, PromptAuth, StartRun.)
- `session_continue`: a turn that is stopped in the middle for a compaction is
  not picked up. The stop is an abort, the Agent records an aborted answer, and
  the context rebuilt from the session file ends with it; the code removes a
  last answer there only for error, length and toolUse, so `agent.continue()`
  throws.

Seen with TLC while modelling, and left to the hazards' notes and this list:

- `runLoop` ends without polling its queues after an error, an abort and
  `shouldStopAfterTurn`, although a comment (`agent-session.ts`:1439) says that
  both queues are drained before `agent_end`; `_handlePostAgentRun` delivers
  what is left.
- In a parallel batch a listener's exception ends the run while other tools
  still run; their events come after `agent_end` (PendingCallsExact shows that
  they do not disturb the next run).
- A broadcast with no ready connection takes no revision; a client whose
  handshake overlaps it keeps the list it read.
- A late answer of an earlier runtime hides the snapshots of a runtime that was
  opened again, until its revision has caught up.
- `open()` or `fork()` of a file that is being appended to may take the append
  for a torn tail and rename it away; an append that fails half-way spoils the
  line after it.
- `_compactBeforeNextStep` outlives its run when an extension's
  `abortResponse()` takes the early return of `_handlePostAgentRun`
  (`agent-session.ts`:1376-1400). If a later run fails with a retryable error
  and its backoff is cancelled, the code after the retry (1422-1431) still acts
  on the request and cuts the context at an earlier answer: what the user said
  since is missing until the context is rebuilt. One caller and four host
  actions reach this, one more than `session_loop` has; it came up as a step
  that would not prove. ContextFromSession excepts it by the history variable
  `lapsed`.
- An attachment can be left behind without any lease. An attach succeeds, but
  its snapshot is hidden by one of an earlier runtime, so the client has a lease
  and does not show itself attached; a second acquisition attaches again; an
  event shows the client attached; the first lease is released, which sends
  nothing because the second is counted (`client.ts`:237-256); then the second
  attach fails before it takes effect and its acquisition gives its reservation
  back. Two leases and some thirty steps, more than `client_leases` has; it came
  up as a step that would not prove. AttachedWhileLeased excepts it by `undone`.
- A lease can survive its connection. An attach is answered, and the connection
  ends in the same chunk or in a listener, before the acquisition goes on. The
  end of the connection invalidates the leases there are and resets their count;
  then the acquisition takes its lease, of the generation that has just begun
  (`client.ts`:209-211). After a reconnection another caller attaches the
  session, and the old lease is active again beside it, though not counted: an
  exclusive lease is not alone (a trace of 11 states), and a lease of the old
  connection acts on the new one (18 states). `client/README.md`:32 says "Server
  removal or disconnection invalidates every lease for the affected attachment".
  ExclusiveAlone and LeaseOfConnection except it by `crossed`; without the
  exception TLC finds both.
- For the length of a microtask after a failed detach, its entry in
  `#sessionDetachments` is gone and the lease has not been given back or up yet:
  an acquisition by a listener or a handler in that moment is not held back.
  `crossed` excepts it.

## 5. Proofs

Assumptions: `BoundsAssumption` (bounds are natural numbers),
`LeaseAssumption` (some process; a positive ttl and a positive heartbeat
interval below it, as `resolveWriterLeaseOptions` enforces),
`ServerAssumption` (finitely many connections; positive bounds),
`LimitsAssumption` (a positive limit of pending frames),
`ClientLeases!BoundsAssumption` (finitely many callers at a time, each of which
may take and release leases for ever).
`AgentSession` needs nothing but its bounds: the exception for calls that race
is part of the properties.

**AgentRunProofs**

- `TypeCorrect`: `Spec => []TypeOK`. TypeOK is inductive once it says that
  `batch.next` stays within the calls; the lemmas `HostTypes`, `LoopTypes` and
  `ThrowTypes` go through the actions.
- `AbortIsBounded`: `Spec => []AbortEndsRun`. "At most two responses" is not
  inductive: `AbortInv` ties the count of responses since the abort to where
  the run is (a request made with the dead signal is the last one).
- `PendingCalls`: `Spec => []PendingCallsExact`. `CallsInv` adds `BatchInv`
  (which call states go with which place in the loop) and `OrphanInv` (late
  calls belong to turns before the current one, so removing one never touches
  the current batch).
- `NoMessageLost`: `Spec => []MessagesConserved`, and `QueuesKeepOrder`:
  `Spec => []QueueOrder`. `PendingInv` says where drained messages may be
  waiting. The two properties are restated on plain sequences (`Placed`,
  `Lined`), with one lemma for each way a message moves: handed in, drained
  one or all, injected, dropped, cleared. Whatever the loop does is one of
  these moves. `QueueInv` adds that what was sent is sent once, so that
  "before" is an order that later submissions do not disturb.

**AgentTranscriptProofs**

- `ContextMatches`: `Spec => []ContextIsTranscript`. The two lists grow at
  different moments, so `ContextInv` says for each place of the loop by what
  they differ: the context is ahead by the prompts still to be emitted, and in
  a batch the transcript is ahead by the results emitted so far.
- `ResultsOrdered`: `Spec => []ResultsInSourceOrder`, with `TailInv` (the
  transcript ends with the response of the batch and the results emitted so
  far) and `TurnInv` (no turn number is ahead of the counter, so a new response
  is told apart from the earlier ones).
- `AllCallsAnswered`: `Spec => []CallsAnswered`, with `ProgressInv`: how many
  results have been emitted at each place of the two batch executors, and that
  a batch that leaves calls behind is one of a disturbed turn.

**WriterLeaseProofs**

- `TypeCorrect`: `Spec => []TypeOK`.
- `FenceInvariant`: `Spec => []FenceInv`, the inductive invariant: the row
  names the latest storage or none (`RowInv`), storages not yet created are
  blank (`UnusedInv`), every commit is by a storage of the current incarnation
  and not later than the latest (`LogInv`), FencedLog and LostIsLost.
- `Fenced`, `IncarnationsApart`, `LostForGood` follow from it.
- `Implementation`: `Spec => ImplementsSingleWriter`. `RefinementStep` shows
  that every step is a step of `SingleWriter` or a stutter; a commit maps to
  `Commit` because a storage that holds the row is the latest one.
- `HeartbeatHolds`: `Spec => []OpenMeansHeld`. That an open storage holds the
  lease is kept only because the row outlives the timer: `BeatInv` says of
  every open storage that the time left on its lease exceeds the time left on
  its timer, that a timer that fired has its renewal in the queue, and that no
  release is queued. Used: the interval is below the ttl, and in a timely
  process without faults no tick passes while something is queued.

**LiveSessionsProofs**

- `Invariance`: `Spec => []IInv`. The three safety properties need what the
  code relies on silently: operationCount counts the requests that operate
  (`OpsCounted`); a runtime leaves the map before its disposal ends only when
  `close()` emptied the map (`DisposingMapped`), which looks at the sessions
  only when no connection is left (`ClosedFirst`); and while a request has yet
  to learn of a disposal no later runtime is past the service (`UntoldFirst`,
  which rests on `Told`), so its next round of `acquire()` finds that one.
- Most actions only give a runtime up or leave all states alone (`Quiet`);
  `acquire()` may also ask for a runtime (`Creates`). `QuietKeeps` and
  `CreatesKeeps` show once that such steps keep the invariant; the service's
  answers, the end of a disposal and `CloseLive` have lemmas of their own.
- `TypeCorrect`, `RuntimesExclusive`, `MapsExact` and `OperationsKeepRuntime`
  follow.

**ServerConnectionsProofs**

- `Invariance`: `Spec => []IInv`, for any set of connections and any limit.
- `SnapshotsUpToDate`: `Spec => []SnapshotsCoverRevision`. It has to be known of
  every snapshot under way: `ShakesCover` and `CastCovers` (a revision is taken
  before the list is read and is never ahead of the publisher's; what was read
  covers it), `FramesCover` (so does every frame on the wire), `ListGrows`. The
  invariant would break if a broadcast that is still reading were taken for
  one that is sending; `AwaitedFrame` rules that out: at most one frame of a
  broadcast is on its way, to the connection the broadcast waits for.
- `NoWriteIsLost`: `Spec => []WritesAwaited`. `WaitInv`: who awaits a write has
  its frame on an open wire or a socket that is being closed; `AwaitedFrame` and
  its counterpart for handshakes give the converse.
- `TypesHold`: `Spec => []TypeOK`. `TypeInv` adds that finitely many
  connections have been accepted at any time (the set `Conns` need not be
  finite), without which `SetToSeq(Ready)` would be no list; the bound on the
  pending frames needs to know that a closing socket gets at most one more.
- `FramesInOrder`: `Spec => []WireOrder`. `LineInv` looks at what a client has
  read and what is on the wire as one line, and ties its place in the
  handshake to it: no hello is on it before `finishHandshake` sends one, and
  nothing follows an error because the socket is no longer open.
- `ClientsUpToDate`: `Spec => []RevisionReached`. `ReachInv`: the current
  revision was lost, or has reached the client's view, its wire or its
  handshake (which will catch up), or the broadcast has yet to send to it.
  A frame that is dropped or a socket that closes takes the client out of the
  claim; a handshake that overlaps a broadcast is the case that needs
  `ShakeLine`.
- `FramesMove` says once how a step may move a connection's frames (it stays,
  gets one more, is cut short, hands one to the peer, or drops all); the last
  two proofs go through these moves instead of the actions.
- `Kept` and `Assembled` say what a step that takes no revision has to keep;
  `RevisionTaken` is the only lemma about one that does.

**ClientLeasesProofs**

- `TypeCorrect`: `Spec => []TypeOK`, from `TypesHold`: `Spec => []TypeInv`, for
  any finite set of callers and any bounds. `Sound` adds to the types that no
  lease is of a generation to come and that a detach or create request names
  its caller.
- `LeasesConsistent`: `Spec => []LeaseInv`. The count of leases and the
  exclusive holder are kept beside the leases they describe, and between the
  two a call may be suspended on a promise that it shares with others, sent or
  already settled (`Open`). `Fit` says how they go together, in two ways.
  - With a connection the client is `Good`: the count is exact (`Counted`) and
    an exclusive owner alone (`Alone`); at most one request that attaches or
    detaches is open (`Serial`), whoever waits has a request to wait for
    (`Promised`), every request has someone who waits for it (`Wanted`), and
    what is held was taken on the present connection (`Linked`). The parts need
    each other: that a release finds no attach in flight follows from `Wanted`
    and the count.
  - Without one it is `Loose`: no lease is of the present generation, and whoever
    waits does so for a promise that was rejected; the count was reset, and
    those who give up lower a count that others may have raised since, which is
    why the property says nothing until all have gone on. When the last
    has, `Loose` becomes `Good` with the next connection.
- A continuation does several things, so `Good(c, S)` takes the set `S` of the
  leases that are between two of them: they own a reservation and wait for
  nothing. Each piece of the client has one lemma about it for either case, and
  each action puts them together.
- `ExclusiveIsAlone`, `ControlIsSerial` and `LeasesOfConnection`:
  `Spec => []ExclusiveAlone`, `[]SerialControl` and `[]LeaseOfConnection`
  follow. Like the properties they are about behaviours in which nothing has
  `crossed`.

**AgentSessionProofs**

- `Invariance`: `Spec => [](~raced => IInv)`, for any set of callers. The
  invariant follows a call through its zones: one call at most is in the loop,
  and the Agent runs exactly when that call waits for it (`OneLoop`); one at
  most has found the session free and not begun its run, and none has while the
  session is active (`OnePreflight`: a second one sets `raced`).
- `IdleIsIdle`: `Spec => []SettledIsIdle`.
- `AbortsAreHeard`: `Spec => []AbortIsHeard`, races included. It is inductive
  with the types: the flag falls only where a call begins to tell its listeners,
  and a call that has told them wakes the waiter unless the flag is up again.
- `LoopMove`, `LoopEnds`, `RunStarts`, `OutsideMove` and `NoMove` treat the
  kinds of steps once; the lemmas about actions show which kind each one is.
- `TypeCorrect`: `Spec => []TypeOK`. `TypeInv` adds that
  the entry navigated to exists: the branch only grows while a navigation is
  under way.
- `SessionInvariance`: `Spec => [](~raced => SessionInv)`, from which
  `NothingIntrudes` (`[]NoIntruder`) and `RecoversOnce` (`[]OverflowOnce`)
  follow. `HostInv` says that compact() summarises and navigateTree() moves the
  leaf only beside an idle session. `LogInv` is about the conversation.
  - For NoIntruder: serial numbers rise along the branch; while tools run, both
    the context and the branch end with their call (`ToolsInv`: every other way
    to add a message needs an inactive session or is the same call's); and no
    cut, of a compaction made or of one still being summarised, is at a tool
    result (`CutInv`). A cut is chosen before the summary is awaited and used
    after it; it stays good because serial numbers are never reused.
    `ContextIsPaired` then speaks of any context built from such a branch.
  - For OverflowOnce: unless the recovery is still remembered, the branch is
    `Covered`: its next message comes after a break from every recovery on it.
    A navigation forgets no recovery and leaves a gap in the serial numbers. A
    call on its way to a recovery found the flag clear and set it, and no other
    call can clear it meanwhile (`OneRecovers`).
  - Steps are sorted by what they do to the conversation: they add messages to
    the branch and to a beginning of the context (`Said`, `Calm`), append a
    compaction, or navigate. `SpeechKeeps`, `CompactionKeeps` and
    `NavigationKeeps` treat each once.

- `ContextIsFaithful`: `Spec => []ContextFromSession`, from
  `ContextInv`, which is SessionInv and three more parts.
  - `FollowInv`: the context *follows* the one rebuilt from the file: every
    message of it is there, in order, and a message that is missing is excused,
    as an answer that was dropped or as standing right behind one that is
    missing. Stated of the sequences and not of sets of positions, it is kept
    by appending to both (`GrowthFollows`) and by cutting the context
    (`ShedFollows`).
  - `PostInv`: when `_handlePostAgentRun` begins, the context has an answer and
    nothing of the user behind it. Without it nothing says that what a retry
    drops is an answer.
  - `MidInv`: unless a request to compact has `lapsed`, the run that made it is
    aborted while it lasts, its answer is no error to retry, and no call sleeps
    before a retry. This is the part that found the exception.
  - As above steps are sorted, here into those that speak, that cut the
    context, that rebuild it and that leave it (`TurnFollows`,
    `BesideFollows`).

**JsonlStorageProofs**

- `TypeCorrect`: `Spec => []TypeOK`, and `ReopenIsComplete`:
  `Spec => []ReopenComplete`, for any ids, lanes and bounds (`NamesAssumption`
  keeps the names apart). `IInv` says what an undamaged file is at every stage
  of an append (`InUse`) and what a crash or a half-done repair leaves of it
  (`LeftBehind`): the log of what resolved, and behind it at most one mutation
  that `Follows` it, whole, in part, or without its newline. A load for an
  open must have read the file as it still is; a load for a fork need not.
- A log is `Good` when it is replayed to a state that is `Consistent` (the
  parents of entries come first, ids are used once, lanes and labels point to
  entries). `ReplayAppend` gives the replay of a longer log from that of the
  shorter one, and `AppliedConsistent` that a valid mutation keeps the rest.
- `ForksAreFaithful`: `Spec => []ForkFaithful`. `At` says what the state is
  when the first *i* mutations of a fork are replayed, and one lemma for each
  kind of mutation takes it to *i* + 1; `BranchIs` does the same for the walk
  to the root, which finds every parent because parents come first. What a
  fork of a branch has is said of it as of the tree: its path, lane main, the
  name, the labels of its entries and no open operation.
- The induction over the length of a log or of a list of entries is `UpTo`: it
  speaks of a set of numbers, not of an operator, and takes a least number that
  is not in the set (`WFMin`).

Only model-checked: liveness (`RunSettles`, `TasksFinish`,
`AbandonedIsDisposed`, `CloseReleases`, `RequestsAnswered`, `HandshakeEnds`,
`CallsSettle`), which is out of the prover's reach, and `AttachedWhileLeased`,
which needs a second invariant about what is on its way between the client and
the server.

## 6. Not modelled

Providers, terminal UI, desktop application, CLI, modes, built-in extensions,
telemetry and evaluations do I/O and presentation: by far the largest part of
the repository, without a protocol of its own. The `AgentHarness` is mostly
unimplemented at this commit, and its reducer and event bus are used by it
only. The protocol's framing and schemas are formats. The SQLite branch cache
and tables are sequential code inside the transactions that `WriterLease` has.
The file mutation queue is a promise chain like the queues that are modelled.
