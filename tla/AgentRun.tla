------------------------------ MODULE AgentRun ------------------------------
(***************************************************************************)
(* The agent runtime of packages/agent: the stateful Agent (agent.ts) and  *)
(* the loop it runs (agent-loop.ts), composed the way Agent composes them: *)
(* the loop owns a private context, the Agent owns the transcript, and the *)
(* two meet only in the events that Agent.processEvents reduces.           *)
(*                                                                         *)
(* Every action is the code between two awaits of the loop.  The host may  *)
(* steer, queue a follow-up, clear a queue or abort at any of them, and a  *)
(* listener awaited by processEvents may throw at any emission, which      *)
(* turns the run into handleRunFailure.  message_start and message_end of  *)
(* one message are one step: nothing the loop reads changes between them.  *)
(*                                                                         *)
(* Data: a user message is its identity (a member of UserMsgs, each handed *)
(* to the Agent once); an assistant message is its turn number, its stop   *)
(* reason and how many tool calls it carries; call k of turn t is <<t, k>>.*)
(***************************************************************************)
EXTENDS Naturals, Sequences, FiniteSets, SequencesExt

CONSTANTS
  UserMsgs,    \* user messages a host may submit, each at most once
  MaxCalls,    \* bound: tool calls in one assistant message
  MaxTurns,    \* bound: assistant messages with this turn number or a later one carry no call
  MaxFailures  \* bound: exceptions thrown by listeners, hooks or providers

ASSUME BoundsAssumption ==
  /\ MaxCalls \in Nat
  /\ MaxTurns \in Nat
  /\ MaxFailures \in Nat

VARIABLES
  (* Agent *)
  pc,               \* "idle" iff Agent.activeRun is undefined; else where the run is suspended
  aborted,          \* activeRun.abortController.signal.aborted
  messages,         \* _state.messages
  pendingToolCalls, \* _state.pendingToolCalls
  steering,         \* steeringQueue
  followUp,         \* followUpQueue
  mode,             \* QueueMode of either queue
  (* locals of the running loop *)
  context,          \* currentContext.messages
  pending,          \* prompts still to be emitted, then pendingMessages
  skipPoll,         \* skipInitialSteeringPoll
  hasMore,          \* hasMoreToolCalls
  batch,            \* the tool batch of the current turn
  doomed,           \* the request in flight was made with an aborted signal
  orphans,          \* calls of a failed run whose tool has not returned yet
  (* what the environment has done so far *)
  turns,            \* assistant messages so far, failure messages included
  failures,
  sent,             \* submissions in order: which message, through which call
  gone,             \* messages removed by clear*/reset or dropped with a failed run
  disturbed,        \* turns during which the run was aborted or failed
  sinceAbort        \* assistant messages received since the active run was aborted

agentVars == <<messages, pendingToolCalls, steering, followUp, mode>>
loopVars  == <<context, pending, skipPoll, hasMore, batch, doomed, orphans>>
envVars   == <<turns, failures, sent, gone, disturbed, sinceAbort>>
vars      == <<pc, aborted, agentVars, loopVars, envVars>>

User(u)            == [role |-> "user", id |-> u]
Assistant(t, n, s) == [role |-> "assistant", turn |-> t, calls |-> n, stop |-> s]
ToolResult(t, k)   == [role |-> "toolResult", turn |-> t, call |-> k]

StopReasons == {"stop", "length", "error", "aborted"}
Modes       == {"all", "one-at-a-time"}
Executions  == {"truncated", "sequential", "parallel"}
CallStates  == {"todo", "ready", "running", "done"}

(* calls[k] is how far call k got; `next` is the call the batch loop is at;
   `term` the finalized calls whose result says terminate; `emitted` the
   number of result messages emitted. *)
NoBatch == [exec |-> "sequential", calls |-> <<>>, next |-> 1, term |-> {}, emitted |-> 0]

CallId(k) == <<turns, k>>
Running   == {k \in DOMAIN batch.calls : batch.calls[k] = "running"}
Done      == {k \in DOMAIN batch.calls : batch.calls[k] = "done"}

(* PendingMessageQueue.drain: what it returns and what it leaves. *)
DrainedLifo(q, m) == IF m = "all" \/ q = <<>> THEN Reverse(q) ELSE <<Head(q)>>
RestForgotten(q, m) == <<>>
Drained(q, m) == IF m = "all" \/ q = <<>> THEN q ELSE <<Head(q)>>
Rest(q, m)    == IF m = "all" \/ q = <<>> THEN <<>> ELSE Tail(q)

Users(q)  == [i \in DOMAIN q |-> User(q[i])]
IsRole(m, r) == m.role = r

Init ==
  /\ pc = "idle" /\ aborted = FALSE
  /\ messages = <<>> /\ pendingToolCalls = {}
  /\ steering = <<>> /\ followUp = <<>>
  /\ mode \in [steering : Modes, followUp : Modes]
  /\ context = <<>> /\ pending = <<>> /\ skipPoll = FALSE /\ hasMore = TRUE
  /\ batch = NoBatch /\ doomed = FALSE /\ orphans = {}
  /\ turns = 0 /\ failures = 0 /\ sent = <<>> /\ gone = {} /\ disturbed = {} /\ sinceAbort = 0

-----------------------------------------------------------------------------
(* The host's calls on Agent. *)

Sent == {s.id : s \in Range(sent)}

Submit(u, via) ==
  /\ u \notin Sent
  /\ sent' = Append(sent, [id |-> u, via |-> via])

Steer(u) ==
  /\ Submit(u, "steer")
  /\ steering' = Append(steering, u)
  /\ UNCHANGED <<pc, aborted, messages, pendingToolCalls, followUp, mode, loopVars,
                 turns, failures, gone, disturbed, sinceAbort>>

FollowUp(u) ==
  /\ Submit(u, "followUp")
  /\ followUp' = Append(followUp, u)
  /\ UNCHANGED <<pc, aborted, messages, pendingToolCalls, steering, mode, loopVars,
                 turns, failures, gone, disturbed, sinceAbort>>

ClearSteeringQueue ==
  /\ steering # <<>>
  /\ steering' = <<>>
  /\ gone' = gone \cup Range(steering)
  /\ UNCHANGED <<pc, aborted, messages, pendingToolCalls, followUp, mode, loopVars,
                 turns, failures, sent, disturbed, sinceAbort>>

ClearFollowUpQueue ==
  /\ followUp # <<>>
  /\ followUp' = <<>>
  /\ gone' = gone \cup Range(followUp)
  /\ UNCHANGED <<pc, aborted, messages, pendingToolCalls, steering, mode, loopVars,
                 turns, failures, sent, disturbed, sinceAbort>>

SetMode(m) ==
  /\ mode # m
  /\ mode' = m
  /\ UNCHANGED <<pc, aborted, messages, pendingToolCalls, steering, followUp, loopVars, envVars>>

Abort ==
  /\ pc # "idle" /\ ~aborted
  /\ aborted' = TRUE
  /\ disturbed' = disturbed \cup {turns}
  /\ UNCHANGED <<pc, agentVars, loopVars, turns, failures, sent, gone, sinceAbort>>

UsersIn(s) == {m.id : m \in {n \in Range(s) : IsRole(n, "user")}}

(* reset() is refused while a run is active. *)
Reset ==
  /\ pc = "idle"
  /\ messages # <<>> \/ steering # <<>> \/ followUp # <<>>
  /\ messages' = <<>> /\ pendingToolCalls' = {}
  /\ steering' = <<>> /\ followUp' = <<>>
  /\ gone' = gone \cup UsersIn(messages) \cup Range(steering) \cup Range(followUp)
  /\ UNCHANGED <<pc, aborted, mode, loopVars, turns, failures, sent, disturbed, sinceAbort>>

(* runWithLifecycle up to the first await of the loop: the loop's context is
   a copy of the transcript followed by the prompts. *)
StartRun(prompts, skip, first) ==
  /\ pc = "idle"
  /\ pc' = first
  /\ aborted' = FALSE
  /\ context' = messages \o Users(prompts)
  /\ pending' = prompts
  /\ skipPoll' = skip
  /\ hasMore' = TRUE
  /\ batch' = NoBatch
  /\ doomed' = FALSE
  /\ sinceAbort' = 0
  /\ UNCHANGED <<messages, pendingToolCalls, mode, orphans, turns, failures, gone, disturbed>>

Prompt(u) ==
  /\ Submit(u, "prompt")
  /\ StartRun(<<u>>, FALSE, "prompts")
  /\ UNCHANGED <<steering, followUp>>

(* continue(): from an assistant tail only with queued messages, steering
   first; from any other tail the transcript itself is continued. *)
ContinueWithSteering ==
  /\ messages # <<>> /\ IsRole(Last(messages), "assistant")
  /\ steering # <<>>
  /\ StartRun(Drained(steering, mode.steering), TRUE, "prompts")
  /\ steering' = Rest(steering, mode.steering)
  /\ UNCHANGED <<followUp, sent>>

ContinueWithFollowUp ==
  /\ messages # <<>> /\ IsRole(Last(messages), "assistant")
  /\ steering = <<>> /\ followUp # <<>>
  /\ StartRun(Drained(followUp, mode.followUp), FALSE, "prompts")
  /\ followUp' = Rest(followUp, mode.followUp)
  /\ UNCHANGED <<steering, sent>>

ContinueTranscript ==
  /\ messages # <<>> /\ ~IsRole(Last(messages), "assistant")
  /\ StartRun(<<>>, FALSE, "initialPoll")
  /\ UNCHANGED <<steering, followUp, sent>>

-----------------------------------------------------------------------------
(* The loop. *)

(* runAgentLoop: message_start/message_end of the next prompt, which the
   context already holds. *)
EmitPrompt ==
  /\ pc = "prompts" /\ pending # <<>>
  /\ messages' = Append(messages, User(Head(pending)))
  /\ pending' = Tail(pending)
  /\ pc' = IF Len(pending) = 1 THEN "initialPoll" ELSE pc
  /\ UNCHANGED <<aborted, pendingToolCalls, steering, followUp, mode,
                 context, skipPoll, hasMore, batch, doomed, orphans, envVars>>

(* The first getSteeringMessages of runLoop. *)
InitialPoll ==
  /\ pc = "initialPoll"
  /\ pending'  = IF skipPoll THEN <<>> ELSE Drained(steering, mode.steering)
  /\ steering' = IF skipPoll THEN steering ELSE Rest(steering, mode.steering)
  /\ skipPoll' = FALSE
  /\ pc' = "turn"
  /\ UNCHANGED <<aborted, messages, pendingToolCalls, followUp, mode,
                 context, hasMore, batch, doomed, orphans, envVars>>

(* One message of pendingMessages: emitted (transcript), then pushed (context). *)
InjectPending ==
  /\ pc = "turn" /\ pending # <<>>
  /\ messages' = Append(messages, User(Head(pending)))
  /\ context' = Append(context, User(Head(pending)))
  /\ pending' = Tail(pending)
  /\ UNCHANGED <<pc, aborted, pendingToolCalls, steering, followUp, mode,
                 skipPoll, hasMore, batch, doomed, orphans, envVars>>

(* streamAssistantResponse calls the stream function with the run's signal. *)
RequestWithoutSignal ==
  /\ pc = "turn" /\ pending = <<>>
  /\ pc' = "stream"
  /\ doomed' = FALSE
  /\ UNCHANGED <<aborted, agentVars, context, pending, skipPoll, hasMore, batch, orphans, envVars>>

RequestAssistant ==
  /\ pc = "turn" /\ pending = <<>>
  /\ pc' = "stream"
  /\ doomed' = aborted
  /\ UNCHANGED <<aborted, agentVars, context, pending, skipPoll, hasMore, batch, orphans, envVars>>

(* What a provider may answer: external.  A request made with an aborted
   signal is not served; one aborted in flight may still complete. *)
Responses ==
  IF doomed THEN {Assistant(turns + 1, 0, "aborted")}
  ELSE {Assistant(turns + 1, n, s) : n \in 0..(IF turns + 1 < MaxTurns THEN MaxCalls ELSE 0),
                                     s \in IF aborted THEN StopReasons ELSE StopReasons \ {"aborted"}}

(* The final message of the stream is appended to both transcripts; an error
   or abort ends the run, tool calls start a batch. *)
ReceiveAssistant(m, exec) ==
  /\ pc = "stream"
  /\ m \in Responses
  /\ exec = "truncated" <=> m.stop = "length"
  /\ turns' = turns + 1
  /\ messages' = Append(messages, m)
  /\ context' = Append(context, m)
  /\ hasMore' = FALSE
  /\ batch' = IF m.calls = 0 \/ m.stop \in {"error", "aborted"} THEN NoBatch
              ELSE [NoBatch EXCEPT !.exec = exec, !.calls = [k \in 1..m.calls |-> "todo"]]
  /\ pc' = IF m.stop \in {"error", "aborted"} THEN "agentEnd"
           ELSE IF m.calls = 0 THEN "turnEnd" ELSE "prepare"
  /\ sinceAbort' = IF aborted THEN sinceAbort + 1 ELSE 0
  /\ disturbed' = IF aborted THEN disturbed \cup {turns + 1} ELSE disturbed
  /\ UNCHANGED <<aborted, pendingToolCalls, steering, followUp, mode,
                 pending, skipPoll, doomed, orphans, failures, sent, gone>>

(* prepareToolCall settles the call without running the tool: unknown tool,
   invalid arguments, blocked (perhaps with terminate) or aborted. *)
Immediate(k, terminate) ==
  /\ terminate => ~aborted /\ batch.exec # "truncated"
  /\ batch' = [batch EXCEPT !.calls[k] = "done",
                            !.term = IF terminate THEN @ \cup {k} ELSE @]
  /\ pc' = IF batch.exec = "parallel" THEN "afterCall" ELSE "results"
  /\ UNCHANGED pendingToolCalls

(* The call may run: at once in a sequential batch, with the others once all
   are prepared in a parallel one. *)
Prepared(k) ==
  /\ ~aborted /\ batch.exec # "truncated"
  /\ batch' = [batch EXCEPT !.calls[k] = IF batch.exec = "parallel" THEN "ready" ELSE "running"]
  /\ pc' = IF batch.exec = "parallel" THEN "afterCall" ELSE "execute"
  /\ pendingToolCalls' = pendingToolCalls \cup {CallId(k)}

PrepareCall ==
  /\ pc = "prepare"
  /\ \/ \E terminate \in BOOLEAN : Immediate(batch.next, terminate)
     \/ Prepared(batch.next)
  /\ UNCHANGED <<aborted, messages, steering, followUp, mode,
                 context, pending, skipPoll, hasMore, doomed, orphans, envVars>>

(* The batch loops go on to the next call unless there is none or the run was
   aborted; a truncated batch does not look at the signal. *)
MoreCallsOffByOne == batch.next <= Len(batch.calls) /\ (batch.exec = "truncated" \/ ~aborted)
MoreCallsUnlessTerminated == batch.next < Len(batch.calls) /\ ~aborted /\ batch.term = {}
MoreCalls == batch.next < Len(batch.calls) /\ (batch.exec = "truncated" \/ ~aborted)

(* The bottom of the batch loops.  Leaving the parallel one starts every
   prepared call at once (Promise.all). *)
AfterCall ==
  /\ pc = "afterCall"
  /\ IF MoreCalls
     THEN /\ pc' = "prepare"
          /\ batch' = [batch EXCEPT !.next = @ + 1]
     ELSE /\ pc' = IF batch.exec = "parallel" THEN "execute" ELSE "batchEnd"
          /\ batch' = [batch EXCEPT !.calls = [k \in DOMAIN @ |->
                                                 IF @[k] = "ready" THEN "running" ELSE @[k]]]
  /\ UNCHANGED <<aborted, agentVars, context, pending, skipPoll, hasMore, doomed, orphans, envVars>>

(* executePreparedToolCall, finalizeExecutedToolCall and tool_execution_end. *)
ToolCompletes(k, terminate) ==
  /\ pc = "execute" /\ k \in Running
  /\ batch' = [batch EXCEPT !.calls[k] = "done",
                            !.term = IF terminate THEN @ \cup {k} ELSE @]
  /\ pendingToolCalls' = pendingToolCalls \ {CallId(k)}
  /\ pc' = IF Running = {k} THEN "results" ELSE pc
  /\ UNCHANGED <<aborted, messages, steering, followUp, mode,
                 context, pending, skipPoll, hasMore, doomed, orphans, envVars>>

(* A parallel batch whose calls were all settled by their preparation. *)
NothingToRunButEmpty ==
  /\ pc = "execute" /\ batch.calls = <<>>
  /\ pc' = "results"
  /\ UNCHANGED <<aborted, agentVars, loopVars, envVars>>

NothingToRun ==
  /\ pc = "execute" /\ Running = {}
  /\ pc' = "results"
  /\ UNCHANGED <<aborted, agentVars, loopVars, envVars>>

(* emitToolResultMessage: one result in a sequential or truncated batch, all
   of them in source order in a parallel one. *)
NextResultFromEnd == Cardinality(Done) - batch.emitted
NextResult == batch.emitted + 1

EmitToolResult ==
  /\ pc = "results"
  /\ messages' = Append(messages, ToolResult(turns, NextResult))
  /\ batch' = [batch EXCEPT !.emitted = @ + 1]
  /\ pc' = IF batch.exec # "parallel" THEN "afterCall"
           ELSE IF batch.emitted + 1 = Cardinality(Done) THEN "batchEnd" ELSE pc
  /\ UNCHANGED <<aborted, pendingToolCalls, steering, followUp, mode,
                 context, pending, skipPoll, hasMore, doomed, orphans, envVars>>

(* The batch's results enter the context; the loop goes on unless every
   finalized call of the batch asked to terminate. *)
ResultOfEveryCall == [k \in DOMAIN batch.calls |-> ToolResult(turns, k)]
BatchResults == [k \in 1..batch.emitted |-> ToolResult(turns, k)]

FinishBatch ==
  /\ pc = "batchEnd"
  /\ context' = context \o BatchResults
  /\ hasMore' = ~(Done # {} /\ Done \subseteq batch.term)
  /\ batch' = NoBatch
  /\ pc' = "turnEnd"
  /\ UNCHANGED <<aborted, agentVars, pending, skipPoll, doomed, orphans, envVars>>

(* turn_end, prepareNextTurn (which keeps the context's messages) and
   shouldStopAfterTurn. *)
EndTurn(stop) ==
  /\ pc = "turnEnd"
  /\ pc' = IF stop THEN "agentEnd" ELSE "poll"
  /\ UNCHANGED <<aborted, agentVars, loopVars, envVars>>

PollSteering ==
  /\ pc = "poll"
  /\ pending' = Drained(steering, mode.steering)
  /\ steering' = Rest(steering, mode.steering)
  /\ pc' = IF hasMore \/ steering # <<>> THEN "turn" ELSE "pollFollowUp"
  /\ UNCHANGED <<aborted, messages, pendingToolCalls, followUp, mode,
                 context, skipPoll, hasMore, batch, doomed, orphans, envVars>>

PollFollowUp ==
  /\ pc = "pollFollowUp"
  /\ pending' = Drained(followUp, mode.followUp)
  /\ followUp' = Rest(followUp, mode.followUp)
  /\ pc' = IF followUp # <<>> THEN "turn" ELSE "agentEnd"
  /\ hasMore' = TRUE
  /\ UNCHANGED <<aborted, messages, pendingToolCalls, steering, mode,
                 context, skipPoll, batch, doomed, orphans, envVars>>

EmitAgentEnd ==
  /\ pc = "agentEnd"
  /\ pc' = "finish"
  /\ UNCHANGED <<aborted, agentVars, loopVars, envVars>>

-----------------------------------------------------------------------------
(* Failure of a run. *)

FailPoints == {"prompts", "initialPoll", "turn", "stream", "prepare", "afterCall",
               "results", "batchEnd", "turnEnd", "agentEnd"}

(* The executor rejects: the loop and what it drained but did not emit are
   gone, tools that are still running are not awaited. *)
Fail(left) ==
  /\ failures < MaxFailures
  /\ failures' = failures + 1
  /\ pc' = "failed"
  /\ pending' = <<>>
  /\ gone' = gone \cup Range(pending)
  /\ disturbed' = disturbed \cup {turns}
  /\ orphans' = orphans \cup {CallId(k) : k \in left}
  /\ batch' = NoBatch
  /\ UNCHANGED <<aborted, agentVars, context, skipPoll, hasMore, doomed, turns, sent, sinceAbort>>

(* A listener, a hook or the stream function throws. *)
LoopThrows ==
  /\ pc \in FailPoints
  /\ Fail({})

(* A listener throws on an update or on the end of one running call: the
   Promise.all of the batch rejects at once, whatever else is running. *)
ToolEventThrows(k) ==
  /\ pc = "execute" /\ k \in Running
  /\ Fail(Running \ {k})

(* handleRunFailure: the failure message joins the transcript unless a
   listener throws on its message_start. *)
HandleRunFailure(pushed) ==
  /\ pc = "failed"
  /\ pushed \/ failures < MaxFailures
  /\ failures' = IF pushed THEN failures ELSE failures + 1
  /\ turns' = turns + 1
  /\ messages' = IF pushed
                 THEN Append(messages, Assistant(turns + 1, 0, IF aborted THEN "aborted" ELSE "error"))
                 ELSE messages
  /\ pc' = "finishFailed"
  /\ UNCHANGED <<aborted, pendingToolCalls, steering, followUp, mode, loopVars,
                 sent, gone, disturbed, sinceAbort>>

(* finishRun; the locals of the loop die with it. *)
FinishRunKeepsCalls ==
  /\ pc \in {"finish", "finishFailed"}
  /\ pc' = "idle"
  /\ aborted' = FALSE
  /\ sinceAbort' = 0
  /\ context' = <<>> /\ skipPoll' = FALSE /\ hasMore' = TRUE /\ doomed' = FALSE
  /\ UNCHANGED <<messages, pendingToolCalls, steering, followUp, mode, pending, batch, orphans,
                 turns, failures, sent, gone, disturbed>>

FinishRun ==
  /\ pc \in {"finish", "finishFailed"}
  /\ pc' = "idle"
  /\ aborted' = FALSE
  /\ sinceAbort' = 0
  /\ pendingToolCalls' = {}
  /\ context' = <<>> /\ skipPoll' = FALSE /\ hasMore' = TRUE /\ doomed' = FALSE
  /\ UNCHANGED <<messages, steering, followUp, mode, pending, batch, orphans,
                 turns, failures, sent, gone, disturbed>>

(* A tool of a failed run returns after all: its tool_execution_end still
   goes through processEvents, whatever run is active by then. *)
OrphanCompletes(c) ==
  /\ c \in orphans
  /\ orphans' = orphans \ {c}
  /\ pendingToolCalls' = pendingToolCalls \ {c}
  /\ UNCHANGED <<pc, aborted, messages, steering, followUp, mode,
                 context, pending, skipPoll, hasMore, batch, doomed, envVars>>

-----------------------------------------------------------------------------
Host ==
  \/ \E u \in UserMsgs : Steer(u) \/ FollowUp(u) \/ Prompt(u)
  \/ ClearSteeringQueue \/ ClearFollowUpQueue \/ Reset \/ Abort
  \/ \E m \in [steering : Modes, followUp : Modes] : SetMode(m)
  \/ ContinueWithSteering \/ ContinueWithFollowUp \/ ContinueTranscript

Loop ==
  \/ EmitPrompt \/ InitialPoll \/ InjectPending \/ RequestAssistant
  \/ \E m \in Responses, exec \in Executions : ReceiveAssistant(m, exec)
  \/ PrepareCall \/ AfterCall
  \/ \E k \in 1..MaxCalls, terminate \in BOOLEAN : ToolCompletes(k, terminate)
  \/ NothingToRun \/ EmitToolResult \/ FinishBatch
  \/ \E stop \in BOOLEAN : EndTurn(stop)
  \/ PollSteering \/ PollFollowUp \/ EmitAgentEnd
  \/ \E pushed \in BOOLEAN : HandleRunFailure(pushed)
  \/ FinishRun

Throws ==
  \/ LoopThrows
  \/ \E k \in 1..MaxCalls : ToolEventThrows(k)

Orphan == \E c \in orphans : OrphanCompletes(c)

Next == Host \/ Loop \/ Throws \/ Orphan
Spec == Init /\ [][Next]_vars

(* Providers, tools and listeners settle eventually; the host owes nothing. *)
FairSpec == Spec /\ WF_vars(Loop)

-----------------------------------------------------------------------------
(* Properties. *)

Message ==
  [role : {"user"}, id : UserMsgs]
    \cup [role : {"assistant"}, turn : Nat, calls : Nat, stop : StopReasons]
    \cup [role : {"toolResult"}, turn : Nat, call : Nat]

Batch == [exec : Executions, calls : Seq(CallStates), next : Nat \ {0},
          term : SUBSET Nat, emitted : Nat]

Submission == [id : UserMsgs, via : {"prompt", "steer", "followUp"}]

PCs == {"idle", "prompts", "initialPoll", "turn", "stream", "prepare", "afterCall", "execute",
        "results", "batchEnd", "turnEnd", "poll", "pollFollowUp", "agentEnd", "finish",
        "failed", "finishFailed"}

(* Every variable of the Agent, of the running loop and of the environment
   holds a value of its kind, and the batch loops stay within their calls. *)
TypeOK ==
  /\ pc \in PCs
  /\ aborted \in BOOLEAN /\ skipPoll \in BOOLEAN /\ hasMore \in BOOLEAN /\ doomed \in BOOLEAN
  /\ messages \in Seq(Message) /\ context \in Seq(Message)
  /\ steering \in Seq(UserMsgs) /\ followUp \in Seq(UserMsgs) /\ pending \in Seq(UserMsgs)
  /\ mode \in [steering : Modes, followUp : Modes]
  /\ batch \in Batch
  /\ batch.calls = <<>> \/ batch.next <= Len(batch.calls)
  /\ pendingToolCalls \subseteq Nat \X Nat /\ orphans \subseteq Nat \X Nat
  /\ turns \in Nat /\ failures \in Nat /\ sinceAbort \in Nat
  /\ sent \in Seq(Submission)
  /\ gone \subseteq UserMsgs /\ disturbed \subseteq Nat

(* What the model is asked is what the Agent shows: whenever a request is
   made, the loop's private context equals the Agent's transcript, although
   one grows by pushes in runLoop and the other by message_end events. *)
ContextIsTranscript ==
  (pc = "stream" \/ (pc = "turn" /\ pending = <<>>)) => context = messages

(* The tool results of a turn follow its assistant message without a gap, in
   the order of its calls and once each, whatever order the tools finished
   in and wherever the run was cut off (runLoop, both batch executors). *)
ResultsInSourceOrder ==
  \A i \in DOMAIN messages : messages[i].role = "toolResult" =>
    /\ i > 1
    /\ LET before == messages[i - 1] IN
       IF messages[i].call = 1
       THEN /\ before.role = "assistant" /\ before.turn = messages[i].turn
            /\ before.calls >= 1 /\ before.stop \in {"stop", "length"}
       ELSE before = ToolResult(messages[i].turn, messages[i].call - 1)

InBatch == pc \in {"prepare", "afterCall", "execute", "results", "batchEnd"}

(* A completed assistant message has a result for every one of its calls,
   unless its batch is still going on or the run was aborted or failed
   during that very turn. *)
CallsAnswered ==
  \A i \in DOMAIN messages :
    LET m == messages[i] IN
    m.role = "assistant" /\ m.stop \in {"stop", "length"} =>
      \/ m.turn \in disturbed
      \/ m.turn = turns /\ InBatch
      \/ /\ i + m.calls <= Len(messages)
         /\ \A k \in 1..m.calls : messages[i + k] = ToolResult(m.turn, k)

UserAt(i) == IsRole(messages[i], "user")
Disjoint(A, B) == A \cap B = {}

(* Every submitted message is in exactly one place and there once: a queue,
   the loop's pending messages, the transcript, or gone (cleared, reset, or
   dropped with a failed run).  Drains move messages, they never copy or
   forget one. *)
MessagesConserved ==
  LET shown == UsersIn(messages) IN
  /\ \A i, j \in DOMAIN messages :
       UserAt(i) /\ UserAt(j) /\ messages[i].id = messages[j].id => i = j
  /\ IsInjective(pending) /\ IsInjective(steering) /\ IsInjective(followUp)
  /\ Disjoint(shown, Range(pending))
  /\ Disjoint(shown \cup Range(pending), Range(steering))
  /\ Disjoint(shown \cup Range(pending) \cup Range(steering), Range(followUp))
  /\ Disjoint(shown \cup Range(pending) \cup Range(steering) \cup Range(followUp), gone)
  /\ shown \cup Range(pending) \cup Range(steering) \cup Range(followUp) \cup gone = Sent

Position(u) == CHOOSE i \in DOMAIN sent : sent[i].id = u
Before(u, v) == Position(u) < Position(v)
SentVia(via) == {s.id : s \in {t \in Range(sent) : t.via = via}}
InOrder(q, S) == \A i, j \in DOMAIN q : i < j /\ q[i] \in S /\ q[j] \in S => Before(q[i], q[j])
AllBefore(A, B) == \A u \in A, v \in B : Before(u, v)

(* Messages handed in through the same queue reach the transcript in the
   order they were handed in, across drains, modes, turns and runs: those
   shown before those the loop has drained before those still queued. *)
QueueOrder ==
  \A via \in {"steer", "followUp"} :
    LET queue == IF via = "steer" THEN steering ELSE followUp
        ids   == SentVia(via)
        shown == UsersIn(messages)
    IN  /\ \A i, j \in DOMAIN messages :
             /\ i < j /\ UserAt(i) /\ UserAt(j)
             /\ messages[i].id \in ids /\ messages[j].id \in ids
             => Before(messages[i].id, messages[j].id)
        /\ InOrder(pending, ids) /\ InOrder(queue, ids)
        /\ AllBefore(shown \cap ids, Range(pending) \cap ids)
        /\ AllBefore((shown \cup Range(pending)) \cap ids, Range(queue) \cap ids)

(* While a run is active, state.pendingToolCalls is the set of calls whose
   tool was started or is about to be; nothing of an earlier run lingers. *)
PendingCallsExact ==
  pc \notin {"failed", "finishFailed"} =>
    pendingToolCalls = {CallId(k) : k \in {j \in DOMAIN batch.calls :
                                             batch.calls[j] \in {"ready", "running"}}}

(* abort() ends the run within two model responses: the one in flight, whose
   tool calls are then refused, and the one asked for with the dead signal. *)
AbortEndsRun == sinceAbort <= 2

(* A run always settles: waitForIdle() and prompt() do not hang as long as
   providers, tools and listeners return. *)
RunSettles == (pc # "idle") ~> (pc = "idle")
=============================================================================
