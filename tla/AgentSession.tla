---------------------------- MODULE AgentSession ----------------------------
(***************************************************************************)
(* The prompt loop of the coding agent: AgentSession of                    *)
(* packages/coding-agent/src/core/agent-session.ts around one Agent.       *)
(*                                                                         *)
(* A prompt() call runs a preflight of several awaits, starts the Agent,   *)
(* and after every run decides whether to go on: retry a failed answer,    *)
(* compact the context and repeat the turn, deliver what was queued, or    *)
(* settle.  Meanwhile hosts and extensions steer, abort, compact, navigate *)
(* the session tree, and send asides (custom messages and bash results)    *)
(* that must not land between a tool call and its result.                  *)
(*                                                                         *)
(* Two sequences carry the conversation: ctx, the context the model sees,  *)
(* and path, the entries of the session file from the root to the leaf.    *)
(* A message is its kind and its serial number; the kind of an answer is   *)
(* what the loop reads of its stop reason, error text and token usage.     *)
(* The Agent is its phase: AgentRun models it in full.                     *)
(***************************************************************************)
EXTENDS Integers, Sequences, FiniteSets, SequencesExt

CONSTANTS
  Callers,      \* prompt() calls that may be pending at the same time
  MaxRetries,   \* settings.retry.maxRetries
  MaxInputs,    \* bound: what hosts and extensions do to the session
  MaxAnswers    \* bound: answers of the model; the ones beyond it are plain

ASSUME BoundsAssumption ==
  MaxRetries \in Nat /\ MaxInputs \in Nat /\ MaxAnswers \in Nat

VARIABLES
  ctx,        \* agent.state.messages
  path,       \* sessionManager.getBranch()
  clock,      \* serial number of the newest message
  active,     \* _isAgentRunActive
  phase,      \* the Agent's active run: "none", "stream" or "tools"
  aborted,    \* its abort signal
  call,       \* the prompt() calls
  last,       \* _lastAssistantMessage
  attempt,    \* _retryAttempt
  recovered,  \* _overflowRecoveryAttempted
  midTurn,    \* _compactBeforeNextStep
  lapsed,     \* history: a run began while midTurn was still set by an earlier one
  guard,      \* _abortResponseRequest: "none", "retry" or "stop"
  steering,   \* the Agent's steering queue: kinds of messages
  followUp,   \* its follow-up queue
  customs,    \* _pendingCustomMessages
  bash,       \* _pendingBashMessages
  nextTurn,   \* _pendingNextTurnMessages
  manual,     \* the compact() call
  navigation, \* the navigateTree() call
  waiting,    \* an abort() call waits for _idleWaitPromise
  refused,    \* agent.continue() threw
  raced,      \* history: a call passed its check of the session while another was
              \* between its own check and what it had checked for
  inputs, answers  \* what hosts, extensions and the model have done so far

logVars  == <<ctx, path, clock>>
runVars  == <<active, phase, aborted, last, attempt, recovered, midTurn, lapsed, guard>>
sideVars == <<steering, followUp, customs, bash, nextTurn>>
hostVars == <<manual, navigation, waiting>>
envVars  == <<inputs, answers, raced>>
vars == <<logVars, runVars, sideVars, call, hostVars, refused, envVars>>

(* stop: a complete answer; stopFull: one past the compaction threshold;
   toolUse, toolFull: the same with tool calls; error: a retryable provider
   error; fatal: one that is not; overflow: the context did not fit;
   length: an answer cut off by a token limit; cut: one cut off with tool
   calls in it, which all fail. *)
Failed      == {"error", "fatal", "overflow"}
Truncated   == {"length", "cut"}
ToolCalls   == {"toolUse", "toolFull", "cut"}
AnswerKinds == Failed \cup ToolCalls \cup {"stop", "stopFull", "length", "aborted"}
Compaction  == {"compaction", "recovery"}  \* recovery: after an overflow
Kinds       == AnswerKinds \cup {"user", "tool", "custom", "bash", "branch"} \cup Compaction

IsAnswer(m) == m.kind \in AnswerKinds

Preflight  == {"input", "auth", "before"}
Compacting == {"compactAuth", "summary", "compacted"}
InLoop(c)  == \/ call[c].at \in {"running", "post", "sleep"}
              \/ call[c].at \in Compacting /\ call[c].then # "prompt"

(* A call that is not pending, and the fields a compaction of it fills in:
   where it returns to, whether the turn is repeated, what it keeps from,
   whether its controller was aborted. *)
Idle == [at |-> "idle", then |-> "prompt", retry |-> FALSE, from |-> 0, cancelled |-> FALSE,
         carried |-> 0]
Nothing == [kind |-> "none", at |-> 0, from |-> 0]

Init ==
  /\ ctx = <<>> /\ path = <<>> /\ clock = 0
  /\ active = FALSE /\ phase = "none" /\ aborted = FALSE
  /\ call = [c \in Callers |-> Idle]
  /\ last = Nothing /\ attempt = 0 /\ recovered = FALSE /\ midTurn = FALSE /\ lapsed = FALSE /\ guard = "none"
  /\ steering = <<>> /\ followUp = <<>> /\ customs = 0 /\ bash = 0 /\ nextTurn = 0
  /\ manual = Idle /\ navigation = 0 /\ waiting = FALSE /\ refused = FALSE
  /\ raced = FALSE /\ inputs = 0 /\ answers = 0

-----------------------------------------------------------------------------
(* The session tree and the context. *)

Repeat(kind, n) == [i \in 1..n |-> kind]
New(kinds) == [i \in DOMAIN kinds |-> [kind |-> kinds[i], at |-> clock + i, from |-> 0]]

(* Messages that enter the context and the session file together, the
   context being s before. *)
Record(s, kinds) ==
  /\ ctx' = s \o New(kinds)
  /\ path' = path \o New(kinds)
  /\ clock' = clock + Len(kinds)

(* _flushPendingBashMessages, then _flushPendingCustomMessages. *)
Pending == Repeat("bash", bash) \o Repeat("custom", customs)

Compactions(p) == {i \in DOMAIN p : p[i].kind \in Compaction}
IndexOf(p, n)  == CHOOSE i \in DOMAIN p : p[i].at = n
Latest(p)      == CHOOSE i \in Compactions(p) : \A j \in Compactions(p) : j <= i

(* buildContextEntries: the latest compaction, what it kept, what came after. *)
ContextOf(p) ==
  IF Compactions(p) = {} THEN p
  ELSE LET c == Latest(p)
           kept == {i \in 1..(c - 1) : p[i].at = p[c].from}
       IN  <<p[c]>>
           \o (IF kept = {} THEN <<>> ELSE SubSeq(p, IndexOf(p, p[c].from), c - 1))
           \o SubSeq(p, c + 1, Len(p))

(* prepareCompaction: where the kept entries may begin.  Nothing to do right
   after a compaction, or when nothing is left before the cut. *)
Boundary(p) ==
  IF Compactions(p) = {} THEN 1
  ELSE LET c == Latest(p)
       IN  IF \E i \in DOMAIN p : p[i].at = p[c].from THEN IndexOf(p, p[c].from) ELSE c + 1
CutPoints(p) ==
  IF p = <<>> \/ Last(p).kind \in Compaction THEN {}
  ELSE {i \in (Boundary(p) + 1)..Len(p) : p[i].kind \notin {"tool"} \cup Compaction}

(* appendCompaction and the context rebuilt from it. *)
AppendCompaction(kind, from) ==
  /\ path' = Append(path, [kind |-> kind, at |-> clock + 1, from |-> from])
  /\ ctx' = ContextOf(path')
  /\ clock' = clock + 1

(* Mutant: the last message is dropped, whoever sent it. *)
DropLast(s)   == IF s # <<>> THEN Front(s) ELSE s
DropAnswer(s) == IF s # <<>> /\ IsAnswer(Last(s)) THEN Front(s) ELSE s
Answers(s)    == {i \in DOMAIN s : IsAnswer(s[i])}
LastAnswer(s) == CHOOSE i \in Answers(s) : \A j \in Answers(s) : j <= i
AnswerOf(s)   == IF Answers(s) = {} THEN Nothing ELSE s[LastAnswer(s)]

-----------------------------------------------------------------------------
(* The end of _runAgentPrompt, and the Agent as it uses it. *)

HasQueued == steering # <<>> \/ followUp # <<>>

(* Mutant: the finally settles without flushing what was deferred. *)
SettleUnflushed(c, s) ==
  /\ Record(s, <<>>)
  /\ active' = FALSE
  /\ call' = [call EXCEPT ![c] = [Idle EXCEPT !.at = "settle"]]
  /\ UNCHANGED <<phase, aborted, recovered, lapsed, steering, followUp, bash, customs>>

(* The context is s; the deferred messages follow it and the run is over. *)
Settle(c, s) ==
  /\ Record(s, Pending)
  /\ bash' = 0 /\ customs' = 0
  /\ active' = FALSE
  /\ call' = [call EXCEPT ![c] = [Idle EXCEPT !.at = "settle"]]
  /\ UNCHANGED <<phase, aborted, recovered, lapsed, steering, followUp>>

(* A run of the Agent on the context s begins with these messages. *)
StartAgent(c, s, kinds) ==
  /\ Record(s, kinds)
  /\ phase' = "stream" /\ aborted' = FALSE /\ active' = TRUE
  /\ recovered' = (recovered /\ "user" \notin Range(kinds))
  /\ lapsed' = (lapsed \/ midTurn)
  /\ call' = [call EXCEPT ![c] = [Idle EXCEPT !.at = "running"]]
  /\ UNCHANGED <<customs, bash>>

(* getSteeringMessages, and what the Agent asks for when it would stop. *)
Poll(queue) == IF queue = <<>> THEN <<>> ELSE <<Head(queue)>>
Rest(queue) == IF queue = <<>> THEN <<>> ELSE Tail(queue)

(* agent.continue() on the context s: from an answer only with a queued message. *)
Refuses(s)  == ~(phase = "none" /\ s # <<>> /\ (IsAnswer(Last(s)) => HasQueued))
Continue(c, s) ==
  \/ /\ Refuses(s)
     /\ refused' = TRUE
     /\ Settle(c, s)
  \/ /\ ~Refuses(s)
     /\ LET follow == IsAnswer(Last(s)) /\ steering = <<>>
        IN  /\ StartAgent(c, s, IF follow THEN Poll(followUp) ELSE Poll(steering))
            /\ steering' = Rest(steering)
            /\ followUp' = IF follow THEN Rest(followUp) ELSE followUp
     /\ UNCHANGED refused

(* What _handlePostAgentRun answers. *)
Decide(c, s, goOn) ==
  \/ goOn /\ Continue(c, s)
  \/ ~goOn /\ Settle(c, s) /\ UNCHANGED refused

(* Mutant: nobody resolves the idle promise. *)
SettledSilently(c) ==
  /\ call[c].at = "settle"
  /\ call' = [call EXCEPT ![c] = Idle]
  /\ UNCHANGED <<logVars, runVars, sideVars, hostVars, refused, envVars>>

(* _emitAgentSettled: its listeners are done; abort() hears of it if no run
   has begun meanwhile. *)
Settled(c) ==
  /\ call[c].at = "settle"
  /\ call' = [call EXCEPT ![c] = Idle]
  /\ waiting' = (waiting /\ active)
  /\ UNCHANGED <<logVars, runVars, sideVars, manual, navigation, refused, envVars>>

-----------------------------------------------------------------------------
(* _checkCompaction: what it may decide about the answer a.  The estimate
   behind an answer without usage may fall on either side of the threshold,
   and an answer cut off at the model's own limit is not worth a repetition. *)
Stale(a) == Compactions(path) # {} /\ a.at < path[Latest(path)].at

(* Mutant: a second overflow is recovered from like the first. *)
VerdictsAgain(a) ==
  CASE Stale(a) -> {"none"}
    [] ~Stale(a) /\ a.kind \in {"overflow"} \cup Truncated -> {"recover"}
    [] OTHER -> {"none"}

Verdicts(a) ==
  IF Stale(a) THEN {"none"}
  ELSE CASE a.kind = "overflow" -> {IF recovered THEN "none" ELSE "recover"}
         [] a.kind \in Truncated -> {"none", "compact"} \cup (IF recovered THEN {} ELSE {"recover"})
         [] a.kind \in {"stopFull", "toolFull"} -> {"compact"}
         [] a.kind \in {"error", "fatal", "aborted"} -> {"none", "compact"}
         [] OTHER -> {"none"}

(* _runAutoCompaction is entered with the context s. *)
StartCompaction(c, s, then, retry) ==
  /\ ctx' = s
  /\ call' = [call EXCEPT ![c] = [Idle EXCEPT !.at = "compactAuth", !.then = then, !.retry = retry]]
  /\ UNCHANGED <<path, clock, phase, aborted, active, lapsed, customs, bash, steering, followUp, refused>>

CheckedCompaction(c, v, then) ==
  /\ recovered' = (recovered \/ v = "recover")
  /\ StartCompaction(c, IF v = "recover" THEN DropAnswer(ctx) ELSE ctx, then, v = "recover")

-----------------------------------------------------------------------------
(* prompt(): the preflight. *)

(* Nothing keeps a call that has found the session free apart from another
   one (rpc-mode.ts starts every command without awaiting the one before). *)
Cleared(c) == \/ call[c].at \in {"auth", "before"}
              \/ call[c].at \in Compacting /\ call[c].then = "prompt"
Underway == manual.at \in {"auth", "summary"} \/ navigation # 0 \/ \E c \in Callers : Cleared(c)

(* Something hosts or extensions do. *)
Arrival == inputs < MaxInputs /\ inputs' = inputs + 1 /\ UNCHANGED answers
Input   == Arrival /\ UNCHANGED raced

(* Refused while compact() holds its controller. *)
PromptCall(c) ==
  /\ Input
  /\ call[c].at = "idle"
  /\ manual.at \notin {"auth", "summary"}
  /\ call' = [call EXCEPT ![c].at = "input"]
  /\ UNCHANGED <<logVars, runVars, sideVars, hostVars, refused>>

(* After the input handlers: the prompt is handled, rejected or queued
   beside a run, and otherwise goes on. *)
PromptInput(c) ==
  /\ call[c].at = "input"
  /\ \/ /\ call' = [call EXCEPT ![c] = Idle]
        /\ UNCHANGED <<logVars, sideVars, raced>>
     \/ /\ active
        /\ call' = [call EXCEPT ![c] = Idle]
        /\ \/ steering' = Append(steering, "user") /\ UNCHANGED followUp
           \/ followUp' = Append(followUp, "user") /\ UNCHANGED steering
        /\ UNCHANGED <<logVars, customs, bash, nextTurn, raced>>
     \/ /\ ~active
        /\ Record(ctx, Pending)
        /\ bash' = 0 /\ customs' = 0
        /\ call' = [call EXCEPT ![c].at = "auth"]
        /\ raced' = (raced \/ Underway)
        /\ UNCHANGED <<steering, followUp, nextTurn>>
  /\ UNCHANGED <<runVars, hostVars, refused, inputs, answers>>

(* The user message and the nextTurn messages are put together. *)
Collect(c) ==
  /\ call' = [call EXCEPT ![c] = [Idle EXCEPT !.at = "before", !.carried = nextTurn]]
  /\ nextTurn' = 0

(* The credentials are checked, and the last answer for a compaction. *)
PromptAuth(c) ==
  /\ call[c].at = "auth"
  /\ \/ /\ call' = [call EXCEPT ![c] = Idle]
        /\ UNCHANGED <<logVars, runVars, sideVars, refused>>
     \/ /\ "none" \in Verdicts(AnswerOf(ctx))
        /\ Collect(c)
        /\ UNCHANGED <<logVars, runVars, steering, followUp, customs, bash, refused>>
     \/ /\ \E v \in Verdicts(AnswerOf(ctx)) \ {"none"} : CheckedCompaction(c, v, "prompt")
        /\ UNCHANGED <<last, attempt, midTurn, guard, nextTurn>>
  /\ UNCHANGED <<hostVars, envVars>>

(* _runAgentPrompt: the Agent refuses a second run, and the finally of the
   refused call settles the session. *)
Run(c, kinds) ==
  IF phase = "none"
  THEN /\ StartAgent(c, ctx, kinds \o Poll(steering))
       /\ steering' = Rest(steering)
       /\ UNCHANGED followUp
  ELSE Settle(c, ctx)

StartRun(c) ==
  /\ call[c].at = "before"
  /\ Run(c, <<"user">> \o Repeat("custom", call[c].carried))
  /\ UNCHANGED <<last, attempt, midTurn, guard, nextTurn, hostVars, refused, envVars>>

(* sendCustomMessage with triggerTurn, outside a run. *)
TriggerTurn(c) ==
  /\ Arrival
  /\ call[c].at = "idle"
  /\ ~active
  /\ raced' = (raced \/ Underway)
  /\ Run(c, <<"custom">>)
  /\ UNCHANGED <<last, attempt, midTurn, guard, nextTurn, hostVars, refused>>

-----------------------------------------------------------------------------
(* Asides: sendCustomMessage without a turn of its own, recordBashResult. *)

SendCustom ==
  /\ Input
  /\ \/ /\ nextTurn' = nextTurn + 1
        /\ UNCHANGED <<logVars, steering, followUp, customs>>
     \/ /\ active
        /\ \/ steering' = Append(steering, "custom") /\ UNCHANGED <<followUp, customs>>
           \/ followUp' = Append(followUp, "custom") /\ UNCHANGED <<steering, customs>>
           \/ customs' = customs + 1 /\ UNCHANGED <<steering, followUp>>
        /\ UNCHANGED <<logVars, nextTurn>>
     \/ /\ ~active
        /\ Record(ctx, <<"custom">>)
        /\ UNCHANGED <<nextTurn, steering, followUp, customs>>
  /\ UNCHANGED <<runVars, bash, call, hostVars, refused>>

(* Mutant: a bash result is recorded beside a run too. *)
RecordBashAtOnce ==
  /\ Input
  /\ Record(ctx, <<"bash">>)
  /\ UNCHANGED <<runVars, sideVars, call, hostVars, refused>>

RecordBash ==
  /\ Input
  /\ \/ active /\ bash' = bash + 1 /\ UNCHANGED logVars
     \/ ~active /\ Record(ctx, <<"bash">>) /\ UNCHANGED bash
  /\ UNCHANGED <<runVars, steering, followUp, customs, nextTurn, call, hostVars, refused>>

-----------------------------------------------------------------------------
(* The Agent's run and the session's handler of its events. *)

(* An aborted stream ends as aborted, unless the provider ignores the signal. *)
Possible ==
  LET plain == IF aborted THEN {"aborted", "stop"} ELSE {"stop"}
  IN  IF answers >= MaxAnswers THEN plain
      ELSE IF aborted THEN plain \cup {"toolUse"} ELSE AnswerKinds \ {"aborted"}

(* message_end of the answer k. *)
OnAnswer(k) ==
  LET stops == k = "toolFull" /\ active /\ ~midTurn
  IN  /\ last' = [kind |-> k, at |-> clock + 1, from |-> 0]
      /\ midTurn' = (midTurn \/ stops)
      /\ aborted' = (aborted \/ stops)
      /\ attempt' = IF k \in Failed THEN attempt ELSE 0
      /\ answers' = IF answers < MaxAnswers THEN answers + 1 ELSE answers

(* turn_end flushes the deferred custom messages; the run goes on with the
   messages of the queue, or ends. *)
EndTurn(c, kinds, queued, on) ==
  /\ Record(ctx, kinds \o Repeat("custom", customs) \o queued)
  /\ customs' = 0
  /\ recovered' = (/\ recovered
                   /\ "user" \notin Range(queued)
                   /\ \A k \in Range(kinds) : k \in Failed \cup Truncated \cup {"tool"})
  /\ phase' = IF on THEN "stream" ELSE "none"
  /\ call' = IF on THEN call ELSE [call EXCEPT ![c].at = "post"]

(* The Agent would stop: a steering message, then a follow-up, keep it going. *)
WouldStop(c, kinds) ==
  LET follow == steering = <<>>
  IN  /\ EndTurn(c, kinds, IF follow THEN Poll(followUp) ELSE Poll(steering), HasQueued)
      /\ steering' = Rest(steering)
      /\ followUp' = IF follow THEN Rest(followUp) ELSE followUp

StreamEnds(c, k) ==
  /\ call[c].at = "running" /\ phase = "stream"
  /\ k \in Possible
  /\ OnAnswer(k)
  /\ \/ /\ k \in ToolCalls
        /\ Record(ctx, <<k>>)
        /\ recovered' = (recovered /\ k \in Truncated)
        /\ phase' = "tools"
        /\ UNCHANGED <<steering, followUp, customs, call>>
     \/ /\ k \in Failed \cup {"aborted"}
        /\ EndTurn(c, <<k>>, <<>>, FALSE)
        /\ UNCHANGED <<steering, followUp>>
     \/ /\ k \in {"stop", "stopFull", "length"}
        /\ WouldStop(c, <<k>>)
  /\ UNCHANGED <<active, lapsed, guard, bash, nextTurn, hostVars, refused, inputs, raced>>

(* The results are in: the next step, or the end when the tools say so; the
   failed results of a truncated answer never do. *)
ToolsEnd(c) ==
  /\ call[c].at = "running" /\ phase = "tools"
  /\ \/ /\ EndTurn(c, <<"tool">>, Poll(steering), TRUE)
        /\ steering' = Rest(steering)
        /\ UNCHANGED followUp
     \/ last.kind \notin Truncated /\ WouldStop(c, <<"tool">>)
  /\ UNCHANGED <<active, aborted, last, attempt, midTurn, lapsed, guard, bash, nextTurn, hostVars,
                 refused, envVars>>

-----------------------------------------------------------------------------
(* _handlePostAgentRun. *)

(* From the exhausted retries on, for the answer m. *)
AfterRetry(c, m) ==
  /\ attempt' = IF m.kind \in Failed THEN 0 ELSE attempt
  /\ midTurn' = FALSE
  /\ \/ /\ midTurn
        /\ StartCompaction(c, IF Answers(ctx) = {} THEN ctx ELSE SubSeq(ctx, 1, LastAnswer(ctx) - 1),
                           "mid", TRUE)
        /\ UNCHANGED recovered
     \/ /\ ~midTurn
        /\ m.kind = "aborted" \/ "none" \in Verdicts(m)
        /\ Decide(c, ctx, HasQueued)
     \/ /\ ~midTurn
        /\ m.kind # "aborted"
        /\ \E v \in Verdicts(m) \ {"none"} : CheckedCompaction(c, v, "loop")

(* _prepareRetry takes the answer m. *)
MayRetry(m) == m.kind = "error" /\ attempt < MaxRetries

PostRun(c) ==
  /\ call[c].at = "post"
  /\ last' = Nothing
  /\ guard' = "none"
  /\ \/ /\ guard = "retry" /\ last # Nothing
        /\ Decide(c, DropAnswer(ctx), TRUE)
        /\ UNCHANGED <<attempt, midTurn>>
     \/ /\ IF guard = "none" THEN last = Nothing ELSE guard = "stop" \/ last = Nothing
        /\ Decide(c, ctx, FALSE)
        /\ UNCHANGED <<attempt, midTurn>>
     \/ /\ guard = "none" /\ MayRetry(last)
        /\ attempt' = attempt + 1
        /\ ctx' = DropAnswer(ctx)
        /\ call' = [call EXCEPT ![c].at = "sleep"]
        /\ UNCHANGED <<path, clock, active, phase, aborted, recovered, midTurn, lapsed, steering,
                       followUp, customs, bash, refused>>
     \/ /\ guard = "none" /\ last # Nothing
        /\ ~MayRetry(last)
        /\ AfterRetry(c, last)
  /\ UNCHANGED <<nextTurn, hostVars, envVars>>

(* The backoff of _prepareRetry runs out, or abort() ends it. *)
RetrySleep(c) ==
  /\ call[c].at = "sleep"
  /\ \/ /\ ~call[c].cancelled
        /\ Decide(c, ctx, TRUE)
        /\ UNCHANGED <<attempt, midTurn>>
     \/ /\ call[c].cancelled
        /\ AfterRetry(c, [kind |-> "error", at |-> clock, from |-> 0])
  /\ UNCHANGED <<last, guard, nextTurn, hostVars, envVars>>

-----------------------------------------------------------------------------
(* _runAutoCompaction, called before a prompt, after a run or in mid-turn:
   its caller gets the context s and whether to go on. *)
Returns(c, s, yes) ==
  \/ /\ call[c].then = "prompt"
     /\ Collect(c)
     /\ ctx' = s
     /\ UNCHANGED <<path, clock, active, phase, aborted, recovered, lapsed, steering, followUp,
                    customs, bash, refused>>
  \/ /\ call[c].then # "prompt"
     /\ Decide(c, s, yes \/ (call[c].then = "loop" /\ HasQueued))
     /\ UNCHANGED nextTurn

CompactAuth(c) ==
  /\ call[c].at = "compactAuth"
  /\ \/ Returns(c, ctx, FALSE)
     \/ /\ \E i \in CutPoints(path) :
             call' = [call EXCEPT ![c].at = "summary", ![c].from = path[i].at]
        /\ UNCHANGED <<logVars, active, phase, aborted, recovered, lapsed, sideVars, refused>>
  /\ UNCHANGED <<last, attempt, midTurn, guard, hostVars, envVars>>

CompactSummary(c) ==
  /\ call[c].at = "summary"
  /\ \/ Returns(c, ctx, FALSE)
     \/ /\ ~call[c].cancelled
        /\ AppendCompaction(IF call[c].retry /\ call[c].then # "mid" THEN "recovery" ELSE "compaction",
                            call[c].from)
        /\ call' = [call EXCEPT ![c].at = "compacted"]
        /\ UNCHANGED <<active, phase, aborted, recovered, lapsed, sideVars, refused>>
  /\ UNCHANGED <<last, attempt, midTurn, guard, hostVars, envVars>>

(* The compaction may have restored the answer the turn is repeated for. *)
Removable == Failed \cup ToolCalls \cup Truncated
CompactDone(c) ==
  /\ call[c].at = "compacted"
  /\ Returns(c, IF call[c].retry /\ ctx # <<>> /\ Last(ctx).kind \in Removable THEN Front(ctx) ELSE ctx,
             call[c].retry \/ HasQueued)
  /\ UNCHANGED <<last, attempt, midTurn, guard, hostVars, envVars>>

-----------------------------------------------------------------------------
(* What hosts and extensions do to a session. *)

Command ==
  /\ Input
  /\ UNCHANGED <<logVars, active, phase, last, attempt, recovered, midTurn, lapsed, customs, bash,
                 nextTurn, refused>>

(* The calls there whose controller is aborted: they share one field, and of
   calls beside each other some are out of its reach. *)
Reached(where) ==
  LET there == {c \in Callers : call[c].at \in where}
  IN  IF Cardinality(there) > 1 THEN SUBSET there ELSE {there}
Cancelled(cs) == [c \in Callers |-> [call[c] EXCEPT !.cancelled = @ \/ c \in cs]]

(* abort(): ends a backoff, empties the queues, aborts the Agent's run and
   waits until the session is idle. *)
Interrupt ==
  /\ \E cs \in Reached({"sleep"}) : call' = Cancelled(cs)
  /\ steering' = <<>> /\ followUp' = <<>>
  /\ aborted' = (aborted \/ phase # "none")
  /\ waiting' = (waiting \/ active)

Abort ==
  /\ Command
  /\ Interrupt
  /\ UNCHANGED <<guard, manual, navigation>>

AbortCompaction ==
  /\ Command
  /\ \/ manual.at \in {"auth", "summary"}
     \/ \E c \in Callers : call[c].at \in {"summary", "compacted"}
  /\ manual' = [manual EXCEPT !.cancelled = @ \/ manual.at \in {"auth", "summary"}]
  /\ \E cs \in Reached({"summary", "compacted"}) : call' = Cancelled(cs)
  /\ UNCHANGED <<aborted, guard, steering, followUp, navigation, waiting>>

AbortResponse ==
  /\ Command
  /\ active
  /\ guard' \in {"retry", "stop"}
  /\ aborted' = (aborted \/ phase # "none")
  /\ UNCHANGED <<call, steering, followUp, hostVars>>

(* compact(): abort(), then the summary, whatever began meanwhile. *)
Compact ==
  /\ Command
  /\ manual.at = "idle"
  /\ Interrupt
  /\ manual' = [Idle EXCEPT !.at = "waiting"]
  /\ UNCHANGED <<guard, navigation>>

ManualBegins ==
  /\ manual.at = "waiting" /\ ~waiting
  /\ manual' = [Idle EXCEPT !.at = "auth"]
  /\ raced' = (raced \/ Underway \/ active)
  /\ UNCHANGED <<logVars, runVars, sideVars, call, navigation, waiting, refused, inputs, answers>>

ManualPrepared ==
  /\ manual.at = "auth"
  /\ \/ manual' = Idle
     \/ \E i \in CutPoints(path) : manual' = [manual EXCEPT !.at = "summary", !.from = path[i].at]
  /\ UNCHANGED <<logVars, runVars, sideVars, call, navigation, waiting, refused, envVars>>

ManualDone ==
  /\ manual.at = "summary"
  /\ manual' = Idle
  /\ \/ UNCHANGED logVars
     \/ ~manual.cancelled /\ AppendCompaction("compaction", manual.from)
  /\ UNCHANGED <<runVars, sideVars, call, navigation, waiting, refused, envVars>>

(* navigateTree(): to an entry of the branch, before it if it is a user or a
   custom message.  The leaf moves when the handlers and the summary are done. *)
Navigate ==
  /\ Arrival
  /\ ~active /\ navigation = 0
  /\ navigation' \in 1..Len(path)
  /\ raced' = (raced \/ Underway)
  /\ UNCHANGED <<logVars, runVars, sideVars, call, manual, waiting, refused>>

LeafOf(i) == IF path[i].kind \in {"user", "custom"} THEN i - 1 ELSE i
NavigateDone ==
  /\ navigation # 0
  /\ navigation' = 0
  /\ \/ UNCHANGED logVars
     \/ \E summary \in {<<>>, New(<<"branch">>)} :
          /\ path' = SubSeq(path, 1, LeafOf(navigation)) \o summary
          /\ clock' = clock + Len(summary)
          /\ ctx' = ContextOf(path')
  /\ UNCHANGED <<runVars, sideVars, call, manual, waiting, refused, envVars>>

-----------------------------------------------------------------------------
CallStep(c) ==
  \/ PromptInput(c) \/ PromptAuth(c) \/ StartRun(c)
  \/ \E k \in AnswerKinds : StreamEnds(c, k)
  \/ ToolsEnd(c) \/ PostRun(c) \/ RetrySleep(c)
  \/ CompactAuth(c) \/ CompactSummary(c) \/ CompactDone(c)
  \/ Settled(c)
HostStep == ManualBegins \/ ManualPrepared \/ ManualDone \/ NavigateDone
Environment ==
  \/ \E c \in Callers : PromptCall(c) \/ TriggerTurn(c)
  \/ SendCustom \/ RecordBash
  \/ Abort \/ AbortCompaction \/ AbortResponse \/ Compact \/ Navigate

Next == Environment \/ HostStep \/ \E c \in Callers : CallStep(c)
Spec == Init /\ [][Next]_vars

-----------------------------------------------------------------------------
Messages == [kind : Kinds, at : Nat, from : Nat]
CallRecords ==
  [at : {"idle", "running", "post", "sleep", "settle", "waiting"} \cup Preflight \cup Compacting,
   then : {"prompt", "loop", "mid"}, retry : BOOLEAN, from : Nat, cancelled : BOOLEAN, carried : Nat]

(* Types of the state of an AgentSession. *)
TypeOK ==
  /\ ctx \in Seq(Messages) /\ path \in Seq(Messages) /\ clock \in Nat
  /\ active \in BOOLEAN /\ phase \in {"none", "stream", "tools"} /\ aborted \in BOOLEAN
  /\ call \in [Callers -> CallRecords] /\ manual \in CallRecords /\ navigation \in Nat
  /\ last \in Messages \cup {Nothing} /\ attempt \in 0..MaxRetries
  /\ recovered \in BOOLEAN /\ midTurn \in BOOLEAN /\ lapsed \in BOOLEAN /\ guard \in {"none", "retry", "stop"}
  /\ steering \in Seq({"user", "custom"}) /\ followUp \in Seq({"user", "custom"})
  /\ customs \in Nat /\ bash \in Nat /\ nextTurn \in Nat
  /\ waiting \in BOOLEAN /\ refused \in BOOLEAN /\ raced \in BOOLEAN
  /\ inputs \in 0..MaxInputs /\ answers \in 0..MaxAnswers

(* A tool result directly follows its tool call, in the context and in every
   context rebuilt from the session file: no custom message, bash result,
   steering message or compaction gets in between, and no cut separates them
   (agent-session.ts, sendCustomMessage, recordBashResult, the flush at
   turn_end; findValidCutPoints); unless two calls found the session free at
   the same time. *)
Paired(s) == \A i \in DOMAIN s : s[i].kind = "tool" => i > 1 /\ s[i - 1].kind \in ToolCalls
NoIntruder == ~raced => Paired(ctx) /\ Paired(ContextOf(path))

(* "Whether the session has no active agent run, retry, auto-compaction, or
   queued continuation" (the comment of isIdle). *)
IdleHasNoRun == ~active => phase = "none" /\ \A c \in Callers : ~InLoop(c)

(* An idle session has no run of its Agent, no retry, compaction or
   continuation pending, and nothing deferred, as long as no two calls found
   the session free at the same time. *)
SettledIsIdle == ~raced => IdleHasNoRun /\ (~active => customs = 0 /\ bash = 0)

(* The context is the one the session file gives, in its order, except for
   answers dropped to repeat a turn and what followed such an answer.  No
   message of the user is ever missing from it, unless a run began while the
   compaction before the next step of an earlier run was still asked for, or
   two calls found the session free at the same time. *)
ContextFromSession ==
  LET full == ContextOf(path)
      missing == {i \in DOMAIN full : full[i] \notin Range(ctx)}
  IN ~raced =>
     /\ Range(ctx) \subseteq Range(full)
     /\ \A i \in DOMAIN ctx, k \in DOMAIN full :
          ctx[i] = full[k] => \A j \in (i + 1)..Len(ctx), l \in 1..k : ctx[j] # full[l]
     /\ \A i \in missing : \/ IsAnswer(full[i])
                           \/ i - 1 \in missing /\ (full[i].kind = "user" => lapsed)

(* A turn is compacted and repeated for an overflow once: between two such
   compactions the user spoke, an answer succeeded, or the session was
   navigated away from what came in between (_overflowRecoveryAttempted);
   unless two calls found the session free at the same time. *)
OverflowOnce ==
  ~raced => \A i, j \in DOMAIN path :
    i < j /\ path[i].kind = "recovery" /\ path[j].kind = "recovery"
      => \E k \in (i + 1)..j : \/ path[k].kind \in {"user"} \cup (AnswerKinds \ (Failed \cup Truncated))
                               \/ path[k].at # path[k - 1].at + 1

(* _handlePostAgentRun asks for agent.continue() only in a state that it
   accepts (the comment in _runAutoCompaction: "agent.continue() rejects that
   state, so remove the retriable error or truncated-length response"). *)
ContinueAccepted == ~refused

(* An abort() waits only while there is a run to end, or listeners of its
   end to wait for: its wake-up cannot be missed (_resolveIdleWaitIfIdle). *)
AbortIsHeard == waiting => active \/ \E c \in Callers : call[c].at = "settle"
=============================================================================
