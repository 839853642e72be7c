------------------------ MODULE AgentTranscriptProofs ------------------------
(***************************************************************************)
(* Proofs about the transcript of AgentRun, for any set of messages and    *)
(* any bounds: it is what the model is asked, its tool results are where   *)
(* they belong, and no call of a completed response goes without one.      *)
(***************************************************************************)
EXTENDS AgentRunProofs, FiniteSetTheorems, SequenceTheorems

-----------------------------------------------------------------------------
(* The loop's context and the Agent's transcript. *)

(* Moving the first element of what follows a sequence to its end. *)
LEMMA ConcatShift ==
  ASSUME NEW S, NEW s \in Seq(S), NEW u \in Seq(S), NEW v \in Seq(S), NEW x \in S,
         Len(u) = Len(v) + 1, u[1] = x, \A i \in 1..Len(v) : v[i] = u[i + 1]
  PROVE  s \o u = Append(s, x) \o v
<1> DEFINE t == Append(s, x)
<1>1. t \in Seq(S) /\ Len(t) = Len(s) + 1 /\ t[Len(s) + 1] = x /\ \A i \in 1..Len(s) : t[i] = s[i]
  OBVIOUS
<1> HIDE DEF t
<1>2. s \o u \in Seq(S) /\ t \o v \in Seq(S)
  BY <1>1
<1>a. Len(s \o u) = Len(s) + Len(u) /\ Len(t \o v) = Len(t) + Len(v)
  BY <1>1, ConcatProperties, Zenon
<1>b. Len(s) \in Nat /\ Len(u) \in Nat /\ Len(v) \in Nat /\ Len(t) \in Nat
  BY <1>1
<1>3. Len(s \o u) = Len(t \o v) /\ Len(s) \in Nat /\ Len(v) \in Nat /\ Len(s \o u) = Len(s) + Len(v) + 1
  BY <1>1, <1>a, <1>b
<1>4. ASSUME NEW i \in 1..Len(s \o u) PROVE (s \o u)[i] = (t \o v)[i]
  <2>1. CASE i <= Len(s)
    BY <1>1, <1>3, <2>1
  <2>2. CASE i = Len(s) + 1
    BY <1>1, <1>3, <2>2
  <2>3. CASE i > Len(s) + 1
    <3>1. i - Len(s) \in 2..Len(u) /\ i - Len(t) \in 1..Len(v) /\ i - Len(t) + 1 = i - Len(s)
      BY <1>1, <1>3, <2>3
    <3>2. (s \o u)[i] = u[i - Len(s)] /\ (t \o v)[i] = v[i - Len(t)]
      BY <1>1, <1>3, <2>3, <3>1
    <3>3. v[i - Len(t)] = u[i - Len(t) + 1]
      BY <3>1
    <3> QED
      BY <3>1, <3>2, <3>3
  <2>4. i <= Len(s) \/ i = Len(s) + 1 \/ i > Len(s) + 1
    BY <1>3
  <2> QED
    BY <2>1, <2>2, <2>3, <2>4
<1>5. s \o u = t \o v
  BY <1>2, <1>3, <1>4, SeqEqual
<1> QED
  BY <1>5 DEF t

(* Appending to the second of two sequences. *)
LEMMA ConcatGrow ==
  ASSUME NEW S, NEW s \in Seq(S), NEW u \in Seq(S), NEW v \in Seq(S), NEW x \in S,
         Len(u) = Len(v) + 1, u[Len(u)] = x, \A i \in 1..Len(v) : v[i] = u[i]
  PROVE  s \o u = Append(s \o v, x)
<1> DEFINE t == s \o v
<1>1. /\ t \in Seq(S) /\ Len(t) = Len(s) + Len(v) /\ Len(s) \in Nat /\ Len(v) \in Nat
      /\ \A i \in 1..Len(s) : t[i] = s[i]
      /\ \A i \in 1..Len(v) : t[Len(s) + i] = v[i]
  OBVIOUS
<1> HIDE DEF t
<1>2. s \o u \in Seq(S) /\ Append(t, x) \in Seq(S)
  BY <1>1
<1>a. Len(s \o u) = Len(s) + Len(u) /\ Len(Append(t, x)) = Len(t) + 1 /\ Len(u) \in Nat
  BY <1>1
<1>3. Len(s \o u) = Len(Append(t, x)) /\ Len(s \o u) = Len(s) + Len(v) + 1
  BY <1>1, <1>a
<1>4. ASSUME NEW i \in 1..Len(s \o u) PROVE (s \o u)[i] = Append(t, x)[i]
  <2>1. CASE i <= Len(s)
    BY <1>1, <1>3, <2>1
  <2>2. CASE i > Len(s) /\ i <= Len(s) + Len(v)
    <3>1. i - Len(s) \in 1..Len(v) /\ Len(s) + (i - Len(s)) = i
      BY <1>1, <1>3, <2>2
    <3>2. (s \o u)[i] = u[i - Len(s)] /\ Append(t, x)[i] = t[i]
      BY <1>1, <1>3, <2>2, <3>1
    <3>3. t[i] = v[i - Len(s)]
      BY <1>1, <3>1
    <3> QED
      BY <3>1, <3>2, <3>3
  <2>3. CASE i = Len(s) + Len(v) + 1
    BY <1>1, <1>3, <2>3
  <2> QED
    BY <1>1, <1>3, <2>1, <2>2, <2>3
<1>5. s \o u = Append(t, x)
  BY <1>2, <1>3, <1>4, SeqEqual
<1> QED
  BY <1>5 DEF t

(* What runAgentLoop has pushed to the context but not emitted yet shrinks by
   its first prompt when that one is emitted. *)
LEMMA UsersSplit ==
  ASSUME NEW s \in Seq(Message), NEW q \in Seq(UserMsgs), q # <<>>
  PROVE  s \o Users(q) = Append(s, User(Head(q))) \o Users(Tail(q))
<1>1. Head(q) = q[1] /\ Tail(q) \in Seq(UserMsgs) /\ Len(Tail(q)) = Len(q) - 1 /\ Len(q) \in Nat \ {0}
  OBVIOUS
<1>2. \A i \in 1..Len(q) - 1 : Tail(q)[i] = q[i + 1]
  OBVIOUS
<1>3. Users(q) \in Seq(Message) /\ Users(Tail(q)) \in Seq(Message)
  BY <1>1, QueueTypes
<1>4. /\ Len(Users(q)) = Len(q) /\ Len(Users(Tail(q))) = Len(q) - 1
      /\ \A i \in 1..Len(q) : Users(q)[i] = User(q[i])
      /\ \A i \in 1..Len(q) - 1 : Users(Tail(q))[i] = User(q[i + 1])
  BY <1>1, <1>2 DEF Users
<1>5. User(Head(q)) \in Message
  BY <1>1, MessageTypes
<1>6. /\ Len(Users(q)) = Len(Users(Tail(q))) + 1 /\ Users(q)[1] = User(Head(q))
      /\ \A i \in 1..Len(Users(Tail(q))) : Users(Tail(q))[i] = Users(q)[i + 1]
  <2>1. 1 \in 1..Len(q) /\ \A i \in 1..Len(q) - 1 : i + 1 \in 1..Len(q)
    BY <1>1
  <2>2. Len(Users(q)) = Len(Users(Tail(q))) + 1
    <3>1. Len(q) = Len(q) - 1 + 1
      BY <1>1
    <3> QED
      BY <1>4, <3>1, Zenon
  <2>3. Users(q)[1] = User(Head(q))
    BY <1>1, <1>4, <2>1
  <2>4. \A i \in 1..Len(q) - 1 : Users(Tail(q))[i] = Users(q)[i + 1]
    BY <1>4, <2>1
  <2> QED
    BY <1>4, <2>2, <2>3, <2>4
<1> QED
  BY <1>3, <1>5, <1>6, ConcatShift

(* Nothing is pending: the context is the transcript. *)
LEMMA UsersNone ==
  ASSUME NEW s \in Seq(Message)
  PROVE  s \o Users(<<>>) = s
<1>1. Users(<<>>) = <<>>
  BY DEF Users
<1> QED
  BY <1>1, ConcatEmptySeq

(* The results of a batch, as emitted so far. *)
Results(t, n) == [k \in 1..n |-> ToolResult(t, k)]

(* One more result of a batch, appended to what precedes the batch. *)
LEMMA ResultsGrow ==
  ASSUME NEW s \in Seq(Message), NEW t \in Nat, NEW n \in Nat
  PROVE  s \o Results(t, n + 1) = Append(s \o Results(t, n), ToolResult(t, n + 1))
<1>1. \A m \in Nat : /\ Results(t, m) \in Seq(Message) /\ Len(Results(t, m)) = m
                     /\ \A i \in 1..m : Results(t, m)[i] = ToolResult(t, i)
  BY MessageTypes DEF Results
<1>2. ToolResult(t, n + 1) \in Message /\ n + 1 \in Nat
  BY MessageTypes
<1>3. /\ Results(t, n) \in Seq(Message) /\ Results(t, n + 1) \in Seq(Message)
      /\ Len(Results(t, n + 1)) = Len(Results(t, n)) + 1
      /\ Results(t, n + 1)[Len(Results(t, n + 1))] = ToolResult(t, n + 1)
      /\ \A i \in 1..Len(Results(t, n)) : Results(t, n)[i] = Results(t, n + 1)[i]
  BY <1>1, <1>2
<1> QED
  BY <1>2, <1>3, ConcatGrow

(* The loop's context and the Agent's transcript at every point of a run. *)
ContextInv ==
  /\ pc \in {"initialPoll", "turn", "stream", "turnEnd", "poll", "pollFollowUp"} => context = messages
  /\ pc = "prompts" => context = messages \o Users(pending)
  /\ InBatch => messages = context \o BatchResults


(* Every step keeps the context and the transcript together. *)
LEMMA ContextStep == TypeOK /\ ContextInv /\ [Next]_vars => ContextInv'
<1> SUFFICES ASSUME TypeOK, ContextInv, [Next]_vars PROVE ContextInv'
  OBVIOUS
<1> USE DEF agentVars, loopVars, envVars, InBatch
<1>0. /\ messages \in Seq(Message) /\ context \in Seq(Message) /\ pending \in Seq(UserMsgs)
      /\ turns \in Nat /\ batch \in Batch /\ batch.emitted \in Nat
  BY DEF TypeOK, Batch
<1>1. ASSUME UNCHANGED <<pc, messages, context, pending, batch, turns>> PROVE ContextInv'
  BY <1>1 DEF ContextInv, BatchResults
<1>2. ASSUME pc' \notin {"prompts", "prepare", "afterCall", "execute", "results", "batchEnd"},
             context' = messages' \/ pc' \in {"idle", "agentEnd", "finish", "failed", "finishFailed"}
      PROVE  ContextInv'
  BY <1>2 DEF ContextInv
<1>3. ASSUME InBatch, pc' \in {"prepare", "afterCall", "execute", "results", "batchEnd"},
             UNCHANGED <<messages, context, turns>>, batch'.emitted = batch.emitted
      PROVE  ContextInv'
  BY <1>3 DEF ContextInv, BatchResults
<1>4. CASE Host
  <2>1. ASSUME NEW prompts, NEW skip, StartRun(prompts, skip, "prompts")
        PROVE  ContextInv'
    BY <2>1 DEF StartRun, ContextInv
  <2>2. ASSUME NEW u \in UserMsgs, Prompt(u) PROVE ContextInv'
    BY <2>1, <2>2 DEF Prompt
  <2>3. ASSUME ContinueWithSteering \/ ContinueWithFollowUp PROVE ContextInv'
    BY <2>1, <2>3 DEF ContinueWithSteering, ContinueWithFollowUp
  <2>4. ASSUME ContinueTranscript PROVE ContextInv'
    <3>1. context' = messages' /\ pc' = "initialPoll"
      BY <1>0, <2>4, UsersNone DEF ContinueTranscript, StartRun
    <3> QED
      BY <1>2, <3>1
  <2>5. ASSUME Reset PROVE ContextInv'
    BY <1>2, <2>5 DEF Reset
  <2>6. ASSUME \/ \E u \in UserMsgs : Steer(u) \/ FollowUp(u)
               \/ ClearSteeringQueue \/ ClearFollowUpQueue \/ Abort
               \/ \E m \in [steering : Modes, followUp : Modes] : SetMode(m)
        PROVE  ContextInv'
    <3>1. UNCHANGED <<pc, messages, context, pending, batch, turns>>
      BY <2>6 DEF Steer, FollowUp, ClearSteeringQueue, ClearFollowUpQueue, Abort, SetMode
    <3> QED
      BY <1>1, <3>1
  <2> QED
    BY <1>4, <2>2, <2>3, <2>4, <2>5, <2>6 DEF Host
<1>5. ASSUME EmitPrompt PROVE ContextInv'
  <2>1. /\ context = messages \o Users(pending) /\ pending # <<>> /\ pending' = Tail(pending)
        /\ messages' = Append(messages, User(Head(pending))) /\ context' = context
        /\ pc' = IF Len(pending) = 1 THEN "initialPoll" ELSE "prompts"
    BY <1>5 DEF EmitPrompt, ContextInv
  <2>2. context' = messages' \o Users(pending')
    BY <1>0, <2>1, UsersSplit
  <2>3. CASE Len(pending) = 1
    <3>1. pending' = <<>>
      BY <1>0, <2>1, <2>3
    <3>2. messages' \in Seq(Message)
      BY <1>0, <2>1, MessageTypes
    <3>3. context' = messages' /\ pc' = "initialPoll"
      BY <2>1, <2>2, <2>3, <3>1, <3>2, UsersNone
    <3> QED
      BY <1>2, <3>3
  <2>4. CASE Len(pending) # 1
    BY <2>1, <2>2, <2>4 DEF ContextInv
  <2> QED
    BY <2>3, <2>4
<1>6. ASSUME InitialPoll \/ RequestAssistant \/ PollSteering \/ PollFollowUp \/ EmitAgentEnd
             \/ \E stop \in BOOLEAN : EndTurn(stop)
      PROVE  ContextInv'
  BY <1>2, <1>6 DEF ContextInv, InitialPoll, RequestAssistant, PollSteering, PollFollowUp, EmitAgentEnd, EndTurn
<1>7. ASSUME InjectPending PROVE ContextInv'
  BY <1>2, <1>7 DEF ContextInv, InjectPending
<1>8. ASSUME NEW m \in Responses, NEW exec \in Executions, ReceiveAssistant(m, exec) PROVE ContextInv'
  <2>1. context' = messages' /\ messages' \in Seq(Message)
    BY <1>0, <1>8, ResponseTypes DEF ContextInv, ReceiveAssistant
  <2>2. CASE pc' \in {"agentEnd", "turnEnd"}
    BY <1>2, <2>1, <2>2
  <2>3. CASE pc' = "prepare"
    <3>1. batch' = [NoBatch EXCEPT !.exec = exec, !.calls = [k \in 1..m.calls |-> "todo"]]
      BY <1>8, <2>3 DEF ReceiveAssistant
    <3>2. batch'.emitted = 0
      BY <3>1 DEF NoBatch
    <3>3. BatchResults' = <<>>
      BY <3>2 DEF BatchResults
    <3>4. context' \o BatchResults' = context'
      BY <2>1, <3>3, ConcatEmptySeq
    <3> QED
      BY <2>1, <2>3, <3>4 DEF ContextInv
  <2> QED
    BY <1>8, <2>2, <2>3 DEF ReceiveAssistant
<1>9. ASSUME PrepareCall \/ AfterCall \/ NothingToRun
             \/ \E k \in 1..MaxCalls, terminate \in BOOLEAN : ToolCompletes(k, terminate)
      PROVE  ContextInv'
  <2>1. /\ InBatch /\ pc' \in {"prepare", "afterCall", "execute", "results", "batchEnd"}
        /\ UNCHANGED <<messages, context, turns>>
    BY <1>9 DEF PrepareCall, Immediate, Prepared, AfterCall, NothingToRun, ToolCompletes
  <2>2. batch'.emitted = batch.emitted
    BY <1>0, <1>9 DEF PrepareCall, Immediate, Prepared, AfterCall, NothingToRun, ToolCompletes, Batch
  <2> QED
    BY <1>3, <2>1, <2>2
<1>10. ASSUME EmitToolResult PROVE ContextInv'
  <2>1. /\ messages = context \o Results(turns, batch.emitted)
        /\ messages' = Append(messages, ToolResult(turns, batch.emitted + 1))
        /\ context' = context /\ turns' = turns
        /\ pc' \in {"afterCall", "results", "batchEnd"}
    BY <1>10 DEF EmitToolResult, ContextInv, BatchResults, Results, NextResult
  <2>2. batch'.emitted = batch.emitted + 1
    BY <1>0, <1>10 DEF EmitToolResult, Batch
  <2>3. messages' = context' \o Results(turns, batch.emitted + 1)
    BY <1>0, <2>1, ResultsGrow
  <2>4. BatchResults' = Results(turns, batch.emitted + 1)
    BY <2>1, <2>2 DEF BatchResults, Results
  <2> QED
    BY <2>1, <2>3, <2>4 DEF ContextInv
<1>11. ASSUME FinishBatch PROVE ContextInv'
  BY <1>2, <1>11 DEF FinishBatch, ContextInv
<1>12. ASSUME Throws \/ FinishRun \/ \E pushed \in BOOLEAN : HandleRunFailure(pushed) PROVE ContextInv'
  BY <1>2, <1>12 DEF Throws, LoopThrows, ToolEventThrows, Fail, FinishRun, HandleRunFailure
<1>13. CASE Orphan \/ UNCHANGED vars
  BY <1>1, <1>13 DEF Orphan, OrphanCompletes, vars
<1> QED
  BY <1>4, <1>5, <1>6, <1>7, <1>8, <1>9, <1>10, <1>11, <1>12, <1>13 DEF Next, Loop

(* Whenever a request is made, the messages sent to the model are exactly the
   transcript that the Agent shows: prompts that the context gets at once and
   the transcript one by one, injected messages, answers and the results of
   whole or cut batches included. *)
THEOREM ContextMatches == Spec => []ContextIsTranscript
<1>1. Init => ContextInv
  BY DEF Init, ContextInv, InBatch
<1>2. ContextInv => ContextIsTranscript
  BY DEF ContextInv, ContextIsTranscript
<1> QED
  BY <1>1, <1>2, ContextStep, TypeCorrect, PTL DEF Spec

-----------------------------------------------------------------------------
(* Tool results. *)

(* In a batch, the transcript ends with the assistant message of the turn and
   the results emitted so far; only that message has the number of the turn. *)
First == Len(messages) - batch.emitted
Batched(m) == /\ m.role = "assistant" /\ m.turn = turns /\ m.stop \in {"stop", "length"}
              /\ m.calls = Len(batch.calls) /\ m.calls >= 1

TailInv ==
  InBatch =>
    /\ First \in DOMAIN messages /\ Batched(messages[First])
    /\ \A k \in 1..batch.emitted : messages[First + k] = ToolResult(turns, k)

TurnInv ==
  \A i \in DOMAIN messages : messages[i].role = "assistant" =>
    messages[i].turn <= turns /\ (InBatch /\ i # First => messages[i].turn < turns)

(* The batch loops change neither the calls of a batch, nor how it is
   executed, nor what it has emitted. *)
LEMMA BatchFixed ==
  ASSUME TypeOK,
         \/ PrepareCall \/ AfterCall \/ NothingToRun
         \/ \E k \in 1..MaxCalls, terminate \in BOOLEAN : ToolCompletes(k, terminate)
  PROVE  /\ Len(batch'.calls) = Len(batch.calls) /\ batch'.emitted = batch.emitted
         /\ batch'.exec = batch.exec
         /\ UNCHANGED <<messages, turns, aborted, disturbed>>
         /\ InBatch /\ InBatch'
<1> USE DEF agentVars, loopVars, envVars, InBatch
<1>0. batch \in Batch /\ batch.calls \in Seq(CallStates)
  BY DEF TypeOK, Batch
<1>1. /\ UNCHANGED <<messages, turns, aborted, disturbed>> /\ InBatch /\ InBatch'
  BY DEF PrepareCall, Immediate, Prepared, AfterCall, NothingToRun, ToolCompletes
<1>2. batch'.emitted = batch.emitted /\ batch'.exec = batch.exec
  BY <1>0 DEF PrepareCall, Immediate, Prepared, AfterCall, NothingToRun, ToolCompletes, Batch
<1>3. ASSUME NEW k, NEW c \in CallStates, batch'.calls = [batch.calls EXCEPT ![k] = c]
      PROVE  Len(batch'.calls) = Len(batch.calls)
  <2>1. /\ DOMAIN (batch'.calls) = 1..Len(batch.calls) /\ Len(batch.calls) \in Nat
        /\ \A i \in 1..Len(batch.calls) : batch'.calls[i] \in CallStates
    BY <1>0, <1>3
  <2>2. batch'.calls = [i \in 1..Len(batch.calls) |-> batch'.calls[i]]
    BY <1>3, <2>1
  <2> QED
    BY ONLY <2>1, <2>2, FunctionIsSeq
<1>4. ASSUME PrepareCall PROVE Len(batch'.calls) = Len(batch.calls)
  BY <1>0, <1>3, <1>4 DEF PrepareCall, Immediate, Prepared, Batch, CallStates
<1>5. ASSUME AfterCall PROVE Len(batch'.calls) = Len(batch.calls)
  <2>1. CASE MoreCalls
    BY <1>0, <1>5, <2>1 DEF AfterCall, Batch
  <2>2. CASE ~MoreCalls
    <3>1. batch'.calls = [k \in DOMAIN batch.calls |->
                            IF batch.calls[k] = "ready" THEN "running" ELSE batch.calls[k]]
      BY <1>0, <1>5, <2>2 DEF AfterCall, Batch
    <3> QED
      BY <1>0, <3>1
  <2> QED
    BY <2>1, <2>2
<1>6. ASSUME NEW k \in 1..MaxCalls, NEW terminate \in BOOLEAN, ToolCompletes(k, terminate)
      PROVE  Len(batch'.calls) = Len(batch.calls)
  BY <1>0, <1>3, <1>6 DEF ToolCompletes, Batch, CallStates
<1>7. ASSUME NothingToRun PROVE Len(batch'.calls) = Len(batch.calls)
  BY <1>7 DEF NothingToRun
<1> QED
  BY <1>1, <1>2, <1>4, <1>5, <1>6, <1>7

(* A message that is no tool result may follow anything. *)
LEMMA OrderAppend ==
  ASSUME NEW m \in Message, messages \in Seq(Message), ResultsInSourceOrder,
         messages' = Append(messages, m),
         m.role = "toolResult" =>
           /\ Len(messages) >= 1
           /\ LET before == messages[Len(messages)] IN
              IF m.call = 1
              THEN /\ before.role = "assistant" /\ before.turn = m.turn
                   /\ before.calls >= 1 /\ before.stop \in {"stop", "length"}
              ELSE before = ToolResult(m.turn, m.call - 1)
  PROVE  ResultsInSourceOrder'
<1>1. /\ Len(messages) \in Nat /\ DOMAIN messages' = 1..Len(messages) + 1
      /\ \A i \in 1..Len(messages) : messages'[i] = messages[i]
      /\ messages'[Len(messages) + 1] = m /\ DOMAIN messages = 1..Len(messages)
  OBVIOUS
<1>2. ASSUME NEW i \in 1..Len(messages), messages'[i].role = "toolResult"
      PROVE  /\ i > 1 /\ messages'[i] = messages[i] /\ messages'[i - 1] = messages[i - 1]
  BY <1>1, <1>2 DEF ResultsInSourceOrder
<1>3. ASSUME NEW i \in DOMAIN messages', messages'[i].role = "toolResult"
      PROVE  /\ i > 1
             /\ LET before == messages'[i - 1] IN
                IF messages'[i].call = 1
                THEN /\ before.role = "assistant" /\ before.turn = messages'[i].turn
                     /\ before.calls >= 1 /\ before.stop \in {"stop", "length"}
                ELSE before = ToolResult(messages'[i].turn, messages'[i].call - 1)
  <2>1. CASE i \in 1..Len(messages)
    BY <1>1, <1>2, <1>3, <2>1 DEF ResultsInSourceOrder
  <2>2. CASE i = Len(messages) + 1
    <3>1. messages'[i] = m /\ i - 1 = Len(messages)
      BY <1>1, <2>2
    <3>2. Len(messages) >= 1 /\ messages'[i - 1] = messages[Len(messages)]
      BY <1>1, <1>3, <3>1
    <3> QED
      BY <1>1, <1>3, <2>2, <3>1, <3>2
  <2> QED
    BY <1>1, <1>3, <2>1, <2>2
<1> QED
  BY <1>3 DEF ResultsInSourceOrder

ResultsInv == TailInv /\ TurnInv /\ ResultsInSourceOrder

(* Every step keeps tool results behind the message that asked for them. *)
LEMMA ResultsStep == TypeOK /\ ResultsInv /\ [Next]_vars => ResultsInv'
<1> SUFFICES ASSUME TypeOK, ResultsInv, [Next]_vars PROVE ResultsInv'
  OBVIOUS
<1> USE DEF agentVars, loopVars, envVars
<1>0. /\ messages \in Seq(Message) /\ Len(messages) \in Nat /\ DOMAIN messages = 1..Len(messages)
      /\ turns \in Nat /\ batch \in Batch /\ batch.emitted \in Nat
      /\ pending \in Seq(UserMsgs)
  BY DEF TypeOK, Batch
<1>a. TailInv /\ TurnInv /\ ResultsInSourceOrder
  BY DEF ResultsInv
<1>1. ASSUME UNCHANGED messages, turns' \in Nat, turns' >= turns, ~InBatch' PROVE ResultsInv'
  <2>1. TailInv'
    BY <1>1 DEF TailInv
  <2>2. TurnInv'
    <3>1. \A i \in DOMAIN messages : messages[i].role = "assistant" => messages[i].turn \in Nat
      BY <1>0 DEF Message
    <3> QED
      BY <1>0, <1>1, <1>a, <3>1 DEF TurnInv
  <2>3. ResultsInSourceOrder'
    BY <1>1, <1>a DEF ResultsInSourceOrder
  <2> QED
    BY <2>1, <2>2, <2>3 DEF ResultsInv
<1>2. ASSUME UNCHANGED <<messages, turns>>, InBatch, Len(batch'.calls) = Len(batch.calls),
             batch'.emitted = batch.emitted
      PROVE  ResultsInv'
  BY <1>2, <1>a DEF ResultsInv, TailInv, TurnInv, ResultsInSourceOrder, First, Batched
<1>3. ASSUME NEW u \in UserMsgs, messages' = Append(messages, User(u)), turns' = turns,
             ~InBatch' PROVE ResultsInv'
  <2>1. /\ DOMAIN messages' = 1..Len(messages) + 1 /\ User(u) \in Message /\ User(u).role = "user"
        /\ \A i \in 1..Len(messages) : messages'[i] = messages[i]
        /\ messages'[Len(messages) + 1] = User(u)
    BY <1>0, <1>3, MessageTypes DEF User
  <2>2. TailInv'
    BY <1>3 DEF TailInv
  <2>3. TurnInv'
    BY <1>0, <1>3, <1>a, <2>1 DEF TurnInv
  <2>4. ResultsInSourceOrder'
    BY <1>0, <1>3, <1>a, <2>1, OrderAppend
  <2> QED
    BY <2>2, <2>3, <2>4 DEF ResultsInv
<1>4. ASSUME NEW m \in Message, messages' = Append(messages, m), turns' = turns + 1,
             m.role = "assistant", m.turn = turns + 1,
             InBatch' => batch'.emitted = 0 /\ Batched(m)'
      PROVE  ResultsInv'
  <2>1. /\ DOMAIN messages' = 1..Len(messages) + 1 /\ Len(messages') = Len(messages) + 1
        /\ \A i \in 1..Len(messages) : messages'[i] = messages[i]
        /\ messages'[Len(messages) + 1] = m
    BY <1>0, <1>4
  <2>2. InBatch' => First' = Len(messages) + 1
    BY <1>0, <1>4, <2>1 DEF First
  <2>3. TailInv'
    BY <1>0, <1>4, <2>1, <2>2 DEF TailInv
  <2>4. TurnInv'
    <3>1. \A i \in DOMAIN messages : messages[i].role = "assistant" =>
            messages[i].turn \in Nat /\ messages[i].turn <= turns
      BY <1>0, <1>a DEF Message, TurnInv
    <3> QED
      BY <1>0, <1>4, <2>1, <2>2, <3>1 DEF TurnInv
  <2>5. ResultsInSourceOrder'
    BY <1>0, <1>4, <1>a, OrderAppend
  <2> QED
    BY <2>3, <2>4, <2>5 DEF ResultsInv
<1>5. CASE Host
  <2>1. ASSUME Reset PROVE ResultsInv'
    <3>1. messages' = <<>> /\ ~InBatch'
      BY <2>1 DEF Reset, InBatch
    <3> QED
      BY <3>1 DEF ResultsInv, TailInv, TurnInv, ResultsInSourceOrder
  <2>2. ASSUME \/ \E u \in UserMsgs : Prompt(u)
               \/ ContinueWithSteering \/ ContinueWithFollowUp \/ ContinueTranscript
        PROVE  ResultsInv'
    <3>1. UNCHANGED <<messages, turns>> /\ ~InBatch'
      BY <2>2 DEF Prompt, ContinueWithSteering, ContinueWithFollowUp, ContinueTranscript, StartRun, InBatch
    <3> QED
      BY <1>0, <1>1, <3>1
  <2>3. ASSUME \/ \E u \in UserMsgs : Steer(u) \/ FollowUp(u)
               \/ ClearSteeringQueue \/ ClearFollowUpQueue \/ Abort
               \/ \E m \in [steering : Modes, followUp : Modes] : SetMode(m)
        PROVE  ResultsInv'
    <3>1. UNCHANGED <<pc, messages, turns, batch>>
      BY <2>3 DEF Steer, FollowUp, ClearSteeringQueue, ClearFollowUpQueue, Abort, SetMode
    <3> QED
      BY <1>0, <1>1, <1>2, <3>1 DEF InBatch
  <2> QED
    BY <1>5, <2>1, <2>2, <2>3 DEF Host
<1>6. ASSUME EmitPrompt \/ InjectPending PROVE ResultsInv'
  <2>1. /\ Head(pending) \in UserMsgs /\ messages' = Append(messages, User(Head(pending)))
        /\ turns' = turns /\ ~InBatch'
    BY <1>0, <1>6 DEF EmitPrompt, InjectPending, InBatch
  <2> QED
    BY <1>3, <2>1
<1>7. ASSUME \/ InitialPoll \/ RequestAssistant \/ PollSteering \/ PollFollowUp \/ EmitAgentEnd
             \/ FinishBatch \/ FinishRun \/ Throws
             \/ \E stop \in BOOLEAN : EndTurn(stop)
      PROVE  ResultsInv'
  <2>1. UNCHANGED <<messages, turns>> /\ ~InBatch'
    BY <1>7 DEF InitialPoll, RequestAssistant, PollSteering, PollFollowUp, EmitAgentEnd, FinishBatch,
                FinishRun, Throws, LoopThrows, ToolEventThrows, Fail, EndTurn, InBatch
  <2> QED
    BY <1>0, <1>1, <2>1
<1>8. ASSUME NEW m \in Responses, NEW exec \in Executions, ReceiveAssistant(m, exec) PROVE ResultsInv'
  <2>1. m \in Message /\ m.calls \in Nat /\ m.role = "assistant" /\ m.stop \in StopReasons
    BY ResponseTypes
  <2>2. m.turn = turns + 1
    BY DEF Responses, Assistant
  <2>3. messages' = Append(messages, m) /\ turns' = turns + 1
    BY <1>8 DEF ReceiveAssistant
  <2>4. ASSUME InBatch' PROVE batch'.emitted = 0 /\ Batched(m)'
    <3>1. m.stop \notin {"error", "aborted"} /\ m.calls # 0
      BY <1>8, <2>4 DEF ReceiveAssistant, InBatch
    <3>2. batch' = [NoBatch EXCEPT !.exec = exec, !.calls = [k \in 1..m.calls |-> "todo"]]
      BY <1>8, <3>1 DEF ReceiveAssistant
    <3>3. batch'.emitted = 0 /\ batch'.calls = [k \in 1..m.calls |-> "todo"]
      BY <3>2 DEF NoBatch
    <3>4. Len(batch'.calls) = m.calls
      BY <2>1, <3>3
    <3> QED
      BY <2>1, <2>2, <2>3, <3>1, <3>3, <3>4 DEF Batched, StopReasons
  <2> QED
    BY <1>4, <2>1, <2>2, <2>3, <2>4
<1>9. ASSUME \/ PrepareCall \/ AfterCall \/ NothingToRun
             \/ \E k \in 1..MaxCalls, terminate \in BOOLEAN : ToolCompletes(k, terminate)
      PROVE  ResultsInv'
  BY <1>2, <1>9, BatchFixed
<1>10. ASSUME EmitToolResult PROVE ResultsInv'
  <2> DEFINE r == ToolResult(turns, batch.emitted + 1)
  <2>1. messages' = Append(messages, r) /\ turns' = turns /\ InBatch /\ InBatch'
    BY <1>10 DEF EmitToolResult, NextResult, InBatch
  <2>2. batch'.emitted = batch.emitted + 1 /\ batch'.calls = batch.calls
    BY <1>0, <1>10 DEF EmitToolResult, Batch
  <2>3. /\ r \in Message /\ r.role = "toolResult" /\ r.turn = turns /\ r.call = batch.emitted + 1
    BY <1>0, MessageTypes DEF ToolResult
  <2>4. /\ DOMAIN messages' = 1..Len(messages) + 1 /\ Len(messages') = Len(messages) + 1
        /\ \A i \in 1..Len(messages) : messages'[i] = messages[i]
        /\ messages'[Len(messages) + 1] = r
    BY <1>0, <2>1, <2>3
  <2>5. First' = First /\ First \in Nat /\ First >= 1 /\ First + batch.emitted = Len(messages)
    BY <1>0, <1>a, <2>1, <2>2, <2>4 DEF First, TailInv
  <2>6. /\ Batched(messages[First])
        /\ \A k \in 1..batch.emitted : messages[First + k] = ToolResult(turns, k)
    BY <1>a, <2>1 DEF TailInv
  <2> HIDE DEF r
  <2>7. TailInv'
    <3>1. First' \in DOMAIN messages' /\ messages'[First'] = messages[First]
      BY <1>0, <2>4, <2>5
    <3>2. ASSUME NEW k \in 1..batch.emitted + 1 PROVE messages'[First + k] = ToolResult(turns, k)
      <4>1. CASE k \in 1..batch.emitted
        BY <1>0, <2>4, <2>5, <2>6, <4>1
      <4>2. CASE k = batch.emitted + 1
        <5>0. \A a, b, c \in Nat : a + b = c => a + (b + 1) = c + 1
          OBVIOUS
        <5>a. /\ First \in Nat /\ batch.emitted \in Nat /\ Len(messages) \in Nat
              /\ First + batch.emitted = Len(messages)
          BY <1>0, <2>5
        <5>b. First + (batch.emitted + 1) = Len(messages) + 1
          BY ONLY <5>a, <5>0
        <5>1. First + k = Len(messages) + 1
          BY <4>2, <5>b
        <5> QED
          BY <2>4, <4>2, <5>1 DEF r
      <4> QED
        BY <1>0, <4>1, <4>2
    <3>3. Batched(messages[First])'
      BY <2>1, <2>2, <2>6, <3>1 DEF Batched
    <3> QED
      BY <2>1, <2>2, <2>5, <3>1, <3>2, <3>3 DEF TailInv
  <2>8. TurnInv'
    BY <1>0, <1>a, <2>1, <2>3, <2>4, <2>5 DEF TurnInv
  <2>9. ResultsInSourceOrder'
    <3>1. Len(messages) >= 1
      BY <1>0, <2>5
    <3>2. CASE batch.emitted = 0
      <4>1. messages[Len(messages)] = messages[First]
        BY <1>0, <2>5, <3>2
      <4>2. LET before == messages[Len(messages)] IN
              /\ before.role = "assistant" /\ before.turn = r.turn
              /\ before.calls >= 1 /\ before.stop \in {"stop", "length"}
        BY <2>3, <2>6, <4>1 DEF Batched
      <4>3. r.call = 1
        BY <2>3, <3>2
      <4> QED
        BY <1>0, <1>a, <2>1, <2>3, <3>1, <4>2, <4>3, OrderAppend
    <3>3. CASE batch.emitted # 0
      <4>1. messages[Len(messages)] = ToolResult(turns, batch.emitted)
        BY <1>0, <2>5, <2>6, <3>3
      <4>2. r.call # 1 /\ r.call - 1 = batch.emitted
        BY <1>0, <2>3, <3>3
      <4> QED
        BY <1>0, <1>a, <2>1, <2>3, <3>1, <4>1, <4>2, OrderAppend
    <3> QED
      BY <3>2, <3>3
  <2> QED
    BY <2>7, <2>8, <2>9 DEF ResultsInv
<1>11. ASSUME NEW pushed \in BOOLEAN, HandleRunFailure(pushed) PROVE ResultsInv'
  <2>1. ~InBatch' /\ turns' = turns + 1
    BY <1>11 DEF HandleRunFailure, InBatch
  <2>2. CASE pushed
    <3> DEFINE m == Assistant(turns + 1, 0, IF aborted THEN "aborted" ELSE "error")
    <3>0. m \in Message
      BY <1>0, MessageTypes DEF StopReasons
    <3>1. m \in Message /\ m.role = "assistant" /\ m.turn = turns + 1
      BY <3>0 DEF Assistant
    <3>2. messages' = Append(messages, m)
      BY <1>11, <2>2 DEF HandleRunFailure
    <3> QED
      BY <1>4, <2>1, <3>1, <3>2
  <2>3. CASE ~pushed
    BY <1>0, <1>1, <1>11, <2>1, <2>3 DEF HandleRunFailure
  <2> QED
    BY <2>2, <2>3
<1>12. CASE Orphan \/ UNCHANGED vars
  <2>1. UNCHANGED <<pc, messages, turns, batch>>
    BY <1>12 DEF Orphan, OrphanCompletes, vars
  <2> QED
    BY <1>0, <1>1, <1>2, <2>1 DEF InBatch
<1> QED
  BY <1>5, <1>6, <1>7, <1>8, <1>9, <1>10, <1>11, <1>12 DEF Next, Loop

(* Whatever order the tools finish in and wherever a run is cut off, each tool
   result stands right behind its predecessor or the message that asked for
   it, so a provider never sees a result without its call. *)
THEOREM ResultsOrdered == Spec => []ResultsInSourceOrder
<1>1. Init => ResultsInv
  BY DEF Init, ResultsInv, TailInv, TurnInv, ResultsInSourceOrder, InBatch
<1>2. ResultsInv => ResultsInSourceOrder
  BY DEF ResultsInv
<1> QED
  BY <1>1, <1>2, ResultsStep, TypeCorrect, PTL DEF Spec

(* How far the batch loops are: an aborted turn is disturbed, an undisturbed
   one leaves no call behind. *)
ProgressInv ==
  InBatch =>
    /\ Len(batch.calls) >= 1
    /\ aborted => turns \in disturbed
    /\ batch.exec # "parallel" =>
         /\ pc \in {"prepare", "execute", "results"} => batch.emitted = batch.next - 1
         /\ pc = "afterCall" => batch.emitted = batch.next
         /\ pc = "batchEnd" => turns \in disturbed \/ batch.emitted = Len(batch.calls)
    /\ batch.exec = "parallel" =>
         /\ pc \in {"prepare", "afterCall", "execute"} => batch.emitted = 0
         /\ \A k \in DOMAIN batch.calls :
              k < batch.next \/ (k = batch.next /\ pc # "prepare") => batch.calls[k] # "todo"
         /\ pc \in {"execute", "results", "batchEnd"} => turns \in disturbed \/ batch.next = Len(batch.calls)
         /\ pc = "batchEnd" => batch.emitted = Cardinality(Done)


(* The calls of a batch as the loops leave them behind. *)
LEMMA ProgressStep == TypeOK /\ BatchInv /\ ProgressInv /\ [Next]_vars => ProgressInv'
<1> SUFFICES ASSUME TypeOK, BatchInv, ProgressInv, [Next]_vars PROVE ProgressInv'
  OBVIOUS
<1> USE DEF agentVars, loopVars, envVars
<1>0. /\ turns \in Nat /\ batch \in Batch /\ batch.emitted \in Nat /\ batch.next \in Nat \ {0}
      /\ batch.calls \in Seq(CallStates) /\ Len(batch.calls) \in Nat
      /\ DOMAIN batch.calls = 1..Len(batch.calls)
      /\ batch.calls = <<>> \/ batch.next <= Len(batch.calls)
  BY DEF TypeOK, Batch
<1>1. ASSUME ~InBatch' PROVE ProgressInv'
  BY <1>1 DEF ProgressInv
<1>2. ASSUME UNCHANGED <<pc, batch, turns>>, disturbed \subseteq disturbed',
             aborted' => aborted \/ turns \in disturbed'
      PROVE  ProgressInv'
  BY <1>2 DEF ProgressInv, InBatch, Done
<1>3. CASE Host
  <2>1. ASSUME \/ \E u \in UserMsgs : Prompt(u)
               \/ ContinueWithSteering \/ ContinueWithFollowUp \/ ContinueTranscript \/ Reset
        PROVE  ProgressInv'
    <3>1. ~InBatch'
      BY <2>1 DEF Prompt, ContinueWithSteering, ContinueWithFollowUp, ContinueTranscript, StartRun, Reset, InBatch
    <3> QED
      BY <1>1, <3>1
  <2>2. ASSUME \/ \E u \in UserMsgs : Steer(u) \/ FollowUp(u)
               \/ ClearSteeringQueue \/ ClearFollowUpQueue
               \/ \E m \in [steering : Modes, followUp : Modes] : SetMode(m)
        PROVE  ProgressInv'
    <3>1. UNCHANGED <<pc, batch, turns, aborted, disturbed>>
      BY <2>2 DEF Steer, FollowUp, ClearSteeringQueue, ClearFollowUpQueue, SetMode
    <3> QED
      BY <1>2, <3>1
  <2>3. ASSUME Abort PROVE ProgressInv'
    BY <1>2, <2>3 DEF Abort
  <2> QED
    BY <1>3, <2>1, <2>2, <2>3 DEF Host
<1>4. ASSUME \/ EmitPrompt \/ InitialPoll \/ InjectPending \/ RequestAssistant \/ EmitAgentEnd
             \/ PollSteering \/ PollFollowUp \/ FinishBatch \/ FinishRun \/ Throws
             \/ \E stop \in BOOLEAN : EndTurn(stop)
             \/ \E pushed \in BOOLEAN : HandleRunFailure(pushed)
      PROVE  ProgressInv'
  <2>1. ~InBatch'
    BY <1>4 DEF EmitPrompt, InitialPoll, InjectPending, RequestAssistant, EmitAgentEnd, PollSteering,
                PollFollowUp, FinishBatch, FinishRun, Throws, LoopThrows, ToolEventThrows, Fail,
                EndTurn, HandleRunFailure, InBatch
  <2> QED
    BY <1>1, <2>1
<1>5. ASSUME NEW m \in Responses, NEW exec \in Executions, ReceiveAssistant(m, exec) PROVE ProgressInv'
  <2>1. CASE ~InBatch'
    BY <1>1, <2>1
  <2>2. CASE InBatch'
    <3>1. m.stop \notin {"error", "aborted"} /\ m.calls # 0 /\ pc' = "prepare"
      BY <1>5, <2>2 DEF ReceiveAssistant, InBatch
    <3>2. /\ batch' = [NoBatch EXCEPT !.exec = exec, !.calls = [k \in 1..m.calls |-> "todo"]]
          /\ aborted' => turns' \in disturbed'
      BY <1>5, <3>1 DEF ReceiveAssistant
    <3>3. batch'.emitted = 0 /\ batch'.calls = [k \in 1..m.calls |-> "todo"] /\ batch'.next = 1
      BY <3>2 DEF NoBatch
    <3>4. m.calls \in Nat /\ Len(batch'.calls) = m.calls
      BY <3>3, ResponseTypes
    <3> QED
      BY <3>1, <3>2, <3>3, <3>4 DEF ProgressInv
  <2> QED
    BY <2>1, <2>2
<1>6. ASSUME PrepareCall PROVE ProgressInv'
  <2>0. /\ pc = "prepare" /\ UNCHANGED <<turns, aborted, disturbed>> /\ InBatch
        /\ batch'.emitted = batch.emitted /\ batch'.exec = batch.exec
        /\ Len(batch'.calls) = Len(batch.calls)
    BY <1>6, BatchFixed DEF PrepareCall
  <2>1. /\ batch'.next = batch.next
        /\ pc' \in IF batch.exec = "parallel" THEN {"afterCall"} ELSE {"results", "execute"}
        /\ \E c \in {"done", "ready", "running"} : batch'.calls = [batch.calls EXCEPT ![batch.next] = c]
    BY <1>0, <1>6 DEF PrepareCall, Immediate, Prepared, Batch
  <2> QED
    BY <1>0, <2>0, <2>1 DEF ProgressInv, InBatch
<1>7. ASSUME AfterCall PROVE ProgressInv'
  <2>0. /\ pc = "afterCall" /\ UNCHANGED <<turns, aborted, disturbed>> /\ InBatch
        /\ batch'.emitted = batch.emitted /\ batch'.exec = batch.exec
        /\ Len(batch'.calls) = Len(batch.calls)
    BY <1>7, BatchFixed DEF AfterCall
  <2>1. CASE MoreCalls
    <3>1. pc' = "prepare" /\ batch'.next = batch.next + 1 /\ batch'.calls = batch.calls
      BY <1>0, <1>7, <2>1 DEF AfterCall, Batch
    <3> QED
      BY <1>0, <2>0, <3>1 DEF ProgressInv, InBatch
  <2>2. CASE ~MoreCalls
    <3>1. /\ batch'.calls = [k \in DOMAIN batch.calls |->
                               IF batch.calls[k] = "ready" THEN "running" ELSE batch.calls[k]]
          /\ batch'.next = batch.next
          /\ pc' = IF batch.exec = "parallel" THEN "execute" ELSE "batchEnd"
      BY <1>0, <1>7, <2>2 DEF AfterCall, Batch
    <3>2. turns \in disturbed \/ batch.next >= Len(batch.calls)
      BY <1>0, <2>0, <2>2 DEF MoreCalls, ProgressInv
    <3>3. turns \in disturbed \/ batch.next = Len(batch.calls)
      <4>1. batch.calls # <<>>
        BY <2>0 DEF ProgressInv
      <4> QED
        BY <1>0, <3>2, <4>1
    <3> QED
      BY <1>0, <2>0, <3>1, <3>3 DEF ProgressInv, InBatch
  <2> QED
    BY <2>1, <2>2
<1>8. ASSUME NEW k \in 1..MaxCalls, NEW terminate \in BOOLEAN, ToolCompletes(k, terminate)
      PROVE  ProgressInv'
  <2>0. /\ pc = "execute" /\ UNCHANGED <<turns, aborted, disturbed>> /\ InBatch
        /\ batch'.emitted = batch.emitted /\ batch'.exec = batch.exec
        /\ Len(batch'.calls) = Len(batch.calls) /\ pc' \in {"execute", "results"}
    BY <1>8, BatchFixed DEF ToolCompletes
  <2>1. batch'.next = batch.next /\ batch'.calls = [batch.calls EXCEPT ![k] = "done"]
    BY <1>0, <1>8 DEF ToolCompletes, Batch
  <2> QED
    BY <1>0, <2>0, <2>1 DEF ProgressInv, InBatch
<1>9. ASSUME NothingToRun PROVE ProgressInv'
  BY <1>0, <1>9 DEF NothingToRun, ProgressInv, InBatch
<1>10. ASSUME EmitToolResult PROVE ProgressInv'
  <2>0. /\ pc = "results" /\ UNCHANGED <<turns, aborted, disturbed>> /\ InBatch
        /\ pc' = IF batch.exec # "parallel" THEN "afterCall"
                 ELSE IF batch.emitted + 1 = Cardinality(Done) THEN "batchEnd" ELSE pc
    BY <1>10 DEF EmitToolResult, InBatch
  <2>1. /\ batch'.emitted = batch.emitted + 1 /\ batch'.exec = batch.exec
        /\ batch'.next = batch.next /\ batch'.calls = batch.calls
    BY <1>0, <1>10 DEF EmitToolResult, Batch
  <2>2. Done' = Done
    BY <2>1 DEF Done
  <2>3. CASE batch.exec # "parallel"
    <3>1. pc' = "afterCall"
      BY <2>0, <2>3
    <3>2. batch'.emitted = batch'.next
      <4>1. batch.emitted = batch.next - 1
        BY <2>0, <2>3 DEF ProgressInv
      <4> QED
        BY <1>0, <2>1, <4>1
    <3>3. Len(batch'.calls) >= 1 /\ (aborted' => turns' \in disturbed')
      BY <2>0, <2>1 DEF ProgressInv
    <3> QED
      BY <2>1, <2>3, <3>1, <3>2, <3>3 DEF ProgressInv
  <2>4. CASE batch.exec = "parallel"
    <3>1. pc' \in {"batchEnd", "results"} /\ (pc' = "batchEnd" => batch.emitted + 1 = Cardinality(Done))
      BY <2>0, <2>4
    <3> QED
      BY <1>0, <2>0, <2>1, <2>2, <2>4, <3>1 DEF ProgressInv, InBatch
  <2> QED
    BY <2>3, <2>4
<1>11. CASE Orphan \/ UNCHANGED vars
  BY <1>2, <1>11 DEF Orphan, OrphanCompletes, vars
<1> QED
  BY <1>3, <1>4, <1>5, <1>6, <1>7, <1>8, <1>9, <1>10, <1>11 DEF Next, Loop

(* A batch that ends in an undisturbed turn has emitted a result for every
   call. *)
LEMMA BatchComplete ==
  ASSUME TypeOK, BatchInv, ProgressInv, pc = "batchEnd", turns \notin disturbed
  PROVE  batch.emitted = Len(batch.calls)
<1>0. batch.calls \in Seq(CallStates) /\ Len(batch.calls) \in Nat /\ DOMAIN batch.calls = 1..Len(batch.calls)
  BY DEF TypeOK, Batch
<1>1. CASE batch.exec # "parallel"
  BY <1>1 DEF ProgressInv, InBatch
<1>2. CASE batch.exec = "parallel"
  <2>1. batch.next = Len(batch.calls) /\ batch.emitted = Cardinality(Done)
    BY <1>2 DEF ProgressInv, InBatch
  <2>2. ASSUME NEW k \in 1..Len(batch.calls) PROVE batch.calls[k] = "done"
    <3>1. batch.calls[k] \in CallStates
      BY <1>0
    <3>2. batch.calls[k] # "todo"
      BY <1>0, <1>2, <2>1 DEF ProgressInv, InBatch
    <3>3. batch.calls[k] # "running" /\ batch.calls[k] # "ready"
      BY <1>0 DEF BatchInv
    <3> QED
      BY <3>1, <3>2, <3>3 DEF CallStates
  <2>3. Done = 1..Len(batch.calls)
    BY <1>0, <2>2 DEF Done
  <2>4. Cardinality(1..Len(batch.calls)) = Len(batch.calls)
    BY <1>0, FS_Interval
  <2> QED
    BY <2>1, <2>3, <2>4
<1> QED
  BY <1>1, <1>2

AnsweredInv == BatchInv /\ ProgressInv /\ ResultsInv /\ CallsAnswered

(* Every step keeps undisturbed turns answered. *)
LEMMA AnsweredStep == TypeOK /\ AnsweredInv /\ [Next]_vars => CallsAnswered'
<1> SUFFICES ASSUME TypeOK, AnsweredInv, [Next]_vars PROVE CallsAnswered'
  OBVIOUS
<1> USE DEF agentVars, loopVars, envVars
<1>0. /\ messages \in Seq(Message) /\ Len(messages) \in Nat /\ DOMAIN messages = 1..Len(messages)
      /\ turns \in Nat /\ batch \in Batch /\ batch.emitted \in Nat
      /\ pending \in Seq(UserMsgs) /\ CallsAnswered
  BY DEF TypeOK, Batch, AnsweredInv
<1>1. ASSUME UNCHANGED messages, disturbed \subseteq disturbed',
             InBatch => turns' = turns /\ (InBatch' \/ turns \in disturbed')
      PROVE  CallsAnswered'
  BY <1>0, <1>1 DEF CallsAnswered
<1>2. ASSUME NEW m \in Message, messages' = Append(messages, m), disturbed \subseteq disturbed',
             InBatch => turns' = turns /\ InBatch',
             m.role = "assistant" /\ m.stop \in {"stop", "length"} =>
               (m.turn = turns' /\ InBatch') \/ m.calls = 0
      PROVE  CallsAnswered'
  <2>1. /\ DOMAIN messages' = 1..Len(messages) + 1 /\ Len(messages') = Len(messages) + 1
        /\ \A i \in 1..Len(messages) : messages'[i] = messages[i]
        /\ messages'[Len(messages) + 1] = m
    BY <1>0, <1>2
  <2>2. ASSUME NEW i \in DOMAIN messages', messages'[i].role = "assistant",
               messages'[i].stop \in {"stop", "length"}
        PROVE  \/ messages'[i].turn \in disturbed'
               \/ messages'[i].turn = turns' /\ InBatch'
               \/ /\ i + messages'[i].calls <= Len(messages')
                  /\ \A k \in 1..messages'[i].calls : messages'[i + k] = ToolResult(messages'[i].turn, k)
    <3>1. CASE i \in 1..Len(messages)
      <4>1. messages'[i] = messages[i]
        BY <2>1, <3>1
      <4>2. messages[i].calls \in Nat
        BY <1>0, <2>2, <3>1, <4>1 DEF Message
      <4>3. \/ messages[i].turn \in disturbed
            \/ messages[i].turn = turns /\ InBatch
            \/ /\ i + messages[i].calls <= Len(messages)
               /\ \A k \in 1..messages[i].calls : messages[i + k] = ToolResult(messages[i].turn, k)
        BY <1>0, <2>2, <3>1, <4>1 DEF CallsAnswered
      <4>4. CASE /\ i + messages[i].calls <= Len(messages)
                 /\ \A k \in 1..messages[i].calls : messages[i + k] = ToolResult(messages[i].turn, k)
        <5>1. \A k \in 1..messages[i].calls : i + k \in 1..Len(messages)
          BY <1>0, <3>1, <4>2, <4>4
        <5> QED
          BY <1>0, <2>1, <3>1, <4>1, <4>2, <4>4, <5>1
      <4> QED
        BY <1>2, <4>1, <4>3, <4>4
    <3>2. CASE i = Len(messages) + 1
      <4>1. messages'[i] = m
        BY <2>1, <3>2
      <4> QED
        BY <1>0, <1>2, <2>1, <2>2, <3>2, <4>1
    <3> QED
      BY <1>0, <2>1, <2>2, <3>1, <3>2
  <2> QED
    BY <2>2 DEF CallsAnswered
<1>3. CASE Host
  <2>1. ASSUME Reset PROVE CallsAnswered'
    BY <2>1 DEF Reset, CallsAnswered
  <2>2. ASSUME \/ \E u \in UserMsgs : Prompt(u)
               \/ ContinueWithSteering \/ ContinueWithFollowUp \/ ContinueTranscript
        PROVE  CallsAnswered'
    <3>1. UNCHANGED <<messages, disturbed>> /\ ~InBatch
      BY <2>2 DEF Prompt, ContinueWithSteering, ContinueWithFollowUp, ContinueTranscript, StartRun, InBatch
    <3> QED
      BY <1>1, <3>1
  <2>3. ASSUME \/ \E u \in UserMsgs : Steer(u) \/ FollowUp(u)
               \/ ClearSteeringQueue \/ ClearFollowUpQueue \/ Abort
               \/ \E m \in [steering : Modes, followUp : Modes] : SetMode(m)
        PROVE  CallsAnswered'
    <3>1. UNCHANGED <<pc, messages, turns>> /\ disturbed \subseteq disturbed'
      BY <2>3 DEF Steer, FollowUp, ClearSteeringQueue, ClearFollowUpQueue, Abort, SetMode
    <3> QED
      BY <1>1, <3>1 DEF InBatch
  <2> QED
    BY <1>3, <2>1, <2>2, <2>3 DEF Host
<1>4. ASSUME EmitPrompt \/ InjectPending PROVE CallsAnswered'
  <2>1. /\ User(Head(pending)) \in Message /\ User(Head(pending)).role = "user"
    BY <1>0, <1>4, MessageTypes DEF EmitPrompt, InjectPending, User
  <2>2. messages' = Append(messages, User(Head(pending))) /\ UNCHANGED <<turns, disturbed>> /\ ~InBatch
    BY <1>4 DEF EmitPrompt, InjectPending, InBatch
  <2> QED
    BY <1>2, <2>1, <2>2
<1>5. ASSUME \/ InitialPoll \/ RequestAssistant \/ PollSteering \/ PollFollowUp \/ EmitAgentEnd
             \/ FinishRun \/ \E stop \in BOOLEAN : EndTurn(stop)
      PROVE  CallsAnswered'
  <2>1. UNCHANGED <<messages, turns, disturbed>> /\ ~InBatch
    BY <1>5 DEF InitialPoll, RequestAssistant, PollSteering, PollFollowUp, EmitAgentEnd, FinishRun, EndTurn, InBatch
  <2> QED
    BY <1>1, <2>1
<1>6. ASSUME NEW m \in Responses, NEW exec \in Executions, ReceiveAssistant(m, exec) PROVE CallsAnswered'
  <2>1. m \in Message
    BY ResponseTypes
  <2>2. m.turn = turns + 1
    BY DEF Responses, Assistant
  <2>3. messages' = Append(messages, m) /\ turns' = turns + 1 /\ disturbed \subseteq disturbed' /\ ~InBatch
    BY <1>6 DEF ReceiveAssistant, InBatch
  <2>4. m.stop \in {"stop", "length"} => InBatch' \/ m.calls = 0
    BY <1>6 DEF ReceiveAssistant, InBatch
  <2> QED
    BY <1>2, <2>1, <2>2, <2>3, <2>4
<1>7. ASSUME \/ PrepareCall \/ AfterCall \/ NothingToRun
             \/ \E k \in 1..MaxCalls, terminate \in BOOLEAN : ToolCompletes(k, terminate)
      PROVE  CallsAnswered'
  <2>1. UNCHANGED <<messages, turns, disturbed>> /\ InBatch'
    BY <1>7, BatchFixed
  <2> QED
    BY <1>1, <2>1
<1>8. ASSUME EmitToolResult PROVE CallsAnswered'
  <2> DEFINE r == ToolResult(turns, batch.emitted + 1)
  <2>1. messages' = Append(messages, r) /\ UNCHANGED <<turns, disturbed>> /\ InBatch'
    BY <1>8 DEF EmitToolResult, NextResult, InBatch
  <2>2. r \in Message /\ r.role = "toolResult"
    BY <1>0, MessageTypes DEF ToolResult
  <2> QED
    BY <1>2, <2>1, <2>2
<1>9. ASSUME FinishBatch PROVE CallsAnswered'
  <2>1. UNCHANGED <<messages, turns, disturbed>> /\ InBatch /\ pc = "batchEnd"
    BY <1>9 DEF FinishBatch, InBatch
  <2>2. turns \notin disturbed => batch.emitted = Len(batch.calls)
    BY <2>1, BatchComplete DEF AnsweredInv
  <2>3. /\ First \in DOMAIN messages /\ Batched(messages[First])
        /\ \A k \in 1..batch.emitted : messages[First + k] = ToolResult(turns, k)
    BY <2>1 DEF AnsweredInv, ResultsInv, TailInv
  <2>4. ASSUME NEW i \in DOMAIN messages, messages[i].role = "assistant",
               messages[i].turn = turns, turns \notin disturbed
        PROVE  /\ i + messages[i].calls <= Len(messages)
               /\ \A k \in 1..messages[i].calls : messages[i + k] = ToolResult(messages[i].turn, k)
    <3>1. i = First
      BY <1>0, <2>1, <2>4 DEF AnsweredInv, ResultsInv, TurnInv
    <3>2. messages[i].calls = batch.emitted /\ First + batch.emitted = Len(messages)
      BY <1>0, <2>2, <2>3, <2>4, <3>1 DEF Batched, First
    <3> QED
      BY <1>0, <2>3, <2>4, <3>1, <3>2
  <2> QED
    BY <1>0, <2>1, <2>4 DEF CallsAnswered
<1>10. ASSUME NEW pushed \in BOOLEAN, HandleRunFailure(pushed) PROVE CallsAnswered'
  <2>1. ~InBatch /\ disturbed' = disturbed
    BY <1>10 DEF HandleRunFailure, InBatch
  <2>2. CASE pushed
    <3> DEFINE m == Assistant(turns + 1, 0, IF aborted THEN "aborted" ELSE "error")
    <3>0. m \in Message
      BY <1>0, MessageTypes DEF StopReasons
    <3>1. m.calls = 0
      BY DEF Assistant
    <3>2. messages' = Append(messages, m)
      BY <1>10, <2>2 DEF HandleRunFailure
    <3> QED
      BY <1>2, <2>1, <3>0, <3>1, <3>2
  <2>3. CASE ~pushed
    BY <1>1, <1>10, <2>1, <2>3 DEF HandleRunFailure
  <2> QED
    BY <2>2, <2>3
<1>11. ASSUME Throws PROVE CallsAnswered'
  BY <1>1, <1>11 DEF Throws, LoopThrows, ToolEventThrows, Fail
<1>12. CASE Orphan \/ UNCHANGED vars
  <2>1. UNCHANGED <<pc, messages, turns, disturbed>>
    BY <1>12 DEF Orphan, OrphanCompletes, vars
  <2> QED
    BY <1>1, <2>1 DEF InBatch
<1> QED
  BY <1>3, <1>4, <1>5, <1>6, <1>7, <1>8, <1>9, <1>10, <1>11, <1>12 DEF Next, Loop

(* A turn that was neither aborted nor failed leaves no tool call unanswered:
   sequential, parallel and truncated batches emit one result per call. *)
THEOREM AllCallsAnswered == Spec => []CallsAnswered
<1>1. Init => CallsInv /\ ResultsInv /\ ProgressInv /\ CallsAnswered
  BY NoBatchType DEF Init, CallsInv, BatchInv, OrphanInv, PendingCallsExact, InBatch, ResultsInv, TailInv, TurnInv,
                     ResultsInSourceOrder, ProgressInv, CallsAnswered
<1>2. TypeOK /\ (CallsInv /\ ResultsInv /\ ProgressInv /\ CallsAnswered) /\ [Next]_vars
      => (CallsInv /\ ResultsInv /\ ProgressInv /\ CallsAnswered)'
  BY CallsStep, ResultsStep, ProgressStep, AnsweredStep DEF AnsweredInv, CallsInv
<1> QED
  BY <1>1, <1>2, TypeCorrect, PTL DEF Spec
=============================================================================
