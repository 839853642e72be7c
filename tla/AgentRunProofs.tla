--------------------------- MODULE AgentRunProofs ---------------------------
(***************************************************************************)
(* Proofs about AgentRun, for any set of messages and any bounds: its      *)
(* types, the rules of a run and its tool calls, and the way of every      *)
(* message from the host to the transcript.                                *)
(***************************************************************************)
EXTENDS AgentRun, TLAPS

(* The messages that the Agent and the loop build are messages. *)
LEMMA MessageTypes ==
  /\ \A u \in UserMsgs : User(u) \in Message
  /\ \A t, n \in Nat, s \in StopReasons : Assistant(t, n, s) \in Message
  /\ \A t, k \in Nat : ToolResult(t, k) \in Message
BY DEF Message, User, Assistant, ToolResult

(* The user messages of a transcript are messages that the host may submit. *)
LEMMA UserIds ==
  ASSUME NEW s \in Seq(Message)
  PROVE  UsersIn(s) \subseteq UserMsgs
<1>1. \A m \in Message : m.role = "user" => m.id \in UserMsgs
  BY DEF Message
<1>2. Range(s) \subseteq Message
  BY DEF Range
<1> QED
  BY <1>1, <1>2 DEF UsersIn, IsRole

(* The elements of a typed sequence have its type. *)
LEMMA RangeType ==
  ASSUME NEW S, NEW q \in Seq(S)
  PROVE  Range(q) \subseteq S
BY DEF Range

(* PendingMessageQueue.drain splits a queue into two queues. *)
LEMMA QueueTypes ==
  ASSUME NEW q \in Seq(UserMsgs), NEW m
  PROVE  /\ Drained(q, m) \in Seq(UserMsgs)
         /\ Rest(q, m) \in Seq(UserMsgs)
         /\ Users(q) \in Seq(Message)
<1>1. q # <<>> => Head(q) \in UserMsgs /\ Tail(q) \in Seq(UserMsgs)
  OBVIOUS
<1>2. Users(q) \in Seq(Message)
  <2>1. \A i \in 1..Len(q) : User(q[i]) \in Message
    BY MessageTypes
  <2> QED
    BY <2>1 DEF Users
<1> QED
  BY <1>1, <1>2 DEF Drained, Rest

(* What a provider answers is an assistant message of the next turn. *)
LEMMA ResponseTypes ==
  ASSUME TypeOK, NEW m \in Responses
  PROVE  m \in Message /\ m.calls \in Nat /\ m.stop \in StopReasons /\ m.role = "assistant"
<1>1. turns + 1 \in Nat /\ MaxCalls \in Nat
  BY BoundsAssumption DEF TypeOK
<1>2. PICK n \in Nat, s \in StopReasons : m = Assistant(turns + 1, n, s)
  BY <1>1 DEF Responses, StopReasons
<1> QED
  BY <1>1, <1>2, MessageTypes DEF Assistant

(* A function on an initial segment of the naturals is a sequence. *)
LEMMA FunctionIsSeq ==
  ASSUME NEW S, NEW n \in Nat, NEW g, DOMAIN g = 1..n, \A i \in 1..n : g[i] \in S,
         g = [i \in 1..n |-> g[i]]
  PROVE  g \in Seq(S) /\ Len(g) = n
OBVIOUS

(* The batch of a turn without tool calls. *)
LEMMA NoBatchType == NoBatch \in Batch /\ NoBatch.calls = <<>>
BY DEF NoBatch, Batch, Executions

(* The updates that the batch loops make keep a batch, its position and its
   length. *)
LEMMA CallUpdate ==
  ASSUME TypeOK, NEW k \in Nat, NEW c \in CallStates, NEW T \in SUBSET Nat,
         batch' = [batch EXCEPT !.calls[k] = c, !.term = T] \/ batch' = [batch EXCEPT !.calls[k] = c]
  PROVE  batch' \in Batch /\ (batch'.calls = <<>> \/ batch'.next <= Len(batch'.calls))
<1>1. batch \in Batch /\ batch.calls \in Seq(CallStates)
  BY DEF TypeOK, Batch
<1>2. batch'.calls = [batch.calls EXCEPT ![k] = c] /\ batch'.next = batch.next
  BY <1>1 DEF Batch
<1>3. batch'.calls \in Seq(CallStates) /\ Len(batch'.calls) = Len(batch.calls)
  <2>1. /\ DOMAIN (batch'.calls) = 1..Len(batch.calls) /\ Len(batch.calls) \in Nat
        /\ \A i \in 1..Len(batch.calls) : batch'.calls[i] \in CallStates
    BY <1>1, <1>2
  <2>2. batch'.calls = [i \in 1..Len(batch.calls) |-> batch'.calls[i]]
    BY <1>2, <2>1
  <2> QED
    BY ONLY <2>1, <2>2, FunctionIsSeq
<1>4. batch' \in Batch
  BY <1>1, <1>2, <1>3 DEF Batch
<1>5. batch.calls = <<>> => Len(batch'.calls) = 0
  BY <1>3
<1>6. batch'.calls = <<>> \/ batch'.next <= Len(batch'.calls)
  BY <1>2, <1>3, <1>5 DEF TypeOK
<1> QED
  BY <1>4, <1>6

(* Moving on to the next call of a batch keeps it a batch. *)
LEMMA NextUpdate ==
  ASSUME batch \in Batch, batch' = [batch EXCEPT !.next = @ + 1]
  PROVE  batch' \in Batch /\ batch'.next = batch.next + 1 /\ batch'.calls = batch.calls
BY DEF Batch

(* Emitting one more result message keeps a batch a batch. *)
LEMMA EmittedUpdate ==
  ASSUME batch \in Batch, batch' = [batch EXCEPT !.emitted = @ + 1]
  PROVE  batch' \in Batch /\ batch'.next = batch.next /\ batch'.calls = batch.calls
BY DEF Batch

(* Every step of the host keeps every variable in its type. *)
LEMMA HostTypes == TypeOK /\ Host => TypeOK'
<1> SUFFICES ASSUME TypeOK, Host PROVE TypeOK'
  OBVIOUS
<1> USE DEF agentVars, loopVars, envVars
<1>1. ASSUME NEW u \in UserMsgs, Steer(u) PROVE TypeOK'
  BY <1>1 DEF TypeOK, Steer, Submit, Submission
<1>2. ASSUME NEW u \in UserMsgs, FollowUp(u) PROVE TypeOK'
  BY <1>2 DEF TypeOK, FollowUp, Submit, Submission
<1>3. ASSUME ClearSteeringQueue PROVE TypeOK'
  BY <1>3, RangeType DEF TypeOK, ClearSteeringQueue
<1>4. ASSUME ClearFollowUpQueue PROVE TypeOK'
  BY <1>4, RangeType DEF TypeOK, ClearFollowUpQueue
<1>5. ASSUME NEW m \in [steering : Modes, followUp : Modes], SetMode(m) PROVE TypeOK'
  BY <1>5 DEF TypeOK, SetMode
<1>6. ASSUME Abort PROVE TypeOK'
  BY <1>6 DEF TypeOK, Abort
<1>7. ASSUME Reset PROVE TypeOK'
  BY <1>7, RangeType, UserIds DEF TypeOK, Reset
<1>8. ASSUME NEW prompts \in Seq(UserMsgs), NEW skip \in BOOLEAN, NEW first \in PCs,
             StartRun(prompts, skip, first),
             steering' \in Seq(UserMsgs), followUp' \in Seq(UserMsgs), sent' \in Seq(Submission)
      PROVE  TypeOK'
  <2>1. context' \in Seq(Message)
    <3>1. messages \in Seq(Message) /\ Users(prompts) \in Seq(Message)
      BY QueueTypes DEF TypeOK
    <3>2. messages \o Users(prompts) \in Seq(Message)
      BY <3>1
    <3> QED
      BY <1>8, <3>2 DEF StartRun
  <2> QED
    BY <1>8, <2>1, NoBatchType DEF TypeOK, StartRun
<1>9. "prompts" \in PCs /\ "initialPoll" \in PCs
  BY DEF PCs
<1>10. ASSUME NEW u \in UserMsgs, Prompt(u) PROVE TypeOK'
  <2>1. <<u>> \in Seq(UserMsgs) /\ sent' \in Seq(Submission)
    BY <1>10 DEF TypeOK, Prompt, Submit, Submission
  <2> QED
    BY <1>8, <1>9, <1>10, <2>1 DEF TypeOK, Prompt
<1>11. ASSUME ContinueWithSteering PROVE TypeOK'
  BY <1>8, <1>9, <1>11, QueueTypes DEF TypeOK, ContinueWithSteering
<1>12. ASSUME ContinueWithFollowUp PROVE TypeOK'
  BY <1>8, <1>9, <1>12, QueueTypes DEF TypeOK, ContinueWithFollowUp
<1>13. ASSUME ContinueTranscript PROVE TypeOK'
  <2>1. <<>> \in Seq(UserMsgs)
    OBVIOUS
  <2> QED
    BY <1>8, <1>9, <1>13, <2>1 DEF TypeOK, ContinueTranscript
<1> QED
  BY <1>1, <1>2, <1>3, <1>4, <1>5, <1>6, <1>7, <1>10, <1>11, <1>12, <1>13 DEF Host

(* Every step of the loop keeps every variable in its type. *)
LEMMA LoopTypes == TypeOK /\ Loop => TypeOK'
<1> SUFFICES ASSUME TypeOK, Loop PROVE TypeOK'
  OBVIOUS
<1> USE DEF agentVars, loopVars, envVars
<1>0. /\ batch \in Batch /\ batch.next \in Nat /\ batch.term \in SUBSET Nat /\ turns \in Nat
      /\ batch.calls \in Seq(CallStates) /\ batch.emitted \in Nat
      /\ NoBatch \in Batch /\ NoBatch.calls = <<>>
  BY NoBatchType DEF TypeOK, Batch
<1>1. ASSUME EmitPrompt PROVE TypeOK'
  <2>1. Head(pending) \in UserMsgs /\ Tail(pending) \in Seq(UserMsgs)
    BY <1>1 DEF TypeOK, EmitPrompt
  <2> QED
    BY <1>1, <2>1, MessageTypes DEF TypeOK, EmitPrompt, PCs
<1>2. ASSUME InitialPoll PROVE TypeOK'
  <2>1. pending' \in Seq(UserMsgs) /\ steering' \in Seq(UserMsgs)
    BY <1>2, QueueTypes DEF TypeOK, InitialPoll
  <2> QED
    BY <1>2, <2>1 DEF TypeOK, InitialPoll, PCs
<1>3. ASSUME InjectPending PROVE TypeOK'
  <2>1. Head(pending) \in UserMsgs /\ Tail(pending) \in Seq(UserMsgs)
    BY <1>3 DEF TypeOK, InjectPending
  <2> QED
    BY <1>3, <2>1, MessageTypes DEF TypeOK, InjectPending
<1>4. ASSUME RequestAssistant PROVE TypeOK'
  BY <1>4 DEF TypeOK, RequestAssistant, PCs
<1>5. ASSUME NEW m \in Responses, NEW exec \in Executions, ReceiveAssistant(m, exec) PROVE TypeOK'
  <2>1. m \in Message /\ m.calls \in Nat
    BY ResponseTypes
  <2>2. [k \in 1..m.calls |-> "todo"] \in Seq(CallStates)
    BY <2>1 DEF CallStates
  <2>3. [NoBatch EXCEPT !.exec = exec, !.calls = [k \in 1..m.calls |-> "todo"]] \in Batch
    BY <1>0, <2>2 DEF Batch
  <2>4. batch' \in Batch /\ (batch'.calls = <<>> \/ batch'.next <= Len(batch'.calls))
    <3>1. CASE batch' = NoBatch
      BY <1>0, <3>1
    <3>2. CASE batch' = [NoBatch EXCEPT !.exec = exec, !.calls = [k \in 1..m.calls |-> "todo"]]
               /\ m.calls # 0
      <4>1. batch'.next = 1 /\ batch'.calls = [k \in 1..m.calls |-> "todo"]
        BY <3>2 DEF NoBatch
      <4>2. Len(batch'.calls) = m.calls
        BY <2>1, <4>1
      <4> QED
        BY <2>1, <2>3, <3>2, <4>1, <4>2
    <3> QED
      BY <1>5, <3>1, <3>2 DEF ReceiveAssistant
  <2>5. pc' \in PCs
    BY <1>5 DEF ReceiveAssistant, PCs
  <2>6. messages' \in Seq(Message) /\ context' \in Seq(Message)
    BY <1>5, <2>1 DEF TypeOK, ReceiveAssistant
  <2>7. turns' \in Nat /\ sinceAbort' \in Nat /\ disturbed' \subseteq Nat /\ hasMore' \in BOOLEAN
    <3>1. /\ turns' = turns + 1
          /\ hasMore' = FALSE
          /\ sinceAbort' = IF aborted THEN sinceAbort + 1 ELSE 0
          /\ disturbed' = IF aborted THEN disturbed \cup {turns + 1} ELSE disturbed
      BY <1>5 DEF ReceiveAssistant
    <3>2. turns \in Nat /\ sinceAbort \in Nat /\ disturbed \subseteq Nat
      BY DEF TypeOK
    <3>3. turns' \in Nat
      BY <3>1, <3>2
    <3>6. hasMore' \in BOOLEAN
      BY <3>1, Zenon
    <3>4. sinceAbort' \in Nat
      BY <3>1, <3>2
    <3>5. disturbed' \subseteq Nat
      BY <3>1, <3>2
    <3> QED
      BY <3>3, <3>4, <3>5, <3>6
  <2>8. UNCHANGED <<aborted, pendingToolCalls, steering, followUp, mode,
                    pending, skipPoll, doomed, orphans, failures, sent, gone>>
    BY <1>5 DEF ReceiveAssistant
  <2> QED
    BY <2>4, <2>5, <2>6, <2>7, <2>8 DEF TypeOK
<1>6. ASSUME PrepareCall PROVE TypeOK'
  <2>0. CallId(batch.next) \in Nat \X Nat
    BY <1>0 DEF CallId
  <2>1. ASSUME NEW terminate \in BOOLEAN, Immediate(batch.next, terminate)
        PROVE  batch' \in Batch /\ (batch'.calls = <<>> \/ batch'.next <= Len(batch'.calls)) /\ pc' \in PCs
    <3>1. PICK T \in SUBSET Nat : batch' = [batch EXCEPT !.calls[batch.next] = "done", !.term = T]
      BY <1>0, <2>1 DEF Immediate
    <3>2. "done" \in CallStates
      BY DEF CallStates
    <3> QED
      BY <1>0, <2>1, <3>1, <3>2, CallUpdate DEF Immediate, PCs
  <2>2. ASSUME Prepared(batch.next)
        PROVE  batch' \in Batch /\ (batch'.calls = <<>> \/ batch'.next <= Len(batch'.calls)) /\ pc' \in PCs
    <3>1. PICK c \in CallStates : batch' = [batch EXCEPT !.calls[batch.next] = c]
      BY <2>2 DEF Prepared, CallStates
    <3> QED
      BY <1>0, <2>2, <3>1, CallUpdate DEF Prepared, PCs
  <2> QED
    BY <1>6, <2>0, <2>1, <2>2 DEF TypeOK, PrepareCall, Immediate, Prepared
<1>7. ASSUME AfterCall PROVE TypeOK'
  <2> DEFINE C == [k \in DOMAIN batch.calls |->
                     IF batch.calls[k] = "ready" THEN "running" ELSE batch.calls[k]]
  <2>1. C \in Seq(CallStates) /\ Len(C) = Len(batch.calls)
    BY <1>0 DEF CallStates
  <2> HIDE DEF C
  <2>2. CASE MoreCalls
    <3>1. batch' = [batch EXCEPT !.next = @ + 1] /\ pc' = "prepare" /\ batch.next < Len(batch.calls)
      BY <1>7, <2>2 DEF AfterCall, MoreCalls
    <3>2. batch' \in Batch /\ batch'.next = batch.next + 1 /\ batch'.calls = batch.calls
      BY <1>0, <3>1, NextUpdate
    <3>3. batch' \in Batch /\ batch'.next <= Len(batch'.calls)
      BY <1>0, <3>1, <3>2
    <3> QED
      BY <1>7, <3>1, <3>3 DEF TypeOK, AfterCall, PCs
  <2>3. CASE ~MoreCalls
    <3>1. batch' = [batch EXCEPT !.calls = C] /\ pc' \in PCs
      BY <1>7, <2>3 DEF AfterCall, C, PCs
    <3>2. batch' \in Batch /\ batch'.next = batch.next /\ batch'.calls = C
      BY <1>0, <2>1, <3>1 DEF Batch
    <3>3. batch'.calls = <<>> \/ batch'.next <= Len(batch'.calls)
      <4>1. batch.calls = <<>> => Len(C) = 0
        BY <2>1
      <4> QED
        BY <1>0, <2>1, <3>2, <4>1 DEF TypeOK
    <3> QED
      BY <1>7, <3>1, <3>2, <3>3 DEF TypeOK, AfterCall
  <2> QED
    BY <2>2, <2>3
<1>8. ASSUME NEW k \in 1..MaxCalls, NEW terminate \in BOOLEAN, ToolCompletes(k, terminate) PROVE TypeOK'
  <2>2. "done" \in CallStates /\ k \in Nat
    BY BoundsAssumption DEF CallStates
  <2>1. PICK T \in SUBSET Nat : batch' = [batch EXCEPT !.calls[k] = "done", !.term = T]
    BY <1>0, <1>8, <2>2 DEF ToolCompletes
  <2>3. batch' \in Batch /\ (batch'.calls = <<>> \/ batch'.next <= Len(batch'.calls))
    BY <2>1, <2>2, CallUpdate
  <2> QED
    BY <1>8, <2>3 DEF TypeOK, ToolCompletes, PCs
<1>9. ASSUME NothingToRun PROVE TypeOK'
  BY <1>9 DEF TypeOK, NothingToRun, PCs
<1>10. ASSUME EmitToolResult PROVE TypeOK'
  <2>1. ToolResult(turns, NextResult) \in Message
    BY <1>0, MessageTypes DEF NextResult
  <2>2. batch' \in Batch /\ batch'.next = batch.next /\ batch'.calls = batch.calls
    BY <1>0, <1>10, EmittedUpdate DEF EmitToolResult
  <2>3. pc' \in PCs
    BY <1>10 DEF EmitToolResult, PCs, TypeOK
  <2> QED
    BY <1>10, <2>1, <2>2, <2>3 DEF TypeOK, EmitToolResult
<1>11. ASSUME FinishBatch PROVE TypeOK'
  <2>1. BatchResults \in Seq(Message)
    BY <1>0, MessageTypes DEF BatchResults
  <2>2. context \o BatchResults \in Seq(Message)
    BY <2>1 DEF TypeOK
  <2>3. hasMore' \in BOOLEAN
    BY <1>11 DEF FinishBatch
  <2> QED
    BY <1>0, <1>11, <2>2, <2>3 DEF TypeOK, FinishBatch, PCs
<1>12. ASSUME NEW stop \in BOOLEAN, EndTurn(stop) PROVE TypeOK'
  BY <1>12 DEF TypeOK, EndTurn, PCs
<1>13. ASSUME PollSteering PROVE TypeOK'
  <2>1. pending' \in Seq(UserMsgs) /\ steering' \in Seq(UserMsgs)
    BY <1>13, QueueTypes DEF TypeOK, PollSteering
  <2> QED
    BY <1>13, <2>1 DEF TypeOK, PollSteering, PCs
<1>14. ASSUME PollFollowUp PROVE TypeOK'
  <2>1. pending' \in Seq(UserMsgs) /\ followUp' \in Seq(UserMsgs)
    BY <1>14, QueueTypes DEF TypeOK, PollFollowUp
  <2> QED
    BY <1>14, <2>1 DEF TypeOK, PollFollowUp, PCs
<1>15. ASSUME EmitAgentEnd PROVE TypeOK'
  BY <1>15 DEF TypeOK, EmitAgentEnd, PCs
<1>16. ASSUME NEW pushed \in BOOLEAN, HandleRunFailure(pushed) PROVE TypeOK'
  <2>1. Assistant(turns + 1, 0, IF aborted THEN "aborted" ELSE "error") \in Message
    BY <1>0, MessageTypes DEF StopReasons
  <2> QED
    BY <1>16, <2>1 DEF TypeOK, HandleRunFailure, PCs
<1>17. ASSUME FinishRun PROVE TypeOK'
  <2>1. <<>> \in Seq(Message)
    OBVIOUS
  <2> QED
    BY <1>17, <2>1 DEF TypeOK, FinishRun, PCs
<1> QED
  BY <1>1, <1>2, <1>3, <1>4, <1>5, <1>6, <1>7, <1>8, <1>9, <1>10, <1>11, <1>12, <1>13, <1>14, <1>15,
     <1>16, <1>17
  DEF Loop

(* Failures and the tools that outlive them keep every variable in its type. *)
LEMMA ThrowTypes == TypeOK /\ (Throws \/ Orphan) => TypeOK'
<1> SUFFICES ASSUME TypeOK, Throws \/ Orphan PROVE TypeOK'
  OBVIOUS
<1> USE DEF agentVars, loopVars, envVars
<1>a. turns \in Nat /\ pending \in Seq(UserMsgs) /\ batch.calls \in Seq(CallStates)
  BY DEF TypeOK, Batch
<1>0. /\ turns \in Nat /\ Running \subseteq Nat
      /\ <<>> \in Seq(UserMsgs) /\ Range(pending) \subseteq UserMsgs
  BY <1>a, RangeType DEF Running
<1>1. ASSUME NEW left \in SUBSET Nat, Fail(left) PROVE TypeOK'
  <2>1. orphans' \subseteq Nat \X Nat
    <3>1. orphans \subseteq Nat \X Nat
      BY DEF TypeOK
    <3>2. orphans' = orphans \cup {CallId(k) : k \in left}
      BY <1>1 DEF Fail
    <3>3. ASSUME NEW k \in left PROVE CallId(k) \in Nat \X Nat
      BY <1>0, <3>3, Zenon DEF CallId
    <3> QED
      BY <3>1, <3>2, <3>3, Zenon
  <2>2. /\ pending' \in Seq(UserMsgs) /\ gone' \subseteq UserMsgs /\ disturbed' \subseteq Nat
        /\ failures' \in Nat /\ pc' \in PCs
    BY <1>0, <1>1 DEF TypeOK, Fail, PCs
  <2>3. batch' \in Batch /\ batch'.calls = <<>>
    BY <1>1, NoBatchType DEF Fail
  <2> QED
    BY <1>1, <2>1, <2>2, <2>3 DEF TypeOK, Fail
<1>2. ASSUME LoopThrows PROVE TypeOK'
  BY <1>1, <1>2 DEF LoopThrows
<1>3. ASSUME NEW k \in 1..MaxCalls, ToolEventThrows(k) PROVE TypeOK'
  BY <1>0, <1>1, <1>3 DEF ToolEventThrows
<1>4. ASSUME NEW c \in orphans, OrphanCompletes(c) PROVE TypeOK'
  BY <1>4 DEF TypeOK, OrphanCompletes
<1> QED
  BY <1>2, <1>3, <1>4 DEF Throws, Orphan

(* A fresh Agent is in its type. *)
LEMMA TypeInit == Init => TypeOK
<1> SUFFICES ASSUME Init PROVE TypeOK
  OBVIOUS
<1>1. <<>> \in Seq(Message) /\ <<>> \in Seq(UserMsgs) /\ <<>> \in Seq(Submission)
  OBVIOUS
<1> QED
  BY <1>1, NoBatchType DEF Init, TypeOK, PCs

(* Every step of host, loop, failures and late tools keeps the type
   invariant. *)
LEMMA TypeStep == TypeOK /\ [Next]_vars => TypeOK'
<1>1. TypeOK /\ UNCHANGED vars => TypeOK'
  BY DEF TypeOK, vars, agentVars, loopVars, envVars
<1> QED
  BY <1>1, HostTypes, LoopTypes, ThrowTypes DEF Next

(* The type invariant: the Agent, its loop and its queues hold values of
   their kinds, and the batch loops never step past their last call. *)
THEOREM TypeCorrect == Spec => []TypeOK
BY TypeInit, TypeStep, PTL DEF Spec

-----------------------------------------------------------------------------
(* Abortion. *)

Ended == {"agentEnd", "finish", "failed", "finishFailed"}

(* The inductive invariant: a response received since the abort means that
   the next request carries the dead signal, and such a request is the last. *)
AbortInv ==
  /\ AbortEndsRun
  /\ sinceAbort > 0 => aborted
  /\ sinceAbort > 0 /\ pc = "stream" => doomed
  /\ sinceAbort > 1 => pc \in Ended
  /\ doomed => pc = "stream" \/ pc \in Ended

(* A request made with an aborted signal is answered "aborted" and without
   tool calls. *)
LEMMA DoomedResponse ==
  ASSUME TypeOK, doomed, NEW m \in Responses
  PROVE  m.stop = "aborted"
BY DEF Responses, Assistant

(* Every step keeps the count of responses since abort() in line with where
   the run is. *)
LEMMA AbortStep == TypeOK /\ AbortInv /\ [Next]_vars => AbortInv'
<1> SUFFICES ASSUME TypeOK, AbortInv, [Next]_vars PROVE AbortInv'
  OBVIOUS
<1> USE DEF agentVars, loopVars, envVars, Ended
<1>0. sinceAbort \in Nat /\ aborted \in BOOLEAN /\ doomed \in BOOLEAN
  BY DEF TypeOK
<1>1. ASSUME UNCHANGED <<pc, aborted, doomed, sinceAbort>> PROVE AbortInv'
  BY <1>1 DEF AbortInv, AbortEndsRun
<1>2. ASSUME pc \notin Ended \cup {"stream"}, pc' # "stream",
             UNCHANGED <<aborted, doomed, sinceAbort>>
      PROVE  AbortInv'
  BY <1>0, <1>2 DEF AbortInv, AbortEndsRun
<1>3. ASSUME sinceAbort' = 0, doomed' = FALSE PROVE AbortInv'
  BY <1>3 DEF AbortInv, AbortEndsRun
<1>4. ASSUME Abort PROVE AbortInv'
  BY <1>0, <1>4 DEF AbortInv, AbortEndsRun, Abort
<1>5. ASSUME RequestAssistant PROVE AbortInv'
  BY <1>0, <1>5 DEF AbortInv, AbortEndsRun, RequestAssistant
<1>6. ASSUME NEW m \in Responses, NEW exec \in Executions, ReceiveAssistant(m, exec) PROVE AbortInv'
  <2>1. /\ pc = "stream"
        /\ sinceAbort' = IF aborted THEN sinceAbort + 1 ELSE 0
        /\ pc' = IF m.stop \in {"error", "aborted"} THEN "agentEnd"
                 ELSE IF m.calls = 0 THEN "turnEnd" ELSE "prepare"
        /\ aborted' = aborted
        /\ doomed' = doomed
    BY <1>6 DEF ReceiveAssistant
  <2>2. doomed => pc' = "agentEnd"
    BY <2>1, DoomedResponse
  <2> QED
    BY <1>0, <2>1, <2>2 DEF AbortInv, AbortEndsRun
<1>7. ASSUME EmitAgentEnd \/ LoopThrows \/ \E k \in 1..MaxCalls : ToolEventThrows(k) PROVE AbortInv'
  <2>1. pc' \in Ended /\ UNCHANGED <<aborted, doomed, sinceAbort>>
    BY <1>7 DEF EmitAgentEnd, LoopThrows, ToolEventThrows, Fail
  <2> QED
    BY <2>1 DEF AbortInv, AbortEndsRun
<1>8. ASSUME NEW pushed \in BOOLEAN, HandleRunFailure(pushed) PROVE AbortInv'
  BY <1>8 DEF AbortInv, AbortEndsRun, HandleRunFailure
<1>9. CASE Host
  <2>1. ASSUME \/ \E u \in UserMsgs : Prompt(u)
               \/ ContinueWithSteering \/ ContinueWithFollowUp \/ ContinueTranscript
        PROVE  AbortInv'
    <3>1. sinceAbort' = 0 /\ doomed' = FALSE
      BY <2>1 DEF Prompt, ContinueWithSteering, ContinueWithFollowUp, ContinueTranscript, StartRun
    <3> QED
      BY <1>3, <3>1
  <2>2. ASSUME \/ \E u \in UserMsgs : Steer(u) \/ FollowUp(u)
               \/ ClearSteeringQueue \/ ClearFollowUpQueue \/ Reset
               \/ \E m \in [steering : Modes, followUp : Modes] : SetMode(m)
        PROVE  AbortInv'
    <3>1. UNCHANGED <<pc, aborted, doomed, sinceAbort>>
      BY <2>2 DEF Steer, FollowUp, ClearSteeringQueue, ClearFollowUpQueue, Reset, SetMode
    <3> QED
      BY <1>1, <3>1
  <2> QED
    BY <1>4, <1>9, <2>1, <2>2 DEF Host
<1>10. ASSUME EmitPrompt \/ InitialPoll \/ InjectPending \/ NothingToRun \/ EmitToolResult
              \/ FinishBatch \/ PollSteering \/ PollFollowUp
       PROVE  AbortInv'
  <2>1. pc \notin Ended \cup {"stream"} /\ pc' # "stream" /\ UNCHANGED <<aborted, doomed, sinceAbort>>
    BY <1>10 DEF EmitPrompt, InitialPoll, InjectPending, NothingToRun, EmitToolResult, FinishBatch,
                 PollSteering, PollFollowUp
  <2> QED
    BY <1>2, <2>1
<1>11. ASSUME \/ PrepareCall \/ AfterCall
              \/ \E k \in 1..MaxCalls, terminate \in BOOLEAN : ToolCompletes(k, terminate)
              \/ \E stop \in BOOLEAN : EndTurn(stop)
       PROVE  AbortInv'
  <2>1. pc \notin Ended \cup {"stream"} /\ pc' # "stream" /\ UNCHANGED <<aborted, doomed, sinceAbort>>
    BY <1>11 DEF PrepareCall, Immediate, Prepared, AfterCall, ToolCompletes, EndTurn
  <2> QED
    BY <1>2, <2>1
<1>12. ASSUME FinishRun PROVE AbortInv'
  BY <1>3, <1>12 DEF FinishRun
<1>13. CASE Orphan \/ UNCHANGED vars
  BY <1>1, <1>13 DEF Orphan, OrphanCompletes, vars
<1> QED
  BY <1>5, <1>6, <1>7, <1>8, <1>9, <1>10, <1>11, <1>12, <1>13 DEF Next, Loop, Throws

(* abort() ends the run within two responses of the model, whatever the
   transcript, the queues and the tools are. *)
THEOREM AbortIsBounded == Spec => []AbortEndsRun
<1>1. Init => AbortInv
  BY DEF Init, AbortInv, AbortEndsRun
<1>2. AbortInv => AbortEndsRun
  BY DEF AbortInv
<1> QED
  BY <1>1, <1>2, AbortStep, TypeCorrect, PTL DEF Spec

-----------------------------------------------------------------------------
(* Pending tool calls. *)

Started == {j \in DOMAIN batch.calls : batch.calls[j] \in {"ready", "running"}}

(* Calls are started only where the batch loops are, and the calls that
   outlived a failed run belong to an earlier turn than the current one. *)
BatchInv ==
  /\ ~InBatch => batch.calls = <<>>
  /\ pc = "prepare" => batch.next \in DOMAIN batch.calls
  /\ \A k \in DOMAIN batch.calls :
       /\ k > batch.next \/ (k = batch.next /\ pc = "prepare") => batch.calls[k] = "todo"
       /\ batch.calls[k] = "running" => pc = "execute"
       /\ batch.calls[k] = "ready" => pc \in {"prepare", "afterCall"} /\ batch.exec = "parallel"
OrphanInv == \A c \in orphans : c[1] < turns \/ (c[1] = turns /\ pc = "failed")

CallsInv == BatchInv /\ OrphanInv /\ PendingCallsExact

(* Every step keeps pendingToolCalls, the batch and the late tools of failed
   runs apart. *)
LEMMA CallsStep == TypeOK /\ CallsInv /\ [Next]_vars => CallsInv'
<1> SUFFICES ASSUME TypeOK, CallsInv, [Next]_vars PROVE CallsInv'
  OBVIOUS
<1> USE DEF agentVars, loopVars, envVars, InBatch
<1>0. /\ BatchInv /\ OrphanInv /\ turns \in Nat /\ orphans \subseteq Nat \X Nat
      /\ batch \in Batch /\ batch.calls \in Seq(CallStates) /\ batch.next \in Nat
  BY DEF CallsInv, TypeOK, Batch
<1>a. pc \notin {"failed", "finishFailed"} => pendingToolCalls = {<<turns, k>> : k \in Started}
  BY DEF CallsInv, PendingCallsExact, Started, CallId
<1>b. pc \notin {"failed", "finishFailed"} /\ ~InBatch => pendingToolCalls = {}
  BY <1>0, <1>a DEF BatchInv, Started
(* Steps outside a batch. *)
<1>1. ASSUME ~InBatch, ~InBatch', batch'.calls = <<>>, turns' >= turns, turns' \in Nat,
             orphans' = orphans, pc = "failed" => turns' > turns,
             pc' \in {"failed", "finishFailed"} \/ pendingToolCalls' = {}
      PROVE  CallsInv'
  <2>1. BatchInv'
    BY <1>1 DEF BatchInv
  <2>2. OrphanInv'
    BY <1>0, <1>1 DEF OrphanInv
  <2>3. PendingCallsExact'
    BY <1>1 DEF PendingCallsExact
  <2> QED
    BY <2>1, <2>2, <2>3 DEF CallsInv
<1>2. ASSUME UNCHANGED <<pc, batch, turns, orphans, pendingToolCalls>> PROVE CallsInv'
  BY <1>2 DEF CallsInv, BatchInv, OrphanInv, PendingCallsExact, CallId
<1>3. ASSUME Reset PROVE CallsInv'
  <2>1. ~InBatch /\ ~InBatch' /\ batch'.calls = <<>> /\ turns' = turns /\ pc # "failed"
    BY <1>0, <1>3 DEF Reset, BatchInv
  <2> QED
    BY <1>0, <1>1, <1>3, <2>1 DEF Reset
<1>4. ASSUME NEW prompts, NEW skip, NEW first, StartRun(prompts, skip, first),
             first \in {"prompts", "initialPoll"}
      PROVE  CallsInv'
  <2>1. ~InBatch /\ ~InBatch' /\ batch'.calls = <<>> /\ turns' = turns /\ pc # "failed"
    BY <1>4, NoBatchType DEF StartRun
  <2>2. pendingToolCalls' = {} /\ orphans' = orphans
    BY <1>4, <1>b DEF StartRun
  <2> QED
    BY <1>0, <1>1, <2>1, <2>2
<1>5. CASE Host
  <2>1. ASSUME \/ \E u \in UserMsgs : Prompt(u)
               \/ ContinueWithSteering \/ ContinueWithFollowUp \/ ContinueTranscript
        PROVE  CallsInv'
    BY <1>4, <2>1 DEF Prompt, ContinueWithSteering, ContinueWithFollowUp, ContinueTranscript
  <2>2. ASSUME \/ \E u \in UserMsgs : Steer(u) \/ FollowUp(u)
               \/ ClearSteeringQueue \/ ClearFollowUpQueue \/ Abort
               \/ \E m \in [steering : Modes, followUp : Modes] : SetMode(m)
        PROVE  CallsInv'
    <3>1. UNCHANGED <<pc, batch, turns, orphans, pendingToolCalls>>
      BY <2>2 DEF Steer, FollowUp, ClearSteeringQueue, ClearFollowUpQueue, Abort, SetMode
    <3> QED
      BY <1>2, <3>1
  <2> QED
    BY <1>3, <1>5, <2>1, <2>2 DEF Host
<1>6. ASSUME \/ EmitPrompt \/ InitialPoll \/ InjectPending \/ RequestAssistant \/ EmitAgentEnd
             \/ PollSteering \/ PollFollowUp
             \/ \E stop \in BOOLEAN : EndTurn(stop)
      PROVE  CallsInv'
  <2>1. /\ ~InBatch /\ ~InBatch' /\ pc \notin {"failed", "finishFailed"}
        /\ UNCHANGED <<batch, turns, orphans, pendingToolCalls>>
    BY <1>6 DEF EmitPrompt, InitialPoll, InjectPending, RequestAssistant, EmitAgentEnd, PollSteering,
                PollFollowUp, EndTurn
  <2>2. batch'.calls = <<>> /\ pendingToolCalls' = {}
    BY <1>0, <1>b, <2>1 DEF BatchInv
  <2> QED
    BY <1>0, <1>1, <2>1, <2>2
<1>7. ASSUME NEW m \in Responses, NEW exec \in Executions, ReceiveAssistant(m, exec) PROVE CallsInv'
  <2>1. /\ pc = "stream" /\ turns' = turns + 1 /\ orphans' = orphans
        /\ pendingToolCalls' = pendingToolCalls
        /\ m.calls \in Nat
    BY <1>7, ResponseTypes DEF ReceiveAssistant
  <2>2. pendingToolCalls' = {}
    BY <1>b, <2>1
  <2>3. CASE batch' = NoBatch /\ pc' \in {"agentEnd", "turnEnd"}
    BY <1>0, <1>1, <2>1, <2>2, <2>3, NoBatchType
  <2>4. CASE /\ batch' = [NoBatch EXCEPT !.exec = exec, !.calls = [k \in 1..m.calls |-> "todo"]]
             /\ pc' = "prepare" /\ m.calls # 0
    <3>1. batch'.calls = [k \in 1..m.calls |-> "todo"] /\ batch'.next = 1
      BY <2>4 DEF NoBatch
    <3>2. BatchInv'
      BY <2>1, <2>4, <3>1 DEF BatchInv
    <3>3. OrphanInv'
      BY <1>0, <2>1 DEF OrphanInv
    <3>4. PendingCallsExact'
      BY <2>2, <3>1 DEF PendingCallsExact
    <3> QED
      BY <3>2, <3>3, <3>4 DEF CallsInv
  <2> QED
    BY <1>7, <2>3, <2>4 DEF ReceiveAssistant
<1>8. ASSUME NEW pushed \in BOOLEAN, HandleRunFailure(pushed) PROVE CallsInv'
  <2>1. /\ ~InBatch /\ ~InBatch' /\ turns' = turns + 1 /\ orphans' = orphans /\ batch' = batch
        /\ pc' = "finishFailed"
    BY <1>8 DEF HandleRunFailure
  <2>2. batch'.calls = <<>>
    BY <1>0, <2>1 DEF BatchInv
  <2> QED
    BY <1>0, <1>1, <2>1, <2>2
<1>9. ASSUME FinishRun PROVE CallsInv'
  <2>1. /\ ~InBatch /\ ~InBatch' /\ turns' = turns /\ orphans' = orphans /\ batch' = batch
        /\ pc # "failed" /\ pendingToolCalls' = {}
    BY <1>9 DEF FinishRun
  <2>2. batch'.calls = <<>>
    BY <1>0, <2>1 DEF BatchInv
  <2> QED
    BY <1>0, <1>1, <2>1, <2>2
<1>10. ASSUME NEW left \in SUBSET Nat, Fail(left) PROVE CallsInv'
  <2>1. BatchInv' /\ PendingCallsExact'
    BY <1>10, NoBatchType DEF Fail, BatchInv, PendingCallsExact
  <2>2. OrphanInv'
    BY <1>0, <1>10 DEF Fail, OrphanInv, CallId
  <2> QED
    BY <2>1, <2>2 DEF CallsInv
<1>11. ASSUME Throws PROVE CallsInv'
  <2>1. Running \subseteq Nat
    BY <1>0 DEF Running
  <2> QED
    BY <1>10, <1>11, <2>1 DEF Throws, LoopThrows, ToolEventThrows
<1>12. ASSUME NEW c \in orphans, OrphanCompletes(c) PROVE CallsInv'
  <2>1. UNCHANGED <<pc, batch, turns>> /\ orphans' \subseteq orphans
    BY <1>12 DEF OrphanCompletes
  <2>2. BatchInv' /\ OrphanInv'
    BY <1>0, <2>1 DEF BatchInv, OrphanInv
  <2>3. pc \notin {"failed", "finishFailed"} => pendingToolCalls' = pendingToolCalls
    <3>1. pc # "failed" => c[1] < turns
      BY <1>0 DEF OrphanInv
    <3>2. pc \notin {"failed", "finishFailed"} => c \notin pendingToolCalls
      BY <1>0, <1>a, <3>1
    <3> QED
      BY <1>12, <3>2 DEF OrphanCompletes
  <2>4. PendingCallsExact'
    BY <2>1, <2>3 DEF CallsInv, PendingCallsExact, CallId
  <2> QED
    BY <2>2, <2>4 DEF CallsInv
(* Steps of a batch: the calls started are the calls pending. *)
<1>13. ASSUME InBatch, pc' # "failed", turns' = turns, orphans' = orphans, BatchInv',
              pendingToolCalls' = {<<turns, k>> : k \in Started'}
       PROVE  CallsInv'
  <2>1. OrphanInv'
    BY <1>0, <1>13 DEF OrphanInv
  <2>2. PendingCallsExact'
    BY <1>13 DEF PendingCallsExact, Started, CallId
  <2> QED
    BY <1>13, <2>1, <2>2 DEF CallsInv
<1>14. ASSUME PrepareCall PROVE CallsInv'
  <2>0. /\ batch.next \in DOMAIN batch.calls /\ pc = "prepare" /\ batch.calls[batch.next] = "todo"
        /\ turns' = turns /\ orphans' = orphans
    BY <1>0, <1>14 DEF PrepareCall, BatchInv
  <2>1. ASSUME NEW terminate \in BOOLEAN, Immediate(batch.next, terminate) PROVE CallsInv'
    <3>1. /\ batch'.calls = [batch.calls EXCEPT ![batch.next] = "done"]
          /\ batch'.exec = batch.exec /\ batch'.next = batch.next
          /\ pendingToolCalls' = pendingToolCalls
          /\ pc' = IF batch.exec = "parallel" THEN "afterCall" ELSE "results"
      BY <1>0, <2>1 DEF Immediate, Batch
    <3>2. BatchInv'
      BY <1>0, <2>0, <3>1 DEF BatchInv
    <3>3. Started' = Started
      BY <1>0, <2>0, <3>1 DEF Started
    <3> QED
      BY <1>13, <1>a, <2>0, <3>1, <3>2, <3>3
  <2>2. ASSUME Prepared(batch.next) PROVE CallsInv'
    <3>1. PICK c \in {"ready", "running"} :
            /\ batch'.calls = [batch.calls EXCEPT ![batch.next] = c]
            /\ c = "ready" => batch.exec = "parallel" /\ pc' = "afterCall"
            /\ c = "running" => batch.exec # "parallel" /\ pc' = "execute"
      BY <1>0, <2>2 DEF Prepared, Batch
    <3>2. /\ batch'.exec = batch.exec /\ batch'.next = batch.next
          /\ pendingToolCalls' = pendingToolCalls \cup {<<turns, batch.next>>}
      BY <1>0, <2>2 DEF Prepared, Batch, CallId
    <3>3. BatchInv'
      BY <1>0, <2>0, <3>1, <3>2 DEF BatchInv
    <3>4. Started' = Started \cup {batch.next}
      BY <1>0, <2>0, <3>1 DEF Started
    <3>5. pendingToolCalls' = {<<turns, k>> : k \in Started'}
      BY <1>a, <2>0, <3>2, <3>4
    <3> QED
      BY <1>13, <2>0, <3>1, <3>3, <3>5
  <2> QED
    BY <1>14, <2>1, <2>2 DEF PrepareCall
<1>15. ASSUME AfterCall PROVE CallsInv'
  <2>0. /\ pc = "afterCall" /\ turns' = turns /\ orphans' = orphans
        /\ pendingToolCalls' = pendingToolCalls
    BY <1>15 DEF AfterCall
  <2>1. CASE MoreCalls
    <3>1. /\ batch'.calls = batch.calls /\ batch'.next = batch.next + 1 /\ batch'.exec = batch.exec
          /\ pc' = "prepare" /\ batch.next < Len(batch.calls)
      BY <1>0, <1>15, <2>1 DEF AfterCall, MoreCalls, Batch
    <3>2. BatchInv'
      BY <1>0, <2>0, <3>1 DEF BatchInv
    <3>3. Started' = Started
      BY <3>1 DEF Started
    <3> QED
      BY <1>13, <1>a, <2>0, <3>1, <3>2, <3>3
  <2>2. CASE ~MoreCalls
    <3>1. /\ batch'.calls = [k \in DOMAIN batch.calls |->
                               IF batch.calls[k] = "ready" THEN "running" ELSE batch.calls[k]]
          /\ batch'.next = batch.next /\ batch'.exec = batch.exec
          /\ pc' = IF batch.exec = "parallel" THEN "execute" ELSE "batchEnd"
      BY <1>0, <1>15, <2>2 DEF AfterCall, Batch
    <3>2. BatchInv'
      BY <1>0, <2>0, <3>1 DEF BatchInv
    <3>3. Started' = Started
      BY <3>1 DEF Started
    <3> QED
      BY <1>13, <1>a, <2>0, <3>1, <3>2, <3>3
  <2> QED
    BY <2>1, <2>2
<1>16. ASSUME NEW k \in 1..MaxCalls, NEW terminate \in BOOLEAN, ToolCompletes(k, terminate)
       PROVE  CallsInv'
  <2>0. /\ pc = "execute" /\ turns' = turns /\ orphans' = orphans
        /\ k \in DOMAIN batch.calls /\ batch.calls[k] = "running"
        /\ pendingToolCalls' = pendingToolCalls \ {<<turns, k>>}
        /\ pc' = IF Running = {k} THEN "results" ELSE pc
    BY <1>16 DEF ToolCompletes, Running, CallId
  <2>1. /\ batch'.calls = [batch.calls EXCEPT ![k] = "done"]
        /\ batch'.exec = batch.exec /\ batch'.next = batch.next
    BY <1>0, <1>16 DEF ToolCompletes, Batch
  <2>2. BatchInv'
    BY <1>0, <2>0, <2>1 DEF BatchInv, Running
  <2>3. Started' = Started \ {k}
    BY <1>0, <2>0, <2>1 DEF Started
  <2>4. pendingToolCalls' = {<<turns, j>> : j \in Started'}
    BY <1>a, <2>0, <2>3
  <2> QED
    BY <1>13, <2>0, <2>2, <2>4
<1>17. ASSUME NothingToRun \/ EmitToolResult PROVE CallsInv'
  <2>1. /\ turns' = turns /\ orphans' = orphans /\ pendingToolCalls' = pendingToolCalls
        /\ batch'.calls = batch.calls /\ batch'.next = batch.next /\ batch'.exec = batch.exec
        /\ pc \in {"execute", "results"} /\ pc' \in {"results", "afterCall", "batchEnd"}
        /\ pc = "execute" => Running = {}
    BY <1>0, <1>17 DEF NothingToRun, EmitToolResult, Batch
  <2>2. BatchInv'
    BY <1>0, <2>1 DEF BatchInv, Running
  <2>3. Started' = Started
    BY <2>1 DEF Started
  <2> QED
    BY <1>13, <1>a, <2>1, <2>2, <2>3
<1>18. ASSUME FinishBatch PROVE CallsInv'
  <2>1. /\ pc = "batchEnd" /\ pc' = "turnEnd" /\ turns' = turns /\ orphans' = orphans
        /\ pendingToolCalls' = pendingToolCalls /\ batch'.calls = <<>>
    BY <1>18, NoBatchType DEF FinishBatch
  <2>2. Started = {}
    BY <1>0, <2>1 DEF BatchInv, Started
  <2>3. pendingToolCalls' = {} /\ Started' = {}
    BY <1>a, <2>1, <2>2 DEF Started
  <2>4. BatchInv'
    BY <2>1 DEF BatchInv
  <2> QED
    BY <1>13, <2>1, <2>3, <2>4
<1>19. CASE UNCHANGED vars
  BY <1>2, <1>19 DEF vars
<1> QED
  BY <1>5, <1>6, <1>7, <1>8, <1>9, <1>11, <1>12, <1>14, <1>15, <1>16, <1>17, <1>18, <1>19
  DEF Next, Loop, Orphan

(* While a run is active, state.pendingToolCalls is exactly the set of calls
   in flight: late tools of a failed run cannot disturb it, nor can a batch
   that was cut short leave a call behind. *)
THEOREM PendingCalls == Spec => []PendingCallsExact
<1>1. Init => CallsInv
  BY NoBatchType DEF Init, CallsInv, BatchInv, OrphanInv, PendingCallsExact, InBatch
<1>2. CallsInv => PendingCallsExact
  BY DEF CallsInv
<1> QED
  BY <1>1, <1>2, CallsStep, TypeCorrect, PTL DEF Spec

-----------------------------------------------------------------------------
(***************************************************************************)
(* The messages a host hands to the Agent: none is lost or copied on its   *)
(* way from a queue through the loop to the transcript, and none overtakes *)
(* another of its own queue.                                               *)
(***************************************************************************)

(* Elements of sequences. *)

(* The indices and elements of a sequence with one more element. *)
LEMMA AppendAt ==
  ASSUME NEW S, NEW q \in Seq(S), NEW x \in S
  PROVE  /\ Append(q, x) \in Seq(S)
         /\ Len(q) \in Nat /\ DOMAIN q = 1..Len(q) /\ DOMAIN Append(q, x) = 1..Len(q) + 1
         /\ \A i \in 1..Len(q) : Append(q, x)[i] = q[i]
         /\ Append(q, x)[Len(q) + 1] = x
OBVIOUS

(* The elements of a sequence with one more element. *)
LEMMA AppendRange ==
  ASSUME NEW S, NEW q \in Seq(S), NEW x \in S
  PROVE  Range(Append(q, x)) = Range(q) \cup {x}
<1>1. Len(q) + 1 \in 1..Len(q) + 1 /\ \A i \in 1..Len(q) : i \in 1..Len(q) + 1
  BY AppendAt
<1>2. \A i \in 1..Len(q) + 1 : i \in 1..Len(q) \/ i = Len(q) + 1
  BY AppendAt
<1> QED
  BY <1>1, <1>2, AppendAt DEF Range

(* A new element keeps a sequence free of repetitions. *)
LEMMA AppendNoRepeat ==
  ASSUME NEW S, NEW q \in Seq(S), NEW x \in S, IsInjective(q), x \notin Range(q)
  PROVE  IsInjective(Append(q, x))
<1>1. \A i \in 1..Len(q) + 1 : i \in 1..Len(q) \/ i = Len(q) + 1
  BY AppendAt
<1>2. \A i \in 1..Len(q) : q[i] # x
  BY AppendAt DEF Range
<1>3. ASSUME NEW i \in 1..Len(q) + 1, NEW j \in 1..Len(q) + 1, Append(q, x)[i] = Append(q, x)[j] PROVE i = j
  <2>1. CASE i \in 1..Len(q) /\ j \in 1..Len(q)
    <3>1. q[i] = q[j]
      BY <1>3, <2>1, AppendAt
    <3> QED
      BY <2>1, <3>1, AppendAt DEF IsInjective
  <2>2. CASE i \in 1..Len(q) /\ j = Len(q) + 1
    BY <1>2, <1>3, <2>2, AppendAt
  <2>3. CASE i = Len(q) + 1 /\ j \in 1..Len(q)
    BY <1>2, <1>3, <2>3, AppendAt
  <2> QED
    BY <1>1, <2>1, <2>2, <2>3
<1>4. DOMAIN Append(q, x) = 1..Len(q) + 1
  BY AppendAt
<1> QED
  BY <1>3, <1>4 DEF IsInjective

(* Taking the head off a sequence. *)
LEMMA TailAt ==
  ASSUME NEW S, NEW q \in Seq(S), q # <<>>
  PROVE  /\ Tail(q) \in Seq(S) /\ Head(q) = q[1] /\ Head(q) \in S
         /\ Len(q) \in Nat \ {0} /\ DOMAIN q = 1..Len(q) /\ DOMAIN Tail(q) = 1..Len(q) - 1
         /\ \A i \in 1..Len(q) - 1 : Tail(q)[i] = q[i + 1]
OBVIOUS

(* The elements of a sequence are its head and those of its tail. *)
LEMMA TailRange ==
  ASSUME NEW S, NEW q \in Seq(S), q # <<>>
  PROVE  Range(q) = {Head(q)} \cup Range(Tail(q))
<1>1. 1 \in 1..Len(q) /\ \A i \in 1..Len(q) - 1 : i + 1 \in 1..Len(q)
  BY TailAt
<1>2. \A i \in 1..Len(q) : i = 1 \/ (i - 1 \in 1..Len(q) - 1 /\ (i - 1) + 1 = i)
  BY TailAt
<1>3. \A i \in 1..Len(q) : i = 1 \/ Tail(q)[i - 1] = q[i]
  BY <1>2, TailAt
<1>4. Range(q) \subseteq {Head(q)} \cup Range(Tail(q))
  <2> SUFFICES ASSUME NEW i \in 1..Len(q) PROVE q[i] \in {Head(q)} \cup Range(Tail(q))
    BY TailAt DEF Range
  <2>1. CASE i = 1
    BY <2>1, TailAt
  <2>2. CASE i # 1
    <3>1. i - 1 \in DOMAIN Tail(q) /\ Tail(q)[i - 1] = q[i]
      BY <1>2, <1>3, <2>2, TailAt
    <3> QED
      BY <3>1 DEF Range
  <2> QED
    BY <2>1, <2>2
<1>5. {Head(q)} \cup Range(Tail(q)) \subseteq Range(q)
  BY <1>1, TailAt DEF Range
<1> QED
  BY <1>4, <1>5

(* Without repetitions, the head is not in the tail. *)
LEMMA TailNoRepeat ==
  ASSUME NEW S, NEW q \in Seq(S), q # <<>>, IsInjective(q)
  PROVE  IsInjective(Tail(q)) /\ Head(q) \notin Range(Tail(q))
<1>1. \A i \in 1..Len(q) - 1 : i + 1 \in 1..Len(q) /\ i + 1 # 1
  BY TailAt
<1>2. 1 \in 1..Len(q)
  BY TailAt
<1>3. IsInjective(Tail(q))
  <2>1. \A i, j \in 1..Len(q) - 1 : i + 1 = j + 1 => i = j
    BY TailAt
  <2> QED
    BY <1>1, <2>1, TailAt DEF IsInjective
<1> QED
  BY <1>1, <1>2, <1>3, TailAt DEF IsInjective, Range

(* PendingMessageQueue.drain, in either mode: what it returns and what it
   leaves are the queue's messages, and none of them is in both. *)
LEMMA DrainSplits ==
  ASSUME NEW q \in Seq(UserMsgs), NEW m, IsInjective(q)
  PROVE  /\ Range(q) = Range(Drained(q, m)) \cup Range(Rest(q, m))
         /\ Disjoint(Range(Drained(q, m)), Range(Rest(q, m)))
         /\ IsInjective(Drained(q, m)) /\ IsInjective(Rest(q, m))
<1>1. Range(<<>>) = {} /\ IsInjective(<<>>)
  BY DEF Range, IsInjective
<1>2. CASE m = "all" \/ q = <<>>
  BY <1>1, <1>2 DEF Drained, Rest, Disjoint
<1>3. CASE ~(m = "all" \/ q = <<>>)
  <2>1. Range(<<Head(q)>>) = {Head(q)} /\ IsInjective(<<Head(q)>>)
    BY DEF Range, IsInjective
  <2>2. Drained(q, m) = <<Head(q)>> /\ Rest(q, m) = Tail(q)
    BY <1>3 DEF Drained, Rest
  <2>3. Range(q) = {Head(q)} \cup Range(Tail(q)) /\ IsInjective(Tail(q)) /\ Head(q) \notin Range(Tail(q))
    BY <1>3, TailRange, TailNoRepeat
  <2> QED
    BY <2>1, <2>2, <2>3 DEF Disjoint
<1> QED
  BY <1>2, <1>3

(* The users of a transcript, by index. *)
LEMMA UsersAt ==
  ASSUME NEW s \in Seq(Message)
  PROVE  \A u : u \in UsersIn(s) <=> \E i \in DOMAIN s : s[i].role = "user" /\ s[i].id = u
BY DEF UsersIn, IsRole, Range

(* A message joins the transcript. *)
LEMMA UsersAppend ==
  ASSUME NEW s \in Seq(Message), NEW m \in Message
  PROVE  UsersIn(Append(s, m)) = UsersIn(s) \cup (IF m.role = "user" THEN {m.id} ELSE {})
<1>1. Range(Append(s, m)) = Range(s) \cup {m}
  BY AppendRange
<1> QED
  BY <1>1 DEF UsersIn, IsRole

-----------------------------------------------------------------------------
(* Where messages are: the places of MessagesConserved, as one relation
   between a transcript, the loop's pending messages, the two queues, what
   is gone and what was sent. *)
Single(s) == \A i, j \in DOMAIN s :
               s[i].role = "user" /\ s[j].role = "user" /\ s[i].id = s[j].id => i = j

Placed(s, p, q, f, g, all) ==
  LET shown == UsersIn(s) IN
  /\ Single(s)
  /\ IsInjective(p) /\ IsInjective(q) /\ IsInjective(f)
  /\ Disjoint(shown, Range(p))
  /\ Disjoint(shown \cup Range(p), Range(q))
  /\ Disjoint(shown \cup Range(p) \cup Range(q), Range(f))
  /\ Disjoint(shown \cup Range(p) \cup Range(q) \cup Range(f), g)
  /\ shown \cup Range(p) \cup Range(q) \cup Range(f) \cup g = all

(* MessagesConserved is this relation. *)
LEMMA PlacedIs ==
  MessagesConserved <=> Placed(messages, pending, steering, followUp, gone, Sent)
BY DEF MessagesConserved, Placed, Single, UserAt, IsRole

(* An empty sequence holds nothing. *)
LEMMA NoneAt == Range(<<>>) = {} /\ IsInjective(<<>>) /\ UsersIn(<<>>) = {} /\ Single(<<>>)
BY DEF Range, IsInjective, UsersIn, Single

(* A message other than a user's joins the transcript. *)
LEMMA SingleOther ==
  ASSUME NEW s \in Seq(Message), NEW m \in Message, Single(s), m.role # "user"
  PROVE  Single(Append(s, m)) /\ UsersIn(Append(s, m)) = UsersIn(s)
<1>1. \A i \in 1..Len(s) + 1 : i \in 1..Len(s) \/ i = Len(s) + 1
  BY AppendAt
<1>2. Single(Append(s, m))
  BY <1>1, AppendAt DEF Single
<1> QED
  BY <1>2, UsersAppend

(* A user message that the transcript does not hold joins it. *)
LEMMA SingleUser ==
  ASSUME NEW s \in Seq(Message), NEW u \in UserMsgs, Single(s), u \notin UsersIn(s)
  PROVE  Single(Append(s, User(u))) /\ UsersIn(Append(s, User(u))) = UsersIn(s) \cup {u}
<1> DEFINE m == User(u)
<1>0. m \in Message /\ m.role = "user" /\ m.id = u
  BY MessageTypes DEF User
<1> HIDE DEF m
<1>1. \A i \in 1..Len(s) + 1 : i \in 1..Len(s) \/ i = Len(s) + 1
  BY AppendAt
<1>2. \A i \in 1..Len(s) : s[i].role = "user" => s[i].id # u
  BY UsersAt, AppendAt
<1>3. Single(Append(s, m))
  BY <1>0, <1>1, <1>2, AppendAt DEF Single
<1>4. UsersIn(Append(s, m)) = UsersIn(s) \cup {u}
  BY <1>0, UsersAppend
<1> QED
  BY <1>3, <1>4 DEF m

(* The next pending message is emitted. *)
LEMMA PlacedEmit ==
  ASSUME NEW s \in Seq(Message), NEW p \in Seq(UserMsgs), NEW q, NEW f, NEW g, NEW all,
         p # <<>>, Placed(s, p, q, f, g, all)
  PROVE  Placed(Append(s, User(Head(p))), Tail(p), q, f, g, all)
<1>1. /\ Range(p) = {Head(p)} \cup Range(Tail(p)) /\ Head(p) \notin Range(Tail(p))
      /\ IsInjective(Tail(p)) /\ Head(p) \in UserMsgs
  BY TailAt, TailRange, TailNoRepeat DEF Placed
<1>2. Head(p) \notin UsersIn(s)
  BY <1>1 DEF Placed, Disjoint
<1>3. Single(Append(s, User(Head(p)))) /\ UsersIn(Append(s, User(Head(p)))) = UsersIn(s) \cup {Head(p)}
  BY <1>1, <1>2, SingleUser DEF Placed
<1> QED
  BY <1>1, <1>3 DEF Placed, Disjoint

(* Nothing is pending and a queue is drained. *)
LEMMA PlacedDrain ==
  ASSUME NEW s, NEW q \in Seq(UserMsgs), NEW f \in Seq(UserMsgs), NEW g, NEW all, NEW m,
         Placed(s, <<>>, q, f, g, all)
  PROVE  /\ Placed(s, Drained(q, m), Rest(q, m), f, g, all)
         /\ Placed(s, Drained(f, m), q, Rest(f, m), g, all)
<1>1. /\ Range(q) = Range(Drained(q, m)) \cup Range(Rest(q, m))
      /\ Disjoint(Range(Drained(q, m)), Range(Rest(q, m)))
      /\ IsInjective(Drained(q, m)) /\ IsInjective(Rest(q, m))
  BY DrainSplits DEF Placed
<1>2. /\ Range(f) = Range(Drained(f, m)) \cup Range(Rest(f, m))
      /\ Disjoint(Range(Drained(f, m)), Range(Rest(f, m)))
      /\ IsInjective(Drained(f, m)) /\ IsInjective(Rest(f, m))
  BY DrainSplits DEF Placed
<1>3. Placed(s, Drained(q, m), Rest(q, m), f, g, all)
  BY <1>1, NoneAt DEF Placed, Disjoint
<1>4. Placed(s, Drained(f, m), q, Rest(f, m), g, all)
  BY <1>2, NoneAt DEF Placed, Disjoint
<1> QED
  BY <1>3, <1>4

(* A place is emptied for good: a queue is cleared, the Agent reset, or the
   pending messages are dropped with a failed run. *)
LEMMA PlacedGone ==
  ASSUME NEW s, NEW p, NEW q, NEW f, NEW g, NEW all, Placed(s, p, q, f, g, all)
  PROVE  /\ Placed(s, p, <<>>, f, g \cup Range(q), all)
         /\ Placed(s, p, q, <<>>, g \cup Range(f), all)
         /\ Placed(s, <<>>, q, f, g \cup Range(p), all)
         /\ p = <<>> => Placed(<<>>, p, <<>>, <<>>, g \cup UsersIn(s) \cup Range(q) \cup Range(f), all)
<1>1. Placed(s, p, <<>>, f, g \cup Range(q), all)
  BY NoneAt DEF Placed, Disjoint
<1>2. Placed(s, p, q, <<>>, g \cup Range(f), all)
  BY NoneAt DEF Placed, Disjoint
<1>3. Placed(s, <<>>, q, f, g \cup Range(p), all)
  BY NoneAt DEF Placed, Disjoint
<1>4. p = <<>> => Placed(<<>>, p, <<>>, <<>>, g \cup UsersIn(s) \cup Range(q) \cup Range(f), all)
  BY NoneAt DEF Placed, Disjoint
<1> QED
  BY <1>1, <1>2, <1>3, <1>4

(* A message is handed in: to a queue, or to a run that starts with it. *)
LEMMA PlacedSubmit ==
  ASSUME NEW s, NEW p \in Seq(UserMsgs), NEW q \in Seq(UserMsgs), NEW f \in Seq(UserMsgs), NEW g, NEW all,
         NEW u \in UserMsgs, u \notin all, Placed(s, p, q, f, g, all)
  PROVE  /\ Placed(s, p, Append(q, u), f, g, all \cup {u})
         /\ Placed(s, p, q, Append(f, u), g, all \cup {u})
         /\ p = <<>> => Placed(s, <<u>>, q, f, g, all \cup {u})
<1>1. /\ u \notin UsersIn(s) /\ u \notin Range(p) /\ u \notin Range(q) /\ u \notin Range(f) /\ u \notin g
      /\ IsInjective(q) /\ IsInjective(f)
  BY DEF Placed
<1>2. Range(Append(q, u)) = Range(q) \cup {u} /\ IsInjective(Append(q, u))
  BY <1>1, AppendRange, AppendNoRepeat
<1>3. Range(Append(f, u)) = Range(f) \cup {u} /\ IsInjective(Append(f, u))
  BY <1>1, AppendRange, AppendNoRepeat
<1>4. Range(<<u>>) = {u} /\ IsInjective(<<u>>)
  BY DEF Range, IsInjective
<1>5. Placed(s, p, Append(q, u), f, g, all \cup {u})
  BY <1>1, <1>2 DEF Placed, Disjoint
<1>6. Placed(s, p, q, Append(f, u), g, all \cup {u})
  BY <1>1, <1>3 DEF Placed, Disjoint
<1>7. p = <<>> => Placed(s, <<u>>, q, f, g, all \cup {u})
  BY <1>1, <1>4, NoneAt DEF Placed, Disjoint
<1> QED
  BY <1>5, <1>6, <1>7

-----------------------------------------------------------------------------
(* In which order messages are: QueueOrder for one queue q, whose messages are
   ids, and a relation R between messages. *)
ShownInOrder(s, ids, R) ==
  \A i, j \in DOMAIN s : i < j /\ s[i].role = "user" /\ s[j].role = "user" /\ s[i].id \in ids /\ s[j].id \in ids
                         => <<s[i].id, s[j].id>> \in R
HeldInOrder(q, ids, R) == \A i, j \in DOMAIN q : i < j /\ q[i] \in ids /\ q[j] \in ids => <<q[i], q[j]>> \in R
AllRelated(A, B, R) == \A u \in A, v \in B : <<u, v>> \in R

Lined(s, p, q, ids, R) ==
  /\ ShownInOrder(s, ids, R) /\ HeldInOrder(p, ids, R) /\ HeldInOrder(q, ids, R)
  /\ AllRelated(UsersIn(s) \cap ids, Range(p) \cap ids, R)
  /\ AllRelated((UsersIn(s) \cup Range(p)) \cap ids, Range(q) \cap ids, R)

(* The pairs of messages of which the first was submitted before the second. *)
Line == {x \in UserMsgs \X UserMsgs : Before(x[1], x[2])}

(* QueueOrder is this relation, for both queues. *)
LEMMA LinedIs ==
  TypeOK => (QueueOrder <=> /\ Lined(messages, pending, steering, SentVia("steer"), Line)
                            /\ Lined(messages, pending, followUp, SentVia("followUp"), Line))
<1> SUFFICES ASSUME TypeOK
             PROVE  QueueOrder <=> /\ Lined(messages, pending, steering, SentVia("steer"), Line)
                                   /\ Lined(messages, pending, followUp, SentVia("followUp"), Line)
  OBVIOUS
<1>1. \A u, v \in UserMsgs : Before(u, v) <=> <<u, v>> \in Line
  BY DEF Line
<1>2. /\ messages \in Seq(Message) /\ pending \in Seq(UserMsgs)
      /\ steering \in Seq(UserMsgs) /\ followUp \in Seq(UserMsgs)
  BY DEF TypeOK
<1>3. UsersIn(messages) \subseteq UserMsgs /\ Range(pending) \subseteq UserMsgs
  BY <1>2, UserIds, RangeType
<1>4. \A i \in DOMAIN messages : messages[i].role = "user" => messages[i].id \in UserMsgs
  BY <1>2 DEF Message
<1>5. ASSUME NEW ids
      PROVE  (\A i, j \in DOMAIN messages :
                /\ i < j /\ UserAt(i) /\ UserAt(j)
                /\ messages[i].id \in ids /\ messages[j].id \in ids
                => Before(messages[i].id, messages[j].id)) <=> ShownInOrder(messages, ids, Line)
  BY <1>1, <1>4 DEF ShownInOrder, UserAt, IsRole
<1>6. ASSUME NEW ids, NEW q \in Seq(UserMsgs) PROVE InOrder(q, ids) <=> HeldInOrder(q, ids, Line)
  <2>1. \A i \in DOMAIN q : q[i] \in UserMsgs
    OBVIOUS
  <2> QED
    BY <1>1, <2>1 DEF InOrder, HeldInOrder
<1>7. ASSUME NEW A, NEW B, A \subseteq UserMsgs, B \subseteq UserMsgs
      PROVE  AllBefore(A, B) <=> AllRelated(A, B, Line)
  BY <1>1, <1>7 DEF AllBefore, AllRelated
<1> DEFINE Queued(q, ids) ==
      /\ \A i, j \in DOMAIN messages :
           /\ i < j /\ UserAt(i) /\ UserAt(j)
           /\ messages[i].id \in ids /\ messages[j].id \in ids
           => Before(messages[i].id, messages[j].id)
      /\ InOrder(pending, ids) /\ InOrder(q, ids)
      /\ AllBefore(UsersIn(messages) \cap ids, Range(pending) \cap ids)
      /\ AllBefore((UsersIn(messages) \cup Range(pending)) \cap ids, Range(q) \cap ids)
<1>8. ASSUME NEW ids, NEW q \in Seq(UserMsgs)
      PROVE  Queued(q, ids) <=> Lined(messages, pending, q, ids, Line)
  <2>1. Range(q) \subseteq UserMsgs
    BY RangeType
  <2>2. AllBefore(UsersIn(messages) \cap ids, Range(pending) \cap ids)
        <=> AllRelated(UsersIn(messages) \cap ids, Range(pending) \cap ids, Line)
    BY <1>3, <1>7
  <2>3. AllBefore((UsersIn(messages) \cup Range(pending)) \cap ids, Range(q) \cap ids)
        <=> AllRelated((UsersIn(messages) \cup Range(pending)) \cap ids, Range(q) \cap ids, Line)
    BY <1>3, <1>7, <2>1
  <2>4. InOrder(pending, ids) <=> HeldInOrder(pending, ids, Line)
    BY <1>2, <1>6
  <2>5. InOrder(q, ids) <=> HeldInOrder(q, ids, Line)
    BY <1>6
  <2> QED
    BY <1>5, <2>2, <2>3, <2>4, <2>5 DEF Lined
<1>9. QueueOrder <=> Queued(steering, SentVia("steer")) /\ Queued(followUp, SentVia("followUp"))
  BY DEF QueueOrder
<1> HIDE DEF Queued
<1> QED
  BY <1>2, <1>8, <1>9

(* Taking messages away, or ids that no place holds, keeps the order. *)
LEMMA LinedOther ==
  ASSUME NEW s, NEW p, NEW q, NEW ids, NEW R, Lined(s, p, q, ids, R)
  PROVE  /\ Lined(s, p, <<>>, ids, R)
         /\ Lined(s, <<>>, q, ids, R)
         /\ Lined(<<>>, p, q, ids, R)
         /\ \A r : HeldInOrder(r, ids, R) /\ Range(r) \cap ids = {} => Lined(s, r, q, ids, R)
<1>1. HeldInOrder(<<>>, ids, R) /\ ShownInOrder(<<>>, ids, R)
  BY DEF HeldInOrder, ShownInOrder
<1> QED
  BY <1>1, NoneAt DEF Lined, AllRelated

(* Messages that are not of the queue are in any order. *)
LEMMA NoneOfQueue ==
  ASSUME NEW q, NEW ids, NEW R, Range(q) \cap ids = {}
  PROVE  HeldInOrder(q, ids, R)
BY DEF HeldInOrder, Range

(* A message other than a user's joins the transcript. *)
LEMMA LinedAppend ==
  ASSUME NEW s \in Seq(Message), NEW m \in Message, m.role # "user",
         NEW p, NEW q, NEW ids, NEW R, Lined(s, p, q, ids, R)
  PROVE  Lined(Append(s, m), p, q, ids, R)
<1>1. \A i \in 1..Len(s) + 1 : i \in 1..Len(s) \/ i = Len(s) + 1
  BY AppendAt
<1>2. ShownInOrder(Append(s, m), ids, R)
  BY <1>1, AppendAt DEF Lined, ShownInOrder
<1>3. UsersIn(Append(s, m)) = UsersIn(s)
  BY UsersAppend
<1> QED
  BY <1>2, <1>3 DEF Lined

(* The next pending message is emitted. *)
LEMMA LinedEmit ==
  ASSUME NEW s \in Seq(Message), NEW p \in Seq(UserMsgs), NEW q, NEW ids, NEW R,
         p # <<>>, Lined(s, p, q, ids, R)
  PROVE  Lined(Append(s, User(Head(p))), Tail(p), q, ids, R)
<1> DEFINE u == Head(p)
           m == User(u)
<1>0. m \in Message /\ m.role = "user" /\ m.id = u /\ u = p[1] /\ u \in UserMsgs
  BY TailAt, MessageTypes DEF User
<1> HIDE DEF m, u
<1>1. \A i \in 1..Len(s) + 1 : i \in 1..Len(s) \/ i = Len(s) + 1
  BY AppendAt
<1>2. Range(p) = {u} \cup Range(Tail(p)) /\ UsersIn(Append(s, m)) = UsersIn(s) \cup {u}
  BY <1>0, TailRange, UsersAppend DEF u
<1>3. ShownInOrder(Append(s, m), ids, R)
  <2> SUFFICES ASSUME NEW i \in 1..Len(s) + 1, NEW j \in 1..Len(s) + 1, i < j,
                      Append(s, m)[i].role = "user", Append(s, m)[j].role = "user",
                      Append(s, m)[i].id \in ids, Append(s, m)[j].id \in ids
               PROVE  <<Append(s, m)[i].id, Append(s, m)[j].id>> \in R
    BY <1>0, AppendAt DEF ShownInOrder
  <2>1. i \in 1..Len(s) /\ Append(s, m)[i] = s[i]
    BY <1>0, AppendAt
  <2>2. CASE j \in 1..Len(s)
    BY <1>0, <2>1, <2>2, AppendAt DEF Lined, ShownInOrder
  <2>3. CASE j = Len(s) + 1
    <3>1. Append(s, m)[j].id = u
      BY <1>0, <2>3, AppendAt
    <3>2. s[i].id \in UsersIn(s) \cap ids /\ u \in Range(p) \cap ids
      BY <1>2, <2>1, <3>1, UsersAt, AppendAt
    <3> QED
      BY <2>1, <3>1, <3>2 DEF Lined, AllRelated
  <2> QED
    BY <1>1, <2>2, <2>3
<1>4. HeldInOrder(Tail(p), ids, R)
  <2>1. \A i, j \in 1..Len(p) - 1 : i < j => i + 1 < j + 1 /\ i + 1 \in 1..Len(p) /\ j + 1 \in 1..Len(p)
    BY TailAt
  <2> QED
    BY <2>1, TailAt DEF Lined, HeldInOrder
<1>5. AllRelated({u} \cap ids, Range(Tail(p)) \cap ids, R)
  <2> SUFFICES ASSUME u \in ids, NEW i \in 1..Len(p) - 1, Tail(p)[i] \in ids PROVE <<u, Tail(p)[i]>> \in R
    BY TailAt DEF AllRelated, Range
  <2>1. 1 < i + 1 /\ 1 \in 1..Len(p) /\ i + 1 \in 1..Len(p)
    BY TailAt
  <2>2. Tail(p)[i] = p[i + 1]
    BY TailAt
  <2> QED
    BY <1>0, <2>1, <2>2, TailAt DEF Lined, HeldInOrder
<1>6. AllRelated(UsersIn(Append(s, m)) \cap ids, Range(Tail(p)) \cap ids, R)
  BY <1>2, <1>5 DEF Lined, AllRelated
<1>7. (UsersIn(Append(s, m)) \cup Range(Tail(p))) = UsersIn(s) \cup Range(p)
  BY <1>2
<1>8. Lined(Append(s, m), Tail(p), q, ids, R)
  BY <1>3, <1>4, <1>6, <1>7 DEF Lined
<1> QED
  BY <1>8 DEF m, u

(* Nothing is pending and the queue is drained. *)
LEMMA LinedDrain ==
  ASSUME NEW s, NEW q \in Seq(UserMsgs), NEW ids, NEW R, NEW m, Lined(s, <<>>, q, ids, R)
  PROVE  Lined(s, Drained(q, m), Rest(q, m), ids, R)
<1>0. HeldInOrder(<<>>, ids, R)
  BY DEF HeldInOrder
<1>1. CASE m = "all" \/ q = <<>>
  <2>1. Drained(q, m) = q /\ Rest(q, m) = <<>>
    BY <1>1 DEF Drained, Rest
  <2>2. Lined(s, q, <<>>, ids, R)
    BY <1>0, NoneAt DEF Lined, AllRelated
  <2> QED
    BY <2>1, <2>2
<1>2. CASE ~(m = "all" \/ q = <<>>)
  <2>1. Drained(q, m) = <<Head(q)>> /\ Rest(q, m) = Tail(q) /\ q # <<>>
    BY <1>2 DEF Drained, Rest
  <2>2. Range(<<Head(q)>>) = {Head(q)} /\ HeldInOrder(<<Head(q)>>, ids, R)
    BY DEF Range, HeldInOrder
  <2>3. Range(q) = {Head(q)} \cup Range(Tail(q))
    BY <2>1, TailRange
  <2>4. HeldInOrder(Tail(q), ids, R)
    <3>1. \A i, j \in 1..Len(q) - 1 : i < j => i + 1 < j + 1 /\ i + 1 \in 1..Len(q) /\ j + 1 \in 1..Len(q)
      BY <2>1, TailAt
    <3> QED
      BY <2>1, <3>1, TailAt DEF Lined, HeldInOrder
  <2>5. AllRelated({Head(q)} \cap ids, Range(Tail(q)) \cap ids, R)
    <3> SUFFICES ASSUME Head(q) \in ids, NEW i \in 1..Len(q) - 1, Tail(q)[i] \in ids
                 PROVE  <<Head(q), Tail(q)[i]>> \in R
      BY <2>1, TailAt DEF AllRelated, Range
    <3>1. 1 < i + 1 /\ 1 \in 1..Len(q) /\ i + 1 \in 1..Len(q)
      BY <2>1, TailAt
    <3>2. Tail(q)[i] = q[i + 1] /\ Head(q) = q[1]
      BY <2>1, TailAt
    <3> QED
      BY <2>1, <3>1, <3>2, TailAt DEF Lined, HeldInOrder
  <2>6. Lined(s, <<Head(q)>>, Tail(q), ids, R)
    BY <2>2, <2>3, <2>4, <2>5, NoneAt DEF Lined, AllRelated
  <2> QED
    BY <2>1, <2>6
<1> QED
  BY <1>1, <1>2

(* A relation holds of the members of a set wherever another one does. *)
Keeps(all, R, R2) == \A x, y \in all : <<x, y>> \in R => <<x, y>> \in R2

(* Another message is sent: the messages in their places keep their order. *)
LEMMA LinedLater ==
  ASSUME NEW s \in Seq(Message), NEW p \in Seq(UserMsgs), NEW q \in Seq(UserMsgs), NEW all, NEW ids, NEW ids2,
         NEW R, NEW R2, UsersIn(s) \cup Range(p) \cup Range(q) \subseteq all, ids2 \cap all \subseteq ids,
         Keeps(all, R, R2), Lined(s, p, q, ids, R)
  PROVE  Lined(s, p, q, ids2, R2)
<1> USE DEF Keeps
<1>1. \A i \in DOMAIN s : s[i].role = "user" => s[i].id \in all
  BY UsersAt
<1>2. (\A i \in DOMAIN p : p[i] \in all) /\ (\A i \in DOMAIN q : q[i] \in all)
  BY DEF Range
<1>3. ShownInOrder(s, ids2, R2)
  BY <1>1 DEF Lined, ShownInOrder
<1>4. HeldInOrder(p, ids2, R2) /\ HeldInOrder(q, ids2, R2)
  BY <1>2 DEF Lined, HeldInOrder
<1>5. AllRelated(UsersIn(s) \cap ids2, Range(p) \cap ids2, R2)
  BY DEF Lined, AllRelated
<1>6. AllRelated((UsersIn(s) \cup Range(p)) \cap ids2, Range(q) \cap ids2, R2)
  BY DEF Lined, AllRelated
<1> QED
  BY <1>3, <1>4, <1>5, <1>6 DEF Lined

(* The latest message joins the end of the queue. *)
LEMMA LinedQueue ==
  ASSUME NEW s, NEW p, NEW q \in Seq(UserMsgs), NEW u \in UserMsgs, NEW all, NEW ids, NEW R,
         UsersIn(s) \cup Range(p) \cup Range(q) \subseteq all, \A x \in all : <<x, u>> \in R,
         Lined(s, p, q, ids, R)
  PROVE  Lined(s, p, Append(q, u), ids, R)
<1>1. Range(Append(q, u)) = Range(q) \cup {u}
  BY AppendRange
<1>2. HeldInOrder(Append(q, u), ids, R)
  <2> SUFFICES ASSUME NEW i \in 1..Len(q) + 1, NEW j \in 1..Len(q) + 1, i < j,
                      Append(q, u)[i] \in ids, Append(q, u)[j] \in ids
               PROVE  <<Append(q, u)[i], Append(q, u)[j]>> \in R
    BY AppendAt DEF HeldInOrder
  <2>1. i \in 1..Len(q) /\ Append(q, u)[i] = q[i] /\ q[i] \in all
    BY AppendAt DEF Range
  <2>2. CASE j \in 1..Len(q)
    BY <2>1, <2>2, AppendAt DEF Lined, HeldInOrder
  <2>3. CASE j = Len(q) + 1
    BY <2>1, <2>3, AppendAt
  <2> QED
    BY <2>2, <2>3, AppendAt
<1> QED
  BY <1>1, <1>2 DEF Lined, AllRelated

-----------------------------------------------------------------------------
(* What was sent. *)

(* Each message is handed in once. *)
SentOnce == \A i, j \in DOMAIN sent : sent[i].id = sent[j].id => i = j

(* The submissions, by index. *)
LEMMA SentAt ==
  ASSUME TypeOK
  PROVE  /\ \A u : u \in Sent <=> \E i \in DOMAIN sent : sent[i].id = u
         /\ \A u, via : u \in SentVia(via) <=> \E i \in DOMAIN sent : sent[i].id = u /\ sent[i].via = via
         /\ \A via : SentVia(via) \subseteq Sent
         /\ SentOnce => Disjoint(SentVia("steer"), SentVia("followUp"))
<1>1. \A u : u \in Sent <=> \E i \in DOMAIN sent : sent[i].id = u
  BY DEF Sent, Range
<1>2. \A u, via : u \in SentVia(via) <=> \E i \in DOMAIN sent : sent[i].id = u /\ sent[i].via = via
  BY DEF SentVia, Range
<1>3. \A via : SentVia(via) \subseteq Sent
  BY <1>1, <1>2
<1>4. ASSUME SentOnce PROVE Disjoint(SentVia("steer"), SentVia("followUp"))
  BY <1>2, <1>4 DEF SentOnce, Disjoint
<1> QED
  BY <1>1, <1>2, <1>3, <1>4

(* The same for the next state. *)
LEMMA SentAtNext ==
  ASSUME TypeOK'
  PROVE  /\ \A u : u \in Sent' <=> \E i \in DOMAIN sent' : sent'[i].id = u
         /\ \A u, via : u \in SentVia(via)' <=> \E i \in DOMAIN sent' : sent'[i].id = u /\ sent'[i].via = via
<1>1. \A u : u \in Sent' <=> \E i \in DOMAIN sent' : sent'[i].id = u
  BY DEF Sent, Range
<1>2. \A u, via : u \in SentVia(via)' <=> \E i \in DOMAIN sent' : sent'[i].id = u /\ sent'[i].via = via
  BY DEF SentVia, Range
<1> QED
  BY <1>1, <1>2

(* A message is handed in: it is the last one of all those sent. *)
LEMMA SubmitLine ==
  ASSUME TypeOK, TypeOK', SentOnce, NEW u \in UserMsgs, NEW via \in {"prompt", "steer", "followUp"}, Submit(u, via)
  PROVE  /\ SentOnce' /\ u \notin Sent /\ Sent' = Sent \cup {u}
         /\ SentVia(via)' = SentVia(via) \cup {u}
         /\ \A other : other # via => SentVia(other)' = SentVia(other)
         /\ \A x, y \in Sent : <<x, y>> \in Line => <<x, y>> \in Line'
         /\ \A x \in Sent : <<x, u>> \in Line'
<1> DEFINE r == [id |-> u, via |-> via]
           n == Len(sent)
<1>1. /\ sent \in Seq(Submission) /\ r \in Submission /\ sent' = Append(sent, r) /\ u \notin Sent
      /\ r.id = u /\ r.via = via
  BY DEF TypeOK, Submission, Submit
<1> HIDE DEF r
<1>2. /\ n \in Nat /\ DOMAIN sent = 1..n /\ DOMAIN sent' = 1..n + 1 /\ sent'[n + 1] = r
      /\ \A i \in 1..n : sent'[i] = sent[i]
  BY <1>1, AppendAt
<1>3. \A i \in 1..n + 1 : i \in 1..n \/ i = n + 1
  BY <1>2
<1>a. n + 1 \in 1..n + 1 /\ \A i \in 1..n : i \in 1..n + 1
  BY <1>2
<1>4. \A i \in 1..n : sent[i].id # u
  BY <1>1, <1>2, SentAt
<1> HIDE DEF n
<1>5. SentOnce'
  <2> SUFFICES ASSUME NEW i \in 1..n + 1, NEW j \in 1..n + 1, sent'[i].id = sent'[j].id PROVE i = j
    BY <1>2 DEF SentOnce
  <2> QED
    BY <1>1, <1>2, <1>3, <1>4 DEF SentOnce
<1>6. Sent' = Sent \cup {u}
  BY <1>1, <1>2, <1>3, <1>a, SentAt, SentAtNext
<1>7. SentVia(via)' = SentVia(via) \cup {u} /\ \A other : other # via => SentVia(other)' = SentVia(other)
  <2>1. ASSUME NEW v, NEW x PROVE x \in SentVia(v)' <=> x \in SentVia(v) \/ (x = u /\ v = via)
    <3>1. x \in SentVia(v)' <=> \E i \in 1..n + 1 : sent'[i].id = x /\ sent'[i].via = v
      BY <1>2, SentAtNext
    <3>2. x \in SentVia(v) <=> \E i \in 1..n : sent[i].id = x /\ sent[i].via = v
      BY <1>2, SentAt
    <3> QED
      BY <1>1, <1>2, <1>3, <1>a, <3>1, <3>2
  <2>2. SentVia(via)' = SentVia(via) \cup {u}
    BY <2>1
  <2>3. ASSUME NEW other, other # via PROVE SentVia(other)' = SentVia(other)
    BY <2>1, <2>3
  <2> QED
    BY <2>2, <2>3
<1>8. \A x \in Sent : Position(x) \in 1..n /\ sent[Position(x)].id = x
  BY <1>2, SentAt DEF Position
<1>9. \A x \in Sent \cup {u} : Position(x)' \in 1..n + 1 /\ sent'[Position(x)'].id = x
  BY <1>2, <1>6, SentAtNext DEF Position
<1>10. Position(u)' = n + 1
  BY <1>2, <1>3, <1>4, <1>9
<1>11. ASSUME NEW x \in Sent PROVE Position(x)' = Position(x)
  <2>1. x # u /\ Position(x)' \in 1..n + 1 /\ sent'[Position(x)'].id = x
    BY <1>1, <1>9
  <2>2. Position(x)' # n + 1
    BY <1>1, <1>2, <2>1
  <2>3. Position(x)' \in 1..n /\ sent[Position(x)'].id = x
    BY <1>2, <1>3, <2>1, <2>2
  <2> QED
    BY <1>2, <1>8, <2>3 DEF SentOnce
<1>12. Sent \subseteq UserMsgs
  <2>1. \A i \in DOMAIN sent : sent[i].id \in UserMsgs
    <3>1. \A x \in Submission : x.id \in UserMsgs
      BY DEF Submission
    <3> QED
      BY <1>1, <3>1
  <2> QED
    BY <2>1, SentAt
<1>13. \A x, y \in Sent : <<x, y>> \in Line => <<x, y>> \in Line'
  BY <1>11, <1>12 DEF Line, Before
<1>14. \A x \in Sent : <<x, u>> \in Line'
  <2> SUFFICES ASSUME NEW x \in Sent PROVE <<x, u>> \in Line'
    OBVIOUS
  <2>1. Position(x)' < Position(u)'
    BY <1>2, <1>8, <1>10, <1>11
  <2> QED
    BY <1>12, <2>1 DEF Line, Before
<1> QED
  BY <1>1, <1>5, <1>6, <1>7, <1>13, <1>14

-----------------------------------------------------------------------------
(* The invariants. *)

(* Drained messages are emitted before anything else is drained. *)
PendingInv == pending # <<>> => pc \in {"prompts", "turn"}

(* Where each message is, in which order, and through which call it came. *)
QueueInv ==
  /\ SentOnce
  /\ Range(steering) \subseteq SentVia("steer") /\ Range(followUp) \subseteq SentVia("followUp")
  /\ MessagesConserved
  /\ QueueOrder

(* A new poll comes only when the previous one's messages are out. *)
LEMMA PendingStep == TypeOK /\ PendingInv /\ [Next]_vars => PendingInv'
<1> SUFFICES ASSUME TypeOK, PendingInv, [Next]_vars PROVE PendingInv'
  OBVIOUS
<1> USE DEF agentVars, loopVars, envVars, PendingInv
<1>1. CASE Host
  BY <1>1 DEF Host, Steer, FollowUp, Prompt, ClearSteeringQueue, ClearFollowUpQueue, Reset, Abort, SetMode,
              ContinueWithSteering, ContinueWithFollowUp, ContinueTranscript, StartRun
<1>2. CASE EmitPrompt
  <2>0. pending \in Seq(UserMsgs)
    BY DEF TypeOK
  <2>1. CASE Len(pending) = 1
    <3>1. pending' = Tail(pending)
      BY <1>2 DEF EmitPrompt
    <3>2. pending' = <<>>
      BY <2>0, <2>1, <3>1
    <3> QED
      BY <3>2
  <2>2. CASE Len(pending) # 1
    BY <1>2, <2>2 DEF EmitPrompt
  <2> QED
    BY <2>1, <2>2
<1>3. CASE InitialPoll \/ InjectPending \/ RequestAssistant \/ EmitToolResult
           \/ FinishBatch \/ EmitAgentEnd \/ FinishRun
           \/ (\E stop \in BOOLEAN : EndTurn(stop)) \/ (\E pushed \in BOOLEAN : HandleRunFailure(pushed))
  BY <1>3 DEF InitialPoll, InjectPending, RequestAssistant, EmitToolResult, FinishBatch, EmitAgentEnd,
              FinishRun, EndTurn, HandleRunFailure
<1>4. CASE PollSteering \/ PollFollowUp
  <2>1. \A m : Drained(<<>>, m) = <<>>
    BY DEF Drained
  <2> QED
    BY <1>4, <2>1 DEF PollSteering, PollFollowUp
<1>5. CASE PrepareCall \/ AfterCall \/ NothingToRun
           \/ (\E k \in 1..MaxCalls, terminate \in BOOLEAN : ToolCompletes(k, terminate))
  BY <1>5 DEF PrepareCall, AfterCall, ToolCompletes, NothingToRun
<1>6. CASE \E m \in Responses, exec \in Executions : ReceiveAssistant(m, exec)
  BY <1>6 DEF ReceiveAssistant
<1>7. CASE Throws \/ Orphan \/ UNCHANGED vars
  BY <1>7 DEF Throws, LoopThrows, ToolEventThrows, Fail, Orphan, OrphanCompletes, vars
<1> QED
  BY <1>1, <1>2, <1>3, <1>4, <1>5, <1>6, <1>7 DEF Next, Loop

(* The places and the order after a step, as relations on its variables. *)
LEMMA NextPlaces ==
  ASSUME TypeOK'
  PROVE  /\ MessagesConserved' <=> Placed(messages', pending', steering', followUp', gone', Sent')
         /\ QueueOrder' <=> /\ Lined(messages', pending', steering', SentVia("steer")', Line')
                            /\ Lined(messages', pending', followUp', SentVia("followUp")', Line')
<1>1. (MessagesConserved <=> Placed(messages, pending, steering, followUp, gone, Sent))'
  BY PlacedIs, PTL
<1>2. (TypeOK => (QueueOrder <=> /\ Lined(messages, pending, steering, SentVia("steer"), Line)
                                 /\ Lined(messages, pending, followUp, SentVia("followUp"), Line)))'
  BY LinedIs, PTL
<1> QED
  BY <1>1, <1>2

(* Every step moves messages from one place to the next, in order. *)
LEMMA QueueStep == TypeOK /\ PendingInv /\ QueueInv /\ [Next]_vars => QueueInv'
<1> SUFFICES ASSUME TypeOK, PendingInv, QueueInv, [Next]_vars PROVE QueueInv'
  OBVIOUS
<1> USE DEF agentVars, loopVars, envVars
<1> DEFINE At(s, p, q, f, g) ==
             /\ Placed(s, p, q, f, g, Sent)
             /\ Range(q) \subseteq SentVia("steer") /\ Range(f) \subseteq SentVia("followUp")
             /\ Lined(s, p, q, SentVia("steer"), Line) /\ Lined(s, p, f, SentVia("followUp"), Line)
<1>0. TypeOK'
  BY TypeStep
<1>t. /\ messages \in Seq(Message) /\ pending \in Seq(UserMsgs)
      /\ steering \in Seq(UserMsgs) /\ followUp \in Seq(UserMsgs)
  BY DEF TypeOK
<1>a. At(messages, pending, steering, followUp, gone)
  BY PlacedIs, LinedIs DEF QueueInv
<1>b. ASSUME sent' = sent, At(messages', pending', steering', followUp', gone') PROVE QueueInv'
  <2>1. Sent' = Sent /\ (\A via : SentVia(via)' = SentVia(via)) /\ (SentOnce => SentOnce')
    BY <1>b DEF Sent, SentVia, SentOnce
  <2>2. Line' = Line
    BY <1>b DEF Line, Before, Position
  <2>3. MessagesConserved' /\ QueueOrder'
    BY <1>0, <1>b, <2>1, <2>2, NextPlaces
  <2> QED
    BY <1>b, <2>1, <2>3 DEF QueueInv
<1>d. Disjoint(SentVia("steer"), SentVia("followUp")) /\ SentOnce
  BY SentAt DEF QueueInv
<1> HIDE DEF At
(* The moves. *)
<1>1. ASSUME UNCHANGED <<messages, pending, steering, followUp, gone, sent>> PROVE QueueInv'
  BY <1>1, <1>a, <1>b
<1>2. ASSUME NEW m \in Message, m.role # "user", messages' = Append(messages, m),
             UNCHANGED <<pending, steering, followUp, gone, sent>>
      PROVE  QueueInv'
  <2>1. Placed(messages', pending, steering, followUp, gone, Sent)
    <3>1. Single(messages') /\ UsersIn(messages') = UsersIn(messages)
      BY <1>2, <1>a, <1>t, SingleOther DEF At, Placed
    <3> QED
      BY <1>a, <3>1 DEF At, Placed
  <2>2. /\ Lined(messages', pending, steering, SentVia("steer"), Line)
        /\ Lined(messages', pending, followUp, SentVia("followUp"), Line)
    BY <1>2, <1>a, <1>t, LinedAppend DEF At
  <2>3. At(messages', pending', steering', followUp', gone')
    BY <1>2, <1>a, <2>1, <2>2 DEF At
  <2> QED
    BY <1>2, <1>b, <2>3
<1>3. ASSUME pending # <<>>, messages' = Append(messages, User(Head(pending))), pending' = Tail(pending),
             UNCHANGED <<steering, followUp, gone, sent>>
      PROVE  QueueInv'
  <2>1. Placed(messages', pending', steering, followUp, gone, Sent)
    BY <1>3, <1>a, <1>t, PlacedEmit DEF At
  <2>2. /\ Lined(messages', pending', steering, SentVia("steer"), Line)
        /\ Lined(messages', pending', followUp, SentVia("followUp"), Line)
    BY <1>3, <1>a, <1>t, LinedEmit DEF At
  <2>3. At(messages', pending', steering', followUp', gone')
    BY <1>3, <1>a, <2>1, <2>2 DEF At
  <2> QED
    BY <1>3, <1>b, <2>3
<1>4. ASSUME NEW m, pending = <<>>, pending' = Drained(steering, m), steering' = Rest(steering, m),
             UNCHANGED <<messages, followUp, gone, sent>>
      PROVE  QueueInv'
  <2>1. Placed(messages, pending', steering', followUp, gone, Sent)
    BY <1>4, <1>a, <1>t, PlacedDrain DEF At
  <2>2. Lined(messages, pending', steering', SentVia("steer"), Line)
    BY <1>4, <1>a, <1>t, LinedDrain DEF At
  <2>3. Range(pending') \subseteq Range(steering) /\ Range(steering') \subseteq Range(steering)
    BY <1>4, <1>a, <1>t, DrainSplits DEF At, Placed
  <2>4. Lined(messages, pending', followUp, SentVia("followUp"), Line)
    <3>1. Range(pending') \cap SentVia("followUp") = {}
      BY <1>a, <1>d, <2>3 DEF At, Disjoint
    <3> QED
      BY <1>a, <3>1, NoneOfQueue, LinedOther DEF At
  <2>5. At(messages', pending', steering', followUp', gone')
    BY <1>4, <1>a, <2>1, <2>2, <2>3, <2>4 DEF At
  <2> QED
    BY <1>4, <1>b, <2>5
<1>5. ASSUME NEW m, pending = <<>>, pending' = Drained(followUp, m), followUp' = Rest(followUp, m),
             UNCHANGED <<messages, steering, gone, sent>>
      PROVE  QueueInv'
  <2>1. Placed(messages, pending', steering, followUp', gone, Sent)
    BY <1>5, <1>a, <1>t, PlacedDrain DEF At
  <2>2. Lined(messages, pending', followUp', SentVia("followUp"), Line)
    BY <1>5, <1>a, <1>t, LinedDrain DEF At
  <2>3. Range(pending') \subseteq Range(followUp) /\ Range(followUp') \subseteq Range(followUp)
    BY <1>5, <1>a, <1>t, DrainSplits DEF At, Placed
  <2>4. Lined(messages, pending', steering, SentVia("steer"), Line)
    <3>1. Range(pending') \cap SentVia("steer") = {}
      BY <1>a, <1>d, <2>3 DEF At, Disjoint
    <3> QED
      BY <1>a, <3>1, NoneOfQueue, LinedOther DEF At
  <2>5. At(messages', pending', steering', followUp', gone')
    BY <1>5, <1>a, <2>1, <2>2, <2>3, <2>4 DEF At
  <2> QED
    BY <1>5, <1>b, <2>5
(* The host. *)
<1>6. ASSUME NEW u \in UserMsgs, NEW via \in {"prompt", "steer", "followUp"}, Submit(u, via),
             messages' = messages /\ gone' = gone,
             \/ /\ via = "steer" /\ steering' = Append(steering, u) /\ UNCHANGED <<pending, followUp>>
             \/ /\ via = "followUp" /\ followUp' = Append(followUp, u) /\ UNCHANGED <<pending, steering>>
             \/ /\ via = "prompt" /\ pending = <<>> /\ pending' = <<u>> /\ UNCHANGED <<steering, followUp>>
      PROVE  QueueInv'
  <2>1. /\ SentOnce' /\ u \notin Sent /\ Sent' = Sent \cup {u}
        /\ SentVia(via)' = SentVia(via) \cup {u}
        /\ \A other : other # via => SentVia(other)' = SentVia(other)
        /\ \A x, y \in Sent : <<x, y>> \in Line => <<x, y>> \in Line'
        /\ \A x \in Sent : <<x, u>> \in Line'
    BY <1>0, <1>6, <1>d, SubmitLine
  <2>2. Placed(messages', pending', steering', followUp', gone', Sent')
    <3>1. Placed(messages, pending, steering, followUp, gone, Sent)
      BY <1>a DEF At
    <3>2. /\ Placed(messages, pending, Append(steering, u), followUp, gone, Sent \cup {u})
          /\ Placed(messages, pending, steering, Append(followUp, u), gone, Sent \cup {u})
          /\ pending = <<>> => Placed(messages, <<u>>, steering, followUp, gone, Sent \cup {u})
      BY <1>t, <2>1, <3>1, PlacedSubmit
    <3>3. CASE via = "steer"
      BY <1>6, <2>1, <3>2, <3>3
    <3>4. CASE via = "followUp"
      BY <1>6, <2>1, <3>2, <3>4
    <3>5. CASE via = "prompt"
      BY <1>6, <2>1, <3>2, <3>5
    <3> QED
      BY <3>3, <3>4, <3>5
  <2>3. /\ UsersIn(messages) \cup Range(pending) \cup Range(steering) \subseteq Sent
        /\ UsersIn(messages) \cup Range(pending) \cup Range(followUp) \subseteq Sent
    BY <1>a DEF At, Placed
  <2>4. \A v : SentVia(v)' \cap Sent \subseteq SentVia(v)
    BY <2>1
  <2>5. /\ Lined(messages, pending, steering, SentVia("steer")', Line')
        /\ Lined(messages, pending, followUp, SentVia("followUp")', Line')
    <3>0. Keeps(Sent, Line, Line')
      BY <2>1 DEF Keeps
    <3>1. Lined(messages, pending, steering, SentVia("steer")', Line')
      BY <1>a, <1>t, <2>3, <2>4, <3>0, LinedLater DEF At
    <3>2. Lined(messages, pending, followUp, SentVia("followUp")', Line')
      BY <1>a, <1>t, <2>3, <2>4, <3>0, LinedLater DEF At
    <3> QED
      BY <3>1, <3>2
  <2>6. CASE via = "steer"
    <3>1. /\ steering' = Append(steering, u) /\ pending' = pending /\ followUp' = followUp
      BY <1>6, <2>6
    <3>2. Lined(messages, pending, steering', SentVia("steer")', Line')
      BY <1>t, <2>1, <2>3, <2>5, <3>1, LinedQueue
    <3>3. Range(steering') = Range(steering) \cup {u}
      BY <1>t, <3>1, AppendRange
    <3>4. Range(steering') \subseteq SentVia("steer")' /\ Range(followUp') \subseteq SentVia("followUp")'
      BY <1>a, <2>1, <2>6, <3>1, <3>3 DEF At
    <3> QED
      BY <1>0, <1>6, <2>1, <2>2, <2>5, <3>1, <3>2, <3>4, NextPlaces DEF QueueInv
  <2>7. CASE via = "followUp"
    <3>1. /\ followUp' = Append(followUp, u) /\ pending' = pending /\ steering' = steering
      BY <1>6, <2>7
    <3>2. Lined(messages, pending, followUp', SentVia("followUp")', Line')
      BY <1>t, <2>1, <2>3, <2>5, <3>1, LinedQueue
    <3>3. Range(followUp') = Range(followUp) \cup {u}
      BY <1>t, <3>1, AppendRange
    <3>4. Range(steering') \subseteq SentVia("steer")' /\ Range(followUp') \subseteq SentVia("followUp")'
      BY <1>a, <2>1, <2>7, <3>1, <3>3 DEF At
    <3> QED
      BY <1>0, <1>6, <2>1, <2>2, <2>5, <3>1, <3>2, <3>4, NextPlaces DEF QueueInv
  <2>8. CASE via = "prompt"
    <3>1. /\ pending' = <<u>> /\ pending = <<>> /\ followUp' = followUp /\ steering' = steering
      BY <1>6, <2>8
    <3>2. SentVia("steer")' = SentVia("steer") /\ SentVia("followUp")' = SentVia("followUp")
      BY <2>1, <2>8
    <3>3. Range(pending') = {u} /\ u \notin SentVia("steer") /\ u \notin SentVia("followUp")
      BY <2>1, <3>1, SentAt DEF Range
    <3>4. /\ Lined(messages, pending', steering, SentVia("steer")', Line')
          /\ Lined(messages, pending', followUp, SentVia("followUp")', Line')
      <4>1. Range(pending') \cap SentVia("steer")' = {} /\ Range(pending') \cap SentVia("followUp")' = {}
        BY <3>2, <3>3
      <4> QED
        BY <2>5, <4>1, NoneOfQueue, LinedOther
    <3>5. Range(steering') \subseteq SentVia("steer")' /\ Range(followUp') \subseteq SentVia("followUp")'
      BY <1>a, <3>1, <3>2 DEF At
    <3> QED
      BY <1>0, <1>6, <2>1, <2>2, <3>1, <3>4, <3>5, NextPlaces DEF QueueInv
  <2> QED
    BY <2>6, <2>7, <2>8
<1>7. ASSUME ClearSteeringQueue PROVE QueueInv'
  <2>1. At(messages, pending, <<>>, followUp, gone \cup Range(steering))
    BY <1>a, PlacedGone, LinedOther, NoneAt DEF At
  <2> QED
    BY <1>7, <1>b, <2>1 DEF ClearSteeringQueue
<1>8. ASSUME ClearFollowUpQueue PROVE QueueInv'
  <2>1. At(messages, pending, steering, <<>>, gone \cup Range(followUp))
    BY <1>a, PlacedGone, LinedOther, NoneAt DEF At
  <2> QED
    BY <1>8, <1>b, <2>1 DEF ClearFollowUpQueue
<1>9. ASSUME Reset PROVE QueueInv'
  <2>1. pending = <<>>
    BY <1>9 DEF Reset, PendingInv
  <2>2. Placed(<<>>, pending, <<>>, <<>>, gone \cup UsersIn(messages) \cup Range(steering) \cup Range(followUp), Sent)
    BY <1>a, <2>1, PlacedGone DEF At
  <2>3. Lined(<<>>, pending, <<>>, SentVia("steer"), Line) /\ Lined(<<>>, pending, <<>>, SentVia("followUp"), Line)
    <3>1. Lined(messages, pending, <<>>, SentVia("steer"), Line) /\ Lined(messages, pending, <<>>, SentVia("followUp"), Line)
      BY <1>a, LinedOther DEF At
    <3> QED
      BY <3>1, LinedOther
  <2>4. At(<<>>, pending, <<>>, <<>>, gone \cup UsersIn(messages) \cup Range(steering) \cup Range(followUp))
    BY <2>2, <2>3, NoneAt DEF At
  <2> QED
    BY <1>9, <1>b, <2>4 DEF Reset
<1>10. ASSUME NEW left, Fail(left) PROVE QueueInv'
  <2>1. At(messages, <<>>, steering, followUp, gone \cup Range(pending))
    BY <1>a, PlacedGone, LinedOther DEF At
  <2> QED
    BY <1>10, <1>b, <2>1 DEF Fail
<1>11. CASE Host
  <2>1. ASSUME NEW u \in UserMsgs, Steer(u) \/ FollowUp(u) PROVE QueueInv'
    BY <1>6, <2>1 DEF Steer, FollowUp
  <2>2. ASSUME NEW u \in UserMsgs, Prompt(u) PROVE QueueInv'
    BY <1>6, <2>2 DEF Prompt, StartRun, PendingInv
  <2>3. ASSUME ContinueWithSteering PROVE QueueInv'
    BY <1>4, <2>3 DEF ContinueWithSteering, StartRun, PendingInv
  <2>4. ASSUME ContinueWithFollowUp PROVE QueueInv'
    BY <1>5, <2>4 DEF ContinueWithFollowUp, StartRun, PendingInv
  <2>5. ASSUME ContinueTranscript PROVE QueueInv'
    BY <1>1, <2>5 DEF ContinueTranscript, StartRun, PendingInv
  <2>6. ASSUME Abort \/ \E m \in [steering : Modes, followUp : Modes] : SetMode(m) PROVE QueueInv'
    BY <1>1, <2>6 DEF Abort, SetMode
  <2> QED
    BY <1>7, <1>8, <1>9, <1>11, <2>1, <2>2, <2>3, <2>4, <2>5, <2>6 DEF Host
(* The loop. *)
<1>12. ASSUME EmitPrompt \/ InjectPending PROVE QueueInv'
  BY <1>3, <1>12 DEF EmitPrompt, InjectPending
<1>13. ASSUME InitialPoll PROVE QueueInv'
  BY <1>1, <1>4, <1>13 DEF InitialPoll, PendingInv
<1>14. ASSUME PollSteering PROVE QueueInv'
  BY <1>4, <1>14 DEF PollSteering, PendingInv
<1>15. ASSUME PollFollowUp PROVE QueueInv'
  BY <1>5, <1>15 DEF PollFollowUp, PendingInv
<1>16. ASSUME NEW m \in Responses, NEW exec \in Executions, ReceiveAssistant(m, exec) PROVE QueueInv'
  <2>1. m \in Message /\ m.role # "user"
    BY ResponseTypes
  <2> QED
    BY <1>2, <1>16, <2>1 DEF ReceiveAssistant
<1>17. ASSUME EmitToolResult PROVE QueueInv'
  <2>1. ToolResult(turns, NextResult) \in Message /\ ToolResult(turns, NextResult).role # "user"
    <3>1. turns \in Nat /\ NextResult \in Nat
      BY DEF TypeOK, Batch, NextResult
    <3> QED
      BY <3>1, MessageTypes DEF ToolResult
  <2> QED
    BY <1>2, <1>17, <2>1 DEF EmitToolResult
<1>18. ASSUME NEW pushed \in BOOLEAN, HandleRunFailure(pushed) PROVE QueueInv'
  <2> DEFINE m == Assistant(turns + 1, 0, IF aborted THEN "aborted" ELSE "error")
  <2>1. m \in Message
    <3>1. turns + 1 \in Nat /\ 0 \in Nat /\ (IF aborted THEN "aborted" ELSE "error") \in StopReasons
      BY DEF TypeOK, StopReasons
    <3> QED
      BY <3>1, MessageTypes
  <2>2. m.role # "user"
    BY DEF Assistant
  <2>3. messages' = IF pushed THEN Append(messages, m) ELSE messages
    BY <1>18 DEF HandleRunFailure
  <2> HIDE DEF m
  <2>4. UNCHANGED <<pending, steering, followUp, gone, sent>>
    BY <1>18 DEF HandleRunFailure
  <2> QED
    BY <1>1, <1>2, <2>1, <2>2, <2>3, <2>4
<1>19. ASSUME \/ RequestAssistant \/ PrepareCall \/ AfterCall \/ NothingToRun \/ FinishBatch \/ EmitAgentEnd \/ FinishRun
              \/ \E k \in 1..MaxCalls, terminate \in BOOLEAN : ToolCompletes(k, terminate)
              \/ \E stop \in BOOLEAN : EndTurn(stop)
              \/ Orphan \/ UNCHANGED vars
       PROVE  QueueInv'
  <2>1. UNCHANGED <<messages, pending, steering, followUp, gone, sent>>
    BY <1>19 DEF RequestAssistant, PrepareCall, AfterCall, NothingToRun, FinishBatch, EmitAgentEnd, FinishRun,
                 ToolCompletes, EndTurn, Orphan, OrphanCompletes, vars
  <2> QED
    BY <1>1, <2>1
<1>20. CASE Throws
  BY <1>10, <1>20 DEF Throws, LoopThrows, ToolEventThrows
<1> QED
  BY <1>11, <1>12, <1>13, <1>14, <1>15, <1>16, <1>17, <1>18, <1>19, <1>20 DEF Next, Loop

(* Init satisfies the invariants: nothing was sent. *)
LEMMA QueueInit == Init => PendingInv /\ QueueInv
<1> SUFFICES ASSUME Init PROVE PendingInv /\ QueueInv
  OBVIOUS
<1>1. /\ messages = <<>> /\ pending = <<>> /\ steering = <<>> /\ followUp = <<>> /\ gone = {} /\ sent = <<>>
  BY DEF Init
<1>2. Sent = {} /\ SentOnce
  BY <1>1, NoneAt DEF Sent, SentOnce
<1>3. Placed(messages, pending, steering, followUp, gone, Sent)
  BY <1>1, <1>2, NoneAt DEF Placed, Disjoint
<1>4. /\ Lined(messages, pending, steering, SentVia("steer"), Line)
      /\ Lined(messages, pending, followUp, SentVia("followUp"), Line)
  BY <1>1, NoneAt DEF Lined, ShownInOrder, HeldInOrder, AllRelated
<1>5. MessagesConserved /\ QueueOrder
  BY <1>3, <1>4, TypeInit, PlacedIs, LinedIs
<1> QED
  BY <1>1, <1>2, <1>5, NoneAt DEF PendingInv, QueueInv

(* No message that a host hands to the Agent is lost, copied or shown twice:
   whatever the queue modes and however polls, continued runs, failures,
   clears and resets follow each other, it is in exactly one place. *)
THEOREM NoMessageLost == Spec => []MessagesConserved
<1>1. QueueInv => MessagesConserved
  BY DEF QueueInv
<1> QED
  BY <1>1, QueueInit, PendingStep, QueueStep, TypeCorrect, PTL DEF Spec

(* Messages of one queue reach the transcript in the order in which they were
   handed in, across drains, modes, turns and runs. *)
THEOREM QueuesKeepOrder == Spec => []QueueOrder
<1>1. QueueInv => QueueOrder
  BY DEF QueueInv
<1> QED
  BY <1>1, QueueInit, PendingStep, QueueStep, TypeCorrect, PTL DEF Spec
=============================================================================
